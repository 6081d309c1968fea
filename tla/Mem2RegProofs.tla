--------------------------- MODULE Mem2RegProofs ----------------------------
(* Proofs about Mem2Reg, for all functions, second part: what the promotion
   leaves executes as the function did before. *)
EXTENDS SsaFormProofs

-----------------------------------------------------------------------------
(* What a promoted function computes.  First where a variable is live: the
   iteration of LiveIn has settled after one round per block. *)
Settles(F, W) == \A n \in Nat : W[n + 1] = W[n] \cup F[W[n]]

LEMMA GrowthSettles ==
  ASSUME NEW F \in [SUBSET Block -> SUBSET Block], NEW W, W[0] \in SUBSET Block, Settles(F, W)
  PROVE  /\ W[N] \in SUBSET Block /\ W[0] \subseteq W[N] /\ F[W[N]] \subseteq W[N]
         /\ \A X \in SUBSET Block :
              W[0] \subseteq X /\ (\A Y \in SUBSET X : F[Y] \subseteq X) => W[N] \subseteq X
<1>1. IsFiniteSet(Block) /\ Cardinality(Block) = N BY BlockFacts, FS_Interval, SizeAssumption
<1>2. \A n \in Nat : W[n] \in SUBSET Block /\ W[0] \subseteq W[n]
 <2> DEFINE S == {n \in Nat : W[n] \in SUBSET Block /\ W[0] \subseteq W[n]}
 <2>1. 0 \in S OBVIOUS
 <2>2. ASSUME NEW n \in Nat, n \in S PROVE n + 1 \in S
  <3>1. n + 1 \in Nat /\ W[n + 1] = W[n] \cup F[W[n]] /\ F[W[n]] \in SUBSET Block BY <2>2 DEF Settles
  <3> QED BY <2>2, <3>1
 <2>3. Nat \subseteq S
  <3> HIDE DEF S
  <3> QED BY <2>1, <2>2, SetInduction
 <2> QED BY <2>3
<1>3. \A n \in Nat : IsFiniteSet(W[n]) /\ Cardinality(W[n]) \in Nat BY <1>1, <1>2, FS_Subset, FS_CardinalityType
<1>4. F[W[N]] \subseteq W[N]
 <2> DEFINE S == {n \in Nat : F[W[n]] \subseteq W[n] \/ Cardinality(W[n]) >= n}
 <2>1. 0 \in S BY <1>3
 <2>2. ASSUME NEW n \in Nat, n \in S PROVE n + 1 \in S
  <3>1. W[n + 1] = W[n] \cup F[W[n]] /\ n + 1 \in Nat BY DEF Settles
  <3>2. CASE F[W[n]] \subseteq W[n]
   <4>1. W[n + 1] = W[n] BY <3>1, <3>2
   <4> QED BY <3>1, <3>2, <4>1
  <3>3. CASE ~(F[W[n]] \subseteq W[n])
   <4>1. W[n] \subseteq W[n + 1] /\ W[n] # W[n + 1] BY <3>1, <3>3
   <4>2. Cardinality(W[n]) <= Cardinality(W[n + 1]) /\ Cardinality(W[n + 1]) # Cardinality(W[n]) BY <1>3, <3>1, <4>1, FS_Subset
   <4>3. Cardinality(W[n]) >= n BY <2>2, <3>3
   <4>4. Cardinality(W[n + 1]) \in Nat /\ Cardinality(W[n]) \in Nat BY <1>3, <3>1
   <4>5. Cardinality(W[n + 1]) >= n + 1 BY <4>2, <4>3, <4>4
   <4> QED BY <3>1, <4>5
  <3> QED BY <3>2, <3>3
 <2>3. N \in S
  <3> HIDE DEF S
  <3> QED BY <2>1, <2>2, SetInduction, SizeAssumption
 <2>4. CASE Cardinality(W[N]) >= N
  <3>1. W[N] \in SUBSET Block BY <1>2, SizeAssumption
  <3>2. Cardinality(W[N]) <= Cardinality(Block) /\ (Cardinality(Block) = Cardinality(W[N]) => Block = W[N])
    BY <1>1, <3>1, FS_Subset
  <3>3. Cardinality(W[N]) = N BY <1>1, <1>3, <2>4, <3>2, SizeAssumption
  <3>4. Block = W[N] BY <1>1, <3>2, <3>3
  <3> QED BY <3>1, <3>4
 <2> QED BY <2>3, <2>4
<1>5. ASSUME NEW X \in SUBSET Block, W[0] \subseteq X, \A Y \in SUBSET X : F[Y] \subseteq X PROVE W[N] \subseteq X
 <2> DEFINE S == {n \in Nat : W[n] \subseteq X}
 <2>1. 0 \in S BY <1>5
 <2>2. ASSUME NEW n \in Nat, n \in S PROVE n + 1 \in S
  <3>1. W[n + 1] = W[n] \cup F[W[n]] /\ n + 1 \in Nat BY DEF Settles
  <3> QED BY <1>5, <2>2, <3>1
 <2>3. N \in S
  <3> HIDE DEF S
  <3> QED BY <2>1, <2>2, SetInduction, SizeAssumption
 <2> QED BY <2>3
<1> QED BY <1>2, <1>4, <1>5, SizeAssumption

(* Live at the start: where a load comes first, and before every block that is,
   unless it stores. *)
LiveClosed(v, X) == \A b \in Block \ DefBlocks(v) : ToSet(succs[b]) \cap X # {} => b \in X

LEMMA LiveInIs ==
  ASSUME IsFlow(succs), NEW v
  PROVE  /\ LiveIn(v) \subseteq Block /\ LoadBeforeStoreBlocks(v) \subseteq LiveIn(v)
         /\ \A b \in Block : \A y \in ToSet(succs[b]) :
              y \in LiveIn(v) => b \in LiveIn(v) \/ b \in DefBlocks(v)
         /\ \A X \in SUBSET Block :
              LoadBeforeStoreBlocks(v) \subseteq X /\ LiveClosed(v, X) => LiveIn(v) \subseteq X
<1> DEFINE earlier(X) == {b \in Block \ DefBlocks(v) : ToSet(succs[b]) \cap X # {}}
           first == LoadBeforeStoreBlocks(v)
           W == CHOOSE w : w = [k \in Nat |-> IF k = 0 THEN first ELSE w[k - 1] \cup earlier(w[k - 1])]
           T == SUBSET Block
           E == [X \in T |-> earlier(X)]
           F == [p \in Nat \X T |-> p[2] \cup earlier(p[2])]
<1>1. first \in T BY DEF LoadBeforeStoreBlocks
<1>2. \A X : earlier(X) \in T OBVIOUS
<1>3. \A X, e : e \in earlier(X) <=> e \in Block \ DefBlocks(v) /\ ToSet(succs[e]) \cap X # {} OBVIOUS
<1>4. LiveIn(v) = W[N] BY DEF LiveIn, LiveFrom
<1> HIDE DEF earlier
<1>5. PICK w : IsIteration(T, first, F, w)
 <2>1. F \in [Nat \X T -> T] BY <1>2
 <2> HIDE DEF T, F, first
 <2> QED BY <1>1, <2>1, Iteration
<1> HIDE DEF first
<1>6. w \in [Nat -> T] /\ w[0] = first /\ \A n \in Nat : w[n + 1] = w[n] \cup earlier(w[n]) BY <1>5 DEF IsIteration
<1>7. w = [k \in Nat |-> IF k = 0 THEN first ELSE w[k - 1] \cup earlier(w[k - 1])]
 <2>1. \A k \in Nat : w[k] = IF k = 0 THEN first ELSE w[k - 1] \cup earlier(w[k - 1])
  <3> SUFFICES ASSUME NEW k \in Nat, k # 0 PROVE w[k] = w[k - 1] \cup earlier(w[k - 1]) BY <1>6
  <3>1. k - 1 \in Nat /\ (k - 1) + 1 = k OBVIOUS
  <3> QED BY <1>6, <3>1
 <2> HIDE DEF T
 <2> QED BY <1>6, <2>1
<1>8. W = [k \in Nat |-> IF k = 0 THEN first ELSE W[k - 1] \cup earlier(W[k - 1])] BY <1>7
<1> HIDE DEF W
<1>9. W[0] = first /\ \A n \in Nat : W[n + 1] = W[n] \cup earlier(W[n])
 <2>1. \A k \in Nat : W[k] = IF k = 0 THEN first ELSE W[k - 1] \cup earlier(W[k - 1]) BY <1>8
 <2>2. ASSUME NEW n \in Nat PROVE W[n + 1] = W[n] \cup earlier(W[n])
  <3>1. n + 1 \in Nat /\ n + 1 # 0 /\ (n + 1) - 1 = n OBVIOUS
  <3> QED BY <2>1, <3>1
 <2> QED BY <2>1, <2>2
<1>10. \A n \in Nat : W[n] \in T
 <2> DEFINE S == {n \in Nat : W[n] \in T}
 <2>1. 0 \in S BY <1>1, <1>9
 <2>2. ASSUME NEW n \in Nat, n \in S PROVE n + 1 \in S BY <1>2, <1>9, <2>2
 <2>3. Nat \subseteq S
  <3> HIDE DEF S
  <3> QED BY <2>1, <2>2, SetInduction
 <2> QED BY <2>3
<1>11. E \in [SUBSET Block -> SUBSET Block] /\ Settles(E, W) /\ W[0] \in SUBSET Block
 <2>1. \A n \in Nat : E[W[n]] = earlier(W[n]) BY <1>10
 <2> QED BY <1>1, <1>2, <1>9, <2>1 DEF Settles
<1>12. \A X \in SUBSET Block : E[X] = earlier(X) OBVIOUS
<1> HIDE DEF E
<1>13. /\ W[N] \in SUBSET Block /\ W[0] \subseteq W[N] /\ E[W[N]] \subseteq W[N]
       /\ \A X \in SUBSET Block :
              W[0] \subseteq X /\ (\A Y \in SUBSET X : E[Y] \subseteq X) => W[N] \subseteq X BY <1>11, GrowthSettles
<1>14. \A b \in Block : \A y \in ToSet(succs[b]) : y \in W[N] => b \in W[N] \/ b \in DefBlocks(v) BY <1>3, <1>12, <1>13
<1>15. ASSUME NEW X \in SUBSET Block, first \subseteq X, LiveClosed(v, X) PROVE W[N] \subseteq X
 <2>1. \A Y \in SUBSET X : earlier(Y) \subseteq X BY <1>3, <1>15 DEF LiveClosed
 <2> QED BY <1>9, <1>12, <1>13, <1>15, <2>1
<1> QED BY <1>4, <1>9, <1>13, <1>14, <1>15 DEF first
(* The variables chosen: an alloca declares each, and none is live at the
   entry, since a store dominates every block that loads first. *)
LEMMA NotLiveAtEntry == ASSUME DomTree, NEW v, DominatedByDef(v) PROVE Entry \notin LiveIn(v)
<1> DEFINE g == [b \in Block |-> IF b \in DefBlocks(v) THEN <<>> ELSE succs[b]]
           R == ReachableAvoiding(g, None)
<1>1. IsFlow(succs) /\ IsFlow(g) BY DEF DomTree, IsFlow
<1>2. /\ \A b \in DefBlocks(v) : b \in Block /\ ToSet(g[b]) = {}
      /\ \A b \in Block \ DefBlocks(v) : g[b] = succs[b] BY DEF ToSet, DefBlocks
<1>3. \A b \in Block : ToSet(succs[b]) \ {None} = ToSet(succs[b]) BY <1>1, SuccessorBlocks, BlockFacts
<1>4. \A b \in Block : ToSet(g[b]) \ {None} = ToSet(g[b]) BY <1>1, SuccessorBlocks, BlockFacts
<1> HIDE DEF g
<1>5. /\ R \subseteq Block /\ Entry \in R /\ \A b \in R : ToSet(g[b]) \subseteq R
      /\ \A X \in SUBSET Block : Entry \in X /\ (\A b \in X : ToSet(g[b]) \subseteq X) => R \subseteq X
 <2>1. Entry # None /\ {Entry} \ {None} = {Entry} BY BlockFacts
 <2>2. R \subseteq Block \ {None} /\ Entry \in R /\ ClosedBut(g, None, R) BY <1>1, <2>1, AvoidingIs
 <2>3. \A X \in SUBSET Block : {Entry} \ {None} \subseteq X /\ ClosedBut(g, None, X) => R \subseteq X BY <1>1, AvoidingIs
 <2>4. \A X \in SUBSET Block : (\A b \in X : ToSet(g[b]) \subseteq X) => ClosedBut(g, None, X) BY DEF ClosedBut
 <2>5. \A b \in R : b \in Block /\ ToSet(g[b]) \subseteq R BY <1>4, <2>2 DEF ClosedBut
 <2> HIDE DEF R
 <2> QED BY <2>1, <2>2, <2>3, <2>4, <2>5
<1> HIDE DEF R
<1>6. R \subseteq Reachable(succs)
 <2>1. /\ Reachable(succs) \subseteq Block /\ Entry \in Reachable(succs)
       /\ \A b \in Reachable(succs) : ToSet(succs[b]) \subseteq Reachable(succs) BY <1>1, DominanceFacts
 <2>2. \A b \in Reachable(succs) : ToSet(g[b]) \subseteq Reachable(succs) BY <1>2, <2>1
 <2> QED BY <1>5, <2>1, <2>2
<1>7. LoadBeforeStoreBlocks(v) \subseteq Block \ R
 <2>0. LoadBeforeStoreBlocks(v) \subseteq Block BY DEF LoadBeforeStoreBlocks
 <2> SUFFICES ASSUME NEW l \in LoadBeforeStoreBlocks(v), l \in R PROVE FALSE BY <2>0
 <2>1. PICK d \in DefBlocks(v) : d # l /\ TreeDominates(idom, d, l) BY DEF DominatedByDef
 <2>2. d \in Block /\ l \in Reachable(succs) /\ l \in Block BY <1>2, <1>5, <1>6
 <2>3. d \in Dominators(succs, l) BY <2>1, <2>2 DEF DomTree
 <2>4. l \notin ReachableAvoiding(succs, d) BY <2>3 DEF Dominators
 <2> DEFINE X == ReachableAvoiding(succs, d) \cup {d}
 <2>5. /\ ReachableAvoiding(succs, d) \subseteq Block \ {d}
       /\ d # Entry => Entry \in ReachableAvoiding(succs, d)
       /\ \A b \in ReachableAvoiding(succs, d) :
            ToSet(succs[b]) \ {d} \subseteq ReachableAvoiding(succs, d) BY <1>1, AvoidingIs DEF ClosedBut
 <2>6. X \in SUBSET Block /\ Entry \in X BY <2>2, <2>5
 <2>7. \A b \in X : ToSet(g[b]) \subseteq X BY <1>2, <2>1, <2>5
 <2>8. R \subseteq X BY <1>5, <2>6, <2>7
 <2> QED BY <2>1, <2>4, <2>8
<1>8. LiveClosed(v, Block \ R) BY <1>2, <1>5 DEF LiveClosed
<1>9. LiveIn(v) \subseteq Block \ R BY <1>1, <1>7, <1>8, LiveInIs
<1> QED BY <1>5, <1>9

LEMMA NeverLoaded == ASSUME IsFlow(succs), NEW v, ~HasLoad(v) PROVE LiveIn(v) = {}
<1>1. LoadBeforeStoreBlocks(v) = {} BY DEF HasLoad, LoadBeforeStoreBlocks
<1>2. LiveClosed(v, {}) BY DEF LiveClosed
<1> QED BY <1>1, <1>2, LiveInIs

Chosen == \A v \in promotable : v \in Candidates /\ Entry \notin LiveIn(v)

LEMMA AreChosen == ASSUME DomTree PROVE \A v \in PromotableVars : v \in Candidates /\ Entry \notin LiveIn(v)
<1> DEFINE usable == {v \in Candidates : ~Invalid(v) /\ DefBlocks(v) # {} /\ DominatedByDef(v)}
           single == {v \in usable : Cardinality(DefBlocks(v)) <= 1}
<1>1. PromotableVars = usable \/ PromotableVars = usable \ single BY DEF PromotableVars
<1>2. PromotableVars \subseteq usable BY <1>1
<1> QED BY <1>2, NotLiveAtEntry
-----------------------------------------------------------------------------
(* Placing the phis.  A block that gives the variable a value is still to be
   looked at, or every block of its frontier where the variable is live has a
   phi or will be considered next. *)
HasPhiIn(ph, b, v) == \E i \in DOMAIN ph[b] : ph[b][i].var = v

HasValue(ph, d, v) == d \in DefBlocks(v) \/ HasPhiIn(ph, d, v)

Meets(d, y, v) == y \in Frontiers(succs, idom)[d] /\ y \in LiveIn(v)

Served(ph, vr, ft, d, v) ==
  \A y : Meets(d, y, v) => HasPhiIn(ph, y, v) \/ (v = vr /\ y \in ft)

Placing(up, wl, ft, vr, ph) ==
  /\ wl \in Seq(Block)
  /\ wl # <<>> \/ ft # {} => vr \in promotable \ up
  /\ \A v \in up, b \in Block : ~HasPhiIn(ph, b, v)
  /\ \A v \in promotable \ up, d \in Block :
       HasValue(ph, d, v) => (v = vr /\ d \in ToSet(wl)) \/ Served(ph, vr, ft, d, v)
  /\ \A b \in Block : \A i \in DOMAIN ph[b] : ph[b][i].dst \in Id

PlacingInv == Chosen /\ Placing(unplaced, worklist, frontier, var, phis)

(* Then the phis are closed under the frontiers, which is what renaming relies
   on. *)
Closed(ph) ==
  \A v \in promotable, d \in Block : HasValue(ph, d, v) =>
    \A y : Meets(d, y, v) => HasPhiIn(ph, y, v)

LEMMA StaticsKept ==
  ASSUME UNCHANGED <<succs, idom, blocks, promotable>>
  PROVE  /\ \A v : DefBlocks(v)' = DefBlocks(v) /\ LiveIn(v)' = LiveIn(v)
         /\ \A d, y, v : Meets(d, y, v)' <=> Meets(d, y, v)
         /\ Chosen' <=> Chosen
<1>1. succs' = succs /\ idom' = idom /\ blocks' = blocks /\ promotable' = promotable OBVIOUS
<1>2. ASSUME NEW v PROVE DefBlocks(v)' = DefBlocks(v) /\ LoadBeforeStoreBlocks(v)' = LoadBeforeStoreBlocks(v)
  BY <1>1 DEF DefBlocks, LoadBeforeStoreBlocks
<1>3. ASSUME NEW v PROVE LiveIn(v)' = LiveIn(v) BY <1>1, <1>2 DEF LiveIn
<1>4. ASSUME NEW d, NEW y, NEW v PROVE Meets(d, y, v)' <=> Meets(d, y, v) BY <1>1, <1>3 DEF Meets
<1>5. Candidates' = Candidates BY <1>1 DEF Candidates
<1>6. Chosen' <=> Chosen BY <1>1, <1>3, <1>5 DEF Chosen
<1> QED BY <1>2, <1>3, <1>4, <1>6

LEMMA PlacingBuilt ==
  ASSUME UNCHANGED <<succs, idom, blocks, promotable>>, Chosen,
         Placing(unplaced', worklist', frontier', var', phis')
  PROVE  PlacingInv'
<1>1. promotable' = promotable /\ Chosen' BY StaticsKept
<1>3. \A v : DefBlocks(v)' = DefBlocks(v) BY StaticsKept
<1>4. \A d, y, v : Meets(d, y, v)' <=> Meets(d, y, v) BY StaticsKept
<1>5. ASSUME NEW v \in promotable' \ unplaced', NEW d \in Block, HasValue(phis', d, v)
      PROVE  (v = var' /\ d \in ToSet(worklist')) \/ Served(phis', var', frontier', d, v) BY <1>1, <1>5 DEF Placing
<1>6. ASSUME NEW v \in promotable' \ unplaced', NEW d \in Block, HasValue(phis, d, v)'
      PROVE  (v = var' /\ d \in ToSet(worklist')) \/ Served(phis, var, frontier, d, v)'
 <2>1. HasValue(phis', d, v) BY <1>3, <1>6 DEF HasValue, HasPhiIn
 <2>2. (v = var' /\ d \in ToSet(worklist')) \/ Served(phis', var', frontier', d, v) BY <1>5, <2>1
 <2>3. Served(phis', var', frontier', d, v) => Served(phis, var, frontier, d, v)' BY <1>4 DEF Served, HasPhiIn
 <2> QED BY <2>2, <2>3
<1>7. Placing(unplaced, worklist, frontier, var, phis)' BY <1>1, <1>6 DEF Placing, HasPhiIn
<1> QED BY <1>1, <1>7 DEF PlacingInv
LEMMA ChoosePlaced == ASSUME DomTree, EarlyInv, ChooseVariables PROVE PlacingInv'
<1>1. /\ succs' = succs /\ idom' = idom /\ blocks' = blocks
      /\ promotable' = PromotableVars
      /\ unplaced' = {v \in promotable' : HasLoad(v)}
      /\ worklist' = <<>> /\ frontier' = {} /\ phis' = [b \in Block |-> <<>>] BY DEF ChooseVariables, info, graph, EarlyInv
<1>2. \A v : DefBlocks(v)' = DefBlocks(v) /\ LoadBeforeStoreBlocks(v)' = LoadBeforeStoreBlocks(v)
  BY <1>1 DEF DefBlocks, LoadBeforeStoreBlocks
<1>3. \A v : LiveIn(v)' = LiveIn(v) BY <1>1, <1>2 DEF LiveIn
<1>4. Candidates' = Candidates BY <1>1 DEF Candidates
<1>5. Chosen'
 <2>1. \A v \in PromotableVars : v \in Candidates /\ Entry \notin LiveIn(v) BY AreChosen
 <2> QED BY <1>1, <1>3, <1>4, <2>1 DEF Chosen
<1>6. \A b \in Block : DOMAIN phis'[b] = {} BY <1>1
<1>7. ASSUME NEW v \in promotable' \ unplaced', NEW d PROVE Served(phis, var, frontier, d, v)'
 <2>1. LiveIn(v) = {} BY <1>1, <1>7, NeverLoaded DEF DomTree
 <2>2. \A y : ~Meets(d, y, v)' BY <1>3, <2>1 DEF Meets
 <2> QED BY <2>2 DEF Served
<1>8. Placing(unplaced, worklist, frontier, var, phis)'
 <2>1. worklist' \in Seq(Block) BY <1>1
 <2> QED BY <1>1, <1>6, <1>7, <2>1 DEF Placing, HasPhiIn
<1> QED BY <1>5, <1>8 DEF PlacingInv

LEMMA OrderLists ==
  ASSUME NEW S, S \subseteq Block, NEW order \in SetToSeqs(S) PROVE order \in Seq(Block) /\ ToSet(order) = S
<1> DEFINE n == Cardinality(S)
<1>1. IsFiniteSet(S) /\ n \in Nat
 <2>1. IsFiniteSet(Block) BY BlockFacts, FS_Interval, SizeAssumption
 <2>2. IsFiniteSet(S) BY <2>1, FS_Subset
 <2> QED BY <2>2, FS_CardinalityType
<1>2. order \in [1 .. n -> S] /\ \A i, j \in 1 .. n : i # j => order[i] # order[j] BY DEF SetToSeqs
<1>3. order \in Injection(1 .. n, S) BY <1>2 DEF Injection, IsInjective
<1>4. Cardinality(1 .. n) = n BY <1>1, FS_Interval
<1>5. order \in Surjection(1 .. n, S)
 <2> HIDE DEF n
 <2>1. Cardinality(1 .. n) = Cardinality(S) <=> order \in Surjection(1 .. n, S) BY <1>1, <1>3, FS_Injection
 <2> QED BY <1>4, <2>1 DEF n
<1>6. \A x \in S : \E i \in 1 .. n : order[i] = x BY <1>5 DEF Surjection
<1>7. order \in Seq(Block) /\ DOMAIN order = 1 .. n BY <1>1, <1>2
<1> QED BY <1>2, <1>6, <1>7 DEF ToSet

LEMMA VariablePlaced == ASSUME DomTree, PlacingInv, unplaced \subseteq promotable, PlaceVariable PROVE PlacingInv'
<1>1. /\ worklist = <<>> /\ frontier = {} /\ frontier' = {} /\ phis' = phis
      /\ UNCHANGED <<succs, idom, blocks, promotable>> BY DEF PlaceVariable, function, dominatorsVars, graph
<1>2. PICK v \in unplaced : /\ var' = v /\ unplaced' = unplaced \ {v}
                            /\ \E order \in SetToSeqs(DefBlocks(v)) : worklist' = order BY DEF PlaceVariable
<1>3. worklist' \in Seq(Block) /\ ToSet(worklist') = DefBlocks(v)
 <2>1. DefBlocks(v) \subseteq Block BY DEF DefBlocks
 <2> QED BY <1>2, <2>1, OrderLists
<1>4. Placing(unplaced, worklist, frontier, var, phis) /\ Chosen BY DEF PlacingInv
<1>5. ASSUME NEW w \in promotable \ unplaced', NEW d \in Block, HasValue(phis, d, w)
      PROVE  (w = var' /\ d \in ToSet(worklist')) \/ Served(phis, var', frontier', d, w)
 <2>1. CASE w = v BY <1>2, <1>3, <1>4, <1>5, <2>1 DEF Placing, HasValue
 <2>2. CASE w # v
  <3>1. Served(phis, var, frontier, d, w)
   <4>1. w \in promotable \ unplaced /\ ToSet(<<>>) = {} BY <1>2, <2>2 DEF ToSet
   <4> QED BY <1>1, <1>4, <1>5, <4>1 DEF Placing
  <3> QED BY <1>1, <3>1 DEF Served
 <2> QED BY <2>1, <2>2
<1>6. Placing(unplaced', worklist', frontier', var', phis') BY <1>1, <1>2, <1>3, <1>4, <1>5 DEF Placing
<1> QED BY <1>1, <1>4, <1>6, PlacingBuilt

LEMMA WorklistPopped == ASSUME PlacingInv, PopWorklist PROVE PlacingInv'
<1> DEFINE h == Head(worklist)
<1>1. /\ worklist # <<>> /\ frontier = {} /\ frontier' = Frontiers(succs, idom)[h]
      /\ worklist' = Tail(worklist) /\ phis' = phis /\ var' = var /\ unplaced' = unplaced
      /\ UNCHANGED <<succs, idom, blocks, promotable>> BY DEF PopWorklist, function, dominatorsVars, graph
<1>2. Placing(unplaced, worklist, frontier, var, phis) /\ Chosen BY DEF PlacingInv
<1>3. worklist \in Seq(Block) /\ var \in promotable \ unplaced BY <1>1, <1>2 DEF Placing
<1>4. worklist' \in Seq(Block) BY <1>1, <1>3
<1>5. \A d \in ToSet(worklist) : d = h \/ d \in ToSet(worklist')
 <2>1. SUFFICES ASSUME NEW i \in DOMAIN worklist
                PROVE  worklist[i] = h \/ worklist[i] \in ToSet(worklist') BY DEF ToSet
 <2>2. PICK n \in Nat : n = Len(worklist) BY <1>3
 <2>3. DOMAIN worklist = 1 .. n BY <1>3, <2>2
 <2>4. CASE i = 1 BY <2>4
 <2>5. CASE i # 1
  <3>1. i - 1 \in DOMAIN Tail(worklist) /\ Tail(worklist)[i - 1] = worklist[(i - 1) + 1] BY <1>1, <1>3, <2>2, <2>3, <2>5
  <3>2. (i - 1) + 1 = i BY <2>3
  <3> QED BY <1>1, <3>1, <3>2 DEF ToSet
 <2> QED BY <2>4, <2>5
<1>6. ASSUME NEW w \in promotable \ unplaced, NEW d \in Block, HasValue(phis, d, w)
      PROVE  (w = var /\ d \in ToSet(worklist')) \/ Served(phis, var, frontier', d, w)
 <2>1. CASE w = var /\ d = h BY <1>1, <2>1 DEF Served, Meets
 <2>2. CASE Served(phis, var, frontier, d, w) BY <1>1, <2>2 DEF Served
 <2> QED BY <1>2, <1>5, <1>6, <2>1, <2>2 DEF Placing
<1>7. Placing(unplaced', worklist', frontier', var', phis') BY <1>1, <1>2, <1>3, <1>4, <1>6 DEF Placing
<1> QED BY <1>1, <1>2, <1>7, PlacingBuilt
LEMMA FrontierConsidered == ASSUME DomTree, PlaceInv, PlacingInv, ConsiderFrontier PROVE PlacingInv'
<1>1. /\ var' = var /\ unplaced' = unplaced
      /\ UNCHANGED <<succs, idom, blocks, promotable>> BY DEF ConsiderFrontier, function, dominatorsVars, graph
<1>2. PICK y \in frontier :
        /\ frontier' = frontier \ {y}
        /\ IF y \in LiveIn(var) /\ ~HasPhi(y, var)
           THEN /\ next_vreg \in Id
                /\ phis' = [phis EXCEPT ![y] =
                              Append(@, [var |-> var, dst |-> next_vreg, incomings |-> <<>>])]
                /\ worklist' = Requeue(y)
           ELSE phis' = phis /\ worklist' = worklist BY DEF ConsiderFrontier
<1>3. Placing(unplaced, worklist, frontier, var, phis) /\ Chosen BY DEF PlacingInv
<1>4. worklist \in Seq(Block) /\ var \in promotable \ unplaced BY <1>2, <1>3 DEF Placing
<1>5. CASE ~(y \in LiveIn(var) /\ ~HasPhi(y, var))
 <2>1. phis' = phis /\ worklist' = worklist BY <1>2, <1>5
 <2>2. \A d, w : Served(phis, var, frontier, d, w) => Served(phis, var, frontier', d, w)
   BY <1>2, <1>5 DEF Served, Meets, HasPhi, HasPhiIn
 <2>3. Placing(unplaced', worklist', frontier', var', phis') BY <1>1, <1>2, <1>3, <1>4, <2>1, <2>2 DEF Placing
 <2> QED BY <1>1, <1>3, <2>3, PlacingBuilt
<1>6. CASE y \in LiveIn(var) /\ ~HasPhi(y, var)
 <2> DEFINE g == [var |-> var, dst |-> next_vreg, incomings |-> <<>>]
 <2>1. /\ next_vreg \in Id /\ phis' = [phis EXCEPT ![y] = Append(@, g)] /\ worklist' = Requeue(y) BY <1>2, <1>6
 <2>2. g.var = var /\ g.dst = next_vreg OBVIOUS
 <2> HIDE DEF g
 <2>3. y \in Block BY <1>6, LiveInIs DEF DomTree
 <2>4. PICK S : phis \in [Block -> Seq(PhiRecord(S))] BY DEF PlaceInv, PhisTyped
 <2>5. phis[y] \in Seq(PhiRecord(S)) /\ phis'[y] = Append(phis[y], g)
       /\ \A b \in Block : b # y => phis'[b] = phis[b] BY <2>1, <2>3, <2>4
 <2>6. PICK n \in Nat : n = Len(phis[y]) BY <2>5
 <2>7. /\ DOMAIN phis[y] = 1 .. n /\ DOMAIN phis'[y] = 1 .. n + 1
       /\ \A i \in 1 .. n : phis'[y][i] = phis[y][i]
       /\ phis'[y][n + 1] = g BY <2>5, <2>6, AppendFacts
 <2>8. \A b \in Block : \A v : HasPhiIn(phis', b, v) <=> HasPhiIn(phis, b, v) \/ (b = y /\ v = var)
   BY <2>2, <2>5, <2>7 DEF HasPhiIn
 <2>9. \A b \in Block : \A i \in DOMAIN phis'[b] : phis'[b][i].dst \in Id
  <3>1. \A b \in Block : \A i \in DOMAIN phis[b] : phis[b][i].dst \in Id BY <1>3 DEF Placing
  <3> QED BY <2>1, <2>2, <2>3, <2>5, <2>7, <3>1
 <2>10. worklist' = worklist \/ worklist' = Append(worklist, y) BY <2>1 DEF Requeue
 <2>11. worklist' \in Seq(Block) /\ ToSet(worklist) \subseteq ToSet(worklist')
  <3>1. CASE worklist' = worklist BY <1>4, <3>1
  <3>2. CASE worklist' = Append(worklist, y)
   <4>1. PICK k \in Nat : k = Len(worklist) BY <1>4
   <4>2. /\ DOMAIN worklist = 1 .. k /\ DOMAIN worklist' = 1 .. k + 1 /\ worklist' \in Seq(Block)
         /\ \A i \in 1 .. k : worklist'[i] = worklist[i] BY <1>4, <2>3, <3>2, <4>1, AppendFacts
   <4> QED BY <4>2 DEF ToSet
  <3> QED BY <2>10, <3>1, <3>2
 <2>12. y \in DefBlocks(var) \/ y \in ToSet(worklist')
  <3>1. SUFFICES ASSUME y \notin DefBlocks(var) PROVE y \in ToSet(worklist') OBVIOUS
  <3>2. worklist' = Append(worklist, y) BY <2>1, <3>1 DEF Requeue
  <3>3. PICK k \in Nat : k = Len(worklist) BY <1>4
  <3>4. DOMAIN worklist' = 1 .. k + 1 /\ worklist'[k + 1] = y BY <1>4, <2>3, <3>2, <3>3, AppendFacts
  <3> QED BY <3>4 DEF ToSet
 <2>13. ASSUME NEW d, NEW w, Served(phis, var, frontier, d, w) PROVE Served(phis', var, frontier', d, w)
  <3> SUFFICES ASSUME NEW z, Meets(d, z, w) PROVE HasPhiIn(phis', z, w) \/ (w = var /\ z \in frontier') BY DEF Served
  <3>1. z \in Block BY LiveInIs DEF DomTree, Meets
  <3>2. HasPhiIn(phis, z, w) \/ (w = var /\ z \in frontier) BY <2>13 DEF Served
  <3> QED BY <1>2, <2>8, <3>1, <3>2
 <2>14. ASSUME NEW w \in promotable \ unplaced, NEW d \in Block, HasValue(phis', d, w)
        PROVE  (w = var /\ d \in ToSet(worklist')) \/ Served(phis', var, frontier', d, w)
  <3>1. CASE HasValue(phis, d, w)
   <4>1. (w = var /\ d \in ToSet(worklist)) \/ Served(phis, var, frontier, d, w) BY <1>3, <3>1 DEF Placing
   <4> QED BY <2>11, <2>13, <4>1
  <3>2. CASE ~HasValue(phis, d, w)
   <4>1. d = y /\ w = var /\ d \notin DefBlocks(w) BY <2>8, <2>14, <3>2 DEF HasValue
   <4> QED BY <2>12, <4>1
  <3> QED BY <3>1, <3>2
 <2>15. \A v \in unplaced, b \in Block : ~HasPhiIn(phis', b, v) BY <1>3, <1>4, <2>8 DEF Placing
 <2>16. Placing(unplaced', worklist', frontier', var', phis') BY <1>1, <1>4, <2>9, <2>11, <2>14, <2>15 DEF Placing
 <2> QED BY <1>1, <1>3, <2>16, PlacingBuilt
<1> QED BY <1>5, <1>6

LEMMA PlacingClosed ==
  ASSUME PlacingInv, unplaced = {}, worklist = <<>>, frontier = {}
  PROVE  Closed(phis) /\ Chosen /\ \A b \in Block : \A i \in DOMAIN phis[b] : phis[b][i].dst \in Id
<1>1. Placing(unplaced, worklist, frontier, var, phis) /\ Chosen BY DEF PlacingInv
<1>2. ToSet(worklist) = {} BY DEF ToSet
<1>3. \A v \in promotable, d \in Block : HasValue(phis, d, v) => Served(phis, var, frontier, d, v) BY <1>1, <1>2 DEF Placing
<1>4. Closed(phis) BY <1>3 DEF Closed, Served
<1> QED BY <1>1, <1>4 DEF Placing
-----------------------------------------------------------------------------
(* What renaming comes to, as values that flow down the dominator tree: what
   each local stands for, what is on the stack of each variable, and the code
   so far, after each statement of each block.  `prev` is the end of the block
   above. *)
Flow == [alias : [Id -> Operand], stacks : [promotable -> Seq(Operand)], code : Seq(Stmt)]

AtRoot == [alias  |-> [x \in Id |-> Local(x)],
           stacks |-> [v \in promotable |-> <<>>],
           code   |-> <<>>]

Ren(a, o) == IF o.kind = "local" /\ o.id \in Id THEN a[o.id] ELSE o

Renamed(a, s) == MapUses(s, [o \in ReadOperands(s) |-> Ren(a, o)])

Value(s, v) == IF s.stacks[v] = <<>> THEN Const(0) ELSE Last(s.stacks[v])

Begins(s, prev, ph, b) ==
  /\ s.alias = prev.alias /\ s.code = <<>>
  /\ \A v \in promotable :
       /\ \A i \in DOMAIN ph[b] : ph[b][i].var = v =>
            s.stacks[v] = Append(prev.stacks[v], Local(ph[b][i].dst))
       /\ ~HasPhiIn(ph, b, v) => s.stacks[v] = prev.stacks[v]

Take(s, st) ==
  [alias  |-> [x \in Id |-> IF PromotedLoad(st) /\ x = st.dst THEN Value(s, st.ptr.id) ELSE s.alias[x]],
   stacks |-> [v \in promotable |->
                 IF Stores(st, v) THEN Append(s.stacks[v], Ren(s.alias, st.src)) ELSE s.stacks[v]],
   code   |-> IF Kept(st) THEN Append(s.code, Renamed(s.alias, st)) ELSE s.code]

Out(t, b) == t[b][Len(blocks[b])]
Above(t, b) == IF idom[b] = None THEN AtRoot ELSE Out(t, idom[b])

Traced(t, ph) ==
  \A b \in Block :
    /\ \A j \in 0 .. Len(blocks[b]) : t[b][j] \in Flow
    /\ Begins(t[b][0], Above(t, b), ph, b)
    /\ \A j \in 1 .. Len(blocks[b]) : t[b][j] = Take(t[b][j - 1], blocks[b][j])

LEMMA RenamedStmt == ASSUME NEW a \in [Id -> Operand], NEW s \in Stmt PROVE Renamed(a, s) \in Stmt
<1> DEFINE f == [o \in ReadOperands(s) |-> Ren(a, o)]
<1>1. ReadOperands(s) \subseteq Operand BY StmtFacts
<1>2. \A o \in ReadOperands(s) : f[o] \in Operand BY <1>1 DEF Ren
<1>3. Renamed(a, s) = MapUses(s, f) BY DEF Renamed
<1> HIDE DEF f
<1>4. CASE s.op = "alloca" BY <1>3, <1>4 DEF MapUses
<1>5. CASE s.op = "load"
 <2>1. s \in [op : {"load"}, dst : Id, ptr : Operand] BY <1>5 DEF Stmt, Alloca
 <2>2. s.ptr \in ReadOperands(s) BY <1>5 DEF ReadOperands
 <2>3. f[s.ptr] \in Operand BY <1>2, <2>2
 <2>4. MapUses(s, f) = [s EXCEPT !.ptr = f[s.ptr]] BY <1>5 DEF MapUses
 <2>5. MapUses(s, f) \in [op : {"load"}, dst : Id, ptr : Operand] BY <2>1, <2>3, <2>4
 <2> QED BY <1>3, <2>5 DEF Stmt
<1>6. CASE s.op = "store"
 <2>1. s \in [op : {"store"}, src : Operand, ptr : Operand] BY <1>6 DEF Stmt, Alloca
 <2>2. s.ptr \in ReadOperands(s) /\ s.src \in ReadOperands(s) BY <1>6 DEF ReadOperands, UseOperands
 <2>3. f[s.ptr] \in Operand /\ f[s.src] \in Operand BY <1>2, <2>2
 <2>4. MapUses(s, f) = [s EXCEPT !.src = f[s.src], !.ptr = f[s.ptr]] BY <1>6 DEF MapUses
 <2>5. MapUses(s, f) \in [op : {"store"}, src : Operand, ptr : Operand] BY <2>1, <2>3, <2>4
 <2> QED BY <1>3, <2>5 DEF Stmt
<1>7. CASE s.op \in {"gep", "call"}
 <2>1. s \in [op : {"gep", "call"}, dst : Id, arg : Operand] BY <1>7 DEF Stmt, Alloca
 <2>2. s.arg \in ReadOperands(s) BY <1>7 DEF ReadOperands, UseOperands
 <2>3. f[s.arg] \in Operand BY <1>2, <2>2
 <2>4. MapUses(s, f) = [s EXCEPT !.arg = f[s.arg]] BY <1>7 DEF MapUses
 <2>5. MapUses(s, f) \in [op : {"gep", "call"}, dst : Id, arg : Operand] BY <2>1, <2>3, <2>4
 <2> QED BY <1>3, <2>5 DEF Stmt
<1> QED BY <1>4, <1>5, <1>6, <1>7, StmtFacts

LEMMA ValueTyped == ASSUME NEW s \in Flow, NEW v \in promotable PROVE Value(s, v) \in Operand
<1>1. s.stacks[v] \in Seq(Operand) BY DEF Flow
<1>2. CASE s.stacks[v] = <<>> BY <1>2 DEF Value, Const, Operand
<1>3. CASE s.stacks[v] # <<>>
 <2>1. Len(s.stacks[v]) \in DOMAIN s.stacks[v] BY <1>1, <1>3
 <2> QED BY <1>1, <1>3, <2>1 DEF Value, Last
<1> QED BY <1>2, <1>3

LEMMA TakeTyped == ASSUME NEW s \in Flow, NEW st \in Stmt PROVE Take(s, st) \in Flow
<1>1. s.alias \in [Id -> Operand] /\ s.stacks \in [promotable -> Seq(Operand)] /\ s.code \in Seq(Stmt) BY DEF Flow
<1>2. PromotedLoad(st) => Value(s, st.ptr.id) \in Operand BY ValueTyped DEF PromotedLoad, IsPromoted
<1>3. st.op = "store" => Ren(s.alias, st.src) \in Operand BY <1>1, StmtFacts DEF Ren
<1>4. Renamed(s.alias, st) \in Stmt BY <1>1, RenamedStmt
<1>5. [x \in Id |-> IF PromotedLoad(st) /\ x = st.dst THEN Value(s, st.ptr.id) ELSE s.alias[x]] \in [Id -> Operand]
  BY <1>1, <1>2
<1>6. [v \in promotable |->
         IF Stores(st, v) THEN Append(s.stacks[v], Ren(s.alias, st.src)) ELSE s.stacks[v]]
        \in [promotable -> Seq(Operand)] BY <1>1, <1>3 DEF Stores
<1>7. (IF Kept(st) THEN Append(s.code, Renamed(s.alias, st)) ELSE s.code) \in Seq(Stmt) BY <1>1, <1>4
<1> QED BY <1>5, <1>6, <1>7 DEF Take, Flow
(* There is one such flow for every tree and placement. *)
BlockFlow(l, prev, ph, b) ==
  /\ l \in [0 .. Len(blocks[b]) -> Flow]
  /\ Begins(l[0], prev, ph, b)
  /\ \A j \in 1 .. Len(blocks[b]) : l[j] = Take(l[j - 1], blocks[b][j])

LEMMA RootTyped == AtRoot \in Flow
<1>1. [x \in Id |-> Local(x)] \in [Id -> Operand] BY DEF Local, Operand, Id
<1>2. [v \in promotable |-> <<>>] \in [promotable -> Seq(Operand)] /\ <<>> \in Seq(Stmt) OBVIOUS
<1> QED BY <1>1, <1>2 DEF AtRoot, Flow

LEMMA BlockFlows ==
  ASSUME Fixed, PhisDistinct, NEW b \in Block, \A i \in DOMAIN phis[b] : phis[b][i].dst \in Id,
         NEW prev \in Flow
  PROVE  \E l : BlockFlow(l, prev, phis, b)
<1> DEFINE n == Len(blocks[b])
           push(v) == Append(prev.stacks[v], Local(phis[b][PhiOf(b, v)].dst))
           stacks == [v \in promotable |-> IF HasPhiIn(phis, b, v) THEN push(v) ELSE prev.stacks[v]]
           first == [alias |-> prev.alias, stacks |-> stacks, code |-> <<>>]
           F == [p \in (1 .. n) \X Flow |-> Take(p[2], blocks[b][p[1]])]
<1>1. prev.alias \in [Id -> Operand] /\ prev.stacks \in [promotable -> Seq(Operand)] BY DEF Flow
<1>2. \A v, i : i \in DOMAIN phis[b] /\ phis[b][i].var = v => PhiOf(b, v) = i BY DEF PhisDistinct, PhiOf
<1>3. \A v \in promotable : HasPhiIn(phis, b, v) => push(v) \in Seq(Operand)
 <2> SUFFICES ASSUME NEW v \in promotable, HasPhiIn(phis, b, v) PROVE push(v) \in Seq(Operand) OBVIOUS
 <2>1. PICK i \in DOMAIN phis[b] : phis[b][i].var = v BY DEF HasPhiIn
 <2>2. PhiOf(b, v) = i /\ phis[b][i].dst \in Id BY <1>2, <2>1
 <2>3. Local(phis[b][PhiOf(b, v)].dst) \in Operand BY <2>2 DEF Local, Operand, Id
 <2> QED BY <1>1, <2>3
<1>4. \A v \in promotable : \A i \in DOMAIN phis[b] : phis[b][i].var = v =>
        stacks[v] = Append(prev.stacks[v], Local(phis[b][i].dst))
 <2> SUFFICES ASSUME NEW v \in promotable, NEW i \in DOMAIN phis[b], phis[b][i].var = v
              PROVE  stacks[v] = Append(prev.stacks[v], Local(phis[b][i].dst)) OBVIOUS
 <2>1. HasPhiIn(phis, b, v) BY DEF HasPhiIn
 <2>2. PhiOf(b, v) = i BY <1>2
 <2>3. stacks[v] = push(v) BY <2>1
 <2> QED BY <2>2, <2>3
<1>5. stacks \in [promotable -> Seq(Operand)]
 <2> HIDE DEF push
 <2> QED BY <1>1, <1>3
<1>6. \A v \in promotable : ~HasPhiIn(phis, b, v) => stacks[v] = prev.stacks[v] OBVIOUS
<1> HIDE DEF stacks, push
<1>7. first \in Flow BY <1>1, <1>5 DEF Flow
<1>8. Begins(first, prev, phis, b) BY <1>4, <1>6 DEF Begins
<1> HIDE DEF first
<1>9. n \in Nat /\ \A j \in 1 .. n : blocks[b][j] \in Stmt BY CodeFacts
<1>10. F \in [(1 .. n) \X Flow -> Flow]
 <2>1. \A p \in (1 .. n) \X Flow : Take(p[2], blocks[b][p[1]]) \in Flow BY <1>9, TakeTyped
 <2> HIDE DEF n
 <2> QED BY <2>1
<1>11. \A j \in 1 .. n, s \in Flow : F[<<j, s>>] = Take(s, blocks[b][j]) OBVIOUS
<1> HIDE DEF F
<1>12. PICK l : IsLoop(Flow, first, n, F, l)
 <2> HIDE DEF n
 <2> QED BY <1>7, <1>9, <1>10, LoopRecursion
<1>13. l \in [0 .. n -> Flow] /\ l[0] = first /\ \A j \in 1 .. n : l[j] = F[<<j, l[j - 1]>>] BY <1>12 DEF IsLoop
<1>14. \A j \in 1 .. n : l[j] = Take(l[j - 1], blocks[b][j])
 <2> HIDE DEF n
 <2>1. \A j \in 1 .. n : l[j - 1] \in Flow BY <1>9, <1>13
 <2> QED BY <1>11, <1>13, <2>1
<1>15. BlockFlow(l, prev, phis, b) BY <1>8, <1>13, <1>14 DEF BlockFlow
<1> QED BY <1>15

LEMMA FlowExists ==
  ASSUME DomTree, Fixed, PhisDistinct, \A b \in Block : \A i \in DOMAIN phis[b] : phis[b][i].dst \in Id
  PROVE  \E t : Traced(t, phis)
<1> DEFINE L(prev, b) == CHOOSE l : BlockFlow(l, prev, phis, b)
           G(prev, b) == L(prev, b)[Len(blocks[b])]
           up(f, b) == IF idom[b] = None THEN AtRoot ELSE f[idom[b]]
           F == [f \in [Block -> Flow] |-> [b \in Block |-> G(up(f, b), b)]]
<1>1. PICK r : IsTree(idom, r) BY DEF DomTree
<1>2. \A b \in Block : r[b] \in Nat /\ (idom[b] # None => idom[b] \in Block /\ r[idom[b]] < r[b]) BY <1>1 DEF IsTree
<1>3. \A prev \in Flow, b \in Block : BlockFlow(L(prev, b), prev, phis, b)
 <2> SUFFICES ASSUME NEW prev \in Flow, NEW b \in Block PROVE BlockFlow(L(prev, b), prev, phis, b) OBVIOUS
 <2>1. \E l : BlockFlow(l, prev, phis, b) BY BlockFlows
 <2> QED BY <2>1
<1> HIDE DEF L
<1>4. \A prev \in Flow, b \in Block : G(prev, b) \in Flow
 <2>1. \A b \in Block : Len(blocks[b]) \in 0 .. Len(blocks[b]) BY CodeFacts
 <2> QED BY <1>3, <2>1 DEF BlockFlow
<1> HIDE DEF G
<1>5. \A f \in [Block -> Flow], b \in Block : up(f, b) \in Flow BY <1>2, RootTyped
<1>6. IsRanked(Block, Flow, [b \in Block |-> r[b]], F)
 <2> DEFINE rank == [b \in Block |-> r[b]]
 <2>1. rank \in [Block -> Nat] /\ \A b \in Block : rank[b] = r[b] BY <1>2
 <2>2. \A f, h \in [Block -> Flow] : \A x \in Block :
         (\A y \in Block : rank[y] < rank[x] => f[y] = h[y]) => up(f, x) = up(h, x) BY <1>2, <2>1
 <2> HIDE DEF rank, up
 <2>3. F \in [[Block -> Flow] -> [Block -> Flow]] BY <1>4, <1>5
 <2>4. \A f, h \in [Block -> Flow] : \A x \in Block :
         (\A y \in Block : rank[y] < rank[x] => f[y] = h[y]) => F[f][x] = F[h][x] BY <2>2
 <2>5. Flow # {} BY RootTyped
 <2> HIDE DEF F
 <2>6. IsRanked(Block, Flow, rank, F) BY <2>1, <2>3, <2>4, <2>5 DEF IsRanked
 <2> QED BY <2>6 DEF rank
<1>7. PICK e \in [Block -> Flow] : e = F[e]
 <2> HIDE DEF F
 <2> QED BY <1>6, RankedRecursion
<1>8. \A b \in Block : e[b] = G(up(e, b), b)
 <2> HIDE DEF up
 <2>1. F[e] = [b \in Block |-> G(up(e, b), b)] OBVIOUS
 <2> QED BY <1>7, <2>1
<1> DEFINE t == [b \in Block |-> L(up(e, b), b)]
<1>9. \A b \in Block : BlockFlow(t[b], up(e, b), phis, b)
 <2> HIDE DEF up
 <2> QED BY <1>3, <1>5
<1>10. \A b \in Block : Out(t, b) = e[b]
 <2> HIDE DEF up
 <2> QED BY <1>8 DEF Out, G
<1> HIDE DEF t
<1>11. \A b \in Block : Above(t, b) = up(e, b) BY <1>2, <1>10 DEF Above
<1> HIDE DEF up
<1>12. Traced(t, phis)
 <2> SUFFICES ASSUME NEW b \in Block
              PROVE  /\ \A j \in 0 .. Len(blocks[b]) : t[b][j] \in Flow
                     /\ Begins(t[b][0], Above(t, b), phis, b)
                     /\ \A j \in 1 .. Len(blocks[b]) : t[b][j] = Take(t[b][j - 1], blocks[b][j]) BY DEF Traced
 <2>1. BlockFlow(t[b], Above(t, b), phis, b) BY <1>9, <1>11
 <2> QED BY <2>1 DEF BlockFlow
<1> QED BY <1>12
-----------------------------------------------------------------------------
(* The rules of the flow, one statement and one block at a time. *)
LEMMA TakeFacts ==
  ASSUME NEW s, NEW st
  PROVE  /\ \A x \in Id : Take(s, st).alias[x] =
              IF PromotedLoad(st) /\ x = st.dst THEN Value(s, st.ptr.id) ELSE s.alias[x]
         /\ \A v \in promotable : Take(s, st).stacks[v] =
              IF Stores(st, v) THEN Append(s.stacks[v], Ren(s.alias, st.src)) ELSE s.stacks[v]
         /\ Take(s, st).code = IF Kept(st) THEN Append(s.code, Renamed(s.alias, st)) ELSE s.code BY DEF Take

LEMMA FlowTyped ==
  ASSUME DomTree, Fixed, NEW t, NEW ph, Traced(t, ph), NEW b \in Block
  PROVE  /\ \A j \in 0 .. Len(blocks[b]) : t[b][j] \in Flow
         /\ Out(t, b) \in Flow /\ Above(t, b) \in Flow
<1>1. \A c \in Block : (\A j \in 0 .. Len(blocks[c]) : t[c][j] \in Flow) /\ Out(t, c) \in Flow
 <2>1. \A c \in Block : Len(blocks[c]) \in 0 .. Len(blocks[c]) BY CodeFacts
 <2> QED BY <2>1 DEF Traced, Out
<1>2. idom[b] # None => idom[b] \in Block BY DEF DomTree, IsTree
<1>3. Above(t, b) \in Flow BY <1>1, <1>2, RootTyped DEF Above
<1> QED BY <1>1, <1>3

LEMMA ValueAppended ==
  ASSUME NEW s, NEW v, NEW l \in Seq(Operand), NEW o \in Operand, s.stacks[v] = Append(l, o) PROVE Value(s, v) = o
<1>1. Append(l, o) # <<>> /\ Last(Append(l, o)) = o BY DEF Last
<1> QED BY <1>1 DEF Value

LEMMA ValueRules ==
  ASSUME DomTree, Fixed, NEW t, NEW ph, Traced(t, ph), NEW b \in Block, NEW v \in promotable
  PROVE  /\ \A i \in DOMAIN ph[b] : ph[b][i].var = v /\ ph[b][i].dst \in Id =>
              Value(t[b][0], v) = Local(ph[b][i].dst)
         /\ ~HasPhiIn(ph, b, v) => Value(t[b][0], v) = Value(Above(t, b), v)
         /\ \A j \in 1 .. Len(blocks[b]) :
              /\ Stores(blocks[b][j], v) =>
                   Value(t[b][j], v) = Ren(t[b][j - 1].alias, blocks[b][j].src)
              /\ ~Stores(blocks[b][j], v) => Value(t[b][j], v) = Value(t[b][j - 1], v)
<1>1. Above(t, b) \in Flow /\ \A j \in 0 .. Len(blocks[b]) : t[b][j] \in Flow BY FlowTyped
<1>2. Begins(t[b][0], Above(t, b), ph, b) /\ \A j \in 1 .. Len(blocks[b]) : t[b][j] = Take(t[b][j - 1], blocks[b][j])
  BY DEF Traced
<1>3. ASSUME NEW i \in DOMAIN ph[b], ph[b][i].var = v, ph[b][i].dst \in Id
      PROVE  Value(t[b][0], v) = Local(ph[b][i].dst)
 <2>1. t[b][0].stacks[v] = Append(Above(t, b).stacks[v], Local(ph[b][i].dst)) BY <1>2, <1>3 DEF Begins
 <2>2. Above(t, b).stacks[v] \in Seq(Operand) /\ Local(ph[b][i].dst) \in Operand BY <1>1, <1>3 DEF Flow, Local, Operand, Id
 <2> QED BY <2>1, <2>2, ValueAppended
<1>4. ASSUME ~HasPhiIn(ph, b, v) PROVE Value(t[b][0], v) = Value(Above(t, b), v) BY <1>2, <1>4 DEF Begins, Value
<1>5. ASSUME NEW j \in 1 .. Len(blocks[b]), Stores(blocks[b][j], v)
      PROVE  Value(t[b][j], v) = Ren(t[b][j - 1].alias, blocks[b][j].src)
 <2>1. j - 1 \in 0 .. Len(blocks[b]) /\ blocks[b][j] \in Stmt BY CodeFacts
 <2>2. t[b][j - 1].stacks[v] \in Seq(Operand) /\ t[b][j - 1].alias \in [Id -> Operand] BY <1>1, <2>1 DEF Flow
 <2>3. blocks[b][j].src \in Operand BY <1>5, <2>1, StmtFacts DEF Stores
 <2>4. Ren(t[b][j - 1].alias, blocks[b][j].src) \in Operand BY <2>2, <2>3 DEF Ren
 <2>5. t[b][j].stacks[v] = Append(t[b][j - 1].stacks[v], Ren(t[b][j - 1].alias, blocks[b][j].src))
  <3>1. PICK s, st : s = t[b][j - 1] /\ st = blocks[b][j] OBVIOUS
  <3>2. t[b][j] = Take(s, st) /\ Stores(st, v) BY <1>2, <1>5, <3>1
  <3>3. t[b][j].stacks[v] = Append(s.stacks[v], Ren(s.alias, st.src))
   <4>1. Take(s, st).stacks[v] =
           IF Stores(st, v) THEN Append(s.stacks[v], Ren(s.alias, st.src)) ELSE s.stacks[v] BY TakeFacts
   <4> DEFINE e == Append(s.stacks[v], Ren(s.alias, st.src))
   <4> HIDE DEF e
   <4>2. Take(s, st).stacks[v] = IF Stores(st, v) THEN e ELSE s.stacks[v] BY <4>1 DEF e
   <4>3. t[b][j].stacks[v] = e BY <3>2, <4>2
   <4> QED BY <4>3 DEF e
  <3> QED BY <3>1, <3>3
 <2> QED BY <2>2, <2>4, <2>5, ValueAppended
<1>6. ASSUME NEW j \in 1 .. Len(blocks[b]), ~Stores(blocks[b][j], v) PROVE Value(t[b][j], v) = Value(t[b][j - 1], v)
 <2>1. t[b][j].stacks[v] = t[b][j - 1].stacks[v] BY <1>2, <1>6, TakeFacts
 <2> QED BY <2>1 DEF Value
<1> QED BY <1>3, <1>4, <1>5, <1>6

LEMMA AliasRules ==
  ASSUME DomTree, Fixed, NEW t, NEW ph, Traced(t, ph), NEW b \in Block, NEW x \in Id
  PROVE  /\ t[b][0].alias[x] = Above(t, b).alias[x]
         /\ \A j \in 1 .. Len(blocks[b]) :
              /\ PromotedLoad(blocks[b][j]) /\ x = blocks[b][j].dst =>
                   t[b][j].alias[x] = Value(t[b][j - 1], blocks[b][j].ptr.id)
              /\ ~(PromotedLoad(blocks[b][j]) /\ x = blocks[b][j].dst) =>
                   t[b][j].alias[x] = t[b][j - 1].alias[x]
<1>1. Begins(t[b][0], Above(t, b), ph, b) /\ \A j \in 1 .. Len(blocks[b]) : t[b][j] = Take(t[b][j - 1], blocks[b][j])
  BY DEF Traced
<1> QED BY <1>1, TakeFacts DEF Begins

(* A local loaded in another block, or later, stands where it stood above. *)
LEMMA AliasInherited ==
  ASSUME DomTree, Fixed, NEW t, NEW ph, Traced(t, ph), NEW b \in Block, NEW x \in Id
  PROVE  \A j \in 0 .. Len(blocks[b]) :
           x \notin LoadedBefore(b, j + 1) => t[b][j].alias[x] = Above(t, b).alias[x]
<1> DEFINE n == Len(blocks[b])
           S == {j \in Nat : j <= n /\ x \notin LoadedBefore(b, j + 1) =>
                               t[b][j].alias[x] = Above(t, b).alias[x]}
<1>1. 0 \in S BY AliasRules
<1>2. ASSUME NEW j \in Nat, j \in S PROVE j + 1 \in S
 <2> SUFFICES ASSUME j + 1 <= n, x \notin LoadedBefore(b, (j + 1) + 1)
              PROVE  t[b][j + 1].alias[x] = Above(t, b).alias[x] OBVIOUS
 <2>1. n \in Nat /\ DOMAIN blocks[b] = 1 .. n BY CodeFacts
 <2>2. j + 1 \in 1 .. n /\ (j + 1) - 1 = j /\ j <= n /\ j + 1 \in DOMAIN blocks[b] BY <2>1
 <2>3. x \notin LoadedBefore(b, j + 1) BY <2>1 DEF LoadedBefore
 <2>4. ~(PromotedLoad(blocks[b][j + 1]) /\ x = blocks[b][j + 1].dst)
  <3>1. j + 1 < (j + 1) + 1 OBVIOUS
  <3> QED BY <2>2, <3>1 DEF LoadedBefore
 <2>5. t[b][j + 1].alias[x] = t[b][j].alias[x] BY <2>2, <2>4, AliasRules
 <2> QED BY <1>2, <2>2, <2>3, <2>5
<1>3. Nat \subseteq S
 <2> HIDE DEF S
 <2> QED BY <1>1, <1>2, SetInduction
<1> QED BY <1>3, CodeFacts

(* Only loads above the block give a local another name. *)
Ancestors(b) == {d \in Block : d # b /\ TreeDominates(idom, d, b)}

LEMMA AncestorsRule ==
  ASSUME NEW r, IsTree(idom, r), NEW b \in Block
  PROVE  /\ idom[b] = None => Ancestors(b) = {}
         /\ idom[b] # None => Ancestors(b) = Ancestors(idom[b]) \cup {idom[b]}
<1>1. \A d : TreeDominates(idom, d, b) <=> b = d \/ (idom[b] # None /\ TreeDominates(idom, d, idom[b])) BY AncestorRule
<1>2. idom[b] # None => idom[b] \in Block /\ r[idom[b]] < r[b] /\ r[b] \in Nat /\ r[idom[b]] \in Nat BY DEF IsTree
<1>3. CASE idom[b] = None BY <1>1, <1>3 DEF Ancestors
<1>4. CASE idom[b] # None
 <2>1. \A d : TreeDominates(idom, d, idom[b]) => d \in Block /\ (d = idom[b] \/ r[d] < r[idom[b]])
   BY <1>2, <1>4, AncestorEarlier
 <2>2. ~TreeDominates(idom, b, idom[b]) BY <1>2, <1>4, <2>1
 <2>3. TreeDominates(idom, idom[b], idom[b]) BY <1>2, <1>4, AncestorRule
 <2> QED BY <1>1, <1>2, <1>4, <2>1, <2>2, <2>3 DEF Ancestors
<1> QED BY <1>3, <1>4

LEMMA AliasSources ==
  ASSUME DomTree, Fixed, NEW t, NEW ph, Traced(t, ph), NEW x \in Id
  PROVE  \A b \in Block :
           (\A d \in Ancestors(b) : x \notin LoadedBefore(d, End(d))) => Above(t, b).alias[x] = Local(x)
<1>1. PICK r : IsTree(idom, r) BY DEF DomTree
<1> DEFINE Fresh(b) == \A d \in Ancestors(b) : x \notin LoadedBefore(d, End(d))
           S == {n \in Nat : \A b \in Block : r[b] = n /\ Fresh(b) => Above(t, b).alias[x] = Local(x)}
<1>2. ASSUME NEW n \in Nat, \A m \in Nat : m < n => m \in S PROVE n \in S
 <2> SUFFICES ASSUME NEW b \in Block, r[b] = n, Fresh(b) PROVE Above(t, b).alias[x] = Local(x) OBVIOUS
 <2>1. CASE idom[b] = None BY <2>1 DEF Above, AtRoot
 <2>2. CASE idom[b] # None
  <3>1. idom[b] \in Block /\ r[idom[b]] \in Nat /\ r[idom[b]] < n BY <1>1, <2>2 DEF IsTree
  <3>2. Fresh(idom[b]) /\ x \notin LoadedBefore(idom[b], End(idom[b])) BY <1>1, <2>2, AncestorsRule
  <3>3. Above(t, idom[b]).alias[x] = Local(x) BY <1>2, <3>1, <3>2
  <3>4. Len(blocks[idom[b]]) \in 0 .. Len(blocks[idom[b]]) /\ Len(blocks[idom[b]]) \in Nat
        /\ End(idom[b]) = Len(blocks[idom[b]]) + 2 BY <3>1, CodeFacts
  <3>5. x \notin LoadedBefore(idom[b], Len(blocks[idom[b]]) + 1)
   <4>1. \A j : j \in DOMAIN blocks[idom[b]] /\ j < Len(blocks[idom[b]]) + 1 => j < End(idom[b]) BY <3>1, <3>4, CodeFacts
   <4> QED BY <3>2, <4>1 DEF LoadedBefore
  <3>6. Out(t, idom[b]).alias[x] = Above(t, idom[b]).alias[x] BY <3>1, <3>4, <3>5, AliasInherited DEF Out
  <3> QED BY <2>2, <3>3, <3>6 DEF Above
 <2> QED BY <2>1, <2>2
<1>3. Nat \subseteq S
 <2> HIDE DEF S
 <2> QED BY <1>2, StrongInduction
<1>4. \A b \in Block : r[b] \in Nat BY <1>1 DEF IsTree
<1> QED BY <1>3, <1>4
(* A local that no promoted load defines stands for itself. *)
LEMMA AliasOwn ==
  ASSUME DomTree, Fixed, NEW t, NEW ph, Traced(t, ph), NEW b \in Block, NEW k \in DOMAIN blocks[b],
         ~PromotedLoad(blocks[b][k]), NEW x \in Id, x \in Defines(blocks[b][k])
  PROVE  \A j \in 0 .. Len(blocks[b]) : t[b][j].alias[x] = Local(x)
<1>1. \A d \in Block : \A m : x \notin LoadedBefore(d, m)
 <2> SUFFICES ASSUME NEW d \in Block, NEW m, x \in LoadedBefore(d, m) PROVE FALSE OBVIOUS
 <2>1. PICK l \in DOMAIN blocks[d] : PromotedLoad(blocks[d][l]) /\ x = blocks[d][l].dst BY DEF LoadedBefore
 <2>2. x \in Defines(blocks[d][l])
  <3>1. blocks[d][l] \in Stmt BY CodeFacts
  <3> QED BY <2>1, <3>1, StmtFacts DEF PromotedLoad
 <2>3. d = b /\ l = k BY <2>2 DEF Fixed, DefinedOnce
 <2> QED BY <2>1, <2>3
<1>2. Above(t, b).alias[x] = Local(x)
 <2>1. Ancestors(b) \subseteq Block BY DEF Ancestors
 <2> QED BY <1>1, <2>1, AliasSources
<1> QED BY <1>1, <1>2, AliasInherited

(* A local loaded above keeps the name it got there. *)
LEMMA AliasStable ==
  ASSUME DomTree, Fixed, NEW t, NEW ph, Traced(t, ph), NEW d \in Block, NEW k \in DOMAIN blocks[d],
         NEW x \in Id, x \in Defines(blocks[d][k])
  PROVE  \A b \in Block : d \in Ancestors(b) =>
           \A j \in 0 .. Len(blocks[b]) : t[b][j].alias[x] = Out(t, d).alias[x]
<1>1. PICK r : IsTree(idom, r) BY DEF DomTree
<1> DEFINE Same(b) == \A j \in 0 .. Len(blocks[b]) : t[b][j].alias[x] = Out(t, d).alias[x]
           S == {n \in Nat : \A b \in Block : r[b] = n /\ d \in Ancestors(b) => Same(b)}
<1>2. ASSUME NEW n \in Nat, \A m \in Nat : m < n => m \in S PROVE n \in S
 <2> SUFFICES ASSUME NEW b \in Block, r[b] = n, d \in Ancestors(b) PROVE Same(b) OBVIOUS
 <2>1. idom[b] # None /\ d # b /\ (d = idom[b] \/ d \in Ancestors(idom[b]))
  <3>1. d # b BY DEF Ancestors
  <3> QED BY <1>1, <3>1, AncestorsRule
 <2>2. idom[b] \in Block /\ r[idom[b]] \in Nat /\ r[idom[b]] < n BY <1>1, <2>1 DEF IsTree
 <2>3. Above(t, b) = Out(t, idom[b]) BY <2>1 DEF Above
 <2>4. Out(t, idom[b]).alias[x] = Out(t, d).alias[x]
  <3>1. CASE d = idom[b] BY <3>1
  <3>2. CASE d \in Ancestors(idom[b])
   <4>1. Same(idom[b]) BY <1>2, <2>2, <3>2
   <4>2. Len(blocks[idom[b]]) \in 0 .. Len(blocks[idom[b]]) BY <2>2, CodeFacts
   <4> QED BY <4>1, <4>2 DEF Out
  <3> QED BY <2>1, <3>1, <3>2
 <2>5. \A m : x \notin LoadedBefore(b, m) BY <2>1, LoadedThere
 <2> QED BY <2>3, <2>4, <2>5, AliasInherited
<1>3. Nat \subseteq S
 <2> HIDE DEF S
 <2> QED BY <1>2, StrongInduction
<1>4. \A b \in Block : r[b] \in Nat BY <1>1 DEF IsTree
<1> QED BY <1>3, <1>4

-----------------------------------------------------------------------------
(* What the flow names has been defined by then, by a phi or a statement that
   is kept. *)
PhiDefines(ph, b, i) == \E p \in DOMAIN ph[b] : ph[b][p].dst = i

KeptUpTo(b, j, i) == \E k \in 1 .. j : Kept(blocks[b][k]) /\ i \in Defines(blocks[b][k])

Known(ph, b, j, i) ==
  \/ PhiDefines(ph, b, i) \/ KeptUpTo(b, j, i)
  \/ \E d \in Ancestors(b) : PhiDefines(ph, d, i) \/ KeptUpTo(d, Len(blocks[d]), i)

KnownOp(ph, o, b, j) == o \in Operand /\ (o.kind = "local" => o.id \in Id /\ Known(ph, b, j, o.id))

DefinedUpTo(b, j, x) ==
  \/ \E k \in 1 .. j : x \in Defines(blocks[b][k])
  \/ \E d \in Ancestors(b) : \E k \in DOMAIN blocks[d] : x \in Defines(blocks[d][k])

FlowKnown(t, ph, b, j) ==
  /\ \A v \in promotable : KnownOp(ph, Value(t[b][j], v), b, j)
  /\ \A x \in Id \ promotable : DefinedUpTo(b, j, x) => KnownOp(ph, t[b][j].alias[x], b, j)

LEMMA KnownLater ==
  ASSUME DomTree, NEW ph, NEW o, NEW b \in Block, NEW j \in Nat, KnownOp(ph, o, b, j)
  PROVE  /\ KnownOp(ph, o, b, j + 1)
         /\ \A c \in Block : idom[c] = b /\ j = Len(blocks[b]) => KnownOp(ph, o, c, 0)
<1>1. \A i : KeptUpTo(b, j, i) => KeptUpTo(b, j + 1, i)
 <2>1. \A k \in 1 .. j : k \in 1 .. j + 1 OBVIOUS
 <2> QED BY <2>1 DEF KeptUpTo
<1>2. KnownOp(ph, o, b, j + 1) BY <1>1 DEF KnownOp, Known
<1>3. ASSUME NEW c \in Block, idom[c] = b, j = Len(blocks[b]) PROVE KnownOp(ph, o, c, 0)
 <2>1. Ancestors(c) = Ancestors(b) \cup {b} BY <1>3, AncestorsRule, BlockFacts DEF DomTree
 <2> QED BY <1>3, <2>1 DEF KnownOp, Known
<1> QED BY <1>2, <1>3

LEMMA ReadDefined ==
  ASSUME DomTree, Fixed, NEW b \in Reachable(succs), NEW k \in DOMAIN blocks[b],
         NEW o \in ReadOperands(blocks[b][k]), o.kind = "local"
  PROVE  o.id \in Id /\ DefinedUpTo(b, k - 1, o.id)
<1>1. b \in Block /\ IsFlow(succs) BY DEF DomTree
<1>2. \A c \in Block : \A j \in DOMAIN blocks[c] : Defines(blocks[c][j]) \subseteq Id BY CodeFacts, StmtFacts
<1>3. \/ \E j \in 1 .. k - 1 : o.id \in Defines(blocks[b][j])
      \/ \E d \in Dominators(succs, b) \ {b} : \E j \in DOMAIN blocks[d] : o.id \in Defines(blocks[d][j])
  BY DEF Fixed, DefinedFirst
<1>4. Dominators(succs, b) \subseteq Block BY <1>1, DominanceFacts
<1>5. \A d \in Dominators(succs, b) \ {b} : d \in Ancestors(b) BY <1>4 DEF DomTree, Ancestors
<1>6. \A j \in 1 .. k - 1 : j \in DOMAIN blocks[b] BY <1>1, CodeFacts
<1>7. DefinedUpTo(b, k - 1, o.id) BY <1>3, <1>5 DEF DefinedUpTo
<1>8. Ancestors(b) \subseteq Block BY DEF Ancestors
<1> QED BY <1>1, <1>2, <1>6, <1>7, <1>8 DEF DefinedUpTo

LEMMA UseKept ==
  ASSUME Fixed, NEW b \in Block, NEW k \in DOMAIN blocks[b],
         NEW o \in UseOperands(blocks[b][k]), o \in Operand, o.kind = "local"
  PROVE  o.id \notin promotable
<1>1. o = Local(o.id) BY DEF Local, Operand
<1> QED BY <1>1 DEF Fixed, Invalid
LEMMA FlowStarts ==
  ASSUME DomTree, Fixed, NEW t, NEW ph, Traced(t, ph), \A b \in Block : \A i \in DOMAIN ph[b] : ph[b][i].dst \in Id,
         NEW b \in Block,
         idom[b] # None => FlowKnown(t, ph, idom[b], Len(blocks[idom[b]]))
  PROVE  FlowKnown(t, ph, b, 0)
<1>1. PICK r : IsTree(idom, r) BY DEF DomTree
<1>2. idom[b] # None => idom[b] \in Block /\ Len(blocks[idom[b]]) \in Nat
                        /\ DOMAIN blocks[idom[b]] = 1 .. Len(blocks[idom[b]]) BY <1>1, CodeFacts DEF IsTree
<1>3. ASSUME NEW v \in promotable PROVE KnownOp(ph, Value(t[b][0], v), b, 0)
 <2>1. CASE HasPhiIn(ph, b, v)
  <3>1. PICK i \in DOMAIN ph[b] : ph[b][i].var = v BY <2>1 DEF HasPhiIn
  <3>2. Value(t[b][0], v) = Local(ph[b][i].dst) /\ ph[b][i].dst \in Id BY <3>1, ValueRules
  <3>3. PhiDefines(ph, b, ph[b][i].dst) BY DEF PhiDefines
  <3>4. Local(ph[b][i].dst) \in Operand /\ Local(ph[b][i].dst).id = ph[b][i].dst BY <3>2 DEF Local, Operand, Id
  <3> QED BY <3>2, <3>3, <3>4 DEF KnownOp, Known
 <2>2. CASE ~HasPhiIn(ph, b, v) /\ idom[b] = None
  <3>1. Value(t[b][0], v) = Value(AtRoot, v) BY <2>2, ValueRules DEF Above
  <3>2. Value(AtRoot, v) = Const(0) BY DEF Value, AtRoot
  <3> QED BY <3>1, <3>2 DEF KnownOp, Const, Operand
 <2>3. CASE ~HasPhiIn(ph, b, v) /\ idom[b] # None
  <3>1. Value(t[b][0], v) = Value(Out(t, idom[b]), v) BY <2>3, ValueRules DEF Above
  <3>2. KnownOp(ph, Value(Out(t, idom[b]), v), idom[b], Len(blocks[idom[b]])) BY <2>3 DEF FlowKnown, Out
  <3> QED BY <1>2, <2>3, <3>1, <3>2, KnownLater
 <2> QED BY <2>1, <2>2, <2>3
<1>4. ASSUME NEW x \in Id \ promotable, DefinedUpTo(b, 0, x) PROVE KnownOp(ph, t[b][0].alias[x], b, 0)
 <2>1. PICK d \in Ancestors(b) : \E k \in DOMAIN blocks[d] : x \in Defines(blocks[d][k]) BY <1>4 DEF DefinedUpTo
 <2>2. idom[b] # None /\ (d = idom[b] \/ d \in Ancestors(idom[b])) BY <1>1, <2>1, AncestorsRule
 <2>3. DefinedUpTo(idom[b], Len(blocks[idom[b]]), x) BY <1>2, <2>1, <2>2 DEF DefinedUpTo
 <2>4. KnownOp(ph, Out(t, idom[b]).alias[x], idom[b], Len(blocks[idom[b]])) BY <1>4, <2>2, <2>3 DEF FlowKnown, Out
 <2>5. t[b][0].alias[x] = Out(t, idom[b]).alias[x] BY <1>4, <2>2, AliasRules DEF Above
 <2> QED BY <1>2, <2>2, <2>4, <2>5, KnownLater
<1> QED BY <1>3, <1>4 DEF FlowKnown

LEMMA FlowGoesOn ==
  ASSUME DomTree, Fixed, NEW t, NEW ph, Traced(t, ph), NEW b \in Reachable(succs),
         NEW j \in Nat, j + 1 <= Len(blocks[b]), FlowKnown(t, ph, b, j)
  PROVE  FlowKnown(t, ph, b, j + 1)
<1> DEFINE st == blocks[b][j + 1]
<1>1. /\ b \in Block /\ j + 1 \in 1 .. Len(blocks[b]) /\ (j + 1) - 1 = j /\ j \in 0 .. Len(blocks[b])
      /\ j + 1 \in DOMAIN blocks[b] /\ st \in Stmt /\ j + 1 \in 0 .. Len(blocks[b]) BY CodeFacts DEF DomTree
<1>2. ASSUME NEW v \in promotable PROVE KnownOp(ph, Value(t[b][j + 1], v), b, j + 1)
 <2>0. KnownOp(ph, Value(t[b][j], v), b, j) BY DEF FlowKnown
 <2>1. CASE ~Stores(st, v)
  <3>1. Value(t[b][j + 1], v) = Value(t[b][j], v) BY <1>1, <2>1, ValueRules
  <3> QED BY <1>1, <2>0, <3>1, KnownLater
 <2>2. CASE Stores(st, v)
  <3>1. Value(t[b][j + 1], v) = Ren(t[b][j].alias, st.src) BY <1>1, <2>2, ValueRules
  <3>2. st.src \in Operand /\ st.src \in UseOperands(st) /\ st.src \in ReadOperands(st)
    BY <1>1, <2>2, StmtFacts DEF Stores, UseOperands, ReadOperands
  <3>3. CASE st.src.kind = "local"
   <4>1. st.src.id \in Id \ promotable /\ DefinedUpTo(b, j, st.src.id) BY <1>1, <3>2, <3>3, ReadDefined, UseKept
   <4>2. KnownOp(ph, t[b][j].alias[st.src.id], b, j) BY <4>1 DEF FlowKnown
   <4>3. Ren(t[b][j].alias, st.src) = t[b][j].alias[st.src.id] BY <3>3, <4>1 DEF Ren
   <4> QED BY Zenon, <1>1, <3>1, <4>2, <4>3, KnownLater
  <3>4. CASE st.src.kind # "local" BY Zenon, <3>1, <3>2, <3>4 DEF Ren, KnownOp
  <3> QED BY <3>3, <3>4
 <2> QED BY <2>1, <2>2
<1>3. ASSUME NEW x \in Id \ promotable, DefinedUpTo(b, j + 1, x) PROVE KnownOp(ph, t[b][j + 1].alias[x], b, j + 1)
 <2>1. CASE PromotedLoad(st) /\ x = st.dst
  <3>1. t[b][j + 1].alias[x] = Value(t[b][j], st.ptr.id) /\ st.ptr.id \in promotable
    BY <1>1, <1>3, <2>1, AliasRules DEF PromotedLoad, IsPromoted
  <3>2. KnownOp(ph, Value(t[b][j], st.ptr.id), b, j) BY <3>1 DEF FlowKnown
  <3> QED BY <1>1, <3>1, <3>2, KnownLater
 <2>2. CASE ~(PromotedLoad(st) /\ x = st.dst)
  <3>1. t[b][j + 1].alias[x] = t[b][j].alias[x] BY <1>1, <1>3, <2>2, AliasRules
  <3>2. CASE DefinedUpTo(b, j, x)
   <4>1. KnownOp(ph, t[b][j].alias[x], b, j) BY <1>3, <3>2 DEF FlowKnown
   <4> QED BY <1>1, <3>1, <4>1, KnownLater
  <3>3. CASE ~DefinedUpTo(b, j, x)
   <4>1. x \in Defines(st)
    <5>1. PICK k \in 1 .. j + 1 : x \in Defines(blocks[b][k]) BY <1>3, <3>3 DEF DefinedUpTo
    <5>2. k = j + 1 \/ k \in 1 .. j OBVIOUS
    <5> QED BY <3>3, <5>1, <5>2 DEF DefinedUpTo
   <4>2. st.op # "store" /\ x = st.dst BY <1>1, <4>1, StmtFacts
   <4>3. ~PromotedLoad(st) /\ Kept(st) BY <1>3, <2>2, <4>2 DEF PromotedLoad, Kept
   <4>4. t[b][j + 1].alias[x] = Local(x) BY <1>1, <1>3, <4>1, <4>3, AliasOwn
   <4>5. KeptUpTo(b, j + 1, x) BY <1>1, <4>1, <4>3 DEF KeptUpTo
   <4>6. Local(x) \in Operand /\ Local(x).id = x BY <1>3 DEF Local, Operand, Id
   <4> QED BY <1>3, <4>4, <4>5, <4>6 DEF KnownOp, Known
  <3> QED BY <3>2, <3>3
 <2> QED BY <2>1, <2>2
<1> QED BY <1>2, <1>3 DEF FlowKnown

LEMMA FlowIsKnown ==
  ASSUME DomTree, Fixed, NEW t, NEW ph, Traced(t, ph), \A b \in Block : \A i \in DOMAIN ph[b] : ph[b][i].dst \in Id
  PROVE  \A b \in Reachable(succs) : \A j \in 0 .. Len(blocks[b]) : FlowKnown(t, ph, b, j)
<1>1. PICK r : IsTree(idom, r) BY DEF DomTree
<1> DEFINE Good(b) == \A j \in 0 .. Len(blocks[b]) : FlowKnown(t, ph, b, j)
           S == {n \in Nat : \A b \in Reachable(succs) : r[b] = n => Good(b)}
<1>2. ASSUME NEW n \in Nat, \A m \in Nat : m < n => m \in S PROVE n \in S
 <2> SUFFICES ASSUME NEW b \in Reachable(succs), r[b] = n PROVE Good(b) OBVIOUS
 <2>1. b \in Block /\ Len(blocks[b]) \in Nat BY CodeFacts DEF DomTree
 <2>2. idom[b] # None => FlowKnown(t, ph, idom[b], Len(blocks[idom[b]]))
  <3> SUFFICES ASSUME idom[b] # None PROVE FlowKnown(t, ph, idom[b], Len(blocks[idom[b]])) OBVIOUS
  <3>1. idom[b] \in Block /\ r[idom[b]] \in Nat /\ r[idom[b]] < n BY <1>1, <2>1 DEF IsTree
  <3>2. TreeDominates(idom, idom[b], b) BY <1>1, <2>1, <3>1, AncestorRule
  <3>3. idom[b] \in Reachable(succs) BY <3>2 DEF DomTree
  <3>4. Good(idom[b]) /\ Len(blocks[idom[b]]) \in 0 .. Len(blocks[idom[b]]) BY <1>2, <3>1, <3>3, CodeFacts
  <3> QED BY <3>4
 <2>3. FlowKnown(t, ph, b, 0) BY <2>1, <2>2, FlowStarts
 <2> DEFINE K == {j \in Nat : j <= Len(blocks[b]) => FlowKnown(t, ph, b, j)}
 <2>4. 0 \in K BY <2>3
 <2>5. ASSUME NEW j \in Nat, j \in K PROVE j + 1 \in K
  <3> SUFFICES ASSUME j + 1 <= Len(blocks[b]) PROVE FlowKnown(t, ph, b, j + 1) OBVIOUS
  <3>1. FlowKnown(t, ph, b, j) BY <2>1, <2>5
  <3> QED BY <3>1, FlowGoesOn
 <2>6. Nat \subseteq K
  <3> HIDE DEF K
  <3> QED BY <2>4, <2>5, SetInduction
 <2> QED BY <2>1, <2>6
<1>3. Nat \subseteq S
 <2> HIDE DEF S
 <2> QED BY <1>2, StrongInduction
<1>4. \A b \in Reachable(succs) : r[b] \in Nat BY <1>1 DEF IsTree, DomTree
<1> QED BY <1>3, <1>4
-----------------------------------------------------------------------------
(* A block where the paths of two values meet has a phi: without one, what the
   variable is at the end of any predecessor is what it is at the end of the
   block above, since nothing on the way down gives it a value. *)
FrontiersKnown ==
  \A b \in Reachable(succs) : IsFrontier(succs, b, Frontiers(succs, idom)[b])

LEMMA ValuePasses ==
  ASSUME DomTree, Fixed, NEW t, NEW ph, Traced(t, ph), NEW v \in promotable, NEW x \in Block,
         ~HasValue(ph, x, v)
  PROVE  Value(Out(t, x), v) = Value(Above(t, x), v)
<1> DEFINE n == Len(blocks[x])
           S == {j \in Nat : j <= n => Value(t[x][j], v) = Value(Above(t, x), v)}
<1>1. n \in Nat /\ DOMAIN blocks[x] = 1 .. n BY CodeFacts
<1>2. \A j \in 1 .. n : ~Stores(blocks[x][j], v) BY <1>1 DEF HasValue, DefBlocks
<1>3. 0 \in S BY ValueRules DEF HasValue
<1>4. ASSUME NEW j \in Nat, j \in S PROVE j + 1 \in S
 <2> SUFFICES ASSUME j + 1 <= n PROVE Value(t[x][j + 1], v) = Value(Above(t, x), v) OBVIOUS
 <2>1. j + 1 \in 1 .. n /\ (j + 1) - 1 = j /\ j <= n BY <1>1
 <2>2. Value(t[x][j + 1], v) = Value(t[x][j], v) BY <1>2, <2>1, ValueRules
 <2> QED BY <1>4, <2>1, <2>2
<1>5. Nat \subseteq S
 <2> HIDE DEF S
 <2> QED BY <1>3, <1>4, SetInduction
<1> QED BY <1>1, <1>5 DEF Out

LEMMA MeetingBlock ==
  ASSUME DomTree, FrontiersKnown, NEW p \in Reachable(succs), NEW b \in ToSet(succs[p]),
         NEW x \in Block, TreeDominates(idom, x, p), x \notin Ancestors(b)
  PROVE  x \in Reachable(succs) /\ b \in Frontiers(succs, idom)[x]
<1>1. p \in Block /\ b \in Reachable(succs) /\ b \in Block /\ IsFlow(succs) BY DominanceFacts DEF DomTree
<1>2. x \in Reachable(succs) /\ x \in Dominators(succs, p) BY <1>1 DEF DomTree
<1>3. x = b \/ x \notin Dominators(succs, b) BY <1>1 DEF DomTree, Ancestors
<1>4. IsFrontier(succs, x, Frontiers(succs, idom)[x]) BY <1>2 DEF FrontiersKnown
<1>5. b \in DOMAIN succs BY <1>1 DEF IsFlow
<1> QED BY <1>2, <1>3, <1>4, <1>5 DEF IsFrontier

LEMMA ValuesJoin ==
  ASSUME DomTree, Fixed, FrontiersKnown, NEW t, NEW ph, Closed(ph), Traced(t, ph), NEW v \in promotable,
         NEW p \in Reachable(succs), NEW b \in ToSet(succs[p]), b # Entry, b \in LiveIn(v), ~HasPhiIn(ph, b, v)
  PROVE  Value(Out(t, p), v) = Value(Out(t, idom[b]), v)
<1>1. PICK r : IsTree(idom, r) BY DEF DomTree
<1>2. p \in Block /\ b \in Reachable(succs) /\ b \in Block /\ IsFlow(succs) BY DominanceFacts DEF DomTree
<1>3. idom[b] # None /\ idom[b] \in Block BY <1>1, <1>2 DEF DomTree, IsTree
<1> DEFINE d == idom[b]
<1>4. Ancestors(b) = Ancestors(d) \cup {d} /\ TreeDominates(idom, d, p)
 <2>1. Ancestors(b) = Ancestors(d) \cup {d} BY <1>1, <1>2, <1>3, AncestorsRule
 <2>2. d \in Strict(b) BY <1>2, <2>1 DEF Ancestors, Strict, DomTree
 <2>3. d \in Dominators(succs, p) BY <1>2, <2>2, DominanceFacts
 <2> QED BY <1>3, <2>1, <2>3 DEF DomTree
<1> HIDE DEF d
<1> DEFINE On(x) == TreeDominates(idom, x, p) /\ TreeDominates(idom, d, x)
           S == {n \in Nat : \A x \in Block : r[x] = n /\ On(x) => Value(Out(t, x), v) = Value(Out(t, d), v)}
<1>5. ASSUME NEW n \in Nat, \A m \in Nat : m < n => m \in S PROVE n \in S
 <2> SUFFICES ASSUME NEW x \in Block, r[x] = n, On(x), x # d PROVE Value(Out(t, x), v) = Value(Out(t, d), v) OBVIOUS
 <2>1. x \notin Ancestors(b)
  <3>1. x \in Ancestors(d) => TreeDominates(idom, x, d) BY DEF Ancestors
  <3>2. d \in Block BY <1>3 DEF d
  <3>3. ~TreeDominates(idom, x, d) BY <1>1, <3>2, AncestorsAntisymmetric
  <3> QED BY <1>4, <3>1, <3>3
 <2>2. b \in Frontiers(succs, idom)[x] BY <2>1, MeetingBlock
 <2>3. ~HasValue(ph, x, v) BY <2>2 DEF Closed, Meets
 <2>4. Value(Out(t, x), v) = Value(Above(t, x), v) BY <2>3, ValuePasses
 <2>5. idom[x] # None /\ TreeDominates(idom, d, idom[x]) BY <1>1, AncestorRule
 <2>6. idom[x] \in Block /\ r[idom[x]] \in Nat /\ r[idom[x]] < n BY <1>1, <2>5 DEF IsTree
 <2>7. TreeDominates(idom, idom[x], x) BY <1>1, <2>5, <2>6, AncestorRule
 <2>8. On(idom[x]) BY <1>1, <1>2, <2>5, <2>7, AncestorsTransitive
 <2>9. Value(Out(t, idom[x]), v) = Value(Out(t, d), v) BY <1>5, <2>6, <2>8
 <2> QED BY <2>4, <2>5, <2>9 DEF Above
<1>6. Nat \subseteq S
 <2> HIDE DEF S
 <2> QED BY <1>5, StrongInduction
<1>7. On(p) /\ r[p] \in Nat BY <1>1, <1>2, <1>4, AncestorRule DEF IsTree
<1> QED BY <1>2, <1>6, <1>7 DEF d
-----------------------------------------------------------------------------
(* Renaming follows the flow: where a call of rename_block has come to in its
   block, the stacks, the aliases and the code are those of the flow, and the
   calls below have pushed what they will pop.  (Only under the entry: other
   roots are unreachable.) *)
Pos(f) == IF f.at <= Len(blocks[f.block]) THEN f.at - 1 ELSE Len(blocks[f.block])

Here(t, f) == t[f.block][Pos(f)]

StacksFlow(t, cs, st) ==
  Live(cs) => \A v \in promotable : st[v] = Here(t, cs[Len(cs)]).stacks[v]

AliasesFlow(t, cs, al) ==
  Live(cs) => \A x \in Id :
    /\ x \in DOMAIN al => Here(t, cs[Len(cs)]).alias[x] = al[x]
    /\ x \notin DOMAIN al => Here(t, cs[Len(cs)]).alias[x] = Local(x)

CallFlow(t, f, rw) ==
  /\ rw[f.block] = Here(t, f).code
  /\ \A v \in promotable :
       Len(Here(t, f).stacks[v]) = Len(Above(t, f.block).stacks[v]) + Occurrences(f.pushed, v)

CallsFlow(t, cs, rw) == Live(cs) => \A i \in DOMAIN cs : CallFlow(t, cs[i], rw)

CodeFlow(t, cs, rs, rw) ==
  \A b \in Reachable(succs) : Reached(cs, rs, b, Len(blocks[b]) + 1) => rw[b] = Out(t, b).code

EdgeFlow(t, phi) ==
  \A k \in DOMAIN phi.incomings : phi.incomings[k].label \in Reachable(succs) =>
    phi.incomings[k].value = Value(Out(t, phi.incomings[k].label), phi.var)

EdgesFlow(t, ph) == \A y \in Block : \A i \in DOMAIN ph[y] : EdgeFlow(t, ph[y][i])

Agrees(t, cs, rs, st, al, ph, rw) ==
  /\ StacksFlow(t, cs, st) /\ AliasesFlow(t, cs, al)
  /\ CallsFlow(t, cs, rw) /\ CodeFlow(t, cs, rs, rw) /\ EdgesFlow(t, ph)

(* One statement of the block on top. *)
LEMMA HereMoves ==
  ASSUME DomTree, Fixed, NEW cs, NEW rs, Nested(cs, rs), NEW cs2, NEW p, NEW a, Dealt(cs, cs2, p, a),
         NEW t, NEW ph, Traced(t, ph), NEW b, NEW k, b = cs[Len(cs)].block, k = cs[Len(cs)].at,
         k \in DOMAIN blocks[b]
  PROVE  /\ b \in Block /\ k \in 1 .. Len(blocks[b]) /\ k - 1 \in 0 .. Len(blocks[b])
         /\ Here(t, cs[Len(cs)]) = t[b][k - 1] /\ Here(t, cs2[Len(cs2)]) = t[b][k]
         /\ t[b][k] = Take(t[b][k - 1], blocks[b][k]) /\ t[b][k - 1] \in Flow /\ t[b][k] \in Flow
<1>1. PICK n \in Nat \ {0} :
        /\ n = Len(cs) /\ n = Len(cs2) /\ DOMAIN cs = 1 .. n /\ DOMAIN cs2 = 1 .. n
        /\ \A i \in 1 .. n : cs[i].at \in Nat /\ cs[i].block \in Block /\ cs2[i].block = cs[i].block
        /\ cs2[n].at = cs[n].at + 1 BY DealtFacts
<1>2. n \in 1 .. n /\ b = cs[n].block /\ k = cs[n].at /\ k \in Nat BY <1>1
<1>3. b \in Block /\ cs2[n].block = b /\ cs2[n].at = k + 1 BY <1>1, <1>2
<1>4. Len(blocks[b]) \in Nat /\ k \in 1 .. Len(blocks[b]) BY <1>3, CodeFacts
<1>5. Pos(cs[n]) = k - 1 BY <1>2, <1>4 DEF Pos
<1>6. Pos(cs2[n]) = k BY <1>3, <1>4 DEF Pos
<1>7. k - 1 \in 0 .. Len(blocks[b]) /\ k \in 0 .. Len(blocks[b]) BY <1>4
<1>8. t[b][k - 1] \in Flow /\ t[b][k] \in Flow /\ t[b][k] = Take(t[b][k - 1], blocks[b][k]) BY <1>3, <1>4, <1>7 DEF Traced
<1> QED BY <1>1, <1>2, <1>3, <1>4, <1>5, <1>6, <1>7, <1>8 DEF Here

LEMMA StackLengths ==
  ASSUME NEW s \in Flow, NEW st \in Stmt, NEW v \in promotable
  PROVE  /\ Len(s.stacks[v]) \in Nat
         /\ Len(Take(s, st).stacks[v]) = Len(s.stacks[v]) + (IF Stores(st, v) THEN 1 ELSE 0)
<1>1. s.stacks[v] \in Seq(Operand) /\ s.alias \in [Id -> Operand] BY DEF Flow
<1> DEFINE e == Ren(s.alias, st.src)
<1>2. Take(s, st).stacks[v] = IF Stores(st, v) THEN Append(s.stacks[v], e) ELSE s.stacks[v] BY TakeFacts
<1> HIDE DEF e
<1>3. Len(Append(s.stacks[v], e)) = Len(s.stacks[v]) + 1 /\ Len(s.stacks[v]) \in Nat BY <1>1
<1>4. CASE Stores(st, v) BY <1>2, <1>3, <1>4
<1>5. CASE ~Stores(st, v) BY <1>2, <1>3, <1>5
<1> QED BY <1>4, <1>5

LEMMA CallsMove ==
  ASSUME DomTree, Fixed, NEW cs, NEW rs, Nested(cs, rs), NEW cs2, NEW p, NEW a, Dealt(cs, cs2, p, a),
         NEW t, NEW ph, Traced(t, ph), NEW b, NEW k, b = cs[Len(cs)].block, k = cs[Len(cs)].at,
         k \in DOMAIN blocks[b],
         \A v \in promotable :
           Occurrences(p, v) = Occurrences(cs[Len(cs)].pushed, v) + (IF Stores(blocks[b][k], v) THEN 1 ELSE 0),
         NEW rw, NEW rw2, \A c \in Block : c # b => rw2[c] = rw[c], Live(cs) => rw2[b] = t[b][k].code,
         CallsFlow(t, cs, rw), CodeFlow(t, cs, rs, rw)
  PROVE  CallsFlow(t, cs2, rw2) /\ CodeFlow(t, cs2, rs, rw2)
<1>1. PICK n \in Nat \ {0} :
        /\ n = Len(cs) /\ n = Len(cs2) /\ DOMAIN cs = 1 .. n /\ DOMAIN cs2 = 1 .. n
        /\ \A i \in 1 .. n : cs[i].at \in Nat /\ cs[i].block \in Block /\ cs2[i].block = cs[i].block
        /\ \A i \in 1 .. n - 1 : cs2[i] = cs[i]
        /\ cs2[n].at = cs[n].at + 1 /\ cs2[n].pushed = p
        /\ cs # <<>> /\ (Live(cs2) <=> Live(cs)) BY DealtFacts
<1>2. n \in 1 .. n /\ b = cs[n].block /\ k = cs[n].at /\ cs2[n].block = b BY <1>1
<1>3. /\ b \in Block /\ k \in 1 .. Len(blocks[b]) /\ k - 1 \in 0 .. Len(blocks[b])
      /\ Here(t, cs[n]) = t[b][k - 1] /\ Here(t, cs2[n]) = t[b][k]
      /\ t[b][k] = Take(t[b][k - 1], blocks[b][k]) /\ t[b][k - 1] \in Flow /\ t[b][k] \in Flow BY <1>1, HereMoves
<1>4. Len(blocks[b]) \in Nat /\ blocks[b][k] \in Stmt BY <1>3, CodeFacts
<1>5. ASSUME Live(cs2), NEW i \in DOMAIN cs2 PROVE CallFlow(t, cs2[i], rw2)
 <2>1. Live(cs) /\ CallFlow(t, cs[i], rw) /\ CallFlow(t, cs[n], rw) BY <1>1, <1>2, <1>5 DEF CallsFlow
 <2>2. CASE i = n
  <3>1. rw2[cs2[n].block] = Here(t, cs2[n]).code BY <1>2, <1>3, <2>1
  <3>2. ASSUME NEW v \in promotable
        PROVE  Len(Here(t, cs2[n]).stacks[v]) = Len(Above(t, cs2[n].block).stacks[v]) + Occurrences(p, v)
   <4> DEFINE d == IF Stores(blocks[b][k], v) THEN 1 ELSE 0
   <4>1. Occurrences(p, v) = Occurrences(cs[n].pushed, v) + d BY <1>1
   <4>2. Len(t[b][k].stacks[v]) = Len(t[b][k - 1].stacks[v]) + d
    <5>1. PICK s, st : s = t[b][k - 1] /\ st = blocks[b][k] OBVIOUS
    <5>2. s \in Flow /\ st \in Stmt /\ t[b][k] = Take(s, st) BY <1>3, <1>4, <5>1
    <5>3. Len(Take(s, st).stacks[v]) = Len(s.stacks[v]) + (IF Stores(st, v) THEN 1 ELSE 0) BY Zenon, <5>2, StackLengths
    <5> QED BY <5>1, <5>2, <5>3
   <4>3. Len(t[b][k - 1].stacks[v]) = Len(Above(t, b).stacks[v]) + Occurrences(cs[n].pushed, v)
     BY Zenon, <1>2, <1>3, <2>1 DEF CallFlow
   <4>4. d \in Nat OBVIOUS
   <4> HIDE DEF d
   <4>5. cs[n].pushed \in Seq(promotable) BY <1>1, <1>2, CallFacts DEF Nested
   <4>6. Occurrences(cs[n].pushed, v) \in Nat BY <4>5, OccurrencesOf
   <4>7. Above(t, b) \in Flow BY <1>3, FlowTyped
   <4>8. Len(Above(t, b).stacks[v]) \in Nat
    <5>1. Above(t, b).stacks[v] \in Seq(Operand) BY <4>7 DEF Flow
    <5> QED BY <5>1
   <4> QED BY <1>2, <1>3, <4>1, <4>2, <4>3, <4>4, <4>6, <4>8
  <3> QED BY <1>1, <2>2, <3>1, <3>2 DEF CallFlow
 <2>3. CASE i # n
  <3>1. cs2[i] = cs[i] /\ cs[i].block \in Block BY <1>1, <2>3
  <3>2. cs[i].block # b BY <1>1, <1>2, <2>3, CallPath
  <3>3. rw2[cs[i].block] = rw[cs[i].block] BY <3>1, <3>2
  <3> QED BY <2>1, <3>1, <3>3 DEF CallFlow
 <2> QED BY <2>2, <2>3
<1>6. ASSUME NEW c \in Reachable(succs), Reached(cs2, rs, c, Len(blocks[c]) + 1) PROVE rw2[c] = Out(t, c).code
 <2>1. c \in Block /\ Len(blocks[c]) \in Nat /\ Len(blocks[c]) + 1 \in Nat
  <3>1. c \in Block BY DEF DomTree
  <3>2. Len(blocks[c]) \in Nat BY <3>1, CodeFacts
  <3> QED BY <3>1, <3>2
 <2>2. Moved(cs, cs2) BY DEF Dealt
 <2>3. Reached(cs, rs, c, Len(blocks[c]) + 1) \/ (c = b /\ Len(blocks[c]) + 1 = k + 1) BY <1>6, <2>1, <2>2, MovedReached
 <2>4. CASE c # b BY <2>1, <2>3, <2>4 DEF CodeFlow
 <2>5. CASE c = b
  <3>1. Live(cs) BY <1>1, <2>5, ReachableLive
  <3>2. ~Reached(cs, rs, b, Len(blocks[b]) + 1)
   <4>1. ~(Len(blocks[b]) + 1 <= cs[n].at) BY <1>2, <1>3, <1>4
   <4> QED BY <1>1, <1>2, <4>1 DEF Reached
  <3>3. Len(blocks[b]) = k BY <1>3, <1>4, <2>3, <2>5, <3>2
  <3> QED BY <2>5, <3>1, <3>3 DEF Out
 <2> QED BY <2>4, <2>5
<1> QED BY <1>5, <1>6 DEF CallsFlow, CodeFlow
LEMMA CurrentIsLast ==
  ASSUME DomTree, RenameInv, Live(calls), NEW v \in promotable, var_stack[v] # <<>>
  PROVE  CurrentValue(v) = Last(var_stack[v])
<1>0. calls # <<>> BY DEF Live
<1>1. PICK n \in Nat \ {0} :
        /\ n = Len(calls) /\ DOMAIN calls = 1 .. n /\ Frame = calls[n] /\ n \in 1 .. n
        /\ Frame.block \in Block BY <1>0, FrameFacts
<1>2. PICK S : var_stack \in [promotable -> Seq(S)] BY DEF RenameInv, StacksTyped
<1>3. PICK h \in Nat : h = Len(var_stack[v]) BY <1>2
<1>4. h \in 1 .. h /\ Last(var_stack[v]) = var_stack[v][h] BY <1>2, <1>3 DEF Last
<1>5. PICK m : Heights(calls, var_stack, m) /\ StacksAvail(calls, var_stack, m, phis, rewritten) BY DEF RenameInv, StacksKnown
<1>6. m[n][v] = h BY <1>0, <1>1, <1>3, <1>5 DEF Heights
<1>7. Avail(phis, rewritten, var_stack[v][h], Frame.block) BY <1>1, <1>4, <1>5, <1>6 DEF StacksAvail
<1>8. var_stack[v][h] \in Operand /\ ~Aliased(var_stack[v][h]) BY <1>1, <1>7, AvailUnaliased
<1> QED BY <1>4, <1>8, ResolveOnce DEF CurrentValue

(* Current values and renamed operands are those of the flow. *)
LEMMA CurrentFlow ==
  ASSUME DomTree, RenameInv, Live(calls), NEW v \in promotable, NEW t, StacksFlow(t, calls, var_stack)
  PROVE  CurrentValue(v) = Value(Here(t, Frame), v)
<1>1. var_stack[v] = Here(t, Frame).stacks[v] BY DEF StacksFlow, Frame
<1>2. CASE var_stack[v] = <<>> BY <1>1, <1>2 DEF CurrentValue, Value
<1>3. CASE var_stack[v] # <<>> BY <1>1, <1>3, CurrentIsLast DEF Value
<1> QED BY <1>2, <1>3

LEMMA ResolveFlow ==
  ASSUME DomTree, RenameInv, Live(calls), NEW o \in Operand, NEW t, AliasesFlow(t, calls, alias_map)
  PROVE  Resolve(o) = Ren(Here(t, Frame).alias, o)
<1>1. DOMAIN alias_map \subseteq Id
 <2>1. AliasesKnown(calls, alias_map, phis, rewritten) /\ calls \in Seq(CallRecord) BY DEF RenameInv, Nested
 <2>2. \A i \in DOMAIN calls : calls[i].added \subseteq Id BY <2>1, CallFacts
 <2> QED BY <2>1, <2>2 DEF AliasesKnown
<1>2. \A x \in Id : /\ x \in DOMAIN alias_map => Here(t, Frame).alias[x] = alias_map[x]
                    /\ x \notin DOMAIN alias_map => Here(t, Frame).alias[x] = Local(x) BY DEF AliasesFlow, Frame
<1>3. CASE Aliased(o)
 <2>1. Resolve(o) = alias_map[o.id] BY <1>3, ResolveOnce
 <2>2. o.kind = "local" /\ o.id \in DOMAIN alias_map /\ o.id \in Id BY <1>1, <1>3 DEF Aliased
 <2> QED BY <1>2, <2>1, <2>2 DEF Ren
<1>4. CASE ~Aliased(o)
 <2>1. Resolve(o) = o BY <1>4, ResolveOnce
 <2>2. CASE o.kind = "local" /\ o.id \in Id
  <3>1. o.id \notin DOMAIN alias_map BY <1>4, <2>2 DEF Aliased
  <3>2. o = Local(o.id) BY <2>2 DEF Local, Operand
  <3> QED BY <1>2, <2>1, <2>2, <3>1, <3>2 DEF Ren
 <2>3. CASE ~(o.kind = "local" /\ o.id \in Id) BY <2>1, <2>3 DEF Ren
 <2> QED BY <2>2, <2>3
<1> QED BY <1>3, <1>4

LEMMA ResolvedFlow ==
  ASSUME DomTree, RenameInv, Live(calls), NEW s \in Stmt, NEW t, AliasesFlow(t, calls, alias_map)
  PROVE  Resolved(s) = Renamed(Here(t, Frame).alias, s)
<1> DEFINE f == [o \in ReadOperands(s) |-> Resolve(o)]
           g == [o \in ReadOperands(s) |-> Ren(Here(t, Frame).alias, o)]
<1>1. ReadOperands(s) \subseteq Operand BY StmtFacts
<1>2. \A o \in ReadOperands(s) : Resolve(o) = Ren(Here(t, Frame).alias, o) BY <1>1, ResolveFlow
<1>3. f = g BY <1>2
<1>4. Resolved(s) = MapUses(s, f) /\ Renamed(Here(t, Frame).alias, s) = MapUses(s, g) BY DEF Resolved, Renamed
<1> HIDE DEF f, g
<1> QED BY <1>3, <1>4

(* What each step does to the call on top. *)
LEMMA TopDealt ==
  ASSUME RenameInv, calls # <<>>, NEW p \in Seq(promotable), NEW a \in SUBSET Id, NEW g,
         g = [block |-> Frame.block, at |-> Frame.at + 1, pushed |-> p, added |-> a,
              children |-> Frame.children]
  PROVE  Dealt(calls, [calls EXCEPT ![Len(calls)] = g], p, a)
<1>1. Nested(calls, roots) /\ Frame \in CallRecord /\ Frame = calls[Len(calls)] BY FrameFacts DEF RenameInv, Frame
<1>2. g \in CallRecord BY <1>1 DEF CallRecord
<1>3. /\ g.block = calls[Len(calls)].block /\ g.children = calls[Len(calls)].children
      /\ g.at = calls[Len(calls)].at + 1 /\ g.pushed = p /\ g.added = a BY <1>1
<1> QED BY <1>1, <1>2, <1>3, DealtWith

LEMMA ActionDealt ==
  ASSUME RenameInv, calls # <<>>
  PROVE  /\ calls' = [calls EXCEPT ![Len(calls)].at = @ + 1] =>
              Dealt(calls, calls', Frame.pushed, Frame.added)
         /\ \A i \in Id : calls' = [calls EXCEPT ![Len(calls)].at = @ + 1, ![Len(calls)].added = @ \cup {i}] =>
              Dealt(calls, calls', Frame.pushed, Frame.added \cup {i})
         /\ \A v \in promotable :
              calls' = [calls EXCEPT ![Len(calls)].at = @ + 1, ![Len(calls)].pushed = Append(@, v)] =>
                Dealt(calls, calls', Append(Frame.pushed, v), Frame.added)
<1>1. /\ Frame \in CallRecord /\ Frame = calls[Len(calls)] /\ Len(calls) \in DOMAIN calls BY FrameFacts
<1>2. Frame.pushed \in Seq(promotable) /\ Frame.added \in SUBSET Id BY <1>1 DEF CallRecord
<1> DEFINE G(p, a) == [block |-> Frame.block, at |-> Frame.at + 1, pushed |-> p, added |-> a,
                       children |-> Frame.children]
<1>3. ASSUME calls' = [calls EXCEPT ![Len(calls)].at = @ + 1] PROVE Dealt(calls, calls', Frame.pushed, Frame.added)
 <2>1. [Frame EXCEPT !.at = @ + 1] = G(Frame.pushed, Frame.added) BY <1>1 DEF CallRecord
 <2>2. calls' = [calls EXCEPT ![Len(calls)] = [Frame EXCEPT !.at = @ + 1]] BY <1>1, <1>3
 <2> HIDE DEF G
 <2>3. calls' = [calls EXCEPT ![Len(calls)] = G(Frame.pushed, Frame.added)] BY <2>1, <2>2
 <2> QED BY <1>2, <2>3, TopDealt DEF G
<1>4. ASSUME NEW i \in Id, calls' = [calls EXCEPT ![Len(calls)].at = @ + 1, ![Len(calls)].added = @ \cup {i}]
      PROVE  Dealt(calls, calls', Frame.pushed, Frame.added \cup {i})
 <2> DEFINE a == Frame.added \cup {i}
            g0 == [Frame EXCEPT !.at = @ + 1]
            g == [g0 EXCEPT !.added = a]
 <2>0. a \in SUBSET Id BY <1>2
 <2>1. calls' = [calls EXCEPT ![Len(calls)] = g] BY <1>1, <1>4
 <2> HIDE DEF a
 <2>2. g = G(Frame.pushed, a)
  <3>1. g0 = G(Frame.pushed, Frame.added) BY <1>1 DEF CallRecord
  <3> HIDE DEF g0
  <3> QED BY <3>1
 <2> HIDE DEF G, g
 <2>3. calls' = [calls EXCEPT ![Len(calls)] = G(Frame.pushed, a)] BY <2>1, <2>2
 <2>4. Dealt(calls, calls', Frame.pushed, a) BY <1>2, <2>0, <2>3, TopDealt DEF G
 <2> QED BY <2>4 DEF a
<1>5. ASSUME NEW v \in promotable,
             calls' = [calls EXCEPT ![Len(calls)].at = @ + 1, ![Len(calls)].pushed = Append(@, v)]
      PROVE  Dealt(calls, calls', Append(Frame.pushed, v), Frame.added)
 <2> DEFINE p == Append(Frame.pushed, v)
            g0 == [Frame EXCEPT !.at = @ + 1]
            g == [g0 EXCEPT !.pushed = p]
 <2>0. p \in Seq(promotable) BY <1>2, AppendFacts
 <2>1. calls' = [calls EXCEPT ![Len(calls)] = g] BY <1>1, <1>5
 <2> HIDE DEF p
 <2>2. g = G(p, Frame.added)
  <3>1. g0 = G(Frame.pushed, Frame.added) BY <1>1 DEF CallRecord
  <3> HIDE DEF g0
  <3> QED BY <3>1
 <2> HIDE DEF G, g
 <2>3. calls' = [calls EXCEPT ![Len(calls)] = G(p, Frame.added)] BY <2>1, <2>2
 <2>4. Dealt(calls, calls', p, Frame.added) BY <1>2, <2>0, <2>3, TopDealt DEF G
 <2> QED BY <2>4 DEF p
<1> QED BY <1>3, <1>4, <1>5
(* A removed alloca changes nothing. *)
LEMMA AllocaFlows ==
  ASSUME DomTree, RenameInv, RenameAlloca, NEW t, Traced(t, phis),
         Agrees(t, calls, roots, var_stack, alias_map, phis, rewritten)
  PROVE  Agrees(t, calls', roots', var_stack', alias_map', phis', rewritten')
<1>1. /\ Reading /\ ThisStmt.op = "alloca" /\ ThisStmt.dst \in promotable
      /\ calls' = [calls EXCEPT ![Len(calls)].at = @ + 1]
      /\ phis' = phis /\ roots' = roots /\ var_stack' = var_stack
      /\ alias_map' = alias_map /\ rewritten' = rewritten BY DEF RenameAlloca
<1> DEFINE b == Frame.block
           k == Frame.at
<1>2. /\ calls # <<>> /\ Frame = calls[Len(calls)] /\ k \in DOMAIN blocks[b] /\ ThisStmt = blocks[b][k]
      /\ ThisStmt \in Stmt BY <1>1, ReadingFacts
<1>3. Dealt(calls, calls', Frame.pushed, Frame.added) BY <1>1, <1>2, ActionDealt
<1>4. Fixed /\ Nested(calls, roots) /\ (Live(calls') <=> Live(calls))
 <2>1. Fixed /\ Nested(calls, roots) BY DEF RenameInv
 <2> QED BY <1>3, <2>1, DealtFacts
<1>5. /\ Here(t, calls[Len(calls)]) = t[b][k - 1] /\ Here(t, calls'[Len(calls')]) = t[b][k]
      /\ t[b][k] = Take(t[b][k - 1], ThisStmt) BY <1>2, <1>3, <1>4, HereMoves
<1>6. ~PromotedLoad(ThisStmt) /\ ~Kept(ThisStmt) /\ \A v : ~Stores(ThisStmt, v) BY <1>1 DEF PromotedLoad, Kept, Stores
<1> HIDE DEF b, k
<1>7. /\ \A v \in promotable : t[b][k].stacks[v] = t[b][k - 1].stacks[v]
      /\ \A x \in Id : t[b][k].alias[x] = t[b][k - 1].alias[x]
      /\ t[b][k].code = t[b][k - 1].code
 <2>1. PICK s, s2 : s = t[b][k - 1] /\ s2 = t[b][k] OBVIOUS
 <2>2. s2 = Take(s, ThisStmt) BY <1>5, <2>1
 <2>3. /\ \A v \in promotable : Take(s, ThisStmt).stacks[v] = s.stacks[v]
       /\ \A x \in Id : Take(s, ThisStmt).alias[x] = s.alias[x]
       /\ Take(s, ThisStmt).code = s.code BY <1>6, TakeFacts
 <2> QED BY <2>1, <2>2, <2>3
<1>8. StacksFlow(t, calls', var_stack') BY <1>1, <1>4, <1>5, <1>7 DEF Agrees, StacksFlow
<1>9. AliasesFlow(t, calls', alias_map') BY <1>1, <1>4, <1>5, <1>7 DEF Agrees, AliasesFlow
<1>10. Live(calls) => rewritten[b] = t[b][k].code
 <2> SUFFICES ASSUME Live(calls) PROVE rewritten[b] = t[b][k].code OBVIOUS
 <2>1. Len(calls) \in DOMAIN calls BY <1>2, FrameFacts
 <2>2. CallFlow(t, calls[Len(calls)], rewritten) BY <2>1 DEF Agrees, CallsFlow
 <2> QED BY Zenon, <1>2, <1>5, <1>7, <2>2 DEF CallFlow, b
<1>11. CallsFlow(t, calls', rewritten') /\ CodeFlow(t, calls', roots', rewritten')
 <2>1. \A v \in promotable : Occurrences(Frame.pushed, v) =
          Occurrences(Frame.pushed, v) + (IF Stores(blocks[b][k], v) THEN 1 ELSE 0)
  <3>1. Frame.pushed \in Seq(promotable) BY <1>2, FrameFacts DEF CallRecord
  <3>2. \A v \in promotable : Occurrences(Frame.pushed, v) \in Nat BY <3>1, OccurrencesOf
  <3>3. \A v \in promotable : ~Stores(blocks[b][k], v) BY <1>2, <1>6 DEF b, k
  <3> QED BY <3>2, <3>3
 <2>2. CallsFlow(t, calls, rewritten) /\ CodeFlow(t, calls, roots, rewritten) BY DEF Agrees
 <2>3. b = calls[Len(calls)].block /\ k = calls[Len(calls)].at /\ k \in DOMAIN blocks[b] BY <1>2 DEF b, k
 <2>4. CallsFlow(t, calls', rewritten) /\ CodeFlow(t, calls', roots, rewritten)
   BY <1>2, <1>3, <1>4, <1>10, <2>1, <2>2, <2>3, CallsMove
 <2> QED BY <1>1, <2>4
<1>12. EdgesFlow(t, phis') BY <1>1 DEF Agrees
<1> QED BY <1>8, <1>9, <1>11, <1>12 DEF Agrees

(* A removed load: the local stands for the current value. *)
LEMMA LoadFlows ==
  ASSUME DomTree, RenameInv, RenameLoad, NEW t, Traced(t, phis),
         Agrees(t, calls, roots, var_stack, alias_map, phis, rewritten)
  PROVE  Agrees(t, calls', roots', var_stack', alias_map', phis', rewritten')
<1> DEFINE x0 == ThisStmt.dst
           v0 == ThisStmt.ptr.id
           o == CurrentValue(v0)
           b == Frame.block
           k == Frame.at
<1>1. /\ Reading /\ ThisStmt.op = "load" /\ IsPromoted(ThisStmt.ptr)
      /\ calls' = [calls EXCEPT ![Len(calls)].at = @ + 1, ![Len(calls)].added = @ \cup {x0}]
      /\ alias_map' = [j \in DOMAIN alias_map \cup {x0} |-> IF j = x0 THEN o ELSE alias_map[j]]
      /\ phis' = phis /\ roots' = roots /\ var_stack' = var_stack /\ rewritten' = rewritten BY DEF RenameLoad
<1>2. /\ calls # <<>> /\ Frame = calls[Len(calls)] /\ k \in DOMAIN blocks[b] /\ ThisStmt = blocks[b][k]
      /\ ThisStmt \in Stmt BY <1>1, ReadingFacts
<1>3. x0 \in Id /\ v0 \in promotable BY Zenon, <1>1, <1>2, StmtFacts DEF IsPromoted
<1>4. Dealt(calls, calls', Frame.pushed, Frame.added \cup {x0}) BY Zenon, <1>1, <1>2, <1>3, ActionDealt
<1>5. Fixed /\ Nested(calls, roots) /\ (Live(calls') <=> Live(calls))
 <2>1. Fixed /\ Nested(calls, roots) BY DEF RenameInv
 <2> QED BY <1>4, <2>1, DealtFacts
<1>6. /\ Here(t, calls[Len(calls)]) = t[b][k - 1] /\ Here(t, calls'[Len(calls')]) = t[b][k]
      /\ t[b][k] = Take(t[b][k - 1], ThisStmt) BY <1>2, <1>4, <1>5, HereMoves
<1>7. PromotedLoad(ThisStmt) /\ ~Kept(ThisStmt) /\ \A v : ~Stores(ThisStmt, v) BY <1>1 DEF PromotedLoad, Kept, Stores
<1>8. alias_map'[x0] = o /\ DOMAIN alias_map' = DOMAIN alias_map \cup {x0}
      /\ \A j \in DOMAIN alias_map : j # x0 => alias_map'[j] = alias_map[j] BY <1>1
<1> HIDE DEF b, k, o, x0, v0
<1>9. /\ \A v \in promotable : t[b][k].stacks[v] = t[b][k - 1].stacks[v]
      /\ t[b][k].alias[x0] = Value(t[b][k - 1], v0)
      /\ \A x \in Id : x # x0 => t[b][k].alias[x] = t[b][k - 1].alias[x]
      /\ t[b][k].code = t[b][k - 1].code
 <2>1. PICK s, s2 : s = t[b][k - 1] /\ s2 = t[b][k] OBVIOUS
 <2>2. s2 = Take(s, ThisStmt) BY <1>6, <2>1
 <2>3. /\ \A v \in promotable : Take(s, ThisStmt).stacks[v] = s.stacks[v]
       /\ Take(s, ThisStmt).alias[x0] = Value(s, v0)
       /\ \A x \in Id : x # x0 => Take(s, ThisStmt).alias[x] = s.alias[x]
       /\ Take(s, ThisStmt).code = s.code BY <1>3, <1>7, TakeFacts DEF x0, v0
 <2> QED BY <2>1, <2>2, <2>3
<1>10. StacksFlow(t, calls', var_stack') BY <1>1, <1>5, <1>6, <1>9 DEF Agrees, StacksFlow
<1>11. AliasesFlow(t, calls', alias_map')
 <2> SUFFICES ASSUME Live(calls), NEW x \in Id
              PROVE  /\ x \in DOMAIN alias_map' => t[b][k].alias[x] = alias_map'[x]
                     /\ x \notin DOMAIN alias_map' => t[b][k].alias[x] = Local(x) BY <1>5, <1>6 DEF AliasesFlow
 <2>1. CASE x = x0
  <3>1. o = Value(Here(t, Frame), v0)
   <4>1. StacksFlow(t, calls, var_stack) BY DEF Agrees
   <4> QED BY <1>3, <4>1, CurrentFlow DEF o
  <3> QED BY <1>2, <1>6, <1>8, <1>9, <2>1, <3>1
 <2>2. CASE x # x0
  <3>1. /\ x \in DOMAIN alias_map => t[b][k - 1].alias[x] = alias_map[x]
        /\ x \notin DOMAIN alias_map => t[b][k - 1].alias[x] = Local(x) BY <1>6 DEF Agrees, AliasesFlow
  <3> QED BY <1>8, <1>9, <2>2, <3>1
 <2> QED BY <2>1, <2>2
<1>12. Live(calls) => rewritten[b] = t[b][k].code
 <2> SUFFICES ASSUME Live(calls) PROVE rewritten[b] = t[b][k].code OBVIOUS
 <2>1. Len(calls) \in DOMAIN calls BY <1>2, FrameFacts
 <2>2. CallFlow(t, calls[Len(calls)], rewritten) BY <2>1 DEF Agrees, CallsFlow
 <2> QED BY Zenon, <1>2, <1>6, <1>9, <2>2 DEF CallFlow, b
<1>13. CallsFlow(t, calls', rewritten') /\ CodeFlow(t, calls', roots', rewritten')
 <2>1. \A v \in promotable : Occurrences(Frame.pushed, v) =
          Occurrences(Frame.pushed, v) + (IF Stores(blocks[b][k], v) THEN 1 ELSE 0)
  <3>1. Frame.pushed \in Seq(promotable) BY <1>2, FrameFacts DEF CallRecord
  <3>2. \A v \in promotable : Occurrences(Frame.pushed, v) \in Nat BY <3>1, OccurrencesOf
  <3>3. \A v \in promotable : ~Stores(blocks[b][k], v) BY <1>2, <1>7 DEF b, k
  <3> QED BY <3>2, <3>3
 <2>2. CallsFlow(t, calls, rewritten) /\ CodeFlow(t, calls, roots, rewritten) BY DEF Agrees
 <2>3. b = calls[Len(calls)].block /\ k = calls[Len(calls)].at /\ k \in DOMAIN blocks[b] BY <1>2 DEF b, k
 <2>4. CallsFlow(t, calls', rewritten) /\ CodeFlow(t, calls', roots, rewritten)
   BY <1>2, <1>4, <1>5, <1>12, <2>1, <2>2, <2>3, CallsMove
 <2> QED BY <1>1, <2>4
<1>14. EdgesFlow(t, phis') BY <1>1 DEF Agrees
<1> QED BY <1>10, <1>11, <1>13, <1>14 DEF Agrees
(* A removed store pushes what is stored. *)
LEMMA StoreFlows ==
  ASSUME DomTree, RenameInv, RenameStore, NEW t, Traced(t, phis),
         Agrees(t, calls, roots, var_stack, alias_map, phis, rewritten)
  PROVE  Agrees(t, calls', roots', var_stack', alias_map', phis', rewritten')
<1> DEFINE v0 == ThisStmt.ptr.id
           o == Resolve(ThisStmt.src)
           b == Frame.block
           k == Frame.at
<1>1. /\ Reading /\ ThisStmt.op = "store" /\ IsPromoted(ThisStmt.ptr)
      /\ calls' = [calls EXCEPT ![Len(calls)].at = @ + 1, ![Len(calls)].pushed = Append(@, v0)]
      /\ var_stack' = [var_stack EXCEPT ![v0] = Append(@, o)]
      /\ phis' = phis /\ roots' = roots /\ alias_map' = alias_map /\ rewritten' = rewritten BY DEF RenameStore
<1>2. /\ calls # <<>> /\ Frame = calls[Len(calls)] /\ k \in DOMAIN blocks[b] /\ ThisStmt = blocks[b][k]
      /\ ThisStmt \in Stmt BY <1>1, ReadingFacts
<1>3. v0 \in promotable /\ ThisStmt.src \in Operand /\ ThisStmt.ptr \in Operand BY Zenon, <1>1, <1>2, StmtFacts DEF IsPromoted
<1>4. Dealt(calls, calls', Append(Frame.pushed, v0), Frame.added) BY Zenon, <1>1, <1>2, <1>3, ActionDealt
<1>5. Fixed /\ Nested(calls, roots) /\ (Live(calls') <=> Live(calls))
 <2>1. Fixed /\ Nested(calls, roots) BY DEF RenameInv
 <2> QED BY <1>4, <2>1, DealtFacts
<1>6. /\ Here(t, calls[Len(calls)]) = t[b][k - 1] /\ Here(t, calls'[Len(calls')]) = t[b][k]
      /\ t[b][k] = Take(t[b][k - 1], ThisStmt) BY <1>2, <1>4, <1>5, HereMoves
<1>7. ~PromotedLoad(ThisStmt) /\ ~Kept(ThisStmt) /\ \A v : Stores(ThisStmt, v) <=> v = v0
 <2>1. ThisStmt.ptr = Local(v0) BY <1>1, <1>3 DEF IsPromoted, Local, Operand
 <2>2. \A v : Local(v0) = Local(v) <=> v = v0 BY DEF Local
 <2>3. \A v : Stores(ThisStmt, v) <=> v = v0 BY <1>1, <2>1, <2>2 DEF Stores
 <2> QED BY <1>1, <2>3 DEF PromotedLoad, Kept
<1>8. PICK S : var_stack \in [promotable -> Seq(S)] BY DEF RenameInv, StacksTyped
<1>9. /\ var_stack'[v0] = Append(var_stack[v0], o)
      /\ \A v \in promotable : v # v0 => var_stack'[v] = var_stack[v] BY <1>1, <1>3, <1>8
<1> DEFINE e == Ren(t[b][k - 1].alias, ThisStmt.src)
<1>10. Live(calls) => o = e
 <2> SUFFICES ASSUME Live(calls) PROVE o = e OBVIOUS
 <2>1. AliasesFlow(t, calls, alias_map) BY DEF Agrees
 <2>2. Resolve(ThisStmt.src) = Ren(Here(t, Frame).alias, ThisStmt.src) BY <1>3, <2>1, ResolveFlow
 <2> QED BY <1>2, <1>6, <2>2
<1>11. /\ t[b][k].stacks[v0] = Append(t[b][k - 1].stacks[v0], e)
       /\ \A v \in promotable : v # v0 => t[b][k].stacks[v] = t[b][k - 1].stacks[v]
       /\ \A x \in Id : t[b][k].alias[x] = t[b][k - 1].alias[x]
       /\ t[b][k].code = t[b][k - 1].code
 <2>1. PICK s, s2 : s = t[b][k - 1] /\ s2 = t[b][k] OBVIOUS
 <2>2. s2 = Take(s, ThisStmt) BY <1>6, <2>1
 <2>3. /\ \A v \in promotable : v # v0 => Take(s, ThisStmt).stacks[v] = s.stacks[v]
       /\ \A x \in Id : Take(s, ThisStmt).alias[x] = s.alias[x]
       /\ Take(s, ThisStmt).code = s.code BY <1>7, TakeFacts
 <2>4. Take(s, ThisStmt).stacks[v0] = Append(s.stacks[v0], e)
  <3>1. Stores(ThisStmt, v0) BY <1>7
  <3>2. Take(s, ThisStmt).stacks[v0] =
          IF Stores(ThisStmt, v0) THEN Append(s.stacks[v0], Ren(s.alias, ThisStmt.src)) ELSE s.stacks[v0] BY <1>3, TakeFacts
  <3>3. e = Ren(s.alias, ThisStmt.src) BY <2>1
  <3> DEFINE l == Append(s.stacks[v0], e)
  <3> HIDE DEF e
  <3>4. Take(s, ThisStmt).stacks[v0] = IF Stores(ThisStmt, v0) THEN l ELSE s.stacks[v0] BY <3>2, <3>3
  <3> HIDE DEF l
  <3>5. Take(s, ThisStmt).stacks[v0] = l BY <3>1, <3>4
  <3> QED BY <3>5 DEF l
 <2> QED BY Zenon, <2>1, <2>2, <2>3, <2>4
<1> HIDE DEF b, k, o, v0, e
<1>12. StacksFlow(t, calls', var_stack')
 <2> SUFFICES ASSUME Live(calls), NEW v \in promotable PROVE var_stack'[v] = t[b][k].stacks[v] BY <1>5, <1>6 DEF StacksFlow
 <2>1. var_stack[v] = t[b][k - 1].stacks[v] BY <1>6 DEF Agrees, StacksFlow
 <2> QED BY <1>9, <1>10, <1>11, <2>1
<1>13. AliasesFlow(t, calls', alias_map') BY Zenon, <1>1, <1>5, <1>6, <1>11 DEF Agrees, AliasesFlow
<1>14. Live(calls) => rewritten[b] = t[b][k].code
 <2> SUFFICES ASSUME Live(calls) PROVE rewritten[b] = t[b][k].code OBVIOUS
 <2>1. Len(calls) \in DOMAIN calls BY <1>2, FrameFacts
 <2>2. CallFlow(t, calls[Len(calls)], rewritten) BY <2>1 DEF Agrees, CallsFlow
 <2> QED BY Zenon, <1>2, <1>6, <1>11, <2>2 DEF CallFlow, b
<1>15. CallsFlow(t, calls', rewritten') /\ CodeFlow(t, calls', roots', rewritten')
 <2> DEFINE p == Append(Frame.pushed, v0)
 <2>1. \A v \in promotable : Occurrences(p, v) =
          Occurrences(Frame.pushed, v) + (IF Stores(blocks[b][k], v) THEN 1 ELSE 0)
  <3>1. Frame.pushed \in Seq(promotable) BY <1>2, FrameFacts DEF CallRecord
  <3>2. \A v \in promotable : Occurrences(p, v) = Occurrences(Frame.pushed, v) + (IF v0 = v THEN 1 ELSE 0)
    BY <1>3, <3>1, OccurrencesOf
  <3>3. \A v \in promotable : Stores(blocks[b][k], v) <=> v = v0 BY <1>2, <1>7 DEF b, k
  <3> HIDE DEF p
  <3> QED BY <3>2, <3>3
 <2>2. CallsFlow(t, calls, rewritten) /\ CodeFlow(t, calls, roots, rewritten) BY DEF Agrees
 <2>3. b = calls[Len(calls)].block /\ k = calls[Len(calls)].at /\ k \in DOMAIN blocks[b] BY <1>2 DEF b, k
 <2>4. Dealt(calls, calls', p, Frame.added) BY <1>4
 <2> HIDE DEF p
 <2>5. CallsFlow(t, calls', rewritten) /\ CodeFlow(t, calls', roots, rewritten)
   BY <1>2, <1>5, <1>14, <2>1, <2>2, <2>3, <2>4, CallsMove
 <2> QED BY <1>1, <2>5
<1>16. EdgesFlow(t, phis') BY <1>1 DEF Agrees
<1> QED BY <1>12, <1>13, <1>15, <1>16 DEF Agrees

(* A kept statement, with its operands renamed. *)
LEMMA OtherFlows ==
  ASSUME DomTree, RenameInv, RenameOther, NEW t, Traced(t, phis),
         Agrees(t, calls, roots, var_stack, alias_map, phis, rewritten)
  PROVE  Agrees(t, calls', roots', var_stack', alias_map', phis', rewritten')
<1> DEFINE b == Frame.block
           k == Frame.at
           s0 == Resolved(ThisStmt)
<1>1. /\ Reading
      /\ ~(ThisStmt.op = "alloca" /\ ThisStmt.dst \in promotable)
      /\ ~(ThisStmt.op \in {"load", "store"} /\ IsPromoted(ThisStmt.ptr))
      /\ calls' = [calls EXCEPT ![Len(calls)].at = @ + 1]
      /\ rewritten' = [rewritten EXCEPT ![b] = Append(@, s0)]
      /\ phis' = phis /\ roots' = roots /\ var_stack' = var_stack /\ alias_map' = alias_map BY DEF RenameOther
<1>2. /\ calls # <<>> /\ Frame = calls[Len(calls)] /\ k \in DOMAIN blocks[b] /\ ThisStmt = blocks[b][k]
      /\ ThisStmt \in Stmt BY <1>1, ReadingFacts
<1>3. Dealt(calls, calls', Frame.pushed, Frame.added) BY Zenon, <1>1, <1>2, ActionDealt
<1>4. Fixed /\ Nested(calls, roots) /\ (Live(calls') <=> Live(calls))
 <2>1. Fixed /\ Nested(calls, roots) BY DEF RenameInv
 <2> QED BY <1>3, <2>1, DealtFacts
<1>5. /\ Here(t, calls[Len(calls)]) = t[b][k - 1] /\ Here(t, calls'[Len(calls')]) = t[b][k]
      /\ t[b][k] = Take(t[b][k - 1], ThisStmt) BY <1>2, <1>3, <1>4, HereMoves
<1>6. Kept(ThisStmt) BY <1>1 DEF Kept
<1>7. ~PromotedLoad(ThisStmt) /\ \A v \in promotable : ~Stores(ThisStmt, v) BY <1>1 DEF PromotedLoad, IsPromoted, Stores, Local
<1>8. PICK S : rewritten \in [Block -> Seq(S)] BY DEF RenameInv, RewrittenTyped
<1>9. b \in Block BY <1>2, FrameFacts
<1> DEFINE c0 == Append(t[b][k - 1].code, Renamed(t[b][k - 1].alias, ThisStmt))
<1>10. /\ \A v \in promotable : t[b][k].stacks[v] = t[b][k - 1].stacks[v]
       /\ \A x \in Id : t[b][k].alias[x] = t[b][k - 1].alias[x]
       /\ t[b][k].code = c0
 <2>1. PICK s, s2 : s = t[b][k - 1] /\ s2 = t[b][k] OBVIOUS
 <2>2. s2 = Take(s, ThisStmt) BY <1>5, <2>1
 <2>3. /\ \A v \in promotable : Take(s, ThisStmt).stacks[v] = s.stacks[v]
       /\ \A x \in Id : Take(s, ThisStmt).alias[x] = s.alias[x] BY <1>7, TakeFacts
 <2>4. Take(s, ThisStmt).code = c0
  <3>1. Take(s, ThisStmt).code =
          IF Kept(ThisStmt) THEN Append(s.code, Renamed(s.alias, ThisStmt)) ELSE s.code BY TakeFacts
  <3> DEFINE l == Append(s.code, Renamed(s.alias, ThisStmt))
  <3>2. Take(s, ThisStmt).code = IF Kept(ThisStmt) THEN l ELSE s.code BY <3>1
  <3>3. l = c0 BY <2>1
  <3> HIDE DEF l, c0
  <3> QED BY <1>6, <3>2, <3>3
 <2> QED BY Zenon, <2>1, <2>2, <2>3, <2>4
<1> HIDE DEF b, k, c0
<1>11. Live(calls) => rewritten'[b] = c0
 <2> SUFFICES ASSUME Live(calls) PROVE rewritten'[b] = c0 OBVIOUS
 <2>1. Len(calls) \in DOMAIN calls BY <1>2, FrameFacts
 <2>2. CallFlow(t, calls[Len(calls)], rewritten) BY <2>1 DEF Agrees, CallsFlow
 <2>3. rewritten[b] = t[b][k - 1].code BY <1>2, <1>5, <2>2 DEF CallFlow, b
 <2>4. s0 = Renamed(Here(t, Frame).alias, ThisStmt)
  <3>1. AliasesFlow(t, calls, alias_map) BY DEF Agrees
  <3> QED BY <1>2, <3>1, ResolvedFlow
 <2>5. s0 = Renamed(t[b][k - 1].alias, ThisStmt) BY <1>2, <1>5, <2>4
 <2> HIDE DEF s0
 <2>6. rewritten'[b] = Append(rewritten[b], s0) BY <1>1, <1>8, <1>9
 <2> QED BY <2>3, <2>5, <2>6 DEF c0
<1>12. \A c \in Block : c # b => rewritten'[c] = rewritten[c] BY <1>1, <1>8
<1> HIDE DEF s0
<1>13. StacksFlow(t, calls', var_stack') BY <1>1, <1>4, <1>5, <1>10 DEF Agrees, StacksFlow
<1>14. AliasesFlow(t, calls', alias_map') BY <1>1, <1>4, <1>5, <1>10 DEF Agrees, AliasesFlow
<1>15. CallsFlow(t, calls', rewritten') /\ CodeFlow(t, calls', roots', rewritten')
 <2>1. \A v \in promotable : Occurrences(Frame.pushed, v) =
          Occurrences(Frame.pushed, v) + (IF Stores(blocks[b][k], v) THEN 1 ELSE 0)
  <3>1. Frame.pushed \in Seq(promotable) BY <1>2, FrameFacts DEF CallRecord
  <3>2. \A v \in promotable : Occurrences(Frame.pushed, v) \in Nat BY <3>1, OccurrencesOf
  <3>3. \A v \in promotable : ~Stores(blocks[b][k], v) BY <1>2, <1>7 DEF b, k
  <3> QED BY <3>2, <3>3
 <2>2. CallsFlow(t, calls, rewritten) /\ CodeFlow(t, calls, roots, rewritten) BY DEF Agrees
 <2>3. b = calls[Len(calls)].block /\ k = calls[Len(calls)].at /\ k \in DOMAIN blocks[b] BY <1>2 DEF b, k
 <2>4. Live(calls) => rewritten'[b] = t[b][k].code BY <1>10, <1>11
 <2>5. CallsFlow(t, calls', rewritten') /\ CodeFlow(t, calls', roots, rewritten')
   BY <1>2, <1>3, <1>4, <1>12, <2>1, <2>2, <2>3, <2>4, CallsMove
 <2> QED BY <1>1, <2>5
<1>16. EdgesFlow(t, phis') BY <1>1 DEF Agrees
<1> QED BY <1>13, <1>14, <1>15, <1>16 DEF Agrees
(* The phis of the successors learn the value at the end of the block. *)
LEMMA FillFlows ==
  ASSUME DomTree, RenameInv, FillSuccessors, NEW t, Traced(t, phis),
         Agrees(t, calls, roots, var_stack, alias_map, phis, rewritten)
  PROVE  /\ Agrees(t, calls', roots', var_stack', alias_map', phis', rewritten')
         /\ FilledFrom(phis, phis', Frame.block)
<1> DEFINE b == Frame.block
<1>1. /\ calls # <<>> /\ Frame.at = Len(blocks[b]) + 1
      /\ calls' = [calls EXCEPT ![Len(calls)].at = @ + 1]
      /\ roots' = roots /\ var_stack' = var_stack /\ alias_map' = alias_map /\ rewritten' = rewritten BY DEF FillSuccessors
<1>2. Fixed /\ Nested(calls, roots) BY DEF RenameInv
<1>3. Dealt(calls, calls', Frame.pushed, Frame.added) BY <1>1, ActionDealt
<1>4. PICK n \in Nat \ {0} :
        /\ n = Len(calls) /\ n = Len(calls') /\ DOMAIN calls = 1 .. n /\ DOMAIN calls' = 1 .. n
        /\ \A i \in 1 .. n : calls[i].at \in Nat /\ calls[i].block \in Block /\ calls'[i].block = calls[i].block
        /\ \A i \in 1 .. n - 1 : calls'[i] = calls[i]
        /\ calls'[n].at = calls[n].at + 1 /\ calls'[n].pushed = Frame.pushed
        /\ (Live(calls') <=> Live(calls)) BY <1>2, <1>3, DealtFacts
<1>5. n \in 1 .. n /\ Frame = calls[n] /\ b \in Block BY <1>4 DEF Frame
<1>6. Len(blocks[b]) \in Nat BY <1>2, <1>5, CodeFacts
<1>7. Here(t, calls[n]) = Out(t, b) /\ Here(t, calls'[n]) = Out(t, b)
 <2>1. Pos(calls[n]) = Len(blocks[b]) BY <1>1, <1>5, <1>6 DEF Pos
 <2>2. calls'[n].block = b /\ calls'[n].at = Len(blocks[b]) + 2 BY <1>1, <1>4, <1>5, <1>6
 <2>3. Pos(calls'[n]) = Len(blocks[b]) BY <1>6, <2>2 DEF Pos
 <2> QED BY <1>5, <2>1, <2>2, <2>3 DEF Here, Out
<1>8. FilledFrom(phis, phis', b) BY <1>5, PhisFilled
<1> HIDE DEF b
<1>9. StacksFlow(t, calls', var_stack') /\ AliasesFlow(t, calls', alias_map')
  BY <1>1, <1>4, <1>7 DEF Agrees, StacksFlow, AliasesFlow
<1>10. CallsFlow(t, calls', rewritten')
 <2> SUFFICES ASSUME Live(calls'), NEW i \in 1 .. n PROVE CallFlow(t, calls'[i], rewritten) BY <1>1, <1>4 DEF CallsFlow
 <2>1. CallFlow(t, calls[i], rewritten) BY <1>4 DEF Agrees, CallsFlow
 <2>2. CASE i = n BY <1>4, <1>5, <1>7, <2>1, <2>2 DEF CallFlow
 <2>3. CASE i # n BY <1>4, <2>1, <2>3
 <2> QED BY <2>2, <2>3
<1>11. CodeFlow(t, calls', roots', rewritten')
 <2> SUFFICES ASSUME NEW c \in Reachable(succs), Reached(calls', roots, c, Len(blocks[c]) + 1)
              PROVE  rewritten[c] = Out(t, c).code BY <1>1 DEF CodeFlow
 <2>1. c \in Block BY DEF DomTree
 <2>2. Len(blocks[c]) \in Nat BY <1>2, <2>1, CodeFacts
 <2>3. Moved(calls, calls') BY <1>3 DEF Dealt
 <2>4. Reached(calls, roots, c, Len(blocks[c]) + 1) \/ (c = b /\ Len(blocks[c]) + 1 = calls[n].at + 1)
   BY <1>2, <1>4, <1>5, <2>1, <2>2, <2>3, MovedReached DEF b
 <2>5. ~(c = b /\ Len(blocks[c]) + 1 = calls[n].at + 1) BY <1>1, <1>5, <2>2 DEF b
 <2> QED BY <2>4, <2>5 DEF Agrees, CodeFlow
<1>12. EdgesFlow(t, phis')
 <2> SUFFICES ASSUME NEW y \in Block, NEW i \in DOMAIN phis'[y] PROVE EdgeFlow(t, phis'[y][i]) BY DEF EdgesFlow
 <2> DEFINE old == phis[y][i]
            new == phis'[y][i]
 <2>1. /\ i \in DOMAIN phis[y] /\ old.var \in promotable /\ new.var = old.var
       /\ Followed(old.incomings, new.incomings, b, CurrentValue(old.var), Edges(b, y)) BY <1>8 DEF FilledFrom
 <2>2. EdgeFlow(t, old) BY <2>1 DEF Agrees, EdgesFlow
 <2>3. b \in Reachable(succs) => CurrentValue(old.var) = Value(Out(t, b), old.var)
  <3> SUFFICES ASSUME b \in Reachable(succs) PROVE CurrentValue(old.var) = Value(Out(t, b), old.var) OBVIOUS
  <3>1. Live(calls) BY <1>1, <1>2, <1>4, <1>5, ReachableLive DEF b
  <3>2. StacksFlow(t, calls, var_stack) BY DEF Agrees
  <3>3. CurrentValue(old.var) = Value(Here(t, Frame), old.var) BY <2>1, <3>1, <3>2, CurrentFlow
  <3> QED BY <1>5, <1>7, <3>3
 <2> HIDE DEF old, new
 <2>4. ASSUME NEW k \in DOMAIN new.incomings, new.incomings[k].label \in Reachable(succs)
       PROVE  new.incomings[k].value = Value(Out(t, new.incomings[k].label), new.var)
  <3> DEFINE e == Edges(b, y)
             l == old.incomings
  <3>1. /\ Len(l) \in Nat /\ DOMAIN l = 1 .. Len(l) /\ DOMAIN new.incomings = 1 .. Len(l) + e
        /\ \A j \in 1 .. Len(l) : new.incomings[j] = l[j]
        /\ \A j \in Len(l) + 1 .. Len(l) + e :
             new.incomings[j].label = b /\ new.incomings[j].value = CurrentValue(old.var) BY <2>1 DEF Followed
  <3>2. CASE k \in 1 .. Len(l) BY <2>1, <2>2, <2>4, <3>1, <3>2 DEF EdgeFlow
  <3>3. CASE k \notin 1 .. Len(l)
   <4>1. e \in Nat BY <1>5, EdgesCounted DEF b
   <4> HIDE DEF e, l
   <4>2. k \in Len(l) + 1 .. Len(l) + e BY <2>4, <3>1, <3>3, <4>1
   <4> QED BY <2>1, <2>3, <2>4, <3>1, <4>2
  <3> QED BY <3>2, <3>3
 <2>5. EdgeFlow(t, new) BY <2>4 DEF EdgeFlow
 <2> QED BY <2>5 DEF new
<1> QED BY <1>8, <1>9, <1>10, <1>11, <1>12 DEF Agrees, b

(* A block that is entered starts where the flow does. *)
LEMMA NotWritten == ASSUME DomTree, RenameInv, NEW c \in Block, Waits(calls, roots, c) PROVE rewritten[c] = <<>>
<1>1. RewrittenFrom(calls, roots, rewritten) BY DEF RenameInv
<1>2. Pending(calls, roots, c)
 <2>1. TreeDominates(idom, c, c) BY AncestorRule DEF DomTree
 <2> QED BY <2>1 DEF Pending
<1>3. DOMAIN rewritten[c] = {} BY <1>1, <1>2 DEF RewrittenFrom, Reached
<1>4. PICK S : rewritten \in [Block -> Seq(S)] BY DEF RenameInv, RewrittenTyped
<1>5. PICK l \in Seq(S) : l = rewritten[c] BY <1>4
<1>6. l = <<>>
 <2>1. DOMAIN l = 1 .. Len(l) /\ Len(l) \in Nat OBVIOUS
 <2>2. 1 \notin DOMAIN l BY <1>3, <1>5
 <2>3. Len(l) = 0 BY <2>1, <2>2
 <2> QED BY <2>3
<1> QED BY <1>5, <1>6

StacksAbove(t, c, st) == \A v \in promotable : st[v] = Above(t, c).stacks[v]

LEMMA EnteredFlow ==
  ASSUME DomTree, RenameInv, NEW t, Traced(t, phis), NEW c \in Block, NEW st,
         StacksAbove(t, c, st), rewritten[c] = <<>>,
         NEW f, f.block = c, f.at = 1, f.pushed = PhiVars(c)
  PROVE  /\ Here(t, f) = t[c][0]
         /\ \A v \in promotable : Pushed(st, c)[v] = t[c][0].stacks[v]
         /\ t[c][0].alias = Above(t, c).alias
         /\ CallFlow(t, f, rewritten)
         /\ Len(blocks[c]) \in Nat /\ (Len(blocks[c]) = 0 => rewritten[c] = Out(t, c).code)
<1>1. Fixed /\ PhisDistinct BY DEF RenameInv
<1>2. Len(blocks[c]) \in Nat BY <1>1, CodeFacts
<1>3. Here(t, f) = t[c][0]
 <2>1. CASE Len(blocks[c]) = 0 BY <2>1 DEF Here, Pos
 <2>2. CASE Len(blocks[c]) # 0
  <3>1. f.at <= Len(blocks[f.block]) /\ f.at - 1 = 0 BY <1>2, <2>2
  <3> QED BY <3>1 DEF Here, Pos
 <2> QED BY <2>1, <2>2
<1>4. Begins(t[c][0], Above(t, c), phis, c) BY DEF Traced
<1>5. \A v : HasPhi(c, v) <=> HasPhiIn(phis, c, v) BY DEF HasPhi, HasPhiIn
<1>6. Above(t, c) \in Flow BY <1>1, FlowTyped
<1>7. ASSUME NEW v \in promotable
      PROVE  /\ Pushed(st, c)[v] = t[c][0].stacks[v]
             /\ Len(t[c][0].stacks[v]) = Len(Above(t, c).stacks[v]) + Occurrences(PhiVars(c), v)
 <2>1. Above(t, c).stacks[v] \in Seq(Operand) /\ Len(Above(t, c).stacks[v]) \in Nat
  <3>1. Above(t, c).stacks[v] \in Seq(Operand) BY <1>6 DEF Flow
  <3> QED BY <3>1
 <2> DEFINE o == Local(phis[c][PhiOf(c, v)].dst)
            l == Append(st[v], o)
 <2>2. Pushed(st, c)[v] = IF HasPhi(c, v) THEN l ELSE st[v] BY DEF Pushed
 <2>3. CASE HasPhi(c, v)
  <3>1. PICK i \in DOMAIN phis[c] : phis[c][i].var = v BY <2>3 DEF HasPhi
  <3>2. PhiOf(c, v) = i BY <1>1, <3>1 DEF PhisDistinct, PhiOf
  <3>3. t[c][0].stacks[v] = Append(Above(t, c).stacks[v], Local(phis[c][i].dst)) BY <1>4, <3>1 DEF Begins
  <3>4. l = t[c][0].stacks[v] BY <3>2, <3>3 DEF StacksAbove
  <3>5. Len(t[c][0].stacks[v]) = Len(Above(t, c).stacks[v]) + 1 BY <2>1, <3>3
  <3> HIDE DEF l
  <3>6. Occurrences(PhiVars(c), v) = 1 BY <1>1, <2>3, PhiOccurrences
  <3> QED BY <2>2, <2>3, <3>4, <3>5, <3>6
 <2>4. CASE ~HasPhi(c, v)
  <3>1. t[c][0].stacks[v] = Above(t, c).stacks[v] BY <1>4, <1>5, <2>4 DEF Begins
  <3>2. Occurrences(PhiVars(c), v) = 0 BY <1>1, <2>4, PhiOccurrences
  <3> HIDE DEF l
  <3> QED BY <2>1, <2>2, <2>4, <3>1, <3>2 DEF StacksAbove
 <2> QED BY <2>3, <2>4
<1>8. t[c][0].alias = Above(t, c).alias /\ t[c][0].code = <<>> BY <1>4 DEF Begins
<1>9. CallFlow(t, f, rewritten) BY <1>3, <1>7, <1>8 DEF CallFlow
<1>10. Len(blocks[c]) = 0 => rewritten[c] = Out(t, c).code BY <1>8 DEF Out
<1> QED BY <1>2, <1>3, <1>7, <1>8, <1>9, <1>10
(* A call that starts agrees with the flow, if what it finds does. *)
Found(t, c, st, al) ==
  /\ StacksAbove(t, c, st)
  /\ \A x \in Id : /\ x \in DOMAIN al => Above(t, c).alias[x] = al[x]
                   /\ x \notin DOMAIN al => Above(t, c).alias[x] = Local(x)

LEMMA EnterFlows ==
  ASSUME DomTree, RenameInv, NEW t, Traced(t, phis),
         NEW st0, NEW al0, Agrees(t, calls, roots, st0, al0, phis, rewritten),
         NEW c \in Block, Waits(calls, roots, c), NEW f, f.block = c, f.at = 1, f.pushed = PhiVars(c),
         NEW cs2, NEW rs2, Nested(cs2, rs2), Joined(calls, cs2, f), OneMore(calls, roots, cs2, rs2, c),
         NEW st, NEW al, Live(cs2) => Found(t, c, st, al)
  PROVE  Agrees(t, cs2, rs2, Pushed(st, c), al, phis, rewritten)
<1>1. PICK n \in Nat :
        /\ n = Len(calls) /\ DOMAIN calls = 1 .. n /\ Len(cs2) = n + 1 /\ DOMAIN cs2 = 1 .. n + 1
        /\ \A i \in 1 .. n : /\ cs2[i].block = calls[i].block /\ cs2[i].at = calls[i].at
                             /\ cs2[i].pushed = calls[i].pushed /\ cs2[i].added = calls[i].added
        /\ cs2[n + 1] = f BY DEF Joined
<1>2. rewritten[c] = <<>> BY NotWritten
<1>3. Live(cs2) =>
        /\ Here(t, f) = t[c][0]
        /\ \A v \in promotable : Pushed(st, c)[v] = t[c][0].stacks[v]
        /\ t[c][0].alias = Above(t, c).alias
        /\ CallFlow(t, f, rewritten)
        /\ Len(blocks[c]) \in Nat /\ (Len(blocks[c]) = 0 => rewritten[c] = Out(t, c).code)
 <2> SUFFICES ASSUME Live(cs2)
              PROVE  /\ Here(t, f) = t[c][0]
                     /\ \A v \in promotable : Pushed(st, c)[v] = t[c][0].stacks[v]
                     /\ t[c][0].alias = Above(t, c).alias
                     /\ CallFlow(t, f, rewritten)
                     /\ Len(blocks[c]) \in Nat /\ (Len(blocks[c]) = 0 => rewritten[c] = Out(t, c).code) OBVIOUS
 <2>1. StacksAbove(t, c, st) BY DEF Found
 <2>2. f.block = c /\ f.at = 1 /\ f.pushed = PhiVars(c) OBVIOUS
 <2> QED BY <1>2, <2>1, <2>2, EnteredFlow
<1>4. StacksFlow(t, cs2, Pushed(st, c)) BY <1>1, <1>3 DEF StacksFlow
<1>5. AliasesFlow(t, cs2, al) BY <1>1, <1>3 DEF AliasesFlow, Found
<1>6. CallsFlow(t, cs2, rewritten)
 <2> SUFFICES ASSUME Live(cs2), NEW i \in 1 .. n + 1 PROVE CallFlow(t, cs2[i], rewritten) BY <1>1 DEF CallsFlow
 <2>1. CASE i = n + 1 BY <1>1, <1>3, <2>1
 <2>2. CASE i # n + 1
  <3>1. i \in 1 .. n /\ 1 \in 1 .. n BY <2>2
  <3>2. Live(calls)
   <4>1. calls # <<>> BY <1>1, <3>1
   <4> QED BY <1>1, <3>1, <4>1 DEF Live
  <3>3. CallFlow(t, calls[i], rewritten) BY <1>1, <3>1, <3>2 DEF Agrees, CallsFlow
  <3> QED BY Zenon, <1>1, <3>1, <3>3 DEF CallFlow, Here, Pos
 <2> QED BY <2>1, <2>2
<1>7. CodeFlow(t, cs2, rs2, rewritten)
 <2> SUFFICES ASSUME NEW b \in Reachable(succs), Reached(cs2, rs2, b, Len(blocks[b]) + 1)
              PROVE  rewritten[b] = Out(t, b).code BY DEF CodeFlow
 <2>1. b \in Block BY DEF DomTree
 <2>2. Len(blocks[b]) \in Nat /\ Len(blocks[b]) + 1 \in Nat
  <3>1. Fixed BY DEF RenameInv
  <3>2. Len(blocks[b]) \in Nat BY <2>1, <3>1, CodeFacts
  <3> QED BY <3>2
 <2>3. Reached(calls, roots, b, Len(blocks[b]) + 1) \/ (b = c /\ Len(blocks[b]) + 1 <= 1) BY <2>1, <2>2 DEF OneMore
 <2>4. CASE Reached(calls, roots, b, Len(blocks[b]) + 1) BY <2>4 DEF Agrees, CodeFlow
 <2>5. CASE b = c /\ Len(blocks[b]) + 1 <= 1
  <3>1. Len(blocks[c]) = 0 BY <2>2, <2>5
  <3>2. cs2 # <<>> /\ cs2[Len(cs2)].block = c BY <1>1
  <3>3. Live(cs2) BY <2>5, <3>2, ReachableLive
  <3> QED BY <1>3, <2>5, <3>1, <3>3
 <2> QED BY <2>3, <2>4, <2>5
<1>8. EdgesFlow(t, phis) BY DEF Agrees
<1> QED BY <1>4, <1>5, <1>6, <1>7, <1>8 DEF Agrees
LEMMA RootFlows ==
  ASSUME DomTree, RenameInv, RenameRoot, NEW t, Traced(t, phis),
         Agrees(t, calls, roots, var_stack, alias_map, phis, rewritten)
  PROVE  Agrees(t, calls', roots', var_stack', alias_map', phis', rewritten')
<1> DEFINE c == Least(roots)
           f == Called(c)
           st == [v \in promotable |-> <<>>]
<1>1. /\ calls = <<>> /\ roots # {}
      /\ roots' = roots \ {c} /\ calls' = <<f>>
      /\ var_stack' = Pushed(st, c) /\ alias_map' = <<>>
      /\ phis' = phis /\ rewritten' = rewritten BY DEF RenameRoot
<1>2. Fixed /\ Nested(calls, roots) BY DEF RenameInv
<1>3. c \in roots /\ c \in Block
 <2>1. roots \subseteq Block BY <1>2 DEF Nested, Roots, DomTree, IsTree
 <2>2. c \in roots BY <1>1, <2>1, LeastBlock
 <2> QED BY <2>1, <2>2
<1> HIDE DEF c
<1>4. f \in CallRecord /\ f.block = c /\ f.at = 1 /\ f.children = Children(idom, c) /\ f.pushed = PhiVars(c)
  BY <1>3, CalledFacts
<1> HIDE DEF f
<1>5. Nested(calls', roots') /\ OneMore(calls, roots, calls', roots', c)
 <2>1. /\ Nested(<<f>>, roots \ {c})
       /\ \A b \in Block : \A k \in Nat :
            Reached(<<f>>, roots \ {c}, b, k) <=> Reached(<<>>, roots, b, k) \/ (b = c /\ k <= 1)
   BY <1>1, <1>2, <1>3, <1>4, RootEntered
 <2> QED BY <1>1, <2>1 DEF OneMore
<1>6. Joined(calls, calls', f)
 <2>1. Len(<<>>) = 0 /\ DOMAIN <<>> = 1 .. 0 OBVIOUS
 <2>2. Len(calls') = 0 + 1 /\ DOMAIN calls' = 1 .. 0 + 1 /\ calls'[0 + 1] = f BY <1>1
 <2> QED BY <1>1, <2>1, <2>2 DEF Joined
<1>7. Waits(calls, roots, c) BY <1>3 DEF Waits
<1>8. Live(calls') => Found(t, c, st, alias_map')
 <2> SUFFICES ASSUME Live(calls') PROVE Found(t, c, st, alias_map') OBVIOUS
 <2>1. c = Entry BY <1>1, <1>4 DEF Live
 <2>2. Above(t, c) = AtRoot BY <2>1 DEF Above, DomTree
 <2>3. DOMAIN alias_map' = {} BY <1>1
 <2> QED BY <2>2, <2>3 DEF Found, StacksAbove, AtRoot
<1> HIDE DEF st
<1>9. Agrees(t, calls', roots', Pushed(st, c), alias_map', phis, rewritten) BY <1>3, <1>4, <1>5, <1>6, <1>7, <1>8, EnterFlows
<1> QED BY <1>1, <1>9

LEMMA ChildFlows ==
  ASSUME DomTree, RenameInv, RenameChild, NEW t, Traced(t, phis),
         Agrees(t, calls, roots, var_stack, alias_map, phis, rewritten)
  PROVE  Agrees(t, calls', roots', var_stack', alias_map', phis', rewritten')
<1> DEFINE c == Least(Frame.children)
           f == Called(c)
<1>1. /\ calls # <<>> /\ Frame.at = Len(blocks[Frame.block]) + 2 /\ Frame.children # {}
      /\ calls' = Append(Without(calls, Len(calls), c), f)
      /\ var_stack' = Pushed(var_stack, c)
      /\ phis' = phis /\ rewritten' = rewritten /\ roots' = roots /\ alias_map' = alias_map BY DEF RenameChild, Filled, Without
<1>2. Fixed /\ Nested(calls, roots) BY DEF RenameInv
<1>3. PICK n \in Nat \ {0} :
        /\ n = Len(calls) /\ DOMAIN calls = 1 .. n /\ Frame = calls[n] /\ n \in 1 .. n
        /\ Frame \in CallRecord /\ Frame.block \in Block /\ Frame.at \in Nat BY <1>1, FrameFacts
<1>4. c \in Frame.children /\ c \in Block
 <2>1. Frame.children \subseteq Block BY <1>3 DEF CallRecord
 <2>2. c \in Frame.children BY <1>1, <2>1, LeastBlock
 <2> QED BY <2>1, <2>2
<1> HIDE DEF c
<1>5. f \in CallRecord /\ f.block = c /\ f.at = 1 /\ f.children = Children(idom, c) /\ f.pushed = PhiVars(c)
  BY <1>4, CalledFacts
<1> HIDE DEF f
<1>6. calls[Len(calls)].at = End(calls[Len(calls)].block) /\ c \in calls[Len(calls)].children BY <1>1, <1>3, <1>4 DEF End
<1>7. Nested(calls', roots') /\ Enters(calls, roots, calls', roots', c) BY <1>1, <1>2, <1>5, <1>6, ChildNested
<1>8. OneMore(calls, roots, calls', roots', c) /\ Waits(calls, roots, c) BY <1>2, <1>7, EnteredReached DEF OneMore, Enters
<1>9. Joined(calls, calls', f)
 <2> DEFINE w == Without(calls, n, c)
 <2>1. /\ w \in Seq(CallRecord) /\ DOMAIN w = DOMAIN calls /\ Len(w) = Len(calls)
       /\ \A i \in DOMAIN calls : i # n => w[i] = calls[i]
       /\ w[n].block = calls[n].block /\ w[n].at = calls[n].at
       /\ w[n].pushed = calls[n].pushed /\ w[n].added = calls[n].added
  <3>1. calls \in Seq(CallRecord) /\ n \in DOMAIN calls BY <1>2, <1>3 DEF Nested
  <3> QED BY <3>1, WithoutFacts
 <2>2. calls' = Append(w, f) BY <1>1, <1>3
 <2> HIDE DEF w
 <2>3. /\ Len(calls') = n + 1 /\ DOMAIN calls' = 1 .. n + 1 /\ calls'[n + 1] = f
       /\ \A i \in 1 .. n : calls'[i] = w[i] BY <1>3, <1>5, <2>1, <2>2, AppendFacts
 <2>4. \A i \in 1 .. n : /\ calls'[i].block = calls[i].block /\ calls'[i].at = calls[i].at
                         /\ calls'[i].pushed = calls[i].pushed /\ calls'[i].added = calls[i].added BY <1>3, <2>1, <2>3
 <2> QED BY <1>3, <2>3, <2>4 DEF Joined
<1>10. Live(calls') => Found(t, c, var_stack, alias_map')
 <2> SUFFICES ASSUME Live(calls') PROVE Found(t, c, var_stack, alias_map') OBVIOUS
 <2>1. Live(calls)
  <3>1. calls'[1].block = calls[1].block BY <1>3, <1>9 DEF Joined
  <3> QED BY <1>1, <3>1 DEF Live
 <2>2. idom[c] = Frame.block /\ idom[c] # None
  <3>1. c \in Children(idom, Frame.block) BY <1>2, <1>3, <1>4 DEF Nested
  <3> QED BY <1>3, <3>1, BlockFacts DEF Children
 <2>3. Here(t, calls[n]) = Out(t, Frame.block)
  <3>1. Len(blocks[Frame.block]) \in Nat BY <1>2, <1>3, CodeFacts
  <3>2. Pos(calls[n]) = Len(blocks[Frame.block]) BY <1>1, <1>3, <3>1 DEF Pos
  <3> QED BY <1>3, <3>2 DEF Here, Out
 <2>4. Above(t, c) = Here(t, calls[n]) BY <2>2, <2>3 DEF Above
 <2> QED BY <1>1, <1>3, <2>1, <2>4 DEF Found, StacksAbove, Agrees, StacksFlow, AliasesFlow
<1>11. Agrees(t, calls', roots', Pushed(var_stack, c), alias_map', phis, rewritten)
  BY <1>4, <1>5, <1>7, <1>8, <1>9, <1>10, EnterFlows
<1> QED BY <1>1, <1>11
Grown(s, l) ==
  /\ Len(s) \in Nat /\ Len(l) \in Nat /\ Len(s) <= Len(l)
  /\ \A i \in 1 .. Len(s) : l[i] = s[i]

LEMMA PrefixAppended ==
  ASSUME NEW s, NEW l \in Seq(Operand), NEW o \in Operand, Grown(s, l) PROVE Grown(s, Append(l, o))
<1> DEFINE l2 == Append(l, o)
<1>1. Len(l2) = Len(l) + 1 /\ \A i \in 1 .. Len(l) : l2[i] = l[i] BY AppendFacts
<1> HIDE DEF l2
<1>2. \A i \in 1 .. Len(s) : i \in 1 .. Len(l) BY DEF Grown
<1>3. Len(s) \in Nat /\ Len(l2) \in Nat /\ Len(s) <= Len(l2) BY <1>1 DEF Grown
<1>4. \A i \in 1 .. Len(s) : l2[i] = s[i] BY <1>1, <1>2 DEF Grown
<1>5. Grown(s, l2) BY <1>3, <1>4 DEF Grown
<1> QED BY <1>5 DEF l2

(* A block only adds to what is on the stacks. *)
LEMMA StackPrefix ==
  ASSUME DomTree, Fixed, NEW t, NEW ph, Traced(t, ph), \A b \in Block : \A i \in DOMAIN ph[b] : ph[b][i].dst \in Id,
         NEW b \in Block, NEW v \in promotable
  PROVE  Grown(Above(t, b).stacks[v], Out(t, b).stacks[v])
<1> DEFINE s == Above(t, b).stacks[v]
           P(j) == j <= Len(blocks[b]) => Grown(s, t[b][j].stacks[v])
<1>1. Len(blocks[b]) \in Nat /\ DOMAIN blocks[b] = 1 .. Len(blocks[b])
      /\ \A j \in DOMAIN blocks[b] : blocks[b][j] \in Stmt BY CodeFacts
<1>2. s \in Seq(Operand) /\ Len(s) \in Nat
 <2>1. Above(t, b) \in Flow BY FlowTyped
 <2>2. s \in Seq(Operand) BY <2>1 DEF Flow
 <2> QED BY <2>2
<1>3. \A j \in 0 .. Len(blocks[b]) : t[b][j] \in Flow /\ t[b][j].stacks[v] \in Seq(Operand) BY FlowTyped DEF Flow
<1>4. Grown(s, s) BY <1>2 DEF Grown
<1> HIDE DEF s
<1>5. P(0)
 <2>1. Begins(t[b][0], Above(t, b), ph, b) BY DEF Traced
 <2>2. CASE HasPhiIn(ph, b, v)
  <3>1. PICK i \in DOMAIN ph[b] : ph[b][i].var = v BY <2>2 DEF HasPhiIn
  <3>2. t[b][0].stacks[v] = Append(s, Local(ph[b][i].dst)) BY <2>1, <3>1 DEF Begins, s
  <3>3. Local(ph[b][i].dst) \in Operand BY DEF Local, Operand, Id
  <3> QED BY <1>2, <1>4, <3>2, <3>3, PrefixAppended
 <2>3. CASE ~HasPhiIn(ph, b, v) BY <1>4, <2>1, <2>3 DEF Begins, s
 <2> QED BY <2>2, <2>3
<1>6. ASSUME NEW j \in Nat, P(j) PROVE P(j + 1)
 <2> SUFFICES ASSUME j + 1 <= Len(blocks[b]) PROVE Grown(s, t[b][j + 1].stacks[v]) OBVIOUS
 <2>1. /\ j + 1 \in 1 .. Len(blocks[b]) /\ j \in 0 .. Len(blocks[b])
       /\ j <= Len(blocks[b]) /\ (j + 1) - 1 = j BY <1>1
 <2>2. PICK a, a2 : a = t[b][j] /\ a2 = t[b][j + 1] OBVIOUS
 <2>3. PICK st \in Stmt : st = blocks[b][j + 1] BY <1>1, <2>1
 <2>4. a2 = Take(a, st) BY <2>1, <2>2, <2>3 DEF Traced
 <2>5. a2.stacks[v] = IF Stores(st, v) THEN Append(a.stacks[v], Ren(a.alias, st.src)) ELSE a.stacks[v] BY <2>4, TakeFacts
 <2>6. Grown(s, a.stacks[v]) /\ a \in Flow /\ a.stacks[v] \in Seq(Operand) BY <1>3, <1>6, <2>1, <2>2
 <2>7. CASE Stores(st, v)
  <3>1. Ren(a.alias, st.src) \in Operand
   <4>1. st.src \in Operand BY <2>7, StmtFacts DEF Stores
   <4>2. a.alias \in [Id -> Operand] BY <2>6 DEF Flow
   <4> QED BY <4>1, <4>2 DEF Ren
  <3>2. Grown(s, Append(a.stacks[v], Ren(a.alias, st.src))) BY <2>6, <3>1, PrefixAppended
  <3> QED BY <2>2, <2>5, <2>7, <3>2
 <2>8. CASE ~Stores(st, v) BY <2>2, <2>5, <2>6, <2>8
 <2> QED BY <2>7, <2>8
<1> HIDE DEF P
<1>7. \A j \in Nat : P(j)
 <2> DEFINE S == {j \in Nat : P(j)}
 <2>1. 0 \in S /\ \A j \in Nat : j \in S => j + 1 \in S BY <1>5, <1>6
 <2> HIDE DEF S
 <2>2. Nat \subseteq S BY <2>1, SetInduction
 <2> QED BY <2>2 DEF S
<1> QED BY <1>1, <1>7 DEF P, Out, s
LEMMA LeaveFlows ==
  ASSUME DomTree, RenameInv, LeaveBlock, NEW t, Traced(t, phis),
         \A b \in Block : \A i \in DOMAIN phis[b] : phis[b][i].dst \in Id,
         Agrees(t, calls, roots, var_stack, alias_map, phis, rewritten)
  PROVE  Agrees(t, calls', roots', var_stack', alias_map', phis', rewritten')
<1>1. /\ calls # <<>> /\ Frame.at = Len(blocks[Frame.block]) + 2 /\ Frame.children = {}
      /\ alias_map' = [j \in DOMAIN alias_map \ Frame.added |-> alias_map[j]]
      /\ var_stack' = Popped /\ calls' = Front(calls)
      /\ phis' = phis /\ rewritten' = rewritten /\ roots' = roots BY DEF LeaveBlock, Filled
<1>2. Fixed /\ Nested(calls, roots) /\ AliasesKnown(calls, alias_map, phis, rewritten) BY DEF RenameInv
<1>3. PICK n \in Nat :
        /\ Len(calls) = n + 1 /\ DOMAIN calls = 1 .. n + 1
        /\ Len(calls') = n /\ DOMAIN calls' = 1 .. n /\ \A i \in 1 .. n : calls'[i] = calls[i]
        /\ (Live(calls') => Live(calls)) BY <1>1, <1>2, LeftFacts
<1> DEFINE b == Frame.block
<1>4. /\ Frame = calls[n + 1] /\ n + 1 \in 1 .. n + 1
      /\ b \in Block /\ Frame.at \in Nat BY <1>1, <1>3, FrameFacts DEF Frame
<1>5. Len(blocks[b]) \in Nat /\ DOMAIN blocks[b] = 1 .. Len(blocks[b])
      /\ \A j \in DOMAIN blocks[b] : blocks[b][j] \in Stmt BY <1>2, <1>4, CodeFacts
<1>6. Here(t, Frame) = Out(t, b)
 <2>1. Pos(Frame) = Len(blocks[b]) BY <1>1, <1>5 DEF Pos
 <2> QED BY <2>1 DEF Here, Out
<1> HIDE DEF b
<1>7. Live(calls') =>
        /\ n \in 1 .. n + 1 /\ n \in 1 .. n /\ calls'[Len(calls')] = calls[n]
        /\ idom[b] = calls[n].block /\ Here(t, calls[n]) = Above(t, b)
 <2> SUFFICES ASSUME Live(calls')
              PROVE  /\ n \in 1 .. n + 1 /\ n \in 1 .. n /\ calls'[Len(calls')] = calls[n]
                     /\ idom[b] = calls[n].block /\ Here(t, calls[n]) = Above(t, b) OBVIOUS
 <2>1. n # 0
  <3>1. calls' # <<>> BY DEF Live
  <3>2. calls' \in Seq(CallRecord) BY <1>1, <1>2, LeftFacts
  <3> QED BY <1>3, <3>1, <3>2
 <2>2. n \in 1 .. n + 1 /\ n \in 1 .. n /\ n + 1 \in 1 .. n + 1 BY <2>1
 <2>3. calls[n].at = End(calls[n].block) /\ idom[calls[n + 1].block] = calls[n].block BY <1>2, <1>3, <2>2 DEF Nested
 <2>4. PICK p \in Block : p = calls[n].block BY <1>2, <1>3, <2>2, CallFacts DEF Nested
 <2>5. Len(blocks[p]) \in Nat /\ End(p) = Len(blocks[p]) + 2 BY <1>2, CodeFacts
 <2>6. Pos(calls[n]) = Len(blocks[p]) BY <2>3, <2>4, <2>5 DEF Pos
 <2>7. idom[b] = p /\ p # None BY <1>4, <2>3, <2>4, BlockFacts DEF b
 <2>8. Here(t, calls[n]) = Above(t, b) BY <2>4, <2>6, <2>7 DEF Here, Above, Out
 <2> QED BY <1>3, <2>2, <2>4, <2>7, <2>8
<1>8. StacksFlow(t, calls', var_stack')
 <2> SUFFICES ASSUME Live(calls'), NEW v \in promotable
              PROVE  var_stack'[v] = Above(t, b).stacks[v] BY <1>7 DEF StacksFlow
 <2> DEFINE s == Above(t, b).stacks[v]
            l == Out(t, b).stacks[v]
            d == Occurrences(Frame.pushed, v)
 <2>1. var_stack[v] = l BY <1>3, <1>4, <1>6 DEF Agrees, StacksFlow
 <2>2. Len(l) = Len(s) + d
  <3>1. CallFlow(t, Frame, rewritten) BY <1>3, <1>4 DEF Agrees, CallsFlow
  <3> QED BY <1>6, <3>1 DEF CallFlow, b
 <2>3. Grown(s, l) BY <1>2, <1>4, StackPrefix
 <2>4. s \in Seq(Operand) /\ l \in Seq(Operand)
  <3>1. Above(t, b) \in Flow /\ Out(t, b) \in Flow BY <1>2, <1>4, FlowTyped
  <3> QED BY <3>1 DEF Flow
 <2>5. d \in Nat
  <3>1. Frame.pushed \in Seq(promotable) BY <1>2, <1>3, <1>4, CallFacts DEF Nested
  <3> QED BY <3>1, OccurrencesOf
 <2>6. var_stack'[v] = SubSeq(l, 1, Len(l) - d) BY <1>1, <2>1 DEF Popped
 <2> HIDE DEF s, l, d
 <2>7. Len(l) - d = Len(s) /\ Len(s) \in Nat /\ Len(s) <= Len(l) BY <2>2, <2>3, <2>5 DEF Grown
 <2>8. SubSeq(l, 1, Len(s)) = [i \in 1 .. Len(s) |-> l[i]] BY <2>4, <2>7, SubSeqProperties
 <2>9. [i \in 1 .. Len(s) |-> l[i]] = [i \in 1 .. Len(s) |-> s[i]] BY <2>3 DEF Grown
 <2>10. s = [i \in 1 .. Len(s) |-> s[i]] BY <2>4
 <2> QED BY <2>6, <2>7, <2>8, <2>9, <2>10 DEF s
<1>9. AliasesFlow(t, calls', alias_map')
 <2> SUFFICES ASSUME Live(calls'), NEW x \in Id
              PROVE  /\ x \in DOMAIN alias_map' => Above(t, b).alias[x] = alias_map'[x]
                     /\ x \notin DOMAIN alias_map' => Above(t, b).alias[x] = Local(x) BY <1>7 DEF AliasesFlow
 <2>1. /\ x \in DOMAIN alias_map => Out(t, b).alias[x] = alias_map[x]
       /\ x \notin DOMAIN alias_map => Out(t, b).alias[x] = Local(x) BY <1>3, <1>4, <1>6 DEF Agrees, AliasesFlow
 <2>2. DOMAIN alias_map' = DOMAIN alias_map \ Frame.added
       /\ \A y \in DOMAIN alias_map' : alias_map'[y] = alias_map[y] BY <1>1
 <2>3. x \in Frame.added <=> x \in LoadedBefore(b, Len(blocks[b]) + 1)
  <3>1. Frame.added = LoadedBefore(b, Frame.at) BY <1>2, <1>3, <1>4 DEF AliasesKnown, b
  <3>2. \A j \in DOMAIN blocks[b] : j < Len(blocks[b]) + 1 /\ j < Len(blocks[b]) + 2 BY <1>5
  <3>3. Frame.at = Len(blocks[b]) + 2 BY <1>1 DEF b
  <3> QED BY <3>1, <3>2, <3>3 DEF LoadedBefore
 <2>4. x \notin Frame.added => Out(t, b).alias[x] = Above(t, b).alias[x]
  <3>1. Len(blocks[b]) \in 0 .. Len(blocks[b]) BY <1>5
  <3> QED BY <1>2, <1>4, <2>3, <3>1, AliasInherited DEF Out
 <2>5. x \in Frame.added => Above(t, b).alias[x] = Local(x)
  <3> SUFFICES ASSUME x \in Frame.added PROVE Above(t, b).alias[x] = Local(x) OBVIOUS
  <3>1. PICK j \in DOMAIN blocks[b] : PromotedLoad(blocks[b][j]) /\ x = blocks[b][j].dst BY <2>3 DEF LoadedBefore
  <3>2. x \in Defines(blocks[b][j]) BY <1>5, <3>1, StmtFacts DEF PromotedLoad
  <3>3. \A e \in Ancestors(b) : x \notin LoadedBefore(e, End(e)) BY <1>2, <1>4, <3>2, LoadedThere DEF Ancestors
  <3> QED BY <1>2, <1>4, <3>3, AliasSources
 <2> QED BY <2>1, <2>2, <2>4, <2>5
<1>10. CallsFlow(t, calls', rewritten)
 <2> SUFFICES ASSUME Live(calls'), NEW i \in 1 .. n PROVE CallFlow(t, calls[i], rewritten) BY <1>3 DEF CallsFlow
 <2>1. i \in 1 .. n + 1 OBVIOUS
 <2> QED BY <1>3, <2>1 DEF Agrees, CallsFlow
<1>11. CodeFlow(t, calls', roots', rewritten)
 <2> SUFFICES ASSUME NEW c \in Reachable(succs), Reached(calls', roots', c, Len(blocks[c]) + 1)
              PROVE  rewritten[c] = Out(t, c).code BY DEF CodeFlow
 <2>1. c \in Block BY DEF DomTree
 <2>2. Len(blocks[c]) + 1 \in Nat /\ Len(blocks[c]) + 1 <= End(c)
  <3>1. Len(blocks[c]) \in Nat /\ End(c) = Len(blocks[c]) + 2 BY <1>2, <2>1, CodeFacts
  <3> QED BY <3>1
 <2>3. calls[Len(calls)].at = End(calls[Len(calls)].block) /\ calls[Len(calls)].children = {} BY <1>1, <1>3, <1>4 DEF End
 <2>4. Reached(calls, roots, c, Len(blocks[c]) + 1) BY <1>1, <1>2, <2>1, <2>2, <2>3, CallLeft
 <2> QED BY <2>4 DEF Agrees, CodeFlow
<1>12. EdgesFlow(t, phis) BY DEF Agrees
<1> QED BY <1>1, <1>8, <1>9, <1>10, <1>11, <1>12 DEF Agrees
(* All of renaming: the phis that are placed keep their variables and results,
   so that the flow stays the one that renaming started with. *)
Placed(ph) == Closed(ph) /\ \A b \in Block : \A i \in DOMAIN ph[b] : ph[b][i].dst \in Id

LEMMA StartFlows ==
  ASSUME DomTree, PlaceInv, StartRenaming, Placed(phis)
  PROVE  \E t : Traced(t, phis') /\ Agrees(t, calls', roots', var_stack', alias_map', phis', rewritten')
<1>1. /\ phis' = phis
      /\ calls' = <<>> /\ roots' = Roots(idom) BY DEF StartRenaming, PlaceInv, renaming
<1>2. Fixed /\ PhisDistinct /\ \A b \in Block : \A i \in DOMAIN phis[b] : phis[b][i].dst \in Id BY DEF PlaceInv, Placed
<1>3. PICK t : Traced(t, phis) BY <1>2, FlowExists
<1>4. ~Live(calls') BY <1>1 DEF Live
<1>5. CodeFlow(t, calls', roots', rewritten') BY <1>1, AllPending DEF CodeFlow, DomTree
<1>6. EdgesFlow(t, phis)
 <2> SUFFICES ASSUME NEW y \in Block, NEW i \in DOMAIN phis[y] PROVE EdgeFlow(t, phis[y][i]) BY DEF EdgesFlow
 <2>1. phis[y][i].incomings = <<>> BY DEF PlaceInv
 <2>2. DOMAIN phis[y][i].incomings = {} BY <2>1
 <2> QED BY <2>2 DEF EdgeFlow
<1>7. Agrees(t, calls', roots', var_stack', alias_map', phis', rewritten')
  BY <1>1, <1>4, <1>5, <1>6 DEF Agrees, StacksFlow, AliasesFlow, CallsFlow
<1> QED BY <1>1, <1>3, <1>7

LEMMA FilledPlaced ==
  ASSUME DomTree, NEW ph, NEW ph2, NEW b0, FilledFrom(ph, ph2, b0), Placed(ph)
  PROVE  Placed(ph2) /\ \A t : Traced(t, ph) => Traced(t, ph2)
<1>1. \A b \in Block : \A v : HasPhiIn(ph2, b, v) <=> HasPhiIn(ph, b, v) BY DEF FilledFrom, HasPhiIn
<1>2. Closed(ph2)
 <2> SUFFICES ASSUME NEW v \in promotable, NEW d \in Block, HasValue(ph2, d, v), NEW y, Meets(d, y, v)
              PROVE  HasPhiIn(ph2, y, v) BY DEF Closed
 <2>1. HasValue(ph, d, v) BY <1>1 DEF HasValue
 <2>2. HasPhiIn(ph, y, v) BY <2>1 DEF Placed, Closed
 <2>3. y \in Block BY LiveInIs DEF Meets, DomTree
 <2> QED BY <1>1, <2>2, <2>3
<1>3. \A b \in Block : \A i \in DOMAIN ph2[b] : ph2[b][i].dst \in Id BY DEF FilledFrom, Placed
<1>4. ASSUME NEW t, Traced(t, ph) PROVE Traced(t, ph2)
 <2>1. \A b \in Block : Begins(t[b][0], Above(t, b), ph, b) BY <1>4 DEF Traced
 <2>2. \A b \in Block : Begins(t[b][0], Above(t, b), ph2, b) BY <1>1, <2>1 DEF Begins, FilledFrom
 <2> QED BY <1>4, <2>2 DEF Traced
<1> QED BY <1>2, <1>3, <1>4 DEF Placed

LEMMA FlowKept ==
  ASSUME DomTree, RenameInv, Placed(phis), NEW t, Traced(t, phis),
         Agrees(t, calls, roots, var_stack, alias_map, phis, rewritten),
         \/ RenameRoot \/ RenameAlloca \/ RenameStore \/ RenameLoad \/ RenameOther
         \/ FillSuccessors \/ RenameChild \/ LeaveBlock
  PROVE  /\ Placed(phis') /\ Traced(t, phis')
         /\ Agrees(t, calls', roots', var_stack', alias_map', phis', rewritten')
<1>1. CASE FillSuccessors
 <2>1. /\ Agrees(t, calls', roots', var_stack', alias_map', phis', rewritten')
       /\ FilledFrom(phis, phis', Frame.block) BY <1>1, FillFlows
 <2> QED BY <2>1, FilledPlaced
<1>2. CASE ~FillSuccessors
 <2>1. phis' = phis BY <1>2 DEF RenameRoot, RenameAlloca, RenameStore, RenameLoad, RenameOther, RenameChild, LeaveBlock
 <2>2. \A b \in Block : \A i \in DOMAIN phis[b] : phis[b][i].dst \in Id BY DEF Placed
 <2>3. Agrees(t, calls', roots', var_stack', alias_map', phis', rewritten')
   BY <1>2, <2>2, RootFlows, AllocaFlows, StoreFlows, LoadFlows, OtherFlows, ChildFlows, LeaveFlows
 <2> QED BY <2>1, <2>3
<1> QED BY <1>1, <1>2
Statics == <<succs, idom, blocks, promotable>>

LEMMA FlowSame ==
  ASSUME UNCHANGED Statics
  PROVE  /\ Flow' = Flow
         /\ \A s, st : Take(s, st)' = Take(s, st)
         /\ \A t, b : Out(t, b)' = Out(t, b) /\ Above(t, b)' = Above(t, b)
         /\ \A s, v : Value(s, v)' = Value(s, v)
         /\ \A f : Pos(f)' = Pos(f)
         /\ \A t, f : Here(t, f)' = Here(t, f)
<1>1. succs' = succs /\ idom' = idom /\ blocks' = blocks /\ promotable' = promotable BY DEF Statics
<1>2. Flow' = Flow BY <1>1 DEF Flow
<1>3. AtRoot' = AtRoot BY <1>1 DEF AtRoot
<1>4. \A t, b : Out(t, b)' = Out(t, b) BY <1>1 DEF Out
<1>5. \A t, b : Above(t, b)' = Above(t, b) BY <1>1, <1>3, <1>4 DEF Above
<1>6. \A s, v : Value(s, v)' = Value(s, v) BY DEF Value
<1>7. \A f : Pos(f)' = Pos(f) BY <1>1 DEF Pos
<1>8. \A t, f : Here(t, f)' = Here(t, f) BY <1>7 DEF Here
<1>9. \A o : IsPromoted(o)' <=> IsPromoted(o) BY <1>1 DEF IsPromoted
<1>10. \A st : (PromotedLoad(st)' <=> PromotedLoad(st)) /\ (Kept(st)' <=> Kept(st)) BY <1>1, <1>9 DEF PromotedLoad, Kept
<1>11. ASSUME NEW s, NEW st PROVE Take(s, st)' = Take(s, st) BY <1>1, <1>6, <1>10 DEF Take, Renamed
<1> QED BY <1>2, <1>4, <1>5, <1>6, <1>7, <1>8, <1>11
LEMMA PlacedBuilt == ASSUME UNCHANGED Statics, Placed(phis') PROVE Placed(phis)'
<1>1. succs' = succs /\ idom' = idom /\ blocks' = blocks /\ promotable' = promotable BY DEF Statics
<1>2. /\ \A v : DefBlocks(v)' = DefBlocks(v)
      /\ \A d, y, v : Meets(d, y, v)' <=> Meets(d, y, v) BY <1>1, StaticsKept
<1>3. Closed(phis') BY DEF Placed
<1>4. ASSUME NEW v \in promotable, NEW d \in Block, HasValue(phis, d, v)', NEW y, Meets(d, y, v)'
      PROVE  HasPhiIn(phis, y, v)'
 <2>1. HasValue(phis', d, v) BY <1>2, <1>4 DEF HasValue, HasPhiIn
 <2>2. HasPhiIn(phis', y, v) BY <1>2, <1>3, <1>4, <2>1 DEF Closed
 <2> QED BY <2>2 DEF HasPhiIn
<1>5. Closed(phis)' BY <1>1, <1>4 DEF Closed
<1> QED BY <1>5 DEF Placed

LEMMA FlowBuilt == ASSUME UNCHANGED Statics, NEW t, Traced(t, phis') PROVE Traced(t, phis)'
<1>1. succs' = succs /\ idom' = idom /\ blocks' = blocks /\ promotable' = promotable BY DEF Statics
<1>2. /\ Flow' = Flow
      /\ \A s, st : Take(s, st)' = Take(s, st)
      /\ \A b : Above(t, b)' = Above(t, b) BY FlowSame
<1>3. ASSUME NEW b \in Block
      PROVE  /\ \A j \in 0 .. Len(blocks[b]) : t[b][j] \in Flow
             /\ Begins(t[b][0], Above(t, b), phis', b)
             /\ \A j \in 1 .. Len(blocks[b]) : t[b][j] = Take(t[b][j - 1], blocks[b][j]) BY DEF Traced
<1>4. ASSUME NEW b \in Block PROVE Begins(t[b][0], Above(t, b), phis, b)'
 <2>1. Begins(t[b][0], Above(t, b), phis', b) BY <1>3
 <2>2. Above(t, b)' = Above(t, b) BY <1>2
 <2> QED BY <1>1, <2>1, <2>2 DEF Begins, HasPhiIn
<1>5. ASSUME NEW b \in Block, NEW j \in 1 .. Len(blocks[b]) PROVE t[b][j] = Take(t[b][j - 1], blocks[b][j])'
 <2>1. t[b][j] = Take(t[b][j - 1], blocks[b][j]) BY <1>3
 <2>2. Take(t[b][j - 1], blocks[b][j])' = Take(t[b][j - 1], blocks'[b][j]) BY <1>2 DEF Take
 <2> QED BY <1>1, <2>1, <2>2
<1> QED BY <1>1, <1>2, <1>3, <1>4, <1>5 DEF Traced

LEMMA AgreesBuilt ==
  ASSUME UNCHANGED Statics, NEW t,
         Agrees(t, calls', roots', var_stack', alias_map', phis', rewritten')
  PROVE  Agrees(t, calls, roots, var_stack, alias_map, phis, rewritten)'
<1>1. succs' = succs /\ idom' = idom /\ blocks' = blocks /\ promotable' = promotable BY DEF Statics
<1>2. /\ \A b : Out(t, b)' = Out(t, b) /\ Above(t, b)' = Above(t, b)
      /\ \A s, v : Value(s, v)' = Value(s, v)
      /\ \A f : Here(t, f)' = Here(t, f) BY FlowSame
<1>3. StacksFlow(t, calls, var_stack)'
 <2>1. StacksFlow(t, calls', var_stack') BY DEF Agrees
 <2>2. Here(t, calls[Len(calls)])' = Here(t, calls'[Len(calls')]) BY <1>1 DEF Here, Pos
 <2> QED BY <1>1, <2>1, <2>2 DEF StacksFlow
<1>4. AliasesFlow(t, calls, alias_map)'
 <2>1. AliasesFlow(t, calls', alias_map') BY DEF Agrees
 <2>2. Here(t, calls[Len(calls)])' = Here(t, calls'[Len(calls')]) BY <1>1 DEF Here, Pos
 <2> QED BY <1>1, <2>1, <2>2 DEF AliasesFlow
<1>5. CallsFlow(t, calls, rewritten)'
 <2>1. CallsFlow(t, calls', rewritten') BY DEF Agrees
 <2>2. ASSUME Live(calls'), NEW i \in DOMAIN calls' PROVE CallFlow(t, calls[i], rewritten)'
  <3>1. CallFlow(t, calls'[i], rewritten') BY <2>1, <2>2 DEF CallsFlow
  <3>2. Here(t, calls[i])' = Here(t, calls'[i]) BY <1>1 DEF Here, Pos
  <3>3. Above(t, calls[i].block)' = Above(t, calls'[i].block) BY <1>1 DEF Above, Out, AtRoot
  <3> QED BY <1>1, <3>1, <3>2, <3>3 DEF CallFlow
 <2> QED BY <2>2 DEF CallsFlow
<1>6. CodeFlow(t, calls, roots, rewritten)'
 <2>1. CodeFlow(t, calls', roots', rewritten') BY DEF Agrees
 <2>2. ASSUME NEW b \in Reachable(succs), Reached(calls, roots, b, Len(blocks[b]) + 1)'
       PROVE  rewritten'[b] = Out(t, b)'.code
  <3>1. Reached(calls', roots', b, Len(blocks[b]) + 1) BY <1>1, <2>2 DEF Reached, Pending, Waits
  <3> QED BY <1>2, <2>1, <3>1 DEF CodeFlow
 <2> QED BY <1>1, <2>2 DEF CodeFlow
<1>7. EdgesFlow(t, phis)'
 <2>1. EdgesFlow(t, phis') BY DEF Agrees
 <2>2. ASSUME NEW y \in Block, NEW i \in DOMAIN phis'[y] PROVE EdgeFlow(t, phis[y][i])'
  <3>1. EdgeFlow(t, phis'[y][i]) BY <2>1, <2>2 DEF EdgesFlow
  <3> QED BY Zenon, <1>1, <3>1 DEF EdgeFlow, Value, Out
 <2> QED BY <2>2 DEF EdgesFlow
<1> QED BY <1>3, <1>4, <1>5, <1>6, <1>7 DEF Agrees
-----------------------------------------------------------------------------
(* Running both programs.  First, what running a list of statements is. *)
IsRun(m, l, n, h) ==
  /\ h = [k \in 0 .. n |-> h[k]]
  /\ h[0] = [m EXCEPT !.out = <<>>]
  /\ \A k \in 1 .. n : h[k] = Execute(h[k - 1], l[k])

LEMMA RunExists == ASSUME NEW m, NEW l PROVE \A n \in Nat : \E h : IsRun(m, l, n, h)
<1> DEFINE m0 == [m EXCEPT !.out = <<>>]
           S == {n \in Nat : \E h : IsRun(m, l, n, h)}
<1>1. 0 \in S
 <2> DEFINE h == [k \in 0 .. 0 |-> m0]
 <2>1. h = [k \in 0 .. 0 |-> h[k]] /\ h[0] = m0 OBVIOUS
 <2> HIDE DEF h, m0
 <2>2. IsRun(m, l, 0, h) BY <2>1 DEF IsRun, m0
 <2> QED BY <2>2
<1>2. ASSUME NEW n \in Nat, n \in S PROVE n + 1 \in S
 <2>1. PICK h : IsRun(m, l, n, h) BY <1>2
 <2> DEFINE e == Execute(h[n], l[n + 1])
            g == [k \in 0 .. n + 1 |-> IF k <= n THEN h[k] ELSE e]
 <2> HIDE DEF e
 <2>2. g = [k \in 0 .. n + 1 |-> g[k]] /\ g[0] = h[0] /\ g[n + 1] = e
       /\ \A k \in 0 .. n : g[k] = h[k] OBVIOUS
 <2> HIDE DEF g, m0
 <2>3. ASSUME NEW k \in 1 .. n + 1 PROVE g[k] = Execute(g[k - 1], l[k])
  <3>1. CASE k = n + 1
   <4>1. k - 1 = n /\ n \in 0 .. n BY <3>1
   <4> QED BY <2>2, <3>1, <4>1 DEF e
  <3>2. CASE k # n + 1
   <4>1. k \in 1 .. n /\ k \in 0 .. n /\ k - 1 \in 0 .. n BY <3>2
   <4> QED BY <2>1, <2>2, <4>1 DEF IsRun
  <3> QED BY <3>1, <3>2
 <2>4. IsRun(m, l, n + 1, g) BY <2>1, <2>2, <2>3 DEF IsRun, m0
 <2> QED BY <2>4
<1> HIDE DEF S
<1>3. Nat \subseteq S BY <1>1, <1>2, SetInduction
<1> QED BY <1>3 DEF S

LEMMA ExecuteAllIs ==
  ASSUME NEW m, NEW l, Len(l) \in Nat PROVE \E h : IsRun(m, l, Len(l), h) /\ ExecuteAll(m, l) = h[Len(l)]
<1> DEFINE m0 == [m EXCEPT !.out = <<>>]
           F(h, k) == IF k = 0 THEN m0 ELSE Execute(h[k - 1], l[k])
           after == CHOOSE h : h = [k \in 0 .. Len(l) |-> F(h, k)]
<1>1. ExecuteAll(m, l) = after[Len(l)] BY DEF ExecuteAll
<1>2. PICK g : IsRun(m, l, Len(l), g) BY RunExists
<1> HIDE DEF m0
<1>3. \A k \in 0 .. Len(l) : g[k] = F(g, k)
 <2> SUFFICES ASSUME NEW k \in 0 .. Len(l) PROVE g[k] = F(g, k) OBVIOUS
 <2>1. CASE k = 0 BY <1>2, <2>1 DEF IsRun, m0
 <2>2. CASE k # 0
  <3>1. k \in 1 .. Len(l) BY <2>2
  <3> QED BY <1>2, <2>2, <3>1 DEF IsRun
 <2> QED BY <2>1, <2>2
<1>4. g = [k \in 0 .. Len(l) |-> F(g, k)] BY <1>2, <1>3 DEF IsRun
<1>5. after = [k \in 0 .. Len(l) |-> F(after, k)] BY <1>4
<1> HIDE DEF after
<1>6. IsRun(m, l, Len(l), after)
 <2>1. \A k \in 0 .. Len(l) : after[k] = F(after, k) BY <1>5
 <2>2. after[0] = m0 BY <2>1
 <2>3. ASSUME NEW k \in 1 .. Len(l) PROVE after[k] = Execute(after[k - 1], l[k])
  <3>1. k \in 0 .. Len(l) /\ k # 0 OBVIOUS
  <3> QED BY <2>1, <3>1
 <2>4. after = [k \in 0 .. Len(l) |-> after[k]] BY <1>5
 <2> QED BY <2>2, <2>3, <2>4 DEF IsRun, m0
<1> QED BY <1>1, <1>6

LEMMA RunsAgree ==
  ASSUME NEW m, NEW l, NEW n \in Nat, NEW h, IsRun(m, l, n, h),
         NEW l2, NEW n2 \in Nat, NEW h2, IsRun(m, l2, n2, h2), n <= n2, \A k \in 1 .. n : l2[k] = l[k]
  PROVE  h2[n] = h[n]
<1> DEFINE S == {i \in Nat : i <= n => h2[i] = h[i]}
<1>1. 0 \in S BY DEF IsRun
<1>2. ASSUME NEW i \in Nat, i \in S PROVE i + 1 \in S
 <2> SUFFICES ASSUME i + 1 <= n PROVE h2[i + 1] = h[i + 1] OBVIOUS
 <2>1. i + 1 \in 1 .. n /\ i + 1 \in 1 .. n2 /\ (i + 1) - 1 = i /\ h2[i] = h[i] BY <1>2
 <2>2. h[i + 1] = Execute(h[i], l[i + 1]) /\ h2[i + 1] = Execute(h2[i], l2[i + 1]) BY <2>1 DEF IsRun
 <2> QED BY <2>1, <2>2
<1> HIDE DEF S
<1>3. Nat \subseteq S BY <1>1, <1>2, SetInduction
<1> QED BY <1>3 DEF S

LEMMA ExecuteMore ==
  ASSUME NEW m, NEW T, NEW l \in Seq(T), NEW s \in T
  PROVE  /\ ExecuteAll(m, <<>>) = [m EXCEPT !.out = <<>>]
         /\ ExecuteAll(m, Append(l, s)) = Execute(ExecuteAll(m, l), s)
<1>1. ExecuteAll(m, <<>>) = [m EXCEPT !.out = <<>>]
 <2>1. Len(<<>>) = 0 /\ 0 \in Nat OBVIOUS
 <2>2. PICK h : IsRun(m, <<>>, Len(<<>>), h) /\ ExecuteAll(m, <<>>) = h[Len(<<>>)] BY <2>1, ExecuteAllIs
 <2> QED BY <2>1, <2>2 DEF IsRun
<1> DEFINE l2 == Append(l, s)
<1>2. PICK n \in Nat : n = Len(l) OBVIOUS
<1>3. Len(l2) = n + 1 /\ l2[n + 1] = s /\ \A k \in 1 .. n : l2[k] = l[k] BY <1>2, AppendFacts
<1> HIDE DEF l2
<1>4. PICK h : IsRun(m, l, n, h) /\ ExecuteAll(m, l) = h[n] BY <1>2, ExecuteAllIs
<1>5. PICK h2 : IsRun(m, l2, n + 1, h2) /\ ExecuteAll(m, l2) = h2[n + 1]
 <2>1. Len(l2) \in Nat BY <1>3
 <2> QED BY <1>3, <2>1, ExecuteAllIs
<1>6. h2[n] = h[n]
 <2>1. n + 1 \in Nat /\ n <= n + 1 OBVIOUS
 <2> QED BY <1>3, <1>4, <1>5, <2>1, RunsAgree
<1>7. n + 1 \in 1 .. n + 1 /\ (n + 1) - 1 = n OBVIOUS
<1>8. h2[n + 1] = Execute(h2[n], l2[n + 1]) BY <1>5, <1>7 DEF IsRun
<1> QED BY <1>1, <1>3, <1>4, <1>5, <1>6, <1>8 DEF l2
(* The machine states, and the slots that promotion takes away. *)
Slots == {Address(i) : i \in Id}
State == [env : [Id -> Int], calls : Nat, out : Seq(Int), mem : [Slots -> Int]]
Hidden == {Address(v) : v \in promotable}

(* What a statement does to the state. *)
Contents(m, a) == IF a \in Slots THEN m.mem[a] ELSE Poison

Assigned(m, m2, x, e) ==
  /\ m2 \in State /\ m2.mem = m.mem /\ m2.env[x] = e
  /\ \A y \in Id : y # x => m2.env[y] = m.env[y]

Silent(m, m2) == m2.calls = m.calls /\ m2.out = m.out

Spoken(m, m2, e) == m2.calls = m.calls + 1 /\ m2.out = Append(m.out, e)

Stored(m, m2, a, e) ==
  /\ m2 \in State /\ m2.env = m.env
  /\ \A x \in Slots : m2.mem[x] = IF x = a THEN e ELSE m.mem[x]

LEMMA RecordOf ==
  ASSUME NEW m \in State
  PROVE  /\ m.env \in [Id -> Int] /\ m.calls \in Nat /\ m.out \in Seq(Int) /\ m.mem \in [Slots -> Int]
         /\ m = [env |-> m.env, calls |-> m.calls, out |-> m.out, mem |-> m.mem]
         /\ DOMAIN m = {"env", "calls", "out", "mem"} BY DEF State

Sets(f, g, x, e) == g \in [Id -> Int] /\ g[x] = e /\ \A y \in Id : y # x => g[y] = f[y]

IsState(m, f, c, o, k) == m = [env |-> f, calls |-> c, out |-> o, mem |-> k]

LEMMA StateOf ==
  ASSUME NEW f, NEW c, NEW o, NEW k, f \in [Id -> Int], c \in Nat, o \in Seq(Int), k \in [Slots -> Int],
         NEW m, IsState(m, f, c, o, k)
  PROVE  m \in State BY DEF State, IsState

(* An assignment, as the machine makes it. *)
LEMMA EnvUpdated ==
  ASSUME NEW m \in State, NEW x \in Id, NEW e \in Int, NEW m2, m2 = [m EXCEPT !.env[x] = e]
  PROVE  Assigned(m, m2, x, e) /\ Silent(m, m2)
<1> DEFINE f == [m.env EXCEPT ![x] = e]
<1>1. m.calls \in Nat /\ m.out \in Seq(Int) /\ m.mem \in [Slots -> Int] BY RecordOf
<1>2. Sets(m.env, f, x, e) BY RecordOf DEF Sets
<1>3. m2 = [m EXCEPT !.env = f] OBVIOUS
<1> HIDE DEF f
<1>4. IsState(m2, f, m.calls, m.out, m.mem) BY <1>3, RecordOf DEF IsState
<1>5. m2 \in State BY <1>1, <1>2, <1>4, StateOf DEF Sets
<1> QED BY <1>2, <1>4, <1>5 DEF Assigned, Silent, Sets, IsState

LEMMA AllocaRuns ==
  ASSUME NEW m \in State, NEW s \in Stmt, s.op = "alloca"
  PROVE  Assigned(m, Execute(m, s), s.dst, Address(s.dst)) /\ Silent(m, Execute(m, s))
<1>1. PICK x \in Id : x = s.dst BY StmtFacts
<1>2. PICK e \in Int : e = Address(s.dst) BY <1>1 DEF Address, Id
<1>3. PICK m2 : m2 = Execute(m, s) OBVIOUS
<1>4. m2 = [m EXCEPT !.env[x] = e] BY <1>1, <1>2, <1>3 DEF Execute
<1>5. Assigned(m, m2, x, e) /\ Silent(m, m2) BY <1>4, EnvUpdated
<1> QED BY <1>1, <1>2, <1>3, <1>5

LEMMA GepRuns ==
  ASSUME NEW m \in State, NEW s \in Stmt, s.op = "gep", ValueOf(m, s.arg) \in Int
  PROVE  Assigned(m, Execute(m, s), s.dst, ValueOf(m, s.arg)) /\ Silent(m, Execute(m, s))
<1>1. PICK x \in Id : x = s.dst BY StmtFacts
<1>2. PICK e \in Int : e = ValueOf(m, s.arg) OBVIOUS
<1>3. PICK m2 : m2 = Execute(m, s) OBVIOUS
<1>4. m2 = [m EXCEPT !.env[x] = e] BY <1>1, <1>2, <1>3 DEF Execute
<1>5. Assigned(m, m2, x, e) /\ Silent(m, m2) BY <1>4, EnvUpdated
<1> QED BY <1>1, <1>2, <1>3, <1>5

LEMMA LoadRuns ==
  ASSUME NEW m \in State, NEW s \in Stmt, s.op = "load"
  PROVE  /\ Assigned(m, Execute(m, s), s.dst, Contents(m, ValueOf(m, s.ptr)))
         /\ Silent(m, Execute(m, s))
<1>1. PICK x \in Id : x = s.dst BY StmtFacts
<1>2. DOMAIN m.mem = Slots BY RecordOf
<1>3. PICK e \in Int : e = Contents(m, ValueOf(m, s.ptr)) BY RecordOf DEF Contents, Poison
<1>4. PICK m2 : m2 = Execute(m, s) OBVIOUS
<1>5. m2 = [m EXCEPT !.env[x] = e]
 <2>1. e = IF ValueOf(m, s.ptr) \in DOMAIN m.mem THEN m.mem[ValueOf(m, s.ptr)] ELSE Poison BY <1>2, <1>3 DEF Contents
 <2> QED BY <1>1, <1>4, <2>1 DEF Execute
<1>6. Assigned(m, m2, x, e) /\ Silent(m, m2) BY <1>5, EnvUpdated
<1> QED BY <1>1, <1>3, <1>4, <1>6

LEMMA StoreRuns ==
  ASSUME NEW m \in State, NEW s \in Stmt, s.op = "store", ValueOf(m, s.src) \in Int
  PROVE  /\ Stored(m, Execute(m, s), ValueOf(m, s.ptr), ValueOf(m, s.src))
         /\ Silent(m, Execute(m, s))
<1> DEFINE a == ValueOf(m, s.ptr)
           e == ValueOf(m, s.src)
           f == [x \in DOMAIN m.mem |-> IF x = a THEN e ELSE m.mem[x]]
<1>1. Execute(m, s) = [m EXCEPT !.mem = f] BY DEF Execute
<1> HIDE DEF a, e
<1>2. e \in Int /\ m.mem \in [Slots -> Int] BY RecordOf DEF e
<1>3. f \in [Slots -> Int] /\ \A x \in Slots : f[x] = IF x = a THEN e ELSE m.mem[x] BY <1>2
<1> HIDE DEF f
<1>4. [m EXCEPT !.mem = f] = [env |-> m.env, calls |-> m.calls, out |-> m.out, mem |-> f] BY RecordOf
<1>5. Execute(m, s) \in State BY <1>1, <1>3, <1>4, RecordOf DEF State
<1>6. Stored(m, Execute(m, s), a, e) /\ Silent(m, Execute(m, s)) BY <1>1, <1>3, <1>4, <1>5 DEF Stored, Silent
<1> QED BY <1>6 DEF a, e

LEMMA CallRuns ==
  ASSUME NEW m \in State, NEW s \in Stmt, s.op = "call", ValueOf(m, s.arg) \in Int
  PROVE  /\ Assigned(m, Execute(m, s), s.dst, Returned(m.calls))
         /\ Spoken(m, Execute(m, s), ValueOf(m, s.arg))
<1>1. PICK x \in Id : x = s.dst BY StmtFacts
<1>2. PICK c : c = m.calls OBVIOUS
<1>14. PICK l : l = m.out OBVIOUS
<1>15. c \in Nat /\ l \in Seq(Int) /\ m.mem \in [Slots -> Int] /\ c + 1 \in Nat BY <1>2, <1>14, RecordOf
<1>3. PICK e \in Int : e = Returned(c) BY <1>15 DEF Returned
<1>4. PICK v \in Int : v = ValueOf(m, s.arg) OBVIOUS
<1>5. PICK o : o = Append(l, v) OBVIOUS
<1>16. o \in Seq(Int) BY <1>5, <1>15
<1> DEFINE f == [m.env EXCEPT ![x] = e]
<1>6. PICK m2 : m2 = Execute(m, s) OBVIOUS
<1>7. m2 = [m EXCEPT !.env = f, !.calls = c + 1, !.out = o]
 <2>1. m2 = [m EXCEPT !.env[s.dst] = Returned(m.calls), !.calls = @ + 1,
                      !.out = Append(@, ValueOf(m, s.arg))] BY <1>6 DEF Execute
 <2>2. m2 = [m EXCEPT !.env[x] = e, !.calls = @ + 1, !.out = Append(@, v)] BY <1>1, <1>2, <1>3, <1>4, <1>14, <2>1
 <2> QED BY <1>2, <1>14, <1>5, <2>2
<1>8. Sets(m.env, f, x, e) BY RecordOf DEF Sets
<1> HIDE DEF f
<1>9. DOMAIN m = {"env", "calls", "out", "mem"} BY RecordOf
<1>10. IsState(m2, f, c + 1, o, m.mem) BY <1>7, <1>9 DEF IsState
<1>11. m2 \in State BY <1>8, <1>10, <1>15, <1>16, StateOf DEF Sets
<1>12. Assigned(m, m2, x, e) /\ m2.calls = c + 1 /\ m2.out = o BY <1>8, <1>10, <1>11 DEF Assigned, Sets, IsState
<1> QED BY <1>1, <1>2, <1>3, <1>4, <1>5, <1>6, <1>12, <1>14 DEF Spoken
(* How the two programs correspond, in front of statement j + 1 of block b.
   Nothing but a promoted local holds the address of a slot that promotion
   takes away; what else there is, the result has where the flow says.  The
   slot of a promoted variable matters from a store on, or while the variable
   is live. *)
Visible(v, b, j) == b \in LiveIn(v) \/ \E k \in 1 .. j : Stores(blocks[b][k], v)

Matched(m, n) ==
  /\ m \in State /\ n \in State
  /\ m.calls = n.calls /\ m.out = n.out
  /\ \A x \in Id \ promotable : m.env[x] \notin Hidden
  /\ \A a \in Slots : m.mem[a] \notin Hidden
  /\ \A a \in Slots \ Hidden : m.mem[a] = n.mem[a]

LocalsMatch(t, m, n, b, j) ==
  \A x \in Id : DefinedUpTo(b, j, x) =>
    /\ x \in promotable => m.env[x] = Address(x)
    /\ x \notin promotable => m.env[x] = ValueOf(n, t[b][j].alias[x])

SlotsMatch(t, m, n, b, j) ==
  \A v \in promotable :
    Visible(v, b, j) => m.mem[Address(v)] = ValueOf(n, Value(t[b][j], v))

Sim(t, m, n, b, j) == Matched(m, n) /\ LocalsMatch(t, m, n, b, j) /\ SlotsMatch(t, m, n, b, j)

(* What holds while the programs run. *)
Setting(t) ==
  /\ DomTree /\ Fixed /\ PhisDistinct /\ Chosen /\ ConstantsPlain(blocks) /\ FrontiersKnown
  /\ Placed(phis) /\ Traced(t, phis)

(* Addresses are negative, one for each local; all other values are not. *)
LEMMA AddressFacts ==
  ASSUME promotable \subseteq Id
  PROVE  /\ \A x \in Id : Address(x) \in Int /\ Address(x) \in Slots /\ Address(x) < 0
         /\ \A x, y \in Id : Address(x) = Address(y) => x = y
         /\ \A x \in Id : Address(x) \in Hidden <=> x \in promotable
         /\ \A a \in Hidden : a \in Slots /\ a < 0
         /\ \A a \in Slots : a \in Int
         /\ Poison \notin Hidden /\ Undefined \notin Hidden
         /\ \A k \in Nat : Returned(k) \notin Hidden /\ Returned(k) \in Int
<1>1. Id \subseteq {i \in Int : i > 0} BY DEF Id
<1>2. /\ \A x \in Id : Address(x) \in Int /\ Address(x) < 0
      /\ \A x, y \in Id : Address(x) = Address(y) => x = y BY <1>1 DEF Address
<1>3. \A a \in Hidden : a \in Slots /\ a < 0 BY <1>2 DEF Hidden, Slots
<1>4. Poison \notin Hidden /\ Undefined \notin Hidden BY <1>3 DEF Poison, Undefined
<1>5. \A k \in Nat : Returned(k) \in Int /\ Returned(k) > 0 BY DEF Returned
<1>6. \A k \in Nat : Returned(k) \notin Hidden BY <1>3, <1>5
<1> QED BY <1>2, <1>3, <1>4, <1>5, <1>6 DEF Hidden, Slots

(* A promoted local is defined by its alloca only. *)
LEMMA AllocaOnly ==
  ASSUME Fixed, Chosen, NEW b \in Block, NEW k \in DOMAIN blocks[b], NEW x \in Defines(blocks[b][k]),
         x \in promotable
  PROVE  blocks[b][k].op = "alloca"
<1>1. PICK c \in Block : \E j \in DOMAIN blocks[c] : blocks[c][j] = Alloca(x, "i32") BY DEF Chosen, Candidates
<1>2. PICK j \in DOMAIN blocks[c] : blocks[c][j] = Alloca(x, "i32") BY <1>1
<1>3. Defines(blocks[c][j]) = {x} /\ blocks[c][j].op = "alloca" BY <1>2 DEF Alloca, Defines
<1>4. Defines(blocks[c][j]) \cap Defines(blocks[b][k]) # {} BY <1>3
<1>5. c = b /\ j = k BY <1>4 DEF Fixed, DefinedOnce
<1> QED BY <1>3, <1>5

(* What is known is not defined again. *)
LEMMA KnownUntouched ==
  ASSUME Fixed, PhisDistinct, NEW b \in Block, NEW k \in DOMAIN blocks[b], NEW o,
         KnownOp(phis, o, b, k - 1), o.kind = "local", NEW x \in Defines(blocks[b][k])
  PROVE  o.id # x
<1> SUFFICES ASSUME o.id = x PROVE FALSE OBVIOUS
<1>1. Known(phis, b, k - 1, x) BY DEF KnownOp
<1>2. \A c \in Block : ~PhiDefines(phis, c, x) BY DEF PhiDefines, PhisDistinct
<1>3. \A c \in Block : \A j \in DOMAIN blocks[c] : x \in Defines(blocks[c][j]) => c = b /\ j = k BY DEF Fixed, DefinedOnce
<1>4. k \in Int /\ DOMAIN blocks[b] = 1 .. Len(blocks[b]) /\ Len(blocks[b]) \in Nat BY CodeFacts
<1>5. ~KeptUpTo(b, k - 1, x) BY <1>3, <1>4 DEF KeptUpTo
<1>6. PICK d \in Ancestors(b) : KeptUpTo(d, Len(blocks[d]), x) BY <1>1, <1>2, <1>5 DEF Known, Ancestors
<1>7. d \in Block /\ d # b BY DEF Ancestors
<1>8. DOMAIN blocks[d] = 1 .. Len(blocks[d]) BY <1>7, CodeFacts
<1> QED BY <1>3, <1>6, <1>7, <1>8 DEF KeptUpTo

(* What is read has one value. *)
LEMMA OperandMatches ==
  ASSUME NEW t, Setting(t), NEW b \in Reachable(succs), NEW k \in DOMAIN blocks[b],
         NEW m, NEW n, Sim(t, m, n, b, k - 1), NEW o \in ReadOperands(blocks[b][k]), ~IsPromoted(o)
  PROVE  /\ ValueOf(m, o) \in Int /\ ValueOf(m, o) \notin Hidden
         /\ ValueOf(m, o) = ValueOf(n, Ren(t[b][k - 1].alias, o))
<1>1. DomTree /\ Fixed /\ ConstantsPlain(blocks) /\ b \in Block /\ Matched(m, n) /\ promotable \subseteq Id
  BY DEF Setting, DomTree, Sim, Fixed
<1>2. blocks[b][k] \in Stmt BY <1>1, CodeFacts
<1>3. o \in Operand BY <1>2, StmtFacts
<1>4. CASE o.kind = "const"
 <2>1. o.id >= 0 /\ o.id \in Int BY <1>1, <1>3, <1>4 DEF ConstantsPlain, Operand
 <2>2. o.id \notin Hidden BY <1>1, <2>1, AddressFacts
 <2>3. ValueOf(m, o) = o.id /\ Ren(t[b][k - 1].alias, o) = o /\ ValueOf(n, o) = o.id BY <1>4 DEF ValueOf, Ren
 <2> QED BY <2>1, <2>2, <2>3
<1>5. CASE o.kind # "const"
 <2>1. o.kind = "local" BY <1>3, <1>5 DEF Operand
 <2>2. o.id \in Id /\ DefinedUpTo(b, k - 1, o.id) BY <1>1, <2>1, ReadDefined
 <2>3. o.id \notin promotable BY <2>1 DEF IsPromoted
 <2>4. ValueOf(m, o) = m.env[o.id] /\ Ren(t[b][k - 1].alias, o) = t[b][k - 1].alias[o.id] BY <2>1, <2>2 DEF ValueOf, Ren
 <2>5. m.env[o.id] = ValueOf(n, t[b][k - 1].alias[o.id]) BY <2>2, <2>3 DEF Sim, LocalsMatch
 <2>6. m.env[o.id] \notin Hidden BY <1>1, <2>2, <2>3 DEF Matched
 <2>7. m.env[o.id] \in Int BY <1>1, <2>2, RecordOf DEF Matched
 <2> QED BY <2>4, <2>5, <2>6, <2>7
<1> QED BY <1>4, <1>5
LEMMA DefinedFollows ==
  ASSUME Fixed, NEW b \in Block, NEW k \in DOMAIN blocks[b]
  PROVE  /\ k \in Nat /\ k - 1 \in Nat /\ k \in 1 .. Len(blocks[b]) /\ k - 1 \in 0 .. Len(blocks[b])
         /\ \A x : DefinedUpTo(b, k, x) => DefinedUpTo(b, k - 1, x) \/ x \in Defines(blocks[b][k])
         /\ \A v : Visible(v, b, k) => Visible(v, b, k - 1) \/ Stores(blocks[b][k], v)
<1>1. k \in 1 .. Len(blocks[b]) /\ Len(blocks[b]) \in Nat BY CodeFacts
<1>2. k \in Nat /\ k - 1 \in Nat /\ k - 1 \in 0 .. Len(blocks[b]) BY <1>1
<1>3. \A i \in 1 .. k : i \in 1 .. k - 1 \/ i = k BY <1>2
<1>4. \A x : DefinedUpTo(b, k, x) => DefinedUpTo(b, k - 1, x) \/ x \in Defines(blocks[b][k]) BY <1>3 DEF DefinedUpTo
<1>5. \A v : Visible(v, b, k) => Visible(v, b, k - 1) \/ Stores(blocks[b][k], v) BY <1>3 DEF Visible
<1> QED BY <1>1, <1>2, <1>4, <1>5

(* A statement leaves the values that are known alone. *)
SameBut(n, n2, x) == \A y \in Id : y # x => n2.env[y] = n.env[y]

LEMMA ValueUntouched ==
  ASSUME Fixed, PhisDistinct, NEW b \in Block, NEW k \in DOMAIN blocks[b], NEW o,
         KnownOp(phis, o, b, k - 1), NEW x \in Defines(blocks[b][k]), NEW n, NEW n2, SameBut(n, n2, x)
  PROVE  ValueOf(n2, o) = ValueOf(n, o)
<1>1. CASE o.kind = "const" BY <1>1 DEF ValueOf
<1>2. CASE o.kind # "const"
 <2>1. o.kind = "local" /\ o.id \in Id BY <1>2 DEF KnownOp, Operand
 <2>2. o.id # x BY <2>1, KnownUntouched
 <2> QED BY <1>2, <2>1, <2>2 DEF ValueOf, SameBut
<1> QED BY <1>1, <1>2

(* A statement that is kept and defines a local does in both programs the same. *)
LEMMA SimAssigned ==
  ASSUME NEW t, Setting(t), NEW b \in Reachable(succs), NEW k \in DOMAIN blocks[b],
         NEW m, NEW n, Sim(t, m, n, b, k - 1), Kept(blocks[b][k]), NEW x \in Defines(blocks[b][k]),
         NEW m2, NEW n2, NEW e, Assigned(m, m2, x, e), Assigned(n, n2, x, e), e \notin Hidden,
         m2.calls = n2.calls, m2.out = n2.out
  PROVE  Sim(t, m2, n2, b, k)
<1>1. /\ DomTree /\ Fixed /\ PhisDistinct /\ Chosen /\ Traced(t, phis) /\ b \in Block
      /\ \A c \in Block : \A i \in DOMAIN phis[c] : phis[c][i].dst \in Id
      /\ Matched(m, n) /\ LocalsMatch(t, m, n, b, k - 1) /\ SlotsMatch(t, m, n, b, k - 1) BY DEF Setting, DomTree, Sim, Placed
<1>2. PICK s \in Stmt : s = blocks[b][k] BY <1>1, CodeFacts
<1>3. s.op # "store" /\ Defines(s) = {x} /\ x = s.dst /\ x \in Id BY <1>2, StmtFacts
<1>4. x \notin promotable /\ ~PromotedLoad(s) /\ \A v : ~Stores(s, v)
 <2>1. x \in promotable => s.op = "alloca" BY <1>1, <1>2, AllocaOnly
 <2> QED BY <1>2, <1>3, <2>1 DEF Kept, PromotedLoad, Stores
<1>5. k \in 1 .. Len(blocks[b]) /\ k - 1 \in 0 .. Len(blocks[b]) /\ k \in 0 .. Len(blocks[b]) BY <1>1, DefinedFollows
<1>6. FlowKnown(t, phis, b, k - 1) BY <1>1, <1>5, FlowIsKnown
<1>7. SameBut(m, m2, x) /\ SameBut(n, n2, x) /\ m2.mem = m.mem /\ n2.mem = n.mem
      /\ m2 \in State /\ n2 \in State /\ m2.env[x] = e /\ n2.env[x] = e BY DEF Assigned, SameBut
<1>8. Matched(m2, n2)
 <2>1. \A y \in Id \ promotable : m2.env[y] \notin Hidden BY <1>1, <1>7 DEF Matched, SameBut
 <2> QED BY <1>1, <1>7, <2>1 DEF Matched
<1>9. LocalsMatch(t, m2, n2, b, k)
 <2> SUFFICES ASSUME NEW y \in Id, DefinedUpTo(b, k, y)
              PROVE  /\ y \in promotable => m2.env[y] = Address(y)
                     /\ y \notin promotable => m2.env[y] = ValueOf(n2, t[b][k].alias[y]) BY DEF LocalsMatch
 <2>1. CASE y = x
  <3>1. t[b][k].alias[x] = Local(x) BY <1>1, <1>2, <1>3, <1>4, <1>5, AliasOwn
  <3> QED BY <1>4, <1>7, <2>1, <3>1 DEF ValueOf, Local
 <2>2. CASE y # x
  <3>1. DefinedUpTo(b, k - 1, y) BY <1>1, <1>2, <1>3, <2>2, DefinedFollows
  <3>2. m2.env[y] = m.env[y] BY <1>7, <2>2 DEF SameBut
  <3>3. y \in promotable => m.env[y] = Address(y) BY <1>1, <3>1 DEF LocalsMatch
  <3>4. ASSUME y \notin promotable PROVE m.env[y] = ValueOf(n2, t[b][k].alias[y])
   <4>1. PICK o : o = t[b][k - 1].alias[y] OBVIOUS
   <4>2. m.env[y] = ValueOf(n, o) /\ KnownOp(phis, o, b, k - 1) BY <1>1, <1>6, <3>1, <3>4, <4>1 DEF LocalsMatch, FlowKnown
   <4>3. t[b][k].alias[y] = o BY <1>1, <1>2, <1>4, <1>5, <4>1, AliasRules
   <4>4. ValueOf(n2, o) = ValueOf(n, o) BY <1>1, <1>7, <4>2, ValueUntouched
   <4> QED BY <4>2, <4>3, <4>4
  <3> QED BY <3>2, <3>3, <3>4
 <2> QED BY <2>1, <2>2
<1>10. SlotsMatch(t, m2, n2, b, k)
 <2> SUFFICES ASSUME NEW v \in promotable, Visible(v, b, k)
              PROVE  m2.mem[Address(v)] = ValueOf(n2, Value(t[b][k], v)) BY DEF SlotsMatch
 <2>1. Visible(v, b, k - 1) BY <1>1, <1>2, <1>4, DefinedFollows
 <2>2. PICK o : o = Value(t[b][k - 1], v) OBVIOUS
 <2>3. m.mem[Address(v)] = ValueOf(n, o) /\ KnownOp(phis, o, b, k - 1) BY <1>1, <1>6, <2>1, <2>2 DEF SlotsMatch, FlowKnown
 <2>4. Value(t[b][k], v) = o BY <1>1, <1>2, <1>4, <1>5, <2>2, ValueRules
 <2>5. ValueOf(n2, o) = ValueOf(n, o) BY <1>1, <1>7, <2>3, ValueUntouched
 <2> QED BY <1>7, <2>3, <2>4, <2>5
<1> QED BY <1>8, <1>9, <1>10 DEF Sim
(* An alloca or a load that is removed defines a local in the first program
   only. *)
LEMMA SimRemoved ==
  ASSUME NEW t, Setting(t), NEW b \in Reachable(succs), NEW k \in DOMAIN blocks[b],
         NEW m, NEW n, Sim(t, m, n, b, k - 1), NEW x \in Defines(blocks[b][k]),
         NEW m2, NEW e, Assigned(m, m2, x, e), Silent(m, m2),
         x \in promotable => e = Address(x),
         x \notin promotable => e \notin Hidden /\ e = ValueOf(n, t[b][k].alias[x])
  PROVE  Sim(t, m2, n, b, k)
<1>1. /\ DomTree /\ Fixed /\ Traced(t, phis) /\ b \in Block
      /\ Matched(m, n) /\ LocalsMatch(t, m, n, b, k - 1) /\ SlotsMatch(t, m, n, b, k - 1) BY DEF Setting, DomTree, Sim
<1>2. PICK s \in Stmt : s = blocks[b][k] BY <1>1, CodeFacts
<1>3. s.op # "store" /\ Defines(s) = {x} /\ x = s.dst /\ x \in Id /\ \A v : ~Stores(s, v) BY <1>2, StmtFacts DEF Stores
<1>4. k \in 1 .. Len(blocks[b]) BY <1>1, DefinedFollows
<1>5. SameBut(m, m2, x) /\ m2.mem = m.mem /\ m2 \in State /\ m2.env[x] = e BY DEF Assigned, SameBut
<1>6. Matched(m2, n)
 <2>1. \A y \in Id \ promotable : m2.env[y] \notin Hidden BY <1>1, <1>5 DEF Matched, SameBut
 <2>2. m2.calls = n.calls /\ m2.out = n.out BY <1>1 DEF Matched, Silent
 <2> QED BY <1>1, <1>5, <2>1, <2>2 DEF Matched
<1>7. LocalsMatch(t, m2, n, b, k)
 <2> SUFFICES ASSUME NEW y \in Id, DefinedUpTo(b, k, y), y # x
              PROVE  /\ y \in promotable => m2.env[y] = Address(y)
                     /\ y \notin promotable => m2.env[y] = ValueOf(n, t[b][k].alias[y]) BY <1>5 DEF LocalsMatch
 <2>1. DefinedUpTo(b, k - 1, y) BY <1>1, <1>2, <1>3, DefinedFollows
 <2>2. m2.env[y] = m.env[y] BY <1>5 DEF SameBut
 <2>3. t[b][k].alias[y] = t[b][k - 1].alias[y] BY <1>1, <1>2, <1>3, <1>4, AliasRules
 <2> QED BY <1>1, <2>1, <2>2, <2>3 DEF LocalsMatch
<1>8. SlotsMatch(t, m2, n, b, k)
 <2> SUFFICES ASSUME NEW v \in promotable, Visible(v, b, k)
              PROVE  m2.mem[Address(v)] = ValueOf(n, Value(t[b][k], v)) BY DEF SlotsMatch
 <2>1. Visible(v, b, k - 1) BY <1>1, <1>2, <1>3, DefinedFollows
 <2>2. Value(t[b][k], v) = Value(t[b][k - 1], v) BY <1>1, <1>2, <1>3, <1>4, ValueRules
 <2> QED BY <1>1, <1>5, <2>1, <2>2 DEF SlotsMatch
<1> QED BY <1>6, <1>7, <1>8 DEF Sim

(* A store writes to a slot that is left in both programs, or, removed, to a
   promoted variable. *)
LEMMA SimWritten ==
  ASSUME NEW t, Setting(t), NEW b \in Reachable(succs), NEW k \in DOMAIN blocks[b],
         NEW m, NEW n, Sim(t, m, n, b, k - 1), blocks[b][k].op = "store",
         NEW m2, NEW a, NEW e, Stored(m, m2, a, e), e \notin Hidden,
         NEW n2 \in State, n2.env = n.env, m2.calls = n2.calls, m2.out = n2.out,
         \A c \in Slots \ Hidden : m2.mem[c] = n2.mem[c],
         \A v \in promotable :
           /\ Stores(blocks[b][k], v) => a = Address(v) /\ e = ValueOf(n, Ren(t[b][k - 1].alias, blocks[b][k].src))
           /\ ~Stores(blocks[b][k], v) => a # Address(v)
  PROVE  Sim(t, m2, n2, b, k)
<1>1. /\ DomTree /\ Fixed /\ Traced(t, phis) /\ b \in Block /\ promotable \subseteq Id
      /\ Matched(m, n) /\ LocalsMatch(t, m, n, b, k - 1) /\ SlotsMatch(t, m, n, b, k - 1) BY DEF Setting, DomTree, Sim, Fixed
<1>2. PICK s \in Stmt : s = blocks[b][k] BY <1>1, CodeFacts
<1>3. Defines(s) = {} /\ ~PromotedLoad(s) BY <1>2, StmtFacts DEF PromotedLoad
<1>4. k \in 1 .. Len(blocks[b]) BY <1>1, DefinedFollows
<1>5. m2 \in State /\ m2.env = m.env /\ \A c \in Slots : m2.mem[c] = IF c = a THEN e ELSE m.mem[c] BY DEF Stored
<1>6. Matched(m2, n2)
 <2>1. \A c \in Slots : m2.mem[c] \notin Hidden BY <1>1, <1>5 DEF Matched
 <2>2. \A x \in Id \ promotable : m2.env[x] \notin Hidden BY <1>1, <1>5 DEF Matched
 <2> QED BY <1>5, <2>1, <2>2 DEF Matched
<1>7. \A o : ValueOf(n2, o) = ValueOf(n, o) BY DEF ValueOf
<1>8. LocalsMatch(t, m2, n2, b, k)
 <2> SUFFICES ASSUME NEW y \in Id, DefinedUpTo(b, k, y)
              PROVE  /\ y \in promotable => m2.env[y] = Address(y)
                     /\ y \notin promotable => m2.env[y] = ValueOf(n2, t[b][k].alias[y]) BY DEF LocalsMatch
 <2>1. DefinedUpTo(b, k - 1, y) BY <1>1, <1>2, <1>3, DefinedFollows
 <2>2. t[b][k].alias[y] = t[b][k - 1].alias[y] BY <1>1, <1>2, <1>3, <1>4, AliasRules
 <2> QED BY <1>1, <1>5, <1>7, <2>1, <2>2 DEF LocalsMatch
<1>9. SlotsMatch(t, m2, n2, b, k)
 <2> SUFFICES ASSUME NEW v \in promotable, Visible(v, b, k)
              PROVE  m2.mem[Address(v)] = ValueOf(n, Value(t[b][k], v)) BY <1>7 DEF SlotsMatch
 <2>1. Address(v) \in Slots BY <1>1, AddressFacts
 <2>2. CASE Stores(s, v)
  <3>1. Value(t[b][k], v) = Ren(t[b][k - 1].alias, s.src) BY <1>1, <1>2, <1>4, <2>2, ValueRules
  <3>2. m2.mem[Address(v)] = e BY <1>2, <1>5, <2>1, <2>2
  <3> QED BY <1>2, <2>2, <3>1, <3>2
 <2>3. CASE ~Stores(s, v)
  <3>1. Visible(v, b, k - 1) BY <1>1, <1>2, <2>3, DefinedFollows
  <3>2. Value(t[b][k], v) = Value(t[b][k - 1], v) BY <1>1, <1>2, <1>4, <2>3, ValueRules
  <3>3. m2.mem[Address(v)] = m.mem[Address(v)] BY <1>2, <1>5, <2>1, <2>3
  <3> QED BY <1>1, <3>1, <3>2, <3>3 DEF SlotsMatch
 <2> QED BY <2>2, <2>3
<1> QED BY <1>6, <1>8, <1>9 DEF Sim
LEMMA RenamedFacts ==
  ASSUME NEW a \in [Id -> Operand], NEW s \in Stmt, NEW s2, s2 = Renamed(a, s)
  PROVE  /\ s2 \in Stmt /\ s2.op = s.op
         /\ s.op # "store" => s2.dst = s.dst
         /\ s.op \in {"gep", "call"} => s2.arg = Ren(a, s.arg)
         /\ s.op \in {"load", "store"} => s2.ptr = Ren(a, s.ptr)
         /\ s.op = "store" => s2.src = Ren(a, s.src)
<1>1. s2 \in Stmt BY RenamedStmt
<1> DEFINE f == [o \in ReadOperands(s) |-> Ren(a, o)]
<1>2. s2 = MapUses(s, f) BY DEF Renamed
<1>3. \A o \in ReadOperands(s) : f[o] = Ren(a, o) OBVIOUS
<1> HIDE DEF f
<1>4. CASE s.op = "alloca"
 <2>1. s2 = s BY <1>2, <1>4 DEF MapUses
 <2> QED BY <1>1, <1>4, <2>1
<1>5. CASE s.op = "load"
 <2>1. s.ptr \in ReadOperands(s) BY <1>5 DEF ReadOperands
 <2>2. s2 = [s EXCEPT !.ptr = f[s.ptr]] BY <1>2, <1>5 DEF MapUses
 <2>3. s \in [op : {"load"}, dst : Id, ptr : Operand] BY <1>5 DEF Stmt, Alloca
 <2> QED BY <1>1, <1>3, <1>5, <2>1, <2>2, <2>3
<1>6. CASE s.op = "store"
 <2>1. s.ptr \in ReadOperands(s) /\ s.src \in ReadOperands(s) BY <1>6 DEF ReadOperands, UseOperands
 <2>2. s2 = [s EXCEPT !.src = f[s.src], !.ptr = f[s.ptr]] BY <1>2, <1>6 DEF MapUses
 <2>3. s \in [op : {"store"}, src : Operand, ptr : Operand] BY <1>6 DEF Stmt, Alloca
 <2> QED BY <1>1, <1>3, <1>6, <2>1, <2>2, <2>3
<1>7. CASE s.op \in {"gep", "call"}
 <2>1. s.arg \in ReadOperands(s) BY <1>7 DEF ReadOperands, UseOperands
 <2>2. s2 = [s EXCEPT !.arg = f[s.arg]] BY <1>2, <1>7 DEF MapUses
 <2>3. s \in [op : {"gep", "call"}, dst : Id, arg : Operand] BY <1>7 DEF Stmt, Alloca
 <2> QED BY <1>1, <1>3, <1>7, <2>1, <2>2, <2>3
<1> QED BY <1>4, <1>5, <1>6, <1>7, StmtFacts

(* The operands read, of which promoted ones are the pointers of loads and
   stores that are removed. *)
LEMMA ReadKept ==
  ASSUME Fixed, NEW b \in Block, NEW k \in DOMAIN blocks[b], NEW s, s = blocks[b][k]
  PROVE  /\ s.op \in {"gep", "call"} => s.arg \in ReadOperands(s) /\ ~IsPromoted(s.arg)
         /\ s.op = "store" => s.src \in ReadOperands(s) /\ ~IsPromoted(s.src)
         /\ s.op \in {"load", "store"} /\ Kept(s) => s.ptr \in ReadOperands(s) /\ ~IsPromoted(s.ptr)
<1>1. s \in Stmt BY CodeFacts
<1>2. \A o \in UseOperands(s) : o \in Operand => ~IsPromoted(o) BY UseKept DEF IsPromoted
<1>3. s.op \in {"gep", "call"} => s.arg \in UseOperands(s) /\ s.arg \in Operand BY <1>1, StmtFacts DEF UseOperands
<1>4. s.op = "store" => s.src \in UseOperands(s) /\ s.src \in Operand BY <1>1, StmtFacts DEF UseOperands
<1>5. UseOperands(s) \subseteq ReadOperands(s) /\ (s.op \in {"load", "store"} => s.ptr \in ReadOperands(s)) BY DEF ReadOperands
<1>6. s.op \in {"load", "store"} /\ Kept(s) => ~IsPromoted(s.ptr) BY DEF Kept
<1> QED BY <1>2, <1>3, <1>4, <1>5, <1>6
LEMMA KeptMatches ==
  ASSUME NEW t, Setting(t), NEW b \in Reachable(succs), NEW k \in DOMAIN blocks[b],
         NEW m, NEW n, Sim(t, m, n, b, k - 1), Kept(blocks[b][k]),
         NEW s2, s2 = Renamed(t[b][k - 1].alias, blocks[b][k])
  PROVE  Sim(t, Execute(m, blocks[b][k]), Execute(n, s2), b, k)
<1>1. /\ DomTree /\ Fixed /\ Traced(t, phis) /\ b \in Block /\ promotable \subseteq Id
      /\ Matched(m, n) /\ m \in State /\ n \in State /\ m.calls = n.calls /\ m.out = n.out
      /\ \A c \in Slots \ Hidden : m.mem[c] = n.mem[c]
      /\ \A c \in Slots : m.mem[c] \notin Hidden BY DEF Setting, DomTree, Sim, Fixed, Matched
<1>2. PICK s \in Stmt : s = blocks[b][k] BY <1>1, CodeFacts
<1>3. PICK a : a = t[b][k - 1].alias OBVIOUS
<1>4. a \in [Id -> Operand]
 <2>1. t[b][k - 1] \in Flow BY <1>1, DefinedFollows, FlowTyped
 <2> QED BY <1>3, <2>1 DEF Flow
<1>5. /\ s2 \in Stmt /\ s2.op = s.op
      /\ s.op # "store" => s2.dst = s.dst
      /\ s.op \in {"gep", "call"} => s2.arg = Ren(a, s.arg)
      /\ s.op \in {"load", "store"} => s2.ptr = Ren(a, s.ptr)
      /\ s.op = "store" => s2.src = Ren(a, s.src) BY <1>2, <1>3, <1>4, RenamedFacts
<1>6. \A o \in ReadOperands(s) : ~IsPromoted(o) =>
        ValueOf(m, o) \in Int /\ ValueOf(m, o) \notin Hidden /\ ValueOf(m, o) = ValueOf(n, Ren(a, o))
  BY <1>2, <1>3, OperandMatches
<1>7. s.op # "store" => s.dst \in Id /\ s.dst \in Defines(s) BY StmtFacts
<1>8. PICK m2 : m2 = Execute(m, s) OBVIOUS
<1>9. PICK n2 : n2 = Execute(n, s2) OBVIOUS
<1>10. ASSUME s.op # "store", NEW e, e \notin Hidden, Assigned(m, m2, s.dst, e), Assigned(n, n2, s.dst, e),
              m2.calls = n2.calls, m2.out = n2.out
       PROVE  Sim(t, m2, n2, b, k) BY <1>2, <1>7, <1>10, SimAssigned
<1>11. CASE s.op = "alloca"
 <2>1. Assigned(m, m2, s.dst, Address(s.dst)) /\ Silent(m, m2) BY <1>1, <1>8, <1>11, AllocaRuns
 <2>2. Assigned(n, n2, s.dst, Address(s.dst)) /\ Silent(n, n2) BY <1>1, <1>5, <1>9, <1>11, AllocaRuns
 <2>3. Address(s.dst) \notin Hidden BY <1>1, <1>2, <1>7, <1>11, AddressFacts DEF Kept
 <2>4. Sim(t, m2, n2, b, k) BY <1>1, <1>10, <1>11, <2>1, <2>2, <2>3 DEF Silent
 <2> QED BY <1>2, <1>8, <1>9, <2>4
<1>12. CASE s.op = "gep"
 <2>1. PICK e : e = ValueOf(m, s.arg) OBVIOUS
 <2>2. s.arg \in ReadOperands(s) /\ ~IsPromoted(s.arg) BY <1>1, <1>2, <1>12, ReadKept
 <2>3. e \in Int /\ e \notin Hidden /\ e = ValueOf(n, s2.arg) BY <1>5, <1>6, <1>12, <2>1, <2>2
 <2>4. Assigned(m, m2, s.dst, e) /\ Silent(m, m2) BY <1>1, <1>8, <1>12, <2>1, <2>3, GepRuns
 <2>5. Assigned(n, n2, s.dst, e) /\ Silent(n, n2) BY <1>1, <1>5, <1>9, <1>12, <2>3, GepRuns
 <2>6. Sim(t, m2, n2, b, k) BY <1>1, <1>10, <1>12, <2>3, <2>4, <2>5 DEF Silent
 <2> QED BY <1>2, <1>8, <1>9, <2>6
<1>13. CASE s.op = "load"
 <2>1. PICK c : c = ValueOf(m, s.ptr) OBVIOUS
 <2>2. s.ptr \in ReadOperands(s) /\ ~IsPromoted(s.ptr) BY <1>1, <1>2, <1>13, ReadKept
 <2>3. c \notin Hidden /\ c = ValueOf(n, s2.ptr) BY <1>5, <1>6, <1>13, <2>1, <2>2
 <2>4. PICK e : e = Contents(m, c) OBVIOUS
 <2>5. e = Contents(n, c) /\ e \notin Hidden BY <1>1, <2>3, <2>4, AddressFacts DEF Contents
 <2>6. Assigned(m, m2, s.dst, e) /\ Silent(m, m2) BY <1>1, <1>8, <1>13, <2>1, <2>4, LoadRuns
 <2>7. Assigned(n, n2, s.dst, e) /\ Silent(n, n2) BY <1>1, <1>5, <1>9, <1>13, <2>3, <2>5, LoadRuns
 <2>8. Sim(t, m2, n2, b, k) BY <1>1, <1>10, <1>13, <2>5, <2>6, <2>7 DEF Silent
 <2> QED BY <1>2, <1>8, <1>9, <2>8
<1>14. CASE s.op = "call"
 <2>1. PICK e : e = ValueOf(m, s.arg) OBVIOUS
 <2>2. s.arg \in ReadOperands(s) /\ ~IsPromoted(s.arg) BY <1>1, <1>2, <1>14, ReadKept
 <2>3. e \in Int /\ e = ValueOf(n, s2.arg) BY <1>5, <1>6, <1>14, <2>1, <2>2
 <2>4. PICK r : r = Returned(m.calls) OBVIOUS
 <2>5. r \notin Hidden /\ r = Returned(n.calls) BY <1>1, <2>4, RecordOf, AddressFacts
 <2>6. Assigned(m, m2, s.dst, r) /\ Spoken(m, m2, e) BY <1>1, <1>8, <1>14, <2>1, <2>3, <2>4, CallRuns
 <2>7. Assigned(n, n2, s.dst, r) /\ Spoken(n, n2, e) BY <1>1, <1>5, <1>9, <1>14, <2>3, <2>5, CallRuns
 <2>8. m2.calls = n2.calls /\ m2.out = n2.out BY <1>1, <2>6, <2>7 DEF Spoken
 <2>9. Sim(t, m2, n2, b, k) BY <1>10, <1>14, <2>5, <2>6, <2>7, <2>8
 <2> QED BY <1>2, <1>8, <1>9, <2>9
<1>15. CASE s.op = "store"
 <2>1. PICK c : c = ValueOf(m, s.ptr) OBVIOUS
 <2>2. PICK e : e = ValueOf(m, s.src) OBVIOUS
 <2>3. /\ s.ptr \in ReadOperands(s) /\ ~IsPromoted(s.ptr)
       /\ s.src \in ReadOperands(s) /\ ~IsPromoted(s.src) BY <1>1, <1>2, <1>15, ReadKept
 <2>4. c \notin Hidden /\ c = ValueOf(n, s2.ptr) /\ e \notin Hidden /\ e \in Int /\ e = ValueOf(n, s2.src)
   BY <1>5, <1>6, <1>15, <2>1, <2>2, <2>3
 <2>5. Stored(m, m2, c, e) /\ Silent(m, m2) BY <1>1, <1>8, <1>15, <2>1, <2>2, <2>4, StoreRuns
 <2>6. Stored(n, n2, c, e) /\ Silent(n, n2) BY <1>1, <1>5, <1>9, <1>15, <2>4, StoreRuns
 <2>7. \A d \in Slots \ Hidden : m2.mem[d] = n2.mem[d] BY <1>1, <2>5, <2>6 DEF Stored
 <2>8. \A v \in promotable : ~Stores(s, v) /\ c # Address(v) BY <1>1, <2>3, <2>4, AddressFacts DEF Stores, IsPromoted, Local
 <2>9. n2 \in State /\ n2.env = n.env /\ m2.calls = n2.calls /\ m2.out = n2.out BY <1>1, <2>5, <2>6 DEF Stored, Silent
 <2>10. Sim(t, m2, n2, b, k) BY <1>2, <1>15, <2>4, <2>5, <2>7, <2>8, <2>9, SimWritten
 <2> QED BY <1>2, <1>8, <1>9, <2>10
<1> QED BY <1>11, <1>12, <1>13, <1>14, <1>15, StmtFacts
LEMMA RemovedMatches ==
  ASSUME NEW t, Setting(t), NEW b \in Reachable(succs), NEW k \in DOMAIN blocks[b],
         NEW m, NEW n, Sim(t, m, n, b, k - 1), ~Kept(blocks[b][k])
  PROVE  Sim(t, Execute(m, blocks[b][k]), n, b, k)
<1>1. /\ DomTree /\ Fixed /\ Chosen /\ Traced(t, phis) /\ b \in Block /\ promotable \subseteq Id
      /\ Matched(m, n) /\ m \in State /\ n \in State /\ m.calls = n.calls /\ m.out = n.out
      /\ \A c \in Slots \ Hidden : m.mem[c] = n.mem[c]
      /\ \A c \in Slots : m.mem[c] \notin Hidden BY DEF Setting, DomTree, Sim, Fixed, Matched
<1>2. PICK s \in Stmt : s = blocks[b][k] BY <1>1, CodeFacts
<1>3. k \in 1 .. Len(blocks[b]) /\ DOMAIN blocks[b] = 1 .. Len(blocks[b]) BY <1>1, DefinedFollows, CodeFacts
<1>4. s.op # "store" => s.dst \in Id /\ s.dst \in Defines(s) BY StmtFacts
<1>5. PICK m2 : m2 = Execute(m, s) OBVIOUS
<1>6. CASE s.op = "alloca"
 <2>1. Assigned(m, m2, s.dst, Address(s.dst)) /\ Silent(m, m2) /\ s.dst \in promotable
   BY <1>1, <1>2, <1>5, <1>6, AllocaRuns DEF Kept
 <2>2. PICK x, e : x = s.dst /\ e = Address(s.dst) OBVIOUS
 <2>3. Sim(t, m2, n, b, k) BY <1>2, <1>4, <1>6, <2>1, <2>2, SimRemoved
 <2> QED BY <1>2, <1>5, <2>3
<1>7. ASSUME s.op \in {"load", "store"}
      PROVE  /\ s.ptr.id \in promotable /\ s.ptr = Local(s.ptr.id)
             /\ ValueOf(m, s.ptr) = Address(s.ptr.id)
 <2>1. s.ptr \in Operand /\ s.ptr.kind = "local" /\ s.ptr.id \in promotable BY <1>2, <1>7, StmtFacts DEF Kept, IsPromoted
 <2>2. s.ptr = Local(s.ptr.id) BY <2>1 DEF Operand, Local
 <2>3. s.ptr \in ReadOperands(s) BY <1>7 DEF ReadOperands
 <2>4. DefinedUpTo(b, k - 1, s.ptr.id) BY <1>1, <1>2, <2>1, <2>3, ReadDefined
 <2>5. m.env[s.ptr.id] = Address(s.ptr.id) BY <1>1, <2>1, <2>4 DEF Sim, LocalsMatch
 <2> QED BY <2>1, <2>2, <2>5 DEF ValueOf
<1>8. CASE s.op = "load"
 <2>1. PICK v : v = s.ptr.id OBVIOUS
 <2>2. v \in promotable /\ s.ptr = Local(v) /\ ValueOf(m, s.ptr) = Address(v) /\ PromotedLoad(s)
   BY <1>2, <1>7, <1>8, <2>1 DEF PromotedLoad, Kept
 <2>3. Address(v) \in Slots BY <1>1, <2>2, AddressFacts
 <2>4. PICK e : e = m.mem[Address(v)] OBVIOUS
 <2>5. Assigned(m, m2, s.dst, e) /\ Silent(m, m2) BY <1>1, <1>5, <1>8, <2>2, <2>3, <2>4, LoadRuns DEF Contents
 <2>6. e \notin Hidden BY <1>1, <2>3, <2>4
 <2>7. Visible(v, b, k - 1)
  <3>1. CASE \E j \in 1 .. k - 1 : Stores(blocks[b][j], v) BY <3>1 DEF Visible
  <3>2. CASE ~\E j \in 1 .. k - 1 : Stores(blocks[b][j], v)
   <4>1. b \in LoadBeforeStoreBlocks(v) BY <1>1, <1>2, <1>8, <2>2, <3>2 DEF LoadBeforeStoreBlocks, Loads
   <4>2. LoadBeforeStoreBlocks(v) \subseteq LiveIn(v) BY <1>1, LiveInIs DEF DomTree
   <4> QED BY <4>1, <4>2 DEF Visible
  <3> QED BY <3>1, <3>2
 <2>8. e = ValueOf(n, Value(t[b][k - 1], v)) BY <2>2, <2>4, <2>7 DEF Sim, SlotsMatch
 <2>9. PICK x : x = s.dst OBVIOUS
 <2>10. s.dst \notin promotable BY <1>1, <1>2, <1>4, <1>8, AllocaOnly
 <2>11. t[b][k].alias[x] = Value(t[b][k - 1], v)
  <3>1. x \in Id /\ PromotedLoad(blocks[b][k]) /\ x = blocks[b][k].dst /\ blocks[b][k].ptr.id = v
    BY <1>2, <1>4, <1>8, <2>1, <2>2, <2>9
  <3>2. t[b][k].alias[x] = Value(t[b][k - 1], blocks[b][k].ptr.id) BY <1>1, <1>3, <3>1, AliasRules
  <3> QED BY <3>1, <3>2
 <2>12. Sim(t, m2, n, b, k) BY <1>2, <1>4, <1>8, <2>5, <2>6, <2>8, <2>9, <2>10, <2>11, SimRemoved
 <2> QED BY <1>2, <1>5, <2>12
<1>9. CASE s.op = "store"
 <2>1. PICK v : v = s.ptr.id OBVIOUS
 <2>2. v \in promotable /\ s.ptr = Local(v) /\ ValueOf(m, s.ptr) = Address(v) BY <1>7, <1>9, <2>1
 <2>3. PICK e : e = ValueOf(m, s.src) OBVIOUS
 <2>4. s.src \in ReadOperands(s) /\ ~IsPromoted(s.src) BY <1>1, <1>2, <1>9, ReadKept
 <2>5. e \in Int /\ e \notin Hidden /\ e = ValueOf(n, Ren(t[b][k - 1].alias, s.src)) BY <1>2, <2>3, <2>4, OperandMatches
 <2>6. PICK a : a = Address(v) OBVIOUS
 <2>7. Stored(m, m2, a, e) /\ Silent(m, m2) BY <1>1, <1>5, <1>9, <2>2, <2>3, <2>5, <2>6, StoreRuns
 <2>8. \A c \in Slots \ Hidden : m2.mem[c] = n.mem[c] BY <1>1, <2>2, <2>6, <2>7, AddressFacts DEF Stored
 <2>9. \A w \in promotable : IF Stores(s, w) THEN w = v ELSE a # Address(w)
   BY <1>1, <1>9, <2>2, <2>6, AddressFacts DEF Stores, Local
 <2>10. m2.calls = n.calls /\ m2.out = n.out BY <1>1, <2>7 DEF Silent
 <2>11. Sim(t, m2, n, b, k) BY <1>1, <1>2, <1>9, <2>5, <2>6, <2>7, <2>8, <2>9, <2>10, SimWritten
 <2> QED BY <1>2, <1>5, <2>11
<1> QED BY <1>2, <1>6, <1>8, <1>9, StmtFacts DEF Kept
(* A block: the output is that of the block. *)
Fresh(m) == [m EXCEPT !.out = <<>>]

LEMMA BlockMatches ==
  ASSUME NEW t, Setting(t), NEW b \in Reachable(succs), NEW m, NEW n, Sim(t, Fresh(m), Fresh(n), b, 0)
  PROVE  Sim(t, ExecuteAll(m, blocks[b]), ExecuteAll(n, Out(t, b).code), b, Len(blocks[b]))
<1>1. DomTree /\ Fixed /\ Traced(t, phis) /\ b \in Block BY DEF Setting, DomTree
<1>2. PICK z \in Nat : z = Len(blocks[b]) BY <1>1, CodeFacts
<1>3. DOMAIN blocks[b] = 1 .. z BY <1>1, <1>2, CodeFacts
<1>4. PICK h : IsRun(m, blocks[b], Len(blocks[b]), h) /\ ExecuteAll(m, blocks[b]) = h[Len(blocks[b])] BY <1>2, ExecuteAllIs
<1>5. \A j \in 0 .. z : t[b][j] \in Flow BY <1>1, <1>2, FlowTyped
<1> DEFINE S == {j \in Nat : j <= z => Sim(t, h[j], ExecuteAll(n, t[b][j].code), b, j)}
<1>6. 0 \in S
 <2>1. t[b][0].code = <<>> BY <1>1 DEF Traced, Begins
 <2>2. <<>> \in Seq({0}) /\ 0 \in {0} OBVIOUS
 <2>3. ExecuteAll(n, <<>>) = [n EXCEPT !.out = <<>>] BY <2>2, ExecuteMore
 <2>4. h[0] = Fresh(m) BY <1>4 DEF IsRun, Fresh
 <2>5. Sim(t, h[0], ExecuteAll(n, t[b][0].code), b, 0) BY <2>1, <2>3, <2>4 DEF Fresh
 <2> QED BY <2>5
<1>7. ASSUME NEW j \in Nat, j \in S PROVE j + 1 \in S
 <2> SUFFICES ASSUME j + 1 <= z PROVE Sim(t, h[j + 1], ExecuteAll(n, t[b][j + 1].code), b, j + 1) OBVIOUS
 <2>1. PICK k : k = j + 1 OBVIOUS
 <2>2. k \in 1 .. z /\ k - 1 = j /\ j \in 0 .. z /\ k \in DOMAIN blocks[b] BY <1>3, <2>1
 <2>3. PICK s \in Stmt : s = blocks[b][k] BY <1>1, <2>2, CodeFacts
 <2>4. h[k] = Execute(h[j], s) BY <1>2, <1>4, <2>2, <2>3 DEF IsRun
 <2>5. PICK g : g = t[b][j] OBVIOUS
 <2>6. g \in Flow /\ g.code \in Seq(Stmt) /\ g.alias \in [Id -> Operand] BY <1>5, <2>2, <2>5 DEF Flow
 <2>7. PICK p : p = ExecuteAll(n, g.code) OBVIOUS
 <2>8. Sim(t, h[j], p, b, k - 1) BY <1>7, <2>2, <2>5, <2>7
 <2>9. t[b][k] = Take(t[b][k - 1], blocks[b][k]) BY <1>1, <1>2, <2>2 DEF Traced
 <2>10. t[b][k].code = IF Kept(s) THEN Append(g.code, Renamed(g.alias, s)) ELSE g.code BY <2>2, <2>3, <2>5, <2>9, TakeFacts
 <2>11. CASE Kept(s)
  <3>1. PICK s2 : s2 = Renamed(g.alias, s) OBVIOUS
  <3>2. s2 \in Stmt BY <2>6, <3>1, RenamedStmt
  <3>3. ExecuteAll(n, Append(g.code, s2)) = Execute(p, s2) BY <2>6, <2>7, <3>2, ExecuteMore
  <3>4. s2 = Renamed(t[b][k - 1].alias, blocks[b][k]) /\ Kept(blocks[b][k]) BY <2>2, <2>3, <2>5, <2>11, <3>1
  <3>5. Sim(t, Execute(h[j], blocks[b][k]), Execute(p, s2), b, k) BY <2>2, <2>8, <3>4, KeptMatches
  <3> QED BY <2>1, <2>3, <2>4, <2>10, <2>11, <3>1, <3>3, <3>5
 <2>12. CASE ~Kept(s)
  <3>1. Sim(t, Execute(h[j], blocks[b][k]), p, b, k) BY <2>2, <2>3, <2>8, <2>12, RemovedMatches
  <3> QED BY <2>1, <2>3, <2>4, <2>7, <2>10, <2>12, <3>1
 <2> QED BY <2>11, <2>12
<1> HIDE DEF S
<1>8. z \in S BY <1>6, <1>7, SetInduction
<1>9. Sim(t, h[z], ExecuteAll(n, t[b][z].code), b, z) BY <1>8 DEF S
<1> QED BY <1>2, <1>4, <1>9 DEF Out
LEMMA FreshFacts ==
  ASSUME NEW m \in State
  PROVE  /\ Fresh(m) \in State /\ Fresh(m).env = m.env /\ Fresh(m).mem = m.mem
         /\ Fresh(m).calls = m.calls /\ Fresh(m).out = <<>>
<1>1. DOMAIN m = {"env", "calls", "out", "mem"} BY RecordOf
<1> DEFINE g == Fresh(m)
<1>2. IsState(g, m.env, m.calls, <<>>, m.mem) BY <1>1, RecordOf DEF Fresh, IsState
<1> HIDE DEF g
<1>3. <<>> \in Seq(Int) OBVIOUS
<1>4. g \in State BY <1>2, <1>3, RecordOf, StateOf
<1>5. g.env = m.env /\ g.mem = m.mem /\ g.calls = m.calls /\ g.out = <<>> BY <1>2 DEF IsState
<1> QED BY <1>4, <1>5 DEF g

(* An edge, from p to c.  The phis of c take what the flow says at the end of
   p, and everything else stays. *)
PhisTaken(t, p, c, n, n2) ==
  \A i \in Id :
    /\ \A k \in DOMAIN phis[c] :
         phis[c][k].dst = i => n2.env[i] = ValueOf(n, Value(Out(t, p), phis[c][k].var))
    /\ ~PhiDefines(phis, c, i) => n2.env[i] = n.env[i]

(* What is known above a block is none of its phis. *)
LEMMA KnownAbove ==
  ASSUME Fixed, PhisDistinct, NEW c \in Block, NEW d \in Block, d # c, c \notin Ancestors(d),
         NEW j \in 0 .. Len(blocks[d]), NEW o, KnownOp(phis, o, d, j), o.kind = "local"
  PROVE  o.id \in Id /\ ~PhiDefines(phis, c, o.id)
<1>1. Known(phis, d, j, o.id) /\ o.id \in Id BY DEF KnownOp
<1>2. SUFFICES ASSUME PhiDefines(phis, c, o.id) PROVE FALSE BY <1>1
<1>3. \A e \in Block : PhiDefines(phis, e, o.id) => e = c BY <1>2 DEF PhiDefines, PhisDistinct
<1>4. \A e \in Block : \A i \in DOMAIN blocks[e] : o.id \notin Defines(blocks[e][i]) BY <1>2 DEF PhiDefines, PhisDistinct
<1>5. \A e \in Block : ~KeptUpTo(e, Len(blocks[e]), o.id) BY <1>4, CodeFacts DEF KeptUpTo
<1>6. ~KeptUpTo(d, j, o.id)
 <2>1. \A i \in 1 .. j : i \in DOMAIN blocks[d] BY CodeFacts
 <2> QED BY <1>4, <2>1 DEF KeptUpTo
<1>7. \A e \in Ancestors(d) : e \in Block /\ e # c BY DEF Ancestors
<1> QED BY <1>1, <1>3, <1>5, <1>6, <1>7 DEF Known

LEMMA ValueStays ==
  ASSUME Fixed, PhisDistinct, NEW c \in Block, NEW d \in Block, d # c, c \notin Ancestors(d),
         NEW o, KnownOp(phis, o, d, Len(blocks[d])), NEW t, NEW p, NEW n, NEW n2, PhisTaken(t, p, c, n, n2)
  PROVE  ValueOf(n2, o) = ValueOf(n, o)
<1>1. CASE o.kind = "const" BY <1>1 DEF ValueOf
<1>2. CASE o.kind # "const"
 <2>1. o.kind = "local" BY <1>2 DEF KnownOp, Operand
 <2>2. Len(blocks[d]) \in 0 .. Len(blocks[d]) BY CodeFacts
 <2>3. o.id \in Id /\ ~PhiDefines(phis, c, o.id) BY <2>1, <2>2, KnownAbove
 <2> QED BY <1>2, <2>3 DEF ValueOf, PhisTaken
<1> QED BY <1>1, <1>2

(* Whatever is above c is above p, or p itself, and not below c. *)
LEMMA AboveEdge ==
  ASSUME DomTree, NEW p \in Reachable(succs), NEW c \in ToSet(succs[p]), NEW d \in Ancestors(c)
  PROVE  /\ c \in Block /\ c \in Reachable(succs) /\ d \in Reachable(succs) /\ d \in Block /\ d # c
         /\ d = p \/ d \in Ancestors(p)
         /\ c \notin Ancestors(d)
<1>1. PICK r : IsTree(idom, r) BY DEF DomTree
<1>2. c \in Reachable(succs) /\ c \in Block /\ p \in Block BY DominanceFacts, SuccessorBlocks DEF DomTree
<1>3. d \in Block /\ d # c /\ TreeDominates(idom, d, c) BY DEF Ancestors
<1>4. d \in Dominators(succs, c) /\ d \in Reachable(succs) BY <1>2, <1>3 DEF DomTree
<1>5. d \in Dominators(succs, p)
 <2>1. Strict(c) \subseteq Dominators(succs, p) BY <1>2, DominanceFacts DEF DomTree
 <2> QED BY <1>3, <1>4, <2>1 DEF Strict
<1>6. TreeDominates(idom, d, p) BY <1>3, <1>5 DEF DomTree
<1>7. d = p \/ d \in Ancestors(p) BY <1>3, <1>6 DEF Ancestors
<1>8. c \notin Ancestors(d) BY <1>1, <1>2, <1>3, AncestorsAntisymmetric DEF Ancestors
<1> QED BY <1>2, <1>3, <1>4, <1>7, <1>8
LEMMA EdgeMatches ==
  ASSUME NEW t, Setting(t), NEW p \in Reachable(succs), NEW c \in ToSet(succs[p]),
         NEW m, NEW n, Sim(t, m, n, p, Len(blocks[p])),
         NEW n2 \in State, n2.calls = n.calls, n2.mem = n.mem, PhisTaken(t, p, c, n, n2)
  PROVE  Sim(t, Fresh(m), Fresh(n2), c, 0)
<1>1. /\ DomTree /\ Fixed /\ PhisDistinct /\ Chosen /\ FrontiersKnown /\ Traced(t, phis) /\ Closed(phis)
      /\ \A b \in Block : \A i \in DOMAIN phis[b] : phis[b][i].dst \in Id
      /\ Matched(m, n) /\ LocalsMatch(t, m, n, p, Len(blocks[p])) /\ SlotsMatch(t, m, n, p, Len(blocks[p]))
      /\ m \in State /\ n \in State /\ p \in Block BY DEF Setting, DomTree, Sim, Placed, Matched
<1>2. c \in Block /\ c \in Reachable(succs) BY <1>1, DominanceFacts, SuccessorBlocks DEF DomTree
<1>3. PICK r : IsTree(idom, r) BY <1>1 DEF DomTree
<1>4. \A d \in Block : /\ Len(blocks[d]) \in Nat /\ DOMAIN blocks[d] = 1 .. Len(blocks[d])
                       /\ Len(blocks[d]) \in 0 .. Len(blocks[d]) /\ 0 \in 0 .. Len(blocks[d]) BY <1>1, CodeFacts
<1>5. PICK m3 : m3 = Fresh(m) OBVIOUS
<1>6. PICK n3 : n3 = Fresh(n2) OBVIOUS
<1>7. m3 \in State /\ m3.env = m.env /\ m3.mem = m.mem /\ m3.calls = m.calls /\ m3.out = <<>> BY <1>1, <1>5, FreshFacts
<1>8. n3 \in State /\ n3.env = n2.env /\ n3.mem = n2.mem /\ n3.calls = n2.calls /\ n3.out = <<>> BY <1>6, FreshFacts
<1>9. Matched(m3, n3) BY <1>1, <1>7, <1>8 DEF Matched
<1>10. \A o : ValueOf(n3, o) = ValueOf(n2, o) BY <1>8 DEF ValueOf
<1>11. LocalsMatch(t, m3, n3, c, 0)
 <2> SUFFICES ASSUME NEW x \in Id, DefinedUpTo(c, 0, x)
              PROVE  /\ x \in promotable => m.env[x] = Address(x)
                     /\ x \notin promotable => m.env[x] = ValueOf(n2, t[c][0].alias[x]) BY <1>7, <1>10 DEF LocalsMatch
 <2>1. PICK d \in Ancestors(c) : \E k \in DOMAIN blocks[d] : x \in Defines(blocks[d][k]) BY DEF DefinedUpTo
 <2>2. PICK k \in DOMAIN blocks[d] : x \in Defines(blocks[d][k]) BY <2>1
 <2>3. d \in Reachable(succs) /\ d \in Block /\ d # c /\ (d = p \/ d \in Ancestors(p)) /\ c \notin Ancestors(d)
   BY <1>1, AboveEdge
 <2>4. DefinedUpTo(p, Len(blocks[p]), x) /\ DefinedUpTo(d, Len(blocks[d]), x) BY <1>4, <2>2, <2>3 DEF DefinedUpTo
 <2>5. PICK o : o = Out(t, d).alias[x] OBVIOUS
 <2>6. t[c][0].alias[x] = o BY <1>1, <1>2, <1>4, <2>2, <2>3, <2>5, AliasStable
 <2>7. t[p][Len(blocks[p])].alias[x] = o
  <3>1. CASE d = p BY <2>5, <3>1 DEF Out
  <3>2. CASE d \in Ancestors(p) BY <1>1, <1>4, <2>2, <2>3, <2>5, <3>2, AliasStable
  <3> QED BY <2>3, <3>1, <3>2
 <2>8. ASSUME x \notin promotable PROVE m.env[x] = ValueOf(n2, o)
  <3>1. m.env[x] = ValueOf(n, o) BY <1>1, <2>4, <2>7, <2>8 DEF LocalsMatch
  <3>2. FlowKnown(t, phis, d, Len(blocks[d])) BY <1>1, <1>4, <2>3, FlowIsKnown
  <3>3. KnownOp(phis, o, d, Len(blocks[d])) BY <2>4, <2>5, <2>8, <3>2 DEF FlowKnown, Out
  <3>4. ValueOf(n2, o) = ValueOf(n, o) BY <1>1, <1>2, <2>3, <3>3, ValueStays
  <3> QED BY <3>1, <3>4
 <2> QED BY <1>1, <2>4, <2>6, <2>8 DEF LocalsMatch
<1>12. SlotsMatch(t, m3, n3, c, 0)
 <2> SUFFICES ASSUME NEW v \in promotable, Visible(v, c, 0)
              PROVE  m.mem[Address(v)] = ValueOf(n2, Value(t[c][0], v)) BY <1>7, <1>10 DEF SlotsMatch
 <2>1. c \in LiveIn(v) /\ c # Entry BY <1>1 DEF Visible, Chosen
 <2>2. Visible(v, p, Len(blocks[p]))
  <3>1. p \in LiveIn(v) \/ p \in DefBlocks(v) BY <1>1, <2>1, LiveInIs DEF DomTree
  <3> QED BY <1>4, <3>1 DEF Visible, DefBlocks
 <2>3. m.mem[Address(v)] = ValueOf(n, Value(Out(t, p), v)) BY <1>1, <2>2 DEF SlotsMatch, Out
 <2>4. CASE HasPhiIn(phis, c, v)
  <3>1. PICK k \in DOMAIN phis[c] : phis[c][k].var = v BY <2>4 DEF HasPhiIn
  <3>2. PICK i \in Id : i = phis[c][k].dst BY <1>1, <1>2
  <3>3. n2.env[i] = ValueOf(n, Value(Out(t, p), v)) BY <3>1, <3>2 DEF PhisTaken
  <3>4. Value(t[c][0], v) = Local(i) BY <1>1, <1>2, <3>1, <3>2, ValueRules
  <3> QED BY <2>3, <3>3, <3>4 DEF ValueOf, Local
 <2>5. CASE ~HasPhiIn(phis, c, v)
  <3>1. PICK d : d = idom[c] OBVIOUS
  <3>2. d # None /\ d \in Ancestors(c) BY <1>1, <1>2, <1>3, <2>1, <3>1, AncestorsRule DEF DomTree
  <3>3. d \in Reachable(succs) /\ d \in Block /\ d # c /\ c \notin Ancestors(d) BY <1>1, <3>2, AboveEdge
  <3>4. PICK o : o = Value(Out(t, d), v) OBVIOUS
  <3>5. Value(Out(t, p), v) = o BY <1>1, <2>1, <2>5, <3>1, <3>4, ValuesJoin
  <3>6. Value(t[c][0], v) = o BY <1>1, <1>2, <2>5, <3>1, <3>2, <3>4, ValueRules DEF Above
  <3>7. FlowKnown(t, phis, d, Len(blocks[d])) BY <1>1, <1>4, <3>3, FlowIsKnown
  <3>8. KnownOp(phis, o, d, Len(blocks[d])) BY <3>4, <3>7 DEF FlowKnown, Out
  <3>9. ValueOf(n2, o) = ValueOf(n, o) BY <1>1, <1>2, <3>3, <3>8, ValueStays
  <3> QED BY <2>3, <3>5, <3>6, <3>9
 <2> QED BY <2>4, <2>5
<1> QED BY <1>5, <1>6, <1>9, <1>11, <1>12 DEF Sim
(* The phis of a block, as the machine takes them. *)
LEMMA AfterPhisIs ==
  ASSUME PhisDistinct, ssa \in State, at \in Block, \A k \in DOMAIN phis[at] : PhiValue(phis[at][k]) \in Int
  PROVE  /\ AfterPhis \in State /\ AfterPhis.calls = ssa.calls /\ AfterPhis.mem = ssa.mem
         /\ \A i \in Id :
              /\ \A k \in DOMAIN phis[at] : phis[at][k].dst = i => AfterPhis.env[i] = PhiValue(phis[at][k])
              /\ ~PhiDefines(phis, at, i) => AfterPhis.env[i] = ssa.env[i]
<1> DEFINE W(i) == CHOOSE k \in DOMAIN phis[at] : phis[at][k].dst = i
           f == [i \in Id |-> IF PhiDefines(phis, at, i) THEN PhiValue(phis[at][W(i)]) ELSE ssa.env[i]]
<1>1. PICK g : g = AfterPhis OBVIOUS
<1>2. g = [ssa EXCEPT !.env = f] BY <1>1 DEF AfterPhis, PhiDefines
<1>3. \A i \in Id : PhiDefines(phis, at, i) =>
        W(i) \in DOMAIN phis[at] /\ \A k \in DOMAIN phis[at] : phis[at][k].dst = i => k = W(i)
 <2> SUFFICES ASSUME NEW i \in Id, PhiDefines(phis, at, i)
              PROVE  W(i) \in DOMAIN phis[at] /\ \A k \in DOMAIN phis[at] : phis[at][k].dst = i => k = W(i) OBVIOUS
 <2>1. W(i) \in DOMAIN phis[at] /\ phis[at][W(i)].dst = i BY DEF PhiDefines
 <2> HIDE DEF W
 <2> QED BY <2>1 DEF PhisDistinct
<1> HIDE DEF W
<1>4. \A i \in Id : f[i] = IF PhiDefines(phis, at, i) THEN PhiValue(phis[at][W(i)]) ELSE ssa.env[i] OBVIOUS
<1>5. \A i \in Id : f[i] \in Int BY <1>3, <1>4, RecordOf
<1>6. f \in [Id -> Int] BY <1>5
<1>7. \A i \in Id : /\ \A k \in DOMAIN phis[at] : phis[at][k].dst = i => f[i] = PhiValue(phis[at][k])
                    /\ ~PhiDefines(phis, at, i) => f[i] = ssa.env[i] BY <1>3, <1>4 DEF PhiDefines
<1> HIDE DEF f
<1>8. DOMAIN ssa = {"env", "calls", "out", "mem"} BY RecordOf
<1>9. IsState(g, f, ssa.calls, ssa.out, ssa.mem) BY <1>2, <1>8 DEF IsState
<1>10. g \in State BY <1>6, <1>9, RecordOf, StateOf
<1>11. g.env = f /\ g.calls = ssa.calls /\ g.mem = ssa.mem BY <1>9 DEF IsState
<1> QED BY <1>1, <1>7, <1>10, <1>11

LEMMA OperandValue ==
  ASSUME NEW n \in State, NEW o \in Operand, o.kind = "local" => o.id \in Id PROVE ValueOf(n, o) \in Int
<1>1. n.env \in [Id -> Int] BY RecordOf
<1>2. CASE o.kind = "const" BY <1>2 DEF ValueOf, Operand
<1>3. CASE o.kind = "local" BY <1>1, <1>3 DEF ValueOf
<1> QED BY <1>2, <1>3 DEF Operand

(* A phi lists the block left behind, with the value at its end. *)
LEMMA PhiValueIs ==
  ASSUME RenameInv, calls = <<>>, roots = {}, NEW t, Setting(t), EdgesFlow(t, phis),
         before \in Reachable(succs), NEW c \in ToSet(succs[before]), NEW k \in DOMAIN phis[c]
  PROVE  PhiValue(phis[c][k]) = ValueOf(ssa, Value(Out(t, before), phis[c][k].var))
<1>1. DomTree /\ before \in Block /\ c \in Block BY SuccessorBlocks DEF Setting, DomTree
<1>2. PICK phi : phi = phis[c][k] OBVIOUS
<1> DEFINE F == {i \in DOMAIN phi.incomings : phi.incomings[i].label = before}
<1>3. Cardinality(F) = Edges(before, c)
 <2>1. PhisComplete BY <1>1, RenamedResult DEF RunInv
 <2> QED BY <1>1, <1>2, <2>1 DEF PhisComplete
<1>4. Edges(before, c) > 0
 <2>1. succs[before] \in Seq(Block) BY <1>1 DEF DomTree, IsFlow
 <2> QED BY <2>1, OccurrencesCount DEF Edges
<1>5. F # {}
 <2>1. Cardinality({}) = 0 BY FS_EmptySet
 <2> HIDE DEF F
 <2> QED BY <1>3, <1>4, <2>1
<1>6. F \subseteq Nat
 <2>1. PICK S : phis \in [Block -> Seq(PhiRecord(S))] BY DEF RenameInv, PhisTyped
 <2>2. phis[c] \in Seq(PhiRecord(S)) BY <1>1, <2>1
 <2>3. phi \in PhiRecord(S) BY <1>2, <2>2, ElementType
 <2>4. phi.incomings \in Seq([label : Block, value : S]) BY <2>3 DEF PhiRecord
 <2>5. PICK l \in Seq([label : Block, value : S]) : l = phi.incomings BY <2>4
 <2>6. DOMAIN l \subseteq Nat OBVIOUS
 <2> QED BY <2>5, <2>6
<1>7. Least(F) \in F
 <2>1. \E i \in F : \A j \in F : i <= j BY <1>5, <1>6, LeastNumber
 <2> HIDE DEF F
 <2> QED BY <2>1 DEF Least
<1>8. PICK i : i = Least(F) OBVIOUS
<1>9. PhiValue(phi) = ValueOf(ssa, phi.incomings[i].value) BY <1>5, <1>8 DEF PhiValue
<1>10. i \in DOMAIN phi.incomings /\ phi.incomings[i].label = before BY <1>7, <1>8
<1>11. EdgeFlow(t, phi) BY <1>1, <1>2 DEF EdgesFlow
<1>12. phi.incomings[i].value = Value(Out(t, before), phi.var) BY <1>10, <1>11 DEF EdgeFlow
<1> QED BY <1>2, <1>9, <1>12

LEMMA EdgeTaken ==
  ASSUME RenameInv, calls = <<>>, roots = {}, NEW t, Setting(t), EdgesFlow(t, phis), ssa \in State,
         before \in Reachable(succs), at \in ToSet(succs[before])
  PROVE  /\ AfterPhis \in State /\ AfterPhis.calls = ssa.calls /\ AfterPhis.mem = ssa.mem
         /\ PhisTaken(t, before, at, ssa, AfterPhis)
<1>1. /\ DomTree /\ Fixed /\ PhisDistinct /\ Traced(t, phis) /\ before \in Block /\ at \in Block
      /\ \A b \in Block : \A i \in DOMAIN phis[b] : phis[b][i].dst \in Id BY SuccessorBlocks DEF Setting, DomTree, Placed
<1>2. \A k \in DOMAIN phis[at] :
        PhiValue(phis[at][k]) = ValueOf(ssa, Value(Out(t, before), phis[at][k].var)) BY PhiValueIs
<1>3. ASSUME NEW k \in DOMAIN phis[at] PROVE PhiValue(phis[at][k]) \in Int
 <2>1. phis[at][k].var \in promotable
  <3>1. PICK S : phis \in [Block -> Seq(PhiRecord(S))] BY DEF RenameInv, PhisTyped
  <3>2. phis[at] \in Seq(PhiRecord(S)) BY <1>1, <3>1
  <3>3. phis[at][k] \in PhiRecord(S) BY <3>2, ElementType
  <3> QED BY <3>3 DEF PhiRecord
 <2>2. PICK o : o = Value(Out(t, before), phis[at][k].var) OBVIOUS
 <2>3. Len(blocks[before]) \in 0 .. Len(blocks[before]) BY <1>1, CodeFacts
 <2>4. FlowKnown(t, phis, before, Len(blocks[before])) BY <1>1, <2>3, FlowIsKnown
 <2>5. o \in Operand /\ (o.kind = "local" => o.id \in Id) BY <2>1, <2>2, <2>4 DEF FlowKnown, KnownOp, Out
 <2> QED BY <1>2, <2>2, <2>5, OperandValue
<1> QED BY <1>1, <1>2, <1>3, AfterPhisIs DEF PhisTaken
(* A block of both programs. *)
RunsMatch(t) ==
  IF before = None
  THEN at = Entry /\ run = Machine /\ ssa = Machine
  ELSE /\ before \in Reachable(succs)
       /\ at # None => at \in ToSet(succs[before])
       /\ Sim(t, run, ssa, before, Len(blocks[before]))

LEMMA MachineIs ==
  /\ Machine \in State /\ Machine.calls = 0 /\ Machine.out = <<>>
  /\ \A i \in Id : Machine.env[i] = Poison
  /\ \A a \in Slots : Machine.mem[a] = Undefined
<1> DEFINE f == [i \in Id |-> Poison]
           k == [a \in Slots |-> Undefined]
<1>1. Machine = [Idle EXCEPT !.env = f, !.mem = k] BY DEF Machine, Slots
<1>2. f \in [Id -> Int] /\ k \in [Slots -> Int] BY DEF Poison, Undefined
<1>3. (\A i \in Id : f[i] = Poison) /\ (\A a \in Slots : k[a] = Undefined) OBVIOUS
<1> HIDE DEF f, k
<1>4. IsState(Machine, f, 0, <<>>, k) BY <1>1 DEF Idle, IsState
<1>5. <<>> \in Seq(Int) /\ 0 \in Nat OBVIOUS
<1>6. Machine \in State BY <1>2, <1>4, <1>5, StateOf
<1>7. Machine.env = f /\ Machine.mem = k /\ Machine.calls = 0 /\ Machine.out = <<>> BY <1>4 DEF IsState
<1> QED BY <1>3, <1>6, <1>7

(* Both start alike: the phis of the entry, if it has any, list no block that
   was left behind. *)
LEMMA StartMatches ==
  ASSUME RenameInv, NEW t, Setting(t), before = None, at = Entry, run = Machine, ssa = Machine
  PROVE  Sim(t, Fresh(run), Fresh(AfterPhis), Entry, 0)
<1>1. DomTree /\ Fixed /\ PhisDistinct /\ Chosen /\ promotable \subseteq Id /\ at \in Block BY BlockFacts DEF Setting, Fixed
<1>2. ASSUME NEW k \in DOMAIN phis[at] PROVE PhiValue(phis[at][k]) \in Int
 <2>1. PICK S : phis \in [Block -> Seq(PhiRecord(S))] BY DEF RenameInv, PhisTyped
 <2>2. phis[at] \in Seq(PhiRecord(S)) BY <1>1, <2>1
 <2>3. phis[at][k] \in PhiRecord(S) BY <2>2, ElementType
 <2>4. phis[at][k].incomings \in Seq([label : Block, value : S]) BY <2>3 DEF PhiRecord
 <2>5. \A i \in DOMAIN phis[at][k].incomings : phis[at][k].incomings[i] \in [label : Block, value : S] BY <2>4, ElementType
 <2>6. \A i \in DOMAIN phis[at][k].incomings : phis[at][k].incomings[i].label # before BY <2>5, BlockFacts
 <2>7. PhiValue(phis[at][k]) = Poison BY <2>6 DEF PhiValue
 <2> QED BY <2>7 DEF Poison
<1>3. Machine \in State /\ (\A i \in Id : Machine.env[i] = Poison) /\ (\A a \in Slots : Machine.mem[a] = Undefined) BY MachineIs
<1>4. PICK n : n = AfterPhis OBVIOUS
<1>5. n \in State /\ n.calls = ssa.calls /\ n.mem = ssa.mem BY <1>1, <1>2, <1>3, <1>4, AfterPhisIs
<1>6. PICK m3 : m3 = Fresh(run) OBVIOUS
<1>7. PICK n3 : n3 = Fresh(n) OBVIOUS
<1>8. m3 \in State /\ m3.env = run.env /\ m3.mem = run.mem /\ m3.calls = run.calls /\ m3.out = <<>> BY <1>3, <1>6, FreshFacts
<1>9. n3 \in State /\ n3.mem = n.mem /\ n3.calls = n.calls /\ n3.out = <<>> BY <1>5, <1>7, FreshFacts
<1>10. Poison \notin Hidden /\ Undefined \notin Hidden BY <1>1, AddressFacts
<1>11. Matched(m3, n3) BY <1>3, <1>5, <1>8, <1>9, <1>10 DEF Matched
<1>12. Ancestors(Entry) = {}
 <2>1. PICK r : IsTree(idom, r) BY <1>1 DEF DomTree
 <2> QED BY <1>1, <2>1, BlockFacts, AncestorsRule DEF DomTree
<1>13. LocalsMatch(t, m3, n3, Entry, 0) BY <1>12 DEF LocalsMatch, DefinedUpTo
<1>14. SlotsMatch(t, m3, n3, Entry, 0) BY <1>1 DEF SlotsMatch, Visible, Chosen
<1> QED BY <1>4, <1>6, <1>7, <1>11, <1>13, <1>14 DEF Sim

LEMMA BlockRuns ==
  ASSUME RenameInv, calls = <<>>, roots = {}, NEW t, Setting(t), EdgesFlow(t, phis),
         CodeFlow(t, calls, roots, rewritten), RunsMatch(t), RunBlock
  PROVE  at \in Reachable(succs) /\ Sim(t, run', ssa', at, Len(blocks[at]))
<1>1. DomTree /\ Fixed /\ at # None BY DEF Setting, RunBlock
<1>2. at \in Reachable(succs) /\ Sim(t, Fresh(run), Fresh(AfterPhis), at, 0)
 <2>1. CASE before = None
  <3>1. at = Entry /\ run = Machine /\ ssa = Machine BY <2>1 DEF RunsMatch
  <3>2. Sim(t, Fresh(run), Fresh(AfterPhis), Entry, 0) BY <2>1, <3>1, StartMatches
  <3> QED BY <1>1, <3>1, <3>2 DEF DomTree
 <2>2. CASE before # None
  <3>1. before \in Reachable(succs) /\ at \in ToSet(succs[before]) /\ Sim(t, run, ssa, before, Len(blocks[before]))
    BY <1>1, <2>2 DEF RunsMatch
  <3>2. ssa \in State BY <3>1 DEF Sim, Matched
  <3>3. /\ AfterPhis \in State /\ AfterPhis.calls = ssa.calls /\ AfterPhis.mem = ssa.mem
        /\ PhisTaken(t, before, at, ssa, AfterPhis) BY <3>1, <3>2, EdgeTaken
  <3>4. PICK n2 : n2 = AfterPhis OBVIOUS
  <3>5. Sim(t, Fresh(run), Fresh(n2), at, 0) BY <3>1, <3>3, <3>4, EdgeMatches
  <3>6. at \in Reachable(succs) BY <1>1, <3>1, DominanceFacts DEF DomTree
  <3> QED BY <3>4, <3>5, <3>6
 <2> QED BY <2>1, <2>2
<1>3. at \in Block BY <1>1, <1>2 DEF DomTree
<1>4. rewritten[at] = Out(t, at).code
 <2>1. Reached(calls, roots, at, Len(blocks[at]) + 1) BY DEF Reached, Pending, Waits
 <2> QED BY <1>2, <2>1 DEF CodeFlow
<1>5. PICK n2 : n2 = AfterPhis OBVIOUS
<1>6. Sim(t, ExecuteAll(run, blocks[at]), ExecuteAll(n2, Out(t, at).code), at, Len(blocks[at])) BY <1>2, <1>5, BlockMatches
<1>7. run' = ExecuteAll(run, blocks[at]) /\ ssa' = ExecuteAll(n2, rewritten[at]) BY <1>5 DEF RunBlock
<1> QED BY <1>2, <1>4, <1>6, <1>7
-----------------------------------------------------------------------------
(* The invariant of the whole pass: the phis placed so far, then the flow that
   renaming follows, then the two runs. *)
FlowAgrees(t) ==
  Traced(t, phis) /\ Agrees(t, calls, roots, var_stack, alias_map, phis, rewritten)

Awaiting == at = Entry /\ before = None /\ run = Idle /\ ssa = Idle

FlowInv ==
  /\ ConstantsPlain(blocks)
  /\ phase = "place" => PlacingInv
  /\ phase \in {"rename", "run"} => Chosen /\ Placed(phis)
  /\ phase \in {"rename", "run"} =>
       \E t : FlowAgrees(t) /\ (phase = "run" => RunsMatch(t))
  /\ phase # "run" => Awaiting

LEMMA DominatorsPhases ==
  ASSUME DomInv, DominatorsNext
  PROVE  /\ phase \in {"search", "iterate"} /\ succs' = succs
         /\ phase' \in {"search", "iterate", "done"}
<1>1. (stack # <<>> => phase = "search") /\ (fingers # <<>> => phase = "iterate") BY DEF DomInv
<1>2. CASE Visit BY <1>1, <1>2 DEF Visit, graph
<1>3. CASE Leave BY <1>1, <1>3 DEF Leave, graph
<1>4. CASE StartPass BY <1>4 DEF StartPass, graph
<1>5. CASE TakePredecessor BY <1>5 DEF TakePredecessor, Visiting, graph
<1>6. CASE WalkUp BY <1>1, <1>6 DEF WalkUp, graph
<1>7. CASE Meet BY <1>1, <1>7 DEF Meet, graph
<1>8. CASE Commit BY <1>8 DEF Commit, Visiting, graph
<1>9. CASE FinishDominators BY <1>9 DEF FinishDominators, graph
<1> QED BY <1>2, <1>3, <1>4, <1>5, <1>6, <1>7, <1>8, <1>9 DEF DominatorsNext

LEMMA FrontiersAreKnown == ASSUME DomInv, phase \notin {"search", "iterate"} PROVE FrontiersKnown
<1>1. OrderInv /\ FinalInv BY DEF DomInv, OrderInv
<1> QED BY <1>1, FrontiersExact DEF FrontiersKnown

(* What was proved about the values of the next state, as facts about that
   state. *)
LEMMA FlowAgreesBuilt ==
  ASSUME UNCHANGED Statics, NEW t, Traced(t, phis'),
         Agrees(t, calls', roots', var_stack', alias_map', phis', rewritten')
  PROVE  FlowAgrees(t)'
<1>1. Traced(t, phis)' BY FlowBuilt
<1>2. Agrees(t, calls, roots, var_stack, alias_map, phis, rewritten)' BY AgreesBuilt
<1> QED BY <1>1, <1>2 DEF FlowAgrees

LEMMA SimBuilt ==
  ASSUME UNCHANGED Statics, NEW t, NEW b, b = before', Sim(t, run', ssa', b, Len(blocks[b]))
  PROVE  Sim(t, run, ssa, before, Len(blocks[before]))'
<1>1. succs' = succs /\ idom' = idom /\ blocks' = blocks /\ promotable' = promotable BY DEF Statics
<1>2. Hidden' = Hidden BY <1>1 DEF Hidden
<1>3. Matched(run, ssa)'
 <2>1. Matched(run', ssa') BY DEF Sim
 <2> QED BY <1>1, <1>2, <2>1 DEF Matched
<1>4. LocalsMatch(t, run, ssa, before, Len(blocks[before]))'
 <2>1. LocalsMatch(t, run', ssa', b, Len(blocks[b])) BY DEF Sim
 <2>2. Ancestors(before)' = Ancestors(b) BY <1>1 DEF Ancestors
 <2>3. \A x : DefinedUpTo(before, Len(blocks[before]), x)' <=> DefinedUpTo(b, Len(blocks[b]), x) BY <1>1, <2>2 DEF DefinedUpTo
 <2> QED BY <1>1, <2>1, <2>3 DEF LocalsMatch, ValueOf
<1>5. SlotsMatch(t, run, ssa, before, Len(blocks[before]))'
 <2>1. SlotsMatch(t, run', ssa', b, Len(blocks[b])) BY DEF Sim
 <2>2. \A v : LiveIn(v)' = LiveIn(v) BY <1>1, StaticsKept
 <2>3. \A v : Visible(v, before, Len(blocks[before]))' <=> Visible(v, b, Len(blocks[b])) BY <1>1, <2>2 DEF Visible, Stores
 <2> QED BY <1>1, <2>1, <2>3 DEF SlotsMatch, ValueOf, Value
<1> QED BY <1>3, <1>4, <1>5 DEF Sim

LEMMA RunsBuilt ==
  ASSUME UNCHANGED Statics, NEW t, NEW b, b = before', b # None, b \in Reachable(succs),
         at' # None => at' \in ToSet(succs[b]), Sim(t, run', ssa', b, Len(blocks[b]))
  PROVE  RunsMatch(t)'
<1>1. Sim(t, run, ssa, before, Len(blocks[before]))' BY SimBuilt
<1>2. succs' = succs BY DEF Statics
<1> QED BY <1>1, <1>2 DEF RunsMatch
LEMMA FlowInit == Init => FlowInv
<1> SUFFICES ASSUME Init PROVE FlowInv OBVIOUS
<1>1. phase = "search" BY EarlyInit
<1>2. ConstantsPlain(blocks)
 <2>1. PICK f \in Functions : blocks = f.blocks BY DEF Init
 <2>2. ConstantsPlain(f.blocks) BY FunctionsAssumption
 <2> QED BY <2>1, <2>2
<1>3. Awaiting BY DEF Init, Awaiting
<1> QED BY <1>1, <1>2, <1>3 DEF FlowInv

LEMMA PlainKept == ASSUME ConstantsPlain(blocks), blocks' = blocks PROVE ConstantsPlain(blocks)' BY DEF ConstantsPlain

LEMMA SettingHolds ==
  ASSUME DomInv, SsaInv, FlowInv, phase \in {"rename", "run"}
  PROVE  /\ DomTree /\ RenameInv /\ Chosen /\ Placed(phis)
         /\ \E t : FlowAgrees(t) /\ (phase = "run" => Setting(t) /\ RunsMatch(t))
<1>1. DomTree /\ FrontiersKnown /\ RenameInv BY TreeKnown, FrontiersAreKnown DEF SsaInv
<1>2. Chosen /\ Placed(phis) /\ ConstantsPlain(blocks) BY DEF FlowInv
<1>3. PICK t : FlowAgrees(t) /\ (phase = "run" => RunsMatch(t)) BY DEF FlowInv
<1>4. Setting(t) BY <1>1, <1>2, <1>3 DEF Setting, RenameInv, FlowAgrees
<1> QED BY <1>1, <1>2, <1>3, <1>4

(* Renaming goes on, or begins. *)
LEMMA FlowGoesOnStep ==
  ASSUME ConstantsPlain(blocks), UNCHANGED Statics, phase' = "rename", Chosen, Placed(phis'), Awaiting',
         NEW t, Traced(t, phis'), Agrees(t, calls', roots', var_stack', alias_map', phis', rewritten')
  PROVE  FlowInv'
<1>1. succs' = succs /\ idom' = idom /\ blocks' = blocks /\ promotable' = promotable BY DEF Statics
<1>2. ConstantsPlain(blocks)' BY <1>1, PlainKept
<1>3. Chosen' BY <1>1, StaticsKept
<1>4. Placed(phis)' BY PlacedBuilt
<1>5. FlowAgrees(t)' BY FlowAgreesBuilt
<1> QED BY <1>2, <1>3, <1>4, <1>5 DEF FlowInv

LEMMA FlowRunning ==
  ASSUME ConstantsPlain(blocks), UNCHANGED Statics, phase' = "run", Chosen, Placed(phis'),
         NEW t, Traced(t, phis'), Agrees(t, calls', roots', var_stack', alias_map', phis', rewritten'),
         RunsMatch(t)'
  PROVE  FlowInv'
<1>1. succs' = succs /\ idom' = idom /\ blocks' = blocks /\ promotable' = promotable BY DEF Statics
<1>2. ConstantsPlain(blocks)' BY <1>1, PlainKept
<1>3. Chosen' BY <1>1, StaticsKept
<1>4. Placed(phis)' BY PlacedBuilt
<1>5. FlowAgrees(t)' BY FlowAgreesBuilt
<1> QED BY <1>2, <1>3, <1>4, <1>5 DEF FlowInv

LEMMA FlowStep == DomInv /\ SsaInv /\ FlowInv /\ [Next]_vars => FlowInv'
<1> SUFFICES ASSUME DomInv, SsaInv, FlowInv, [Next]_vars PROVE FlowInv' OBVIOUS
<1>1. calls # <<>> => phase = "rename" BY DEF SsaInv, EarlyInv, PlaceInv
<1>2. frontier # {} => phase = "place" BY DEF SsaInv, EarlyInv, RenameInv
<1>3. phase \notin {"search", "iterate"} => DomTree BY TreeKnown
<1>4. ConstantsPlain(blocks) /\ (phase # "run" => Awaiting) BY DEF FlowInv
<1>5. phase # "run" /\ UNCHANGED running => Awaiting' BY <1>4 DEF Awaiting, running
<1>6. CASE ComputeDominators
 <2>1. phase \in {"search", "iterate"} /\ phase' \in {"search", "iterate", "done"} /\ blocks' = blocks
       /\ UNCHANGED running BY <1>6, DominatorsPhases DEF ComputeDominators, mem2regVars
 <2>2. ConstantsPlain(blocks)' BY <1>4, <2>1, PlainKept
 <2> QED BY <1>5, <2>1, <2>2 DEF FlowInv
<1>7. CASE ChooseVariables
 <2>1. phase = "done" /\ phase' = "place" /\ blocks' = blocks /\ UNCHANGED running BY <1>7 DEF ChooseVariables, Done
 <2>2. PlacingInv' BY <1>3, <1>7, <2>1, ChoosePlaced DEF SsaInv
 <2>3. ConstantsPlain(blocks)' BY <1>4, <2>1, PlainKept
 <2> QED BY <1>5, <2>1, <2>2, <2>3 DEF FlowInv
<1>8. CASE PlaceVariable \/ PopWorklist \/ ConsiderFrontier
 <2>1. phase = "place" /\ phase' = phase /\ blocks' = blocks /\ UNCHANGED running
   BY <1>2, <1>8 DEF PlaceVariable, PopWorklist, ConsiderFrontier, function, dominatorsVars
 <2>2. PlaceInv /\ PlacingInv /\ DomTree /\ unplaced \subseteq promotable BY <1>3, <2>1 DEF SsaInv, FlowInv, PlaceInv
 <2>3. PlacingInv' BY <1>8, <2>2, VariablePlaced, WorklistPopped, FrontierConsidered
 <2>4. ConstantsPlain(blocks)' BY <1>4, <2>1, PlainKept
 <2> QED BY <1>5, <2>1, <2>3, <2>4 DEF FlowInv
<1>9. CASE StartRenaming
 <2>1. /\ phase = "place" /\ phase' = "rename" /\ unplaced = {} /\ worklist = <<>> /\ frontier = {}
       /\ UNCHANGED <<info, blocks, promotable, phis, running>> BY <1>9 DEF StartRenaming
 <2>2. PlaceInv /\ PlacingInv /\ DomTree BY <1>3, <2>1 DEF SsaInv, FlowInv
 <2>3. Chosen /\ Placed(phis) BY <2>1, <2>2, PlacingClosed DEF Placed
 <2>4. PICK t : Traced(t, phis') /\ Agrees(t, calls', roots', var_stack', alias_map', phis', rewritten')
   BY <1>9, <2>2, <2>3, StartFlows
 <2>5. UNCHANGED Statics /\ phis' = phis /\ Awaiting' BY <1>5, <2>1 DEF Statics, info, graph
 <2>6. Placed(phis') BY <2>3, <2>5
 <2> QED BY <1>4, <2>1, <2>3, <2>4, <2>5, <2>6, FlowGoesOnStep
<1>10. CASE RenameRoot \/ RenameAlloca \/ RenameStore \/ RenameLoad \/ RenameOther
             \/ FillSuccessors \/ RenameChild \/ LeaveBlock
 <2>1. phase = "rename" BY <1>1, <1>10 DEF RenameRoot, RenameAlloca, RenameStore, RenameLoad, RenameOther,
                      FillSuccessors, RenameChild, LeaveBlock, Reading, Filled
 <2>2. UNCHANGED <<function, promotable, running>> BY <1>10 DEF RenameRoot, RenameAlloca, RenameStore, RenameLoad, RenameOther,
                FillSuccessors, RenameChild, LeaveBlock
 <2>3. phase' = "rename" /\ UNCHANGED Statics BY <2>1, <2>2 DEF function, dominatorsVars, graph, Statics
 <2>4. DomTree /\ RenameInv /\ Chosen /\ Placed(phis) BY <2>1, SettingHolds
 <2>5. PICK t : FlowAgrees(t) BY <2>1, SettingHolds
 <2>6. Traced(t, phis) /\ Agrees(t, calls, roots, var_stack, alias_map, phis, rewritten) BY <2>5 DEF FlowAgrees
 <2>7. /\ Placed(phis') /\ Traced(t, phis')
       /\ Agrees(t, calls', roots', var_stack', alias_map', phis', rewritten') BY <1>10, <2>4, <2>6, FlowKept
 <2>8. Awaiting' BY <1>5, <2>1, <2>2
 <2> QED BY <1>4, <2>3, <2>4, <2>7, <2>8, FlowGoesOnStep
<1>11. CASE Finish
 <2>1. /\ phase = "rename" /\ phase' = "run" /\ run' = Machine /\ ssa' = Machine
       /\ UNCHANGED <<info, blocks, promotable, phis, renaming, at, before>> BY <1>11 DEF Finish
 <2>2. UNCHANGED Statics /\ phis' = phis /\ UNCHANGED <<calls, roots, var_stack, alias_map, rewritten>>
   BY <2>1 DEF Statics, info, graph, renaming
 <2>3. Chosen /\ Placed(phis) BY <2>1, SettingHolds
 <2>4. PICK t : FlowAgrees(t) BY <2>1, SettingHolds
 <2>5. Traced(t, phis') /\ Agrees(t, calls', roots', var_stack', alias_map', phis', rewritten') /\ Placed(phis')
   BY <2>2, <2>3, <2>4 DEF FlowAgrees
 <2>6. at' = Entry /\ before' = None BY <1>4, <2>1 DEF Awaiting
 <2>7. RunsMatch(t)' BY <2>1, <2>6 DEF RunsMatch, Machine, Idle
 <2> QED BY <1>4, <2>1, <2>2, <2>3, <2>5, <2>7, FlowRunning
<1>12. CASE RunBlock
 <2>1. /\ phase = "run" /\ at # None /\ before' = at
       /\ (IF succs[at] = <<>> THEN at' = None ELSE at' \in ToSet(succs[at]))
       /\ UNCHANGED <<function, promotable, phis, renaming>> BY <1>12 DEF RunBlock
 <2>2. /\ UNCHANGED Statics /\ phis' = phis /\ phase' = "run"
       /\ UNCHANGED <<calls, roots, var_stack, alias_map, rewritten>>
   BY <2>1 DEF Statics, function, dominatorsVars, graph, renaming
 <2>3. DomTree /\ RenameInv /\ Chosen /\ Placed(phis) BY <2>1, SettingHolds
 <2>4. PICK t : FlowAgrees(t) /\ Setting(t) /\ RunsMatch(t) BY <2>1, SettingHolds
 <2>5. calls = <<>> /\ roots = {} BY <2>1 DEF SsaInv
 <2>6. EdgesFlow(t, phis) /\ CodeFlow(t, calls, roots, rewritten) BY <2>4 DEF FlowAgrees, Agrees
 <2>7. at \in Reachable(succs) /\ Sim(t, run', ssa', at, Len(blocks[at])) BY <1>12, <2>3, <2>4, <2>5, <2>6, BlockRuns
 <2>8. PICK b : b = at OBVIOUS
 <2>9. RunsMatch(t)' BY <2>1, <2>2, <2>7, <2>8, RunsBuilt
 <2>10. Traced(t, phis') /\ Agrees(t, calls', roots', var_stack', alias_map', phis', rewritten') /\ Placed(phis')
   BY <2>2, <2>3, <2>4 DEF FlowAgrees
 <2> QED BY <1>4, <2>2, <2>3, <2>9, <2>10, FlowRunning
<1>13. CASE UNCHANGED vars
 <2>1. UNCHANGED <<function, blocks, promotable, unplaced, worklist, frontier, var, phis, running>>
       /\ UNCHANGED <<calls, roots, var_stack, alias_map, rewritten>>
   BY <1>13 DEF vars, mem2regVars, function, placing, renaming
 <2>2. UNCHANGED Statics /\ phase' = phase /\ UNCHANGED <<at, before, run, ssa>>
   BY <2>1 DEF function, dominatorsVars, graph, Statics, running
 <2>3. CASE phase \in {"search", "iterate", "done"}
  <3>1. ConstantsPlain(blocks)' BY <1>4, <2>1, PlainKept
  <3> QED BY <1>5, <2>1, <2>2, <2>3, <3>1 DEF FlowInv
 <2>4. CASE phase = "place"
  <3>1. ConstantsPlain(blocks)' BY <1>4, <2>1, PlainKept
  <3>2. PlacingInv BY <2>4 DEF FlowInv
  <3>3. Chosen /\ Placing(unplaced', worklist', frontier', var', phis') BY <2>1, <3>2 DEF PlacingInv
  <3>4. PlacingInv' BY <2>2, <3>3, PlacingBuilt DEF Statics
  <3> QED BY <1>5, <2>1, <2>2, <2>4, <3>1, <3>4 DEF FlowInv
 <2>5. CASE phase \in {"rename", "run"}
  <3>1. Chosen /\ Placed(phis) BY <2>5, SettingHolds
  <3>2. PICK t : FlowAgrees(t) /\ (phase = "run" => Setting(t) /\ RunsMatch(t)) BY <2>5, SettingHolds
  <3>3. Traced(t, phis') /\ Agrees(t, calls', roots', var_stack', alias_map', phis', rewritten') /\ Placed(phis')
    BY <2>1, <3>1, <3>2 DEF FlowAgrees
  <3>4. CASE phase = "rename" BY <1>4, <1>5, <2>1, <2>2, <3>1, <3>3, <3>4, FlowGoesOnStep
  <3>5. CASE phase = "run"
   <4>1. RunsMatch(t)'
    <5>1. CASE before = None BY <2>2, <3>2, <3>5, <5>1 DEF RunsMatch, Machine, Idle
    <5>2. CASE before # None
     <6>1. /\ before \in Reachable(succs) /\ (at # None => at \in ToSet(succs[before]))
           /\ Sim(t, run, ssa, before, Len(blocks[before])) BY <3>2, <3>5, <5>2 DEF RunsMatch
     <6>2. PICK b : b = before OBVIOUS
     <6>3. b = before' /\ Sim(t, run', ssa', b, Len(blocks[b])) BY <2>2, <6>1, <6>2
     <6> QED BY <2>2, <5>2, <6>1, <6>2, <6>3, RunsBuilt
    <5> QED BY <5>1, <5>2
   <4> QED BY <1>4, <2>2, <3>1, <3>3, <3>5, <4>1, FlowRunning
  <3> QED BY <2>5, <3>4, <3>5
 <2> QED BY <2>3, <2>4, <2>5 DEF SsaInv
<1> QED BY <1>6, <1>7, <1>8, <1>9, <1>10, <1>11, <1>12, <1>13 DEF Next

LEMMA FlowResult == DomInv /\ SsaInv /\ FlowInv => SameOutput
<1> SUFFICES ASSUME DomInv, SsaInv, FlowInv PROVE run.out = ssa.out BY DEF SameOutput
<1>1. CASE phase # "run" BY <1>1 DEF FlowInv, Awaiting
<1>2. CASE phase = "run"
 <2>1. PICK t : RunsMatch(t) BY <1>2 DEF FlowInv
 <2> QED BY <2>1 DEF RunsMatch, Sim, Matched
<1> QED BY <1>1, <1>2

(* Mem2RegPass keeps the meaning: along every path from the entry, however
   long, the function as it was and as the pass leaves it read the same values
   in every call, comparison and return, block by block, whatever the function
   and whatever order the hash tables give its variables in. *)
THEOREM PromotionKeepsOutput == Spec => []SameOutput
<1>1. Init => SsaInv BY EarlyInit DEF SsaInv
<1>2. DomInv /\ SsaInv /\ [Next]_vars => SsaInv' BY SsaStep
<1>3. Init => FlowInv BY FlowInit
<1>4. DomInv /\ SsaInv /\ FlowInv /\ [Next]_vars => FlowInv' BY FlowStep
<1>5. DomInv /\ SsaInv /\ FlowInv => SameOutput BY FlowResult
<1>6. Spec => []DomInv BY DominatorsInvariant
<1> QED BY <1>1, <1>2, <1>3, <1>4, <1>5, <1>6, PTL DEF Spec
=============================================================================
