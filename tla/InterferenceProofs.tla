------------------------- MODULE InterferenceProofs -------------------------
(* Theorems about what the register allocator computes before it places a vreg:
   liveness, the interference graph and its colouring.

   First the worklist solver of src/common/graph.rs and the graph built from
   it, for every graph, every size of bit sets and words, and every instruction
   stream: the solver's invariant, then the bit sets, which take the place of
   the sets they hold; then the paths that define liveness, and why a least
   solution is what they define; then the interference graph, and the
   refinement.

   Then Coloring, for every finite set of vregs, every number of colours and
   every well-formed interference graph. *)
EXTENDS InterferenceGraph, Coloring, BasicLemmas, FiniteSetTheorems, TLAPS

-----------------------------------------------------------------------------
(* What is computed for a node is again a bit set. *)
LEMMA ValuesTyped == ASSUME TypeOK, NEW i \in Node PROVE Joined(i) \in Bitsets /\ Transferred(i) \in Bitsets
<1>1. ASSUME NEW j \in DOMAIN graph.succs[i] PROVE live_in[graph.succs[i][j]] \in Bitsets
 <2>1. graph.succs[i] \in Seq(Node) BY DEF TypeOK, Consistent, Node
 <2>2. graph.succs[i][j] \in Node BY <2>1, ElementType
 <2> QED BY <2>2 DEF TypeOK
<1>2. Joined(i) \in Bitsets BY <1>1 DEF Joined, Bitsets
<1>3. gen[i] \in Bitsets /\ kill[i] \in Bitsets BY DEF TypeOK
<1>4. Transferred(i) \in Bitsets BY <1>2, <1>3 DEF Transferred, Transfer, Bitsets
<1> QED BY <1>2, <1>4

IsCall(x) ==
  Consistent(x.graph, N) /\ x.gen \in [Node -> Bitsets] /\ x.kill \in [Node -> Bitsets]

(* Every variable keeps its type: the queue and the loop over the predecessors
   hold node numbers only, so no index is out of bounds. *)
LEMMA TypesInductive ==
  /\ \A x : IsCall(x) /\ Start(x) => TypeOK
  /\ TypeOK /\ [Next]_vars => TypeOK'
<1> USE DEF Node, NodesOf
<1>1. ASSUME NEW x, IsCall(x), Start(x) PROVE TypeOK
 <2>1. Seed \in Seq(Node) BY SizeAssumption DEF Seed
 <2>2. Bottom \in Bitsets BY DEF Bottom, Empty, Bitsets
 <2> QED BY <1>1, <2>1, <2>2 DEF IsCall, Start, TypeOK
<1>2. TypeOK /\ [Next]_vars => TypeOK'
 <2> SUFFICES ASSUME TypeOK, [Next]_vars PROVE TypeOK' OBVIOUS
 <2>1. CASE Visit
  <3> DEFINE i == Head(worklist)
  <3>1. i \in Node /\ Tail(worklist) \in Seq(Node) BY <2>1, TailFacts DEF Visit, TypeOK
  <3>2. Joined(i) \in Bitsets /\ Transferred(i) \in Bitsets BY <3>1, ValuesTyped DEF Node, NodesOf
  <3>3. Dependents(i) \in Seq(Node) BY <3>1 DEF TypeOK, Consistent, Dependents
  <3> QED BY <2>1, <3>1, <3>2, <3>3 DEF Visit, TypeOK, args, FlagCleared
 <2>2. CASE Requeue
  <3>1. Head(todo) \in Node /\ Tail(todo) \in Seq(Node) BY <2>2, TailFacts DEF Requeue, TypeOK
  <3>2. Append(worklist, Head(todo)) \in Seq(Node) BY <3>1, AppendFacts DEF TypeOK
  <3> QED BY <2>2, <3>1, <3>2 DEF Requeue, TypeOK, args
 <2>3. CASE UNCHANGED vars BY <2>3 DEF vars, TypeOK
 <2> QED BY <2>1, <2>2, <2>3 DEF Next
<1> QED BY <1>1, <1>2

(* The flag vector is the queue's membership test and no node is queued twice,
   so the queue never holds more than the number of nodes. *)
LEMMA FlagsInductive ==
  /\ \A x : Start(x) => FlagsMatchQueue
  /\ TypeOK /\ FlagsMatchQueue /\ [Next]_vars => FlagsMatchQueue'
<1>1. ASSUME NEW x, Start(x) PROVE FlagsMatchQueue
 <2>1. /\ worklist = [k \in 1 .. N |-> N - k]
       /\ in_worklist = [n \in Node |-> TRUE] BY <1>1 DEF Start, Seed
 <2>2. ASSUME NEW n \in Node PROVE Queued(n)
  <3>1. N - n \in 1 .. N /\ N - (N - n) = n BY SizeAssumption DEF Node, NodesOf
  <3> QED BY <2>1, <3>1 DEF Queued
 <2>3. \A j, k \in DOMAIN worklist : worklist[j] = worklist[k] => j = k BY <2>1, SizeAssumption
 <2> QED BY <2>1, <2>2, <2>3 DEF FlagsMatchQueue
<1>2. TypeOK /\ FlagsMatchQueue /\ [Next]_vars => FlagsMatchQueue'
 <2> SUFFICES ASSUME TypeOK, FlagsMatchQueue, [Next]_vars PROVE FlagsMatchQueue' OBVIOUS
 <2>1. CASE Visit
  <3> DEFINE i == Head(worklist)
  <3>1. worklist \in Seq(Node) /\ worklist # <<>> BY <2>1 DEF Visit, TypeOK
  <3>2. /\ worklist' = Tail(worklist)
        /\ in_worklist' = [in_worklist EXCEPT ![i] = FALSE] BY <2>1 DEF Visit, FlagCleared
  <3>3. /\ i = worklist[1]
        /\ 1 \in DOMAIN worklist
        /\ DOMAIN worklist' = 1 .. Len(worklist) - 1
        /\ Len(worklist) \in Nat
        /\ DOMAIN worklist = 1 .. Len(worklist)
        /\ \A k \in DOMAIN worklist' : worklist'[k] = worklist[k + 1] BY <3>1, <3>2, TailFacts
  <3>4. \A j, k \in DOMAIN worklist' : worklist'[j] = worklist'[k] => j = k BY <3>3 DEF FlagsMatchQueue
  <3>5. ~ \E k \in DOMAIN worklist' : worklist'[k] = i BY <3>3 DEF FlagsMatchQueue
  <3>6. ASSUME NEW n \in Node PROVE in_worklist'[n] <=> Queued(n)'
   <4>1. Queued(n) <=> n = i \/ Queued(n)' BY <3>1, <3>2, TailSplits DEF Queued
   <4>2. CASE n = i BY <4>2, <3>2, <3>5 DEF TypeOK, Queued
   <4>3. CASE n # i BY <4>1, <4>3, <3>2 DEF TypeOK, FlagsMatchQueue
   <4> QED BY <4>2, <4>3
  <3> QED BY <3>4, <3>6 DEF FlagsMatchQueue
 <2>2. CASE Requeue
  <3> DEFINE p == Head(todo)
  <3>1. p \in Node BY <2>2, TailFacts DEF Requeue, TypeOK
  <3>2. CASE in_worklist[p] BY <2>2, <3>2 DEF Requeue, FlagsMatchQueue, Queued
  <3>3. CASE ~in_worklist[p]
   <4>1. /\ worklist' = Append(worklist, p)
         /\ in_worklist' = [in_worklist EXCEPT ![p] = TRUE] BY <2>2, <3>3 DEF Requeue
   <4>2. /\ Len(worklist) \in Nat
         /\ DOMAIN worklist = 1 .. Len(worklist)
         /\ DOMAIN worklist' = 1 .. Len(worklist) + 1
         /\ \A k \in DOMAIN worklist : worklist'[k] = worklist[k]
         /\ worklist'[Len(worklist) + 1] = p BY <3>1, <4>1, AppendFacts DEF TypeOK
   <4>3. \A k \in DOMAIN worklist : worklist[k] # p BY <3>1, <3>3 DEF FlagsMatchQueue, Queued
   <4>4. \A j, k \in DOMAIN worklist' : worklist'[j] = worklist'[k] => j = k BY <4>2, <4>3 DEF FlagsMatchQueue
   <4>5. ASSUME NEW n \in Node PROVE in_worklist'[n] <=> Queued(n)'
    <5>1. Queued(n)' <=> Queued(n) \/ n = p BY <4>2 DEF Queued
    <5>2. in_worklist'[n] <=> in_worklist[n] \/ n = p BY <4>1, <3>1 DEF TypeOK
    <5> QED BY <5>1, <5>2 DEF FlagsMatchQueue
   <4> QED BY <4>4, <4>5 DEF FlagsMatchQueue
  <3> QED BY <3>2, <3>3
 <2>3. CASE UNCHANGED vars BY <2>3 DEF vars, FlagsMatchQueue, Queued
 <2> QED BY <2>1, <2>2, <2>3 DEF Next
<1> QED BY <1>1, <1>2

-----------------------------------------------------------------------------
(* Both adjacency lists describe one edge set: a node whose value depends on
   node b is found by looking at b's predecessors. *)
LEMMA DependentsComplete ==
  ASSUME TypeOK, NEW a \in Node, NEW j \in DOMAIN graph.succs[a]
  PROVE  \E k \in DOMAIN Dependents(graph.succs[a][j]) :
           Dependents(graph.succs[a][j])[k] = a
<1>1. graph.succs[a] \in Seq(Node) BY DEF TypeOK, Consistent, Node
<1>2. graph.succs[a][j] \in Node BY <1>1, ElementType
<1> QED BY <1>2 DEF TypeOK, Consistent, Dependents, Node

(* No change of a successor is lost: whoever is not going to be visited again
   satisfies both of its equations. *)
LEMMA SettledInductive ==
  /\ \A x : Start(x) => SettledNodesAreSolved
  /\ TypeOK /\ SettledNodesAreSolved /\ [Next]_vars => SettledNodesAreSolved'
<1>1. ASSUME NEW x, Start(x) PROVE SettledNodesAreSolved BY <1>1 DEF Start, SettledNodesAreSolved, Owed
<1>2. TypeOK /\ SettledNodesAreSolved /\ [Next]_vars => SettledNodesAreSolved'
 <2> SUFFICES ASSUME TypeOK, SettledNodesAreSolved, [Next]_vars,
                     NEW n \in Node, ~Owed(n)'
              PROVE  Solved(n)' BY DEF SettledNodesAreSolved
 <2>1. CASE Visit
  <3> DEFINE i == Head(worklist)
  <3>1. i \in Node BY <2>1, TailFacts DEF Visit, TypeOK
  <3>2. /\ live_out' = [live_out EXCEPT ![i] = Joined(i)]
        /\ live_in' = [live_in EXCEPT ![i] = Transferred(i)]
        /\ in_worklist' = [in_worklist EXCEPT ![i] = FALSE]
        /\ todo' = IF Changed(i) THEN Dependents(i) ELSE <<>>
        /\ todo = <<>>
        /\ UNCHANGED args BY <2>1 DEF Visit, FlagCleared
  <3>3. ASSUME NEW j \in DOMAIN graph.succs[n] PROVE live_in'[graph.succs[n][j]] = live_in[graph.succs[n][j]]
   <4>1. graph.succs[n][j] \in Node
    <5>1. graph.succs[n] \in Seq(Node) BY DEF TypeOK, Consistent, Node
    <5> QED BY <5>1, ElementType
   <4>2. CASE graph.succs[n][j] # i BY <4>1, <4>2, <3>2 DEF TypeOK
   <4>3. CASE graph.succs[n][j] = i
    <5>1. ~Changed(i)
     <6> SUFFICES ASSUME Changed(i) PROVE FALSE OBVIOUS
     <6>1. todo' = Dependents(i) BY <3>2
     <6>2. \E k \in DOMAIN todo' : todo'[k] = n BY <6>1, <4>3, DependentsComplete
     <6> QED BY <6>2 DEF Owed
    <5>2. live_in[i] = Transferred(i)
     <6>1. live_in[i] \in Bitsets /\ Transferred(i) \in Bitsets BY <3>1, ValuesTyped DEF TypeOK
     <6>2. \A w \in Word : live_in[i][w] = Transferred(i)[w] BY <5>1 DEF Changed, Differ
     <6> QED BY <6>1, <6>2 DEF Bitsets
    <5> QED BY <4>1, <4>3, <5>2, <3>2 DEF TypeOK
   <4> QED BY <4>2, <4>3
  <3>4. Joined(n)' = Joined(n) BY <3>2, <3>3 DEF Joined, args
  <3>5. CASE n = i
   <4>1. live_out'[n] = Joined(n) BY <3>1, <3>2, <3>5 DEF TypeOK
   <4>2. live_in'[n] = Transfer(gen[n], kill[n], Joined(n)) BY <3>1, <3>2, <3>5 DEF TypeOK, Transferred
   <4> QED BY <4>1, <4>2, <3>2, <3>4 DEF Solved, args
  <3>6. CASE n # i
   <4>1. ~Owed(n) BY <3>1, <3>2, <3>6 DEF Owed, TypeOK
   <4>2. Solved(n) BY <4>1 DEF SettledNodesAreSolved
   <4>3. live_out'[n] = live_out[n] /\ live_in'[n] = live_in[n] BY <3>1, <3>2, <3>6 DEF TypeOK
   <4> QED BY <4>2, <4>3, <3>4, <3>2 DEF Solved, args
  <3> QED BY <3>5, <3>6
 <2>2. CASE Requeue
  <3> DEFINE p == Head(todo)
  <3>1. p \in Node BY <2>2, TailFacts DEF Requeue, TypeOK
  <3>2. ~Owed(n)
   <4>1. in_worklist[n] => in_worklist'[n] BY <2>2, <3>1 DEF Requeue, TypeOK
   <4>2. in_worklist'[p] BY <2>2, <3>1 DEF Requeue, TypeOK
   <4>3. (\E k \in DOMAIN todo : todo[k] = n)
           => n = p \/ \E k \in DOMAIN todo' : todo'[k] = n
    <5>1. todo \in Seq(Node) /\ todo # <<>> /\ todo' = Tail(todo) BY <2>2 DEF Requeue, TypeOK
    <5> QED BY <5>1, TailSplits
   <4> QED BY <4>1, <4>2, <4>3 DEF Owed
  <3>3. Solved(n) BY <3>2 DEF SettledNodesAreSolved
  <3>4. UNCHANGED <<args, live_in, live_out>> BY <2>2 DEF Requeue
  <3> QED BY <3>3, <3>4 DEF Solved, Joined, args
 <2>3. CASE UNCHANGED vars BY <2>3 DEF vars, SettledNodesAreSolved, Owed, Solved, Joined
 <2> QED BY <2>1, <2>2, <2>3 DEF Next
<1> QED BY <1>1, <1>2

-----------------------------------------------------------------------------
(* At every moment the computed values are contained in every solution: with
   Soundness, the result is the least solution. *)
LEMMA LeastInductive ==
  /\ \A x : Start(x) => BelowEverySolution
  /\ TypeOK /\ BelowEverySolution /\ [Next]_vars => BelowEverySolution'
<1>1. ASSUME NEW x, Start(x) PROVE BelowEverySolution BY <1>1 DEF Start, BelowEverySolution, Bottom, Empty
<1>2. TypeOK /\ BelowEverySolution /\ [Next]_vars => BelowEverySolution'
 <2> SUFFICES ASSUME TypeOK, BelowEverySolution, [Next]_vars,
                     NEW w \in Word, NEW b \in Bit, NEW S \in SUBSET Node,
                     Closed(S, w, b)', NEW n \in Node, b \in live_in'[n][w]
              PROVE  n \in S BY DEF BelowEverySolution
 <2>0. UNCHANGED args BY DEF Next, Visit, Requeue, vars, args
 <2>1. Closed(S, w, b) BY <2>0 DEF Closed, args
 <2>2. \A m \in Node : b \in live_in[m][w] => m \in S BY <2>1 DEF BelowEverySolution
 <2>3. CASE Visit
  <3> DEFINE i == Head(worklist)
  <3>1. i \in Node BY <2>3, TailFacts DEF Visit, TypeOK
  <3>2. live_in' = [live_in EXCEPT ![i] = Transferred(i)] BY <2>3 DEF Visit
  <3>3. CASE n # i BY <3>1, <3>2, <3>3, <2>2 DEF TypeOK
  <3>4. CASE n = i
   <4>1. b \in Transferred(i)[w] BY <3>1, <3>2, <3>4 DEF TypeOK
   <4>2. b \in gen[i][w] \/ (b \in Joined(i)[w] /\ b \notin kill[i][w]) BY <4>1 DEF Transferred, Transfer
   <4>3. ASSUME b \in Joined(i)[w] PROVE \E j \in DOMAIN graph.succs[i] : graph.succs[i][j] \in S
    <5>1. PICK j \in DOMAIN graph.succs[i] : b \in live_in[graph.succs[i][j]][w] BY <4>3 DEF Joined
    <5>2. graph.succs[i][j] \in Node
     <6>1. graph.succs[i] \in Seq(Node) BY <3>1 DEF TypeOK, Consistent, Node
     <6> QED BY <6>1, ElementType
    <5> QED BY <5>1, <5>2, <2>2
   <4> QED BY <4>2, <4>3, <2>1, <3>1, <3>4 DEF Closed
  <3> QED BY <3>3, <3>4
 <2>4. CASE Requeue BY <2>4, <2>2 DEF Requeue
 <2>5. CASE UNCHANGED vars BY <2>5, <2>2 DEF vars
 <2> QED BY <2>3, <2>4, <2>5 DEF Next
<1> QED BY <1>1, <1>2

-----------------------------------------------------------------------------
(* What the solver never breaks, whoever calls it. *)
SolverInv == TypeOK /\ FlagsMatchQueue /\ SettledNodesAreSolved /\ BelowEverySolution

LEMMA SolverInductive ==
  /\ \A x : IsCall(x) /\ Start(x) => SolverInv
  /\ SolverInv /\ [Next]_vars => SolverInv'
<1>1. ASSUME NEW x, IsCall(x), Start(x) PROVE SolverInv
  BY <1>1, TypesInductive, FlagsInductive, SettledInductive, LeastInductive DEF SolverInv
<1>2. ASSUME SolverInv, [Next]_vars PROVE SolverInv'
  BY <1>2, TypesInductive, FlagsInductive, SettledInductive, LeastInductive DEF SolverInv
<1> QED BY <1>1, <1>2

THEOREM SolverCorrect == Spec => []SolverInv
<1>1. Init => SolverInv BY SolverInductive, InputsAssumption DEF Init, IsCall
<1>2. SolverInv /\ [Next]_vars => SolverInv' BY SolverInductive
<1> QED BY <1>1, <1>2, PTL DEF Spec

(* Every variable keeps its type. *)
THEOREM TypeCorrect == Spec => []TypeOK
<1>1. SolverInv => TypeOK BY DEF SolverInv
<1> QED BY <1>1, SolverCorrect, PTL

(* The queue holds whom its flags say, each node once. *)
THEOREM FlagsCorrect == Spec => []FlagsMatchQueue
<1>1. SolverInv => FlagsMatchQueue BY DEF SolverInv
<1> QED BY <1>1, SolverCorrect, PTL

(* Whoever is not going to be visited again satisfies its equations. *)
THEOREM SettledCorrect == Spec => []SettledNodesAreSolved
<1>1. SolverInv => SettledNodesAreSolved BY DEF SolverInv
<1> QED BY <1>1, SolverCorrect, PTL

(* Both together: what the queue does not hold is done. *)
THEOREM WorklistCorrect == Spec => []WorklistSound
<1>1. FlagsMatchQueue /\ SettledNodesAreSolved => WorklistSound BY DEF WorklistSound
<1> QED BY <1>1, FlagsCorrect, SettledCorrect, PTL

(* When `compute` returns, its result solves the dataflow equations. *)
THEOREM Soundness == Spec => []ResultIsSolution
<1>1. FlagsMatchQueue /\ SettledNodesAreSolved => ResultIsSolution
  BY DEF FlagsMatchQueue, SettledNodesAreSolved, ResultIsSolution, Done,
         Owed, Queued
<1> QED BY <1>1, FlagsCorrect, SettledCorrect, PTL

(* At every moment the computed values are contained in every solution: with
   Soundness, the result is the least solution. *)
THEOREM Leastness == Spec => []BelowEverySolution
<1>1. SolverInv => BelowEverySolution BY DEF SolverInv
<1> QED BY <1>1, SolverCorrect, PTL
-----------------------------------------------------------------------------
(* Bit sets.  An index is a word and a bit of it, and both determine it;
   Bits(S) is the one way to hold the set S, and every operation of Bitset does
   to it what its name says. *)
LEMMA Products == ASSUME NEW a \in Int, NEW b \in Int, NEW c \in Nat, a <= b PROVE a * c <= b * c
<1>1. (b - a) \in Nat /\ (b - a) * c \in Nat OBVIOUS
<1>2. (b - a) * c = b * c - a * c OBVIOUS
<1>3. a * c \in Int /\ b * c \in Int OBVIOUS
<1> QED BY <1>1, <1>2, <1>3

LEMMA Located ==
  ASSUME NEW i \in Nat
  PROVE  /\ WordOf(i) \in Nat /\ BitOf(i) \in Bit
         /\ i = WordOf(i) * WordBits + BitOf(i)
<1>1. PICK d \in Nat \ {0} : d = WordBits BY CapacityAssumption
<1>2. i \div d \in Int /\ i % d \in 0 .. d - 1 /\ i = d * (i \div d) + (i % d) OBVIOUS
<1>3. i \div d >= 0
 <2> SUFFICES ASSUME i \div d <= -1 PROVE FALSE BY <1>2
 <2>1. (i \div d) * d <= (-1) * d BY <1>2, Products
 <2> QED BY <1>2, <2>1
<1> QED BY <1>1, <1>2, <1>3 DEF WordOf, BitOf, Bit

(* An index of a later word is larger. *)
LEMMA WordsOrdered ==
  ASSUME NEW p \in Nat, NEW q \in Nat, NEW x \in Bit, NEW y \in Bit, p < q PROVE p * WordBits + x < q * WordBits + y
<1>1. PICK d \in Nat \ {0} : d = WordBits BY CapacityAssumption
<1>2. (p + 1) * d <= q * d BY Products
<1>3. (p + 1) * d = p * d + d OBVIOUS
<1>4. p * d \in Int /\ q * d \in Int /\ x \in Int /\ y \in Int /\ x < d /\ y >= 0 BY <1>1 DEF Bit
<1> QED BY <1>1, <1>2, <1>3, <1>4

LEMMA LocatedOnce ==
  ASSUME NEW p \in Nat, NEW x \in Bit
  PROVE  /\ p * WordBits + x \in Nat
         /\ WordOf(p * WordBits + x) = p /\ BitOf(p * WordBits + x) = x
<1> DEFINE i == p * WordBits + x
<1>1. i \in Nat /\ x \in Int BY CapacityAssumption DEF Bit
<1>2. WordOf(i) \in Nat /\ BitOf(i) \in Bit /\ i = WordOf(i) * WordBits + BitOf(i) BY <1>1, Located
<1>3. ~(WordOf(i) < p) /\ ~(p < WordOf(i))
 <2>1. WordOf(i) < p => WordOf(i) * WordBits + BitOf(i) < p * WordBits + x BY <1>2, WordsOrdered
 <2>2. p < WordOf(i) => p * WordBits + x < WordOf(i) * WordBits + BitOf(i) BY <1>2, WordsOrdered
 <2> HIDE DEF i
 <2> QED BY <1>1, <1>2, <2>1, <2>2 DEF i
<1>4. WordOf(i) = p BY <1>2, <1>3
<1>5. BitOf(i) = x
 <2>1. p * WordBits \in Int BY CapacityAssumption
 <2> HIDE DEF i
 <2>2. i = p * WordBits + x /\ i = p * WordBits + BitOf(i) /\ BitOf(i) \in Int BY <1>2, <1>4 DEF i, Bit
 <2> QED BY <1>1, <2>1, <2>2
<1> QED BY <1>1, <1>4, <1>5

LEMMA IndexWord == ASSUME NEW i \in Index PROVE i \in Nat /\ WordOf(i) \in Word /\ BitOf(i) \in Bit
<1>1. PICK d \in Nat \ {0} : d = WordBits BY CapacityAssumption
<1>2. PICK c \in Nat : c = Capacity BY CapacityAssumption
<1>3. i \in Nat /\ i < c BY <1>2 DEF Index
<1>4. WordOf(i) \in Nat /\ BitOf(i) \in Bit /\ i = WordOf(i) * d + BitOf(i) BY <1>1, <1>3, Located
<1>5. NumWords = (c + d - 1) \div d BY <1>1, <1>2 DEF NumWords
<1>6. c + d - 1 \in Nat OBVIOUS
<1>7. /\ NumWords \in Int /\ (c + d - 1) % d \in 0 .. d - 1
      /\ c + d - 1 = d * NumWords + ((c + d - 1) % d) BY <1>5, <1>6
<1>8. NumWords * d >= c
 <2>1. NumWords * d \in Int /\ NumWords * d = d * NumWords BY <1>7
 <2> QED BY <1>7, <2>1
<1>9. WordOf(i) < NumWords
 <2> SUFFICES ASSUME NumWords <= WordOf(i) PROVE FALSE BY <1>4, <1>7
 <2>1. NumWords * d <= WordOf(i) * d BY <1>4, <1>7, Products
 <2>2. BitOf(i) \in Int /\ BitOf(i) >= 0 /\ WordOf(i) * d \in Int /\ NumWords * d \in Int BY <1>4, <1>7 DEF Bit
 <2> QED BY <1>3, <1>4, <1>8, <2>1, <2>2
<1> QED BY <1>3, <1>4, <1>7, <1>9 DEF Word

LEMMA WordsType == NumWords \in Nat /\ Word = 0 .. NumWords - 1 /\ Word \subseteq Nat
<1>1. PICK d \in Nat \ {0} : d = WordBits BY CapacityAssumption
<1>2. PICK c \in Nat : c = Capacity BY CapacityAssumption
<1>3. PICK m \in Nat : m = c + d - 1 OBVIOUS
<1>4. m \div d \in Int /\ m % d \in 0 .. d - 1 /\ m = d * (m \div d) + (m % d) OBVIOUS
<1>5. m \div d >= 0
 <2> SUFFICES ASSUME m \div d <= -1 PROVE FALSE BY <1>4
 <2>1. (m \div d) * d <= (-1) * d BY <1>4, Products
 <2> QED BY <1>4, <2>1
<1>6. NumWords = m \div d BY <1>1, <1>2, <1>3 DEF NumWords
<1>7. NumWords \in Nat BY <1>4, <1>5, <1>6
<1> QED BY <1>7 DEF Word

-----------------------------------------------------------------------------
(* The bit set that holds S and nothing else. *)
Bits(S) == [w \in Word |-> {BitOf(i) : i \in {j \in S : WordOf(j) = w}}]

LEMMA BitsHeld ==
  ASSUME NEW S \in SUBSET Index
  PROVE  /\ Bits(S) \in Bitsets
         /\ \A i \in Index : BitOf(i) \in Bits(S)[WordOf(i)] <=> i \in S
         /\ \A w \in Word : \A x \in Bits(S)[w] : w * WordBits + x \in S
         /\ Facts(Bits(S)) = S
<1>1. Bits(S) \in Bitsets BY IndexWord DEF Bits, Bitsets
<1>2. \A w \in Word : Bits(S)[w] = {BitOf(i) : i \in {j \in S : WordOf(j) = w}} BY DEF Bits
<1>3. ASSUME NEW w \in Word, NEW x \in Bits(S)[w] PROVE w * WordBits + x \in S
 <2>1. PICK i \in S : WordOf(i) = w /\ x = BitOf(i) BY <1>2
 <2>2. i \in Nat BY IndexWord
 <2>3. i = w * WordBits + x BY <2>1, <2>2, Located
 <2> QED BY <2>3
<1>4. ASSUME NEW i \in Index PROVE BitOf(i) \in Bits(S)[WordOf(i)] <=> i \in S
 <2>1. i \in Nat /\ WordOf(i) \in Word /\ BitOf(i) \in Bit BY IndexWord
 <2>2. i \in S => BitOf(i) \in Bits(S)[WordOf(i)] BY <1>2, <2>1
 <2>3. i = WordOf(i) * WordBits + BitOf(i) BY <2>1, Located
 <2> QED BY <1>3, <2>1, <2>2, <2>3
<1>5. \A i \in Index : i < Capacity BY CapacityAssumption DEF Index
<1>6. Facts(Bits(S)) = S BY <1>4, <1>5 DEF Facts, ContainsBit
<1> QED BY <1>1, <1>3, <1>4, <1>6

(* A bit set none of whose bits lies beyond the capacity. *)
Proper(b) == b \in Bitsets /\ \A w \in Word : \A x \in b[w] : w * WordBits + x \in Index

LEMMA FactsType == ASSUME NEW b PROVE Facts(b) \in SUBSET Index
BY DEF Facts

LEMMA ProperIsBits == ASSUME NEW b, Proper(b) PROVE b = Bits(Facts(b))
<1>1. b \in [Word -> SUBSET Bit] /\ Bits(Facts(b)) \in [Word -> SUBSET Bit] BY BitsHeld, FactsType DEF Proper, Bitsets
<1>2. ASSUME NEW w \in Word PROVE b[w] = Bits(Facts(b))[w]
 <2>1. w \in Nat BY WordsType
 <2>2. ASSUME NEW x \in b[w] PROVE x \in Bits(Facts(b))[w]
  <3>1. x \in Bit BY <1>1
  <3> DEFINE i == w * WordBits + x
  <3>2. i \in Index /\ WordOf(i) = w /\ BitOf(i) = x BY <2>1, <2>2, <3>1, LocatedOnce DEF Proper
  <3>3. i \in Facts(b)
   <4>1. i < Capacity BY <3>2, CapacityAssumption DEF Index
   <4>2. BitOf(i) \in b[WordOf(i)] BY <2>2, <3>2
   <4> HIDE DEF i
   <4> QED BY <3>2, <4>1, <4>2 DEF Facts, ContainsBit
  <3> HIDE DEF i
  <3> QED BY <3>2, <3>3 DEF Bits
 <2>3. ASSUME NEW x \in Bits(Facts(b))[w] PROVE x \in b[w]
  <3>1. PICK i \in Facts(b) : WordOf(i) = w /\ BitOf(i) = x BY <2>3 DEF Bits
  <3> QED BY <3>1 DEF Facts, ContainsBit
 <2> QED BY <2>2, <2>3
<1> QED BY <1>1, <1>2

LEMMA BitsEqual ==
  ASSUME NEW b, Proper(b), NEW S \in SUBSET Index,
         \A i \in Index : BitOf(i) \in b[WordOf(i)] <=> i \in S
  PROVE  b = Bits(S)
<1>1. \A i \in Index : i < Capacity BY CapacityAssumption DEF Index
<1>2. Facts(b) = S BY <1>1 DEF Facts, ContainsBit
<1> QED BY <1>2, ProperIsBits

LEMMA BitsProper == ASSUME NEW S \in SUBSET Index PROVE Proper(Bits(S))
<1>1. \A x \in S : x \in Index OBVIOUS
<1> QED BY <1>1, BitsHeld DEF Proper

LEMMA EmptyBits == Empty = Bits({})
BY DEF Empty, Bits

LEMMA InsertedBit == ASSUME NEW S \in SUBSET Index, NEW i \in Index PROVE InsertBit(Bits(S), i) = Bits(S \cup {i})
<1>1. Bits(S) = [w \in Word |-> {BitOf(j) : j \in {k \in S : WordOf(k) = w}}] BY DEF Bits
<1>2. InsertBit(Bits(S), i) =
        [w \in Word |-> IF w = WordOf(i) THEN Bits(S)[w] \cup {BitOf(i)} ELSE Bits(S)[w]] BY <1>1, IndexWord DEF InsertBit
<1>3. ASSUME NEW w \in Word
      PROVE  (IF w = WordOf(i) THEN Bits(S)[w] \cup {BitOf(i)} ELSE Bits(S)[w])
               = {BitOf(j) : j \in {k \in S \cup {i} : WordOf(k) = w}} BY DEF Bits
<1> QED BY <1>2, <1>3 DEF Bits

LEMMA RemovedBit == ASSUME NEW S \in SUBSET Index, NEW i \in Index PROVE RemoveBit(Bits(S), i) = Bits(S \ {i})
<1>1. Bits(S) \in Bitsets BY BitsHeld
<1>2. RemoveBit(Bits(S), i) =
        [w \in Word |-> IF w = WordOf(i) THEN Bits(S)[w] \ {BitOf(i)} ELSE Bits(S)[w]] BY <1>1, IndexWord DEF RemoveBit, Bitsets
<1> DEFINE b == RemoveBit(Bits(S), i)
<1>3. Proper(b)
 <2>1. \A w \in Word : b[w] \subseteq Bits(S)[w] BY <1>2
 <2>2. b \in Bitsets BY <1>1, <1>2 DEF Bitsets
 <2> HIDE DEF b
 <2> QED BY <2>1, <2>2, BitsProper DEF Proper
<1>4. ASSUME NEW j \in Index PROVE BitOf(j) \in b[WordOf(j)] <=> j \in S \ {i}
 <2>1. WordOf(j) \in Word /\ j \in Nat /\ i \in Nat BY IndexWord
 <2>2. WordOf(j) = WordOf(i) /\ BitOf(j) = BitOf(i) => j = i
  <3>1. j = WordOf(j) * WordBits + BitOf(j) /\ i = WordOf(i) * WordBits + BitOf(i) BY <2>1, Located
  <3> QED BY <3>1
 <2>3. BitOf(j) \in b[WordOf(j)]
         <=> BitOf(j) \in Bits(S)[WordOf(j)] /\ ~(WordOf(j) = WordOf(i) /\ BitOf(j) = BitOf(i)) BY <1>2, <2>1
 <2> HIDE DEF b
 <2> QED BY <2>2, <2>3, BitsHeld
<1> HIDE DEF b
<1>5. b = Bits(S \ {i})
 <2>1. S \ {i} \in SUBSET Index OBVIOUS
 <2> QED BY <1>3, <1>4, <2>1, BitsEqual
<1> QED BY <1>5 DEF b

LEMMA UnitedBits ==
  ASSUME NEW S \in SUBSET Index, NEW R \in SUBSET Index PROVE UnionWith(Bits(S), Bits(R)) = Bits(S \cup R)
<1>1. ASSUME NEW w \in Word
      PROVE  Bits(S)[w] \cup Bits(R)[w]
               = {BitOf(j) : j \in {k \in S \cup R : WordOf(k) = w}} BY DEF Bits
<1> QED BY <1>1 DEF UnionWith, Bits

LEMMA EmptinessOfBits == ASSUME NEW S \in SUBSET Index PROVE IsEmpty(Bits(S)) <=> S = {}
<1>1. S = {} => IsEmpty(Bits(S)) BY DEF IsEmpty, Bits
<1>2. ASSUME NEW i \in S PROVE ~IsEmpty(Bits(S)) BY IndexWord, BitsHeld DEF IsEmpty
<1> QED BY <1>1, <1>2

LEMMA FiniteIndex == ASSUME NEW S \in SUBSET Index PROVE IsFiniteSet(S) /\ Cardinality(S) \in Nat
<1>1. IsFiniteSet(Index) BY CapacityAssumption, FS_Interval DEF Index
<1> QED BY <1>1, FS_Subset, FS_CardinalityType

(* build_gen_kill: the indices inserted, in whatever order, are the ones the
   set holds. *)
LEMMA CollectedIs == ASSUME NEW S \in SUBSET Index PROVE Collected(S) = Bits(S)
<1> DEFINE D == SUBSET S
           T == Bitsets
           some(R) == CHOOSE v \in R : TRUE
           At(f, R) == IF R = {} THEN Empty ELSE InsertBit(f[R \ {some(R)}], some(R))
           F == [f \in [D -> T] |-> [R \in D |-> At(f, R)]]
           rank == [R \in D |-> Cardinality(R)]
           P == CHOOSE f : f = [R \in D |-> At(f, R)]
<1>1. \A R \in D : /\ R \in SUBSET Index /\ IsFiniteSet(R) /\ Cardinality(R) \in Nat
                   /\ R # {} => /\ some(R) \in R /\ R \ {some(R)} \in D
                                /\ Cardinality(R \ {some(R)}) < Cardinality(R)
 <2> SUFFICES ASSUME NEW R \in D
              PROVE  /\ R \in SUBSET Index /\ IsFiniteSet(R) /\ Cardinality(R) \in Nat
                     /\ R # {} => /\ some(R) \in R /\ R \ {some(R)} \in D
                                  /\ Cardinality(R \ {some(R)}) < Cardinality(R) OBVIOUS
 <2>1. R \in SUBSET Index /\ IsFiniteSet(R) /\ Cardinality(R) \in Nat BY FiniteIndex
 <2>2. R # {} => some(R) \in R OBVIOUS
 <2> HIDE DEF some
 <2>3. R # {} => Cardinality(R \ {some(R)}) = Cardinality(R) - 1 BY <2>1, <2>2, FS_RemoveElement
 <2> QED BY <2>1, <2>2, <2>3
<1> HIDE DEF some
<1>2. \A b \in T, i \in Index : InsertBit(b, i) \in T BY IndexWord DEF InsertBit, Bitsets
<1>3. Empty \in T BY DEF Empty, Bitsets
<1>4. \A f \in [D -> T] : \A R \in D : At(f, R) \in T
 <2> SUFFICES ASSUME NEW f \in [D -> T], NEW R \in D PROVE At(f, R) \in T OBVIOUS
 <2>1. R # {} => f[R \ {some(R)}] \in T /\ some(R) \in Index BY <1>1
 <2> HIDE DEF T
 <2> QED BY <1>2, <1>3, <2>1
<1>5. \E f \in [D -> T] : f = F[f]
 <2>1. T # {} /\ rank \in [D -> Nat]
  <3>1. rank \in [D -> Nat] BY <1>1
  <3> HIDE DEF T, rank
  <3> QED BY <1>3, <3>1
 <2>2. F \in [[D -> T] -> [D -> T]]
  <3> HIDE DEF At
  <3> QED BY <1>4
 <2>3. \A f, h \in [D -> T] : \A R \in D :
         (\A y \in D : rank[y] < rank[R] => f[y] = h[y]) => F[f][R] = F[h][R]
  <3>0. \A f \in [D -> T] : \A R \in D : F[f][R] = At(f, R)
   <4> HIDE DEF At, D, T
   <4> QED OBVIOUS
  <3> SUFFICES ASSUME NEW f \in [D -> T], NEW h \in [D -> T], NEW R \in D,
                      \A y \in D : rank[y] < rank[R] => f[y] = h[y]
               PROVE  At(f, R) = At(h, R)
   <4> HIDE DEF At, D, T, F, rank
   <4> QED BY <3>0
  <3>1. R # {} => f[R \ {some(R)}] = h[R \ {some(R)}] BY <1>1
  <3> QED BY <3>1
 <2>4. IsRanked(D, T, rank, F)
  <3> HIDE DEF F, T, D, rank
  <3> QED BY <2>1, <2>2, <2>3 DEF IsRanked
 <2> QED
  <3> HIDE DEF F, T, D, rank
  <3> QED BY <2>4, RankedRecursion
<1>6. \E f : f = [R \in D |-> At(f, R)]
 <2>1. PICK f \in [D -> T] : f = F[f] BY <1>5
 <2> HIDE DEF At
 <2> QED BY <2>1
<1>7. P = [R \in D |-> At(P, R)] BY <1>6
<1>8. Collected(S) = P[S] BY DEF Collected, some
<1> HIDE DEF P
<1>9. \A R \in D : P[R] = At(P, R)
 <2> HIDE DEF At
 <2> QED BY <1>7
<1> DEFINE I == {n \in Nat : \A R \in D : Cardinality(R) = n => P[R] = Bits(R)}
<1>10. ASSUME NEW n \in Nat, \A m \in Nat : m < n => m \in I PROVE n \in I
 <2> SUFFICES ASSUME NEW R \in D, Cardinality(R) = n PROVE P[R] = Bits(R) OBVIOUS
 <2>1. CASE R = {} BY <1>9, <2>1, EmptyBits
 <2>2. CASE R # {}
  <3> DEFINE v == some(R)
  <3>1. v \in R /\ R \ {v} \in D /\ Cardinality(R \ {v}) < n /\ Cardinality(R \ {v}) \in Nat BY <1>1, <2>2
  <3>2. P[R \ {v}] = Bits(R \ {v}) BY <1>10, <3>1
  <3>3. P[R] = InsertBit(P[R \ {v}], v) BY <1>9, <2>2
  <3> HIDE DEF v
  <3>4. R \ {v} \in SUBSET Index /\ v \in Index /\ (R \ {v}) \cup {v} = R BY <1>1, <3>1
  <3>5. InsertBit(Bits(R \ {v}), v) = Bits((R \ {v}) \cup {v}) BY <3>4, InsertedBit
  <3> QED BY <3>2, <3>3, <3>4, <3>5
 <2> QED BY <2>1, <2>2
<1>11. Cardinality(S) \in I
 <2>1. S \in D /\ Cardinality(S) \in Nat BY <1>1
 <2> HIDE DEF I
 <2> QED BY <1>10, <2>1, StrongInduction
<1> QED BY <1>8, <1>11

(* len: the population counts add up to the number of elements. *)
LEMMA SizeIs == ASSUME NEW S \in SUBSET Index PROVE Size(Bits(S)) = Cardinality(S)
<1> DEFINE b == Bits(S)
           M == NumWords
           At(f, w) == IF w = 0 THEN 0 ELSE f[w - 1] + Cardinality(b[w - 1])
           F == [p \in (1 .. M) \X Nat |-> p[2] + Cardinality(b[p[1] - 1])]
           P == CHOOSE f : f = [w \in 0 .. M |-> At(f, w)]
           part(w) == {i \in S : WordOf(i) = w}
           below(w) == {i \in S : WordOf(i) < w}
<1>1. M \in Nat /\ \A w \in 1 .. M : w - 1 \in Word /\ w - 1 \in Nat /\ w - 1 \in 0 .. M BY WordsType
<1>2. ASSUME NEW w \in Word PROVE Cardinality(part(w)) = Cardinality(b[w]) /\ Cardinality(b[w]) \in Nat
 <2> DEFINE g == [i \in part(w) |-> BitOf(i)]
 <2>1. g \in Bijection(part(w), b[w])
  <3>1. b[w] = {BitOf(i) : i \in part(w)} BY DEF Bits
  <3>2. g \in [part(w) -> b[w]] BY <3>1
  <3>3. \A x \in b[w] : \E i \in part(w) : g[i] = x BY <3>1
  <3>4. ASSUME NEW i \in part(w), NEW j \in part(w), g[i] = g[j] PROVE i = j
   <4>1. i \in Nat /\ j \in Nat /\ WordOf(i) = WordOf(j) /\ BitOf(i) = BitOf(j) BY <3>4, IndexWord
   <4>2. i = WordOf(i) * WordBits + BitOf(i) /\ j = WordOf(j) * WordBits + BitOf(j) BY <4>1, Located
   <4> QED BY <4>1, <4>2
  <3> HIDE DEF g, part, b
  <3> QED BY <3>2, <3>3, <3>4 DEF Bijection, Injection, Surjection, IsInjective
 <2>2. IsFiniteSet(part(w)) /\ Cardinality(part(w)) \in Nat BY FiniteIndex
 <2> HIDE DEF g, part, b
 <2> QED BY <2>1, <2>2, FS_Bijection DEF ExistsBijection
<1>3. \E f : f = [w \in 0 .. M |-> At(f, w)]
 <2>1. F \in [(1 .. M) \X Nat -> Nat]
  <3>1. ASSUME NEW q \in (1 .. M) \X Nat PROVE q[2] + Cardinality(b[q[1] - 1]) \in Nat
   <4>1. q[1] \in 1 .. M /\ q[2] \in Nat OBVIOUS
   <4> HIDE DEF b, M
   <4>2. Cardinality(b[q[1] - 1]) \in Nat BY <1>1, <1>2, <4>1
   <4> QED BY <4>1, <4>2
  <3> HIDE DEF b, M
  <3> QED BY <3>1
 <2>2. PICK f : IsLoop(Nat, 0, M, F, f)
  <3> HIDE DEF F, M
  <3> QED BY <1>1, <2>1, LoopRecursion
 <2>3. f = [w \in 0 .. M |-> f[w]] /\ \A w \in 0 .. M : f[w] = At(f, w)
  <3>1. f \in [0 .. M -> Nat] /\ f[0] = 0 /\ \A w \in 1 .. M : f[w] = F[<<w, f[w - 1]>>] BY <2>2 DEF IsLoop
  <3>2. \A k \in 1 .. M, n \in Nat : F[<<k, n>>] = n + Cardinality(b[k - 1]) OBVIOUS
  <3> HIDE DEF F, M, b
  <3>3. f = [w \in 0 .. M |-> f[w]] BY <3>1
  <3>4. ASSUME NEW w \in 0 .. M PROVE f[w] = At(f, w)
   <4>1. CASE w = 0 BY <3>1, <4>1
   <4>2. CASE w # 0
    <5>1. w \in 1 .. M /\ w - 1 \in 0 .. M BY <1>1, <4>2
    <5>2. f[w - 1] \in Nat /\ f[w] = F[<<w, f[w - 1]>>] BY <3>1, <5>1
    <5>3. F[<<w, f[w - 1]>>] = f[w - 1] + Cardinality(b[w - 1]) BY <3>2, <5>1, <5>2
    <5> QED BY <4>2, <5>2, <5>3
   <4> QED BY <4>1, <4>2
  <3> QED BY <3>3, <3>4
 <2> HIDE DEF At, F, M
 <2>4. f = [w \in 0 .. M |-> At(f, w)] BY <2>3
 <2> QED BY <2>4
<1>4. P = [w \in 0 .. M |-> At(P, w)] BY <1>3
<1>5. Size(b) = P[M] BY DEF Size
<1> HIDE DEF P
<1>6. \A w \in 0 .. M : P[w] = At(P, w)
 <2> HIDE DEF At, M
 <2> QED BY <1>4
<1> HIDE DEF b
<1> DEFINE I == {w \in Nat : w \in 0 .. M => P[w] = Cardinality(below(w))}
<1>7. 0 \in I
 <2>1. below(0) = {} BY IndexWord, WordsType
 <2> QED BY <1>1, <1>6, <2>1, FS_EmptySet
<1>8. ASSUME NEW w \in Nat, w \in I PROVE w + 1 \in I
 <2> SUFFICES ASSUME w + 1 \in 0 .. M PROVE P[w + 1] = Cardinality(below(w + 1)) OBVIOUS
 <2>1. w \in 0 .. M /\ w \in Word /\ (w + 1) - 1 = w /\ w + 1 # 0 BY <1>1, WordsType
 <2>2. P[w + 1] = Cardinality(below(w)) + Cardinality(b[w]) BY <1>6, <1>8, <2>1
 <2>3. below(w + 1) = below(w) \cup part(w) /\ below(w) \cap part(w) = {}
  <3>1. \A i \in S : WordOf(i) \in Nat BY IndexWord, WordsType
  <3> QED BY <3>1
 <2>4. Cardinality(below(w) \cup part(w)) = Cardinality(below(w)) + Cardinality(part(w))
  <3>1. below(w) \in SUBSET Index /\ part(w) \in SUBSET Index OBVIOUS
  <3>2. /\ IsFiniteSet(below(w)) /\ IsFiniteSet(part(w))
        /\ Cardinality(below(w)) \in Nat /\ Cardinality(part(w)) \in Nat BY <3>1, FiniteIndex
  <3> HIDE DEF below, part
  <3>3. Cardinality({}) = 0 BY FS_EmptySet
  <3>4. Cardinality(below(w) \cup part(w))
          = Cardinality(below(w)) + Cardinality(part(w)) - Cardinality(below(w) \cap part(w)) BY <3>2, FS_Union
  <3> QED BY <2>3, <3>2, <3>3, <3>4
 <2>5. Cardinality(part(w)) = Cardinality(b[w]) BY <1>2, <2>1
 <2> QED BY <2>2, <2>3, <2>4, <2>5
<1>9. M \in I
 <2> HIDE DEF I, M
 <2> QED BY <1>1, <1>7, <1>8, SetInduction
<1>10. below(M) = S
 <2>1. \A i \in S : WordOf(i) < M BY IndexWord, WordsType
 <2> QED BY <2>1
<1>11. P[M] = Cardinality(S) BY <1>1, <1>9, <1>10
<1> QED BY <1>5, <1>11 DEF b

(* Iter::next within a word: the bits come from the lowest up, all of them. *)
LEMMA WordPeeled ==
  ASSUME NEW b \in Bitsets, NEW w \in Word
  PROVE  \E n \in Nat : \E low \in [1 .. n -> b[w]] :
           /\ IndicesIn(b, w) = [k \in 1 .. n |-> w * WordBits + low[k]]
           /\ \A j, k \in 1 .. n : j < k => low[j] < low[k]
           /\ \A x \in b[w] : \E k \in 1 .. n : low[k] = x
<1> DEFINE c == b[w]
           n == Cardinality(c)
           At(f, k) == IF k = 0 THEN c ELSE f[k - 1] \ {Lowest(f[k - 1])}
           F == [p \in (1 .. n) \X SUBSET c |-> p[2] \ {Lowest(p[2])}]
           P == CHOOSE f : f = [k \in 0 .. n |-> At(f, k)]
<1>1. c \in SUBSET Nat /\ IsFiniteSet(c) /\ n \in Nat
 <2>1. c \in SUBSET Bit BY DEF Bitsets
 <2>2. Bit \in SUBSET Nat /\ IsFiniteSet(Bit) BY CapacityAssumption, FS_Interval DEF Bit
 <2> HIDE DEF c
 <2> QED BY <2>1, <2>2, FS_Subset, FS_CardinalityType
<1>2. ASSUME NEW R \in SUBSET c, R # {} PROVE Lowest(R) \in R /\ \A y \in R : Lowest(R) <= y
 <2>1. \E x \in R : \A y \in R : x <= y BY <1>1, <1>2, LeastNumber
 <2> QED BY <2>1 DEF Lowest
<1>3. \E f : f = [k \in 0 .. n |-> At(f, k)]
 <2>1. F \in [(1 .. n) \X SUBSET c -> SUBSET c] OBVIOUS
 <2>2. c \in SUBSET c OBVIOUS
 <2>3. PICK f : IsLoop(SUBSET c, c, n, F, f)
  <3> HIDE DEF F, n, c
  <3> QED BY <1>1, <2>1, <2>2, LoopRecursion
 <2>4. f \in [0 .. n -> SUBSET c] /\ f[0] = c /\ \A k \in 1 .. n : f[k] = F[<<k, f[k - 1]>>] BY <2>3 DEF IsLoop
 <2>5. \A k \in 1 .. n, R \in SUBSET c : F[<<k, R>>] = R \ {Lowest(R)} OBVIOUS
 <2>6. f = [k \in 0 .. n |-> f[k]] BY <2>4
 <2>7. ASSUME NEW k \in 0 .. n PROVE f[k] = At(f, k)
  <3> HIDE DEF F, n, c
  <3>1. CASE k = 0 BY <2>4, <3>1
  <3>2. CASE k # 0
   <4>1. k \in 1 .. n /\ k - 1 \in 0 .. n BY <1>1, <3>2
   <4>2. f[k - 1] \in SUBSET c /\ f[k] = F[<<k, f[k - 1]>>] BY <2>4, <4>1
   <4>3. F[<<k, f[k - 1]>>] = f[k - 1] \ {Lowest(f[k - 1])} BY <2>5, <4>1, <4>2
   <4> QED BY <3>2, <4>2, <4>3
  <3> QED BY <3>1, <3>2
 <2> HIDE DEF At, n
 <2>8. f = [k \in 0 .. n |-> At(f, k)] BY <2>6, <2>7
 <2> QED BY <2>8
<1>4. P = [k \in 0 .. n |-> At(P, k)] BY <1>3
<1>5. IndicesIn(b, w) = [k \in 1 .. n |-> w * WordBits + Lowest(P[k - 1])] BY DEF IndicesIn
<1> HIDE DEF P
<1>6. P[0] = c /\ \A k \in 0 .. n : k # 0 => P[k] = P[k - 1] \ {Lowest(P[k - 1])}
 <2>1. \A k \in 0 .. n : P[k] = At(P, k)
  <3> HIDE DEF At, n
  <3> QED BY <1>4
 <2>2. 0 \in 0 .. n BY <1>1
 <2> QED BY <2>1, <2>2
<1> HIDE DEF c
<1> DEFINE Left(k) == /\ P[k] \in SUBSET c /\ Cardinality(P[k]) = n - k
                      /\ c \ P[k] = {Lowest(P[j - 1]) : j \in 1 .. k}
                      /\ \A x \in c \ P[k], y \in P[k] : x < y
           I == {k \in Nat : k \in 0 .. n => Left(k)}
<1>7. 0 \in I BY <1>1, <1>6
<1>8. ASSUME NEW k \in Nat, k < n, Left(k)
      PROVE  /\ Lowest(P[k]) \in P[k] /\ Lowest(P[k]) \in c
             /\ \A y \in P[k] : Lowest(P[k]) <= y
 <2>1. P[k] # {}
  <3>1. Cardinality(P[k]) # 0 BY <1>1, <1>8
  <3> QED BY <3>1, FS_EmptySet
 <2> QED BY <1>2, <1>8, <2>1
<1>9. ASSUME NEW k \in Nat, k \in I PROVE k + 1 \in I
 <2> SUFFICES ASSUME k + 1 \in 0 .. n PROVE Left(k + 1) OBVIOUS
 <2> HIDE DEF n
 <2>1. k \in 0 .. n /\ k < n /\ (k + 1) - 1 = k /\ k + 1 # 0 BY <1>1
 <2>2. Left(k) BY <1>9, <2>1
 <2> DEFINE m == Lowest(P[k])
 <2>3. m \in P[k] /\ m \in c /\ \A y \in P[k] : m <= y BY <1>8, <2>1, <2>2
 <2>4. P[k + 1] = P[k] \ {m} BY <1>6, <2>1
 <2>5. Cardinality(P[k] \ {m}) = n - (k + 1)
  <3>1. IsFiniteSet(P[k]) BY <1>1, <2>2, FS_Subset
  <3> HIDE DEF m
  <3>2. Cardinality(P[k] \ {m}) = Cardinality(P[k]) - 1 BY <2>3, <3>1, FS_RemoveElement
  <3> QED BY <1>1, <2>2, <3>2
 <2>6. c \ (P[k] \ {m}) = (c \ P[k]) \cup {m} BY <2>3
 <2>7. {Lowest(P[j - 1]) : j \in 1 .. k + 1} = {Lowest(P[j - 1]) : j \in 1 .. k} \cup {m}
  <3>1. \A j \in 1 .. k + 1 : j \in 1 .. k \/ j = k + 1 OBVIOUS
  <3>2. k + 1 \in 1 .. k + 1 /\ \A j \in 1 .. k : j \in 1 .. k + 1 OBVIOUS
  <3> QED BY <2>1, <3>1, <3>2
 <2>8. \A x \in c \ (P[k] \ {m}), y \in P[k] \ {m} : x < y
  <3>1. ASSUME NEW y \in P[k] \ {m} PROVE m < y
   <4> HIDE DEF m
   <4>1. m <= y /\ m # y BY <2>3
   <4>2. m \in Nat /\ y \in Nat BY <1>1, <2>2, <2>3
   <4> QED BY <4>1, <4>2
  <3> QED BY <2>2, <2>6, <3>1
 <2> HIDE DEF m
 <2> QED BY <2>2, <2>4, <2>5, <2>6, <2>7, <2>8
<1>10. \A k \in 0 .. n : Left(k)
 <2>1. Nat \subseteq I
  <3> HIDE DEF I
  <3> QED BY <1>7, <1>9, SetInduction
 <2>2. \A k \in 0 .. n : k \in Nat BY <1>1
 <2> HIDE DEF Left, n
 <2> QED BY <2>1, <2>2
<1> HIDE DEF n, I
<1> DEFINE low == [k \in 1 .. n |-> Lowest(P[k - 1])]
<1>11. ASSUME NEW k \in 1 .. n PROVE Lowest(P[k - 1]) \in P[k - 1] /\ Lowest(P[k - 1]) \in c
 <2>1. k - 1 \in Nat /\ k - 1 < n /\ k - 1 \in 0 .. n BY <1>1
 <2> QED BY <1>8, <1>10, <2>1
<1>12. low \in [1 .. n -> c] BY <1>11
<1>13. ASSUME NEW j \in 1 .. n, NEW k \in 1 .. n, j < k PROVE low[j] < low[k]
 <2>1. k - 1 \in 0 .. n /\ j \in 1 .. k - 1 BY <1>1, <1>13
 <2>2. Lowest(P[j - 1]) \in c \ P[k - 1] BY <1>10, <2>1
 <2>3. Lowest(P[k - 1]) \in P[k - 1] BY <1>11
 <2> QED BY <1>10, <2>1, <2>2, <2>3
<1>14. ASSUME NEW x \in c PROVE \E k \in 1 .. n : low[k] = x
 <2>1. n \in 0 .. n BY <1>1
 <2>2. Cardinality(P[n]) = 0 /\ P[n] \in SUBSET c BY <1>1, <1>10, <2>1
 <2>3. P[n] = {} BY <1>1, <2>2, FS_Subset, FS_EmptySet
 <2>4. c \ P[n] = {Lowest(P[j - 1]) : j \in 1 .. n} BY <1>10, <2>1
 <2> QED BY <2>3, <2>4
<1>15. IndicesIn(b, w) = [k \in 1 .. n |-> w * WordBits + low[k]] BY <1>5
<1> HIDE DEF low
<1> QED BY <1>1, <1>12, <1>13, <1>14, <1>15 DEF c

LEMMA IndicesAre ==
  ASSUME NEW S \in SUBSET Index, NEW w \in Word
  PROVE  /\ IndicesIn(Bits(S), w) \in Seq(Index)
         /\ Enumerates(IndicesIn(Bits(S), w), {i \in S : WordOf(i) = w})
<1>1. Bits(S) \in Bitsets BY BitsHeld
<1>0. PICK n \in Nat : \E low \in [1 .. n -> Bits(S)[w]] :
        /\ IndicesIn(Bits(S), w) = [k \in 1 .. n |-> w * WordBits + low[k]]
        /\ \A j, k \in 1 .. n : j < k => low[j] < low[k]
        /\ \A x \in Bits(S)[w] : \E k \in 1 .. n : low[k] = x BY <1>1, WordPeeled
<1>2. PICK low \in [1 .. n -> Bits(S)[w]] :
        /\ IndicesIn(Bits(S), w) = [k \in 1 .. n |-> w * WordBits + low[k]]
        /\ \A j, k \in 1 .. n : j < k => low[j] < low[k]
        /\ \A x \in Bits(S)[w] : \E k \in 1 .. n : low[k] = x BY <1>0
<1> DEFINE s == IndicesIn(Bits(S), w)
<1>3. w \in Nat /\ WordBits \in Nat /\ w * WordBits \in Nat BY WordsType, CapacityAssumption
<1>4. ASSUME NEW k \in 1 .. n
      PROVE  /\ low[k] \in Nat /\ s[k] = w * WordBits + low[k]
             /\ s[k] \in S /\ WordOf(s[k]) = w /\ s[k] \in Nat
 <2>1. low[k] \in Bits(S)[w] /\ low[k] \in Bit BY <1>1 DEF Bitsets
 <2>2. s[k] = w * WordBits + low[k] BY <1>2
 <2>3. w * WordBits + low[k] \in S BY <2>1, BitsHeld
 <2>4. WordOf(w * WordBits + low[k]) = w /\ w * WordBits + low[k] \in Nat BY <1>3, <2>1, LocatedOnce
 <2> HIDE DEF s
 <2> QED BY <2>1, <2>2, <2>3, <2>4 DEF Bit
<1>5. DOMAIN s = 1 .. n /\ s = [k \in 1 .. n |-> s[k]] BY <1>2
<1> HIDE DEF s
<1>6. s \in Seq(Index) BY <1>4, <1>5
<1>7. \A j, k \in DOMAIN s : j < k => s[j] < s[k]
 <2> SUFFICES ASSUME NEW j \in 1 .. n, NEW k \in 1 .. n, j < k PROVE s[j] < s[k] BY <1>5
 <2>1. low[j] < low[k] BY <1>2
 <2>2. low[j] \in Nat /\ s[j] = w * WordBits + low[j] BY <1>4
 <2>3. low[k] \in Nat /\ s[k] = w * WordBits + low[k] BY <1>4
 <2> DEFINE c == w * WordBits
            a == low[j]
            b == low[k]
 <2> HIDE DEF a, b, c
 <2>4. c \in Nat /\ a \in Nat /\ b \in Nat /\ a < b /\ s[j] = c + a /\ s[k] = c + b BY <1>3, <2>1, <2>2, <2>3 DEF a, b, c
 <2> QED BY ONLY <2>4
<1>8. ASSUME NEW i \in S, WordOf(i) = w PROVE \E k \in 1 .. n : s[k] = i
 <2>1. i \in Nat /\ BitOf(i) \in Bits(S)[w] BY <1>8, IndexWord, BitsHeld
 <2>2. PICK k \in 1 .. n : low[k] = BitOf(i) BY <1>2, <2>1
 <2>3. i = w * WordBits + BitOf(i) BY <1>8, <2>1, Located
 <2> QED BY <1>4, <2>2, <2>3
<1>9. {s[k] : k \in DOMAIN s} = {i \in S : WordOf(i) = w} BY <1>4, <1>5, <1>8
<1> QED BY <1>6, <1>7, <1>9 DEF Enumerates, s

(* Enumerations follow one another if everything in the first is smaller. *)
LEMMA EnumerationsJoined ==
  ASSUME NEW a \in Seq(Index), NEW b \in Seq(Index), NEW S \in SUBSET Index, NEW R \in SUBSET Index,
         Enumerates(a, S), Enumerates(b, R), \A x \in S, y \in R : x < y
  PROVE  a \o b \in Seq(Index) /\ Enumerates(a \o b, S \cup R)
<1>1. PICK m \in Nat, n \in Nat : m = Len(a) /\ n = Len(b) OBVIOUS
<1>2. DOMAIN a = 1 .. m /\ DOMAIN b = 1 .. n /\ DOMAIN (a \o b) = 1 .. m + n BY <1>1
<1>3. \A k \in 1 .. m : (a \o b)[k] = a[k] BY <1>1
<1>4. \A k \in 1 .. n : (a \o b)[m + k] = b[k] BY <1>1
<1>5. \A k \in 1 .. m + n : k \in 1 .. m \/ (k - m \in 1 .. n /\ k = m + (k - m)) OBVIOUS
<1>6. \A k \in 1 .. n : m + k \in 1 .. m + n OBVIOUS
<1>7. \A k \in 1 .. m : k \in 1 .. m + n OBVIOUS
<1> DEFINE c == a \o b
<1>8. a \o b \in Seq(Index) OBVIOUS
<1>9. \A k \in 1 .. m : c[k] = a[k] /\ a[k] \in S BY <1>2, <1>3 DEF Enumerates
<1>10. \A k \in 1 .. n : c[m + k] = b[k] /\ b[k] \in R BY <1>2, <1>4 DEF Enumerates
<1> HIDE DEF c
<1>11. ASSUME NEW j \in 1 .. m + n, NEW k \in 1 .. m + n, j < k PROVE c[j] < c[k]
 <2>1. CASE j \in 1 .. m /\ k \in 1 .. m BY <1>2, <1>9, <1>11, <2>1 DEF Enumerates
 <2>2. CASE j \in 1 .. m /\ k \notin 1 .. m BY <1>5, <1>9, <1>10, <2>2
 <2>3. CASE j \notin 1 .. m
  <3>1. /\ j - m \in 1 .. n /\ k - m \in 1 .. n /\ j - m < k - m
        /\ j = m + (j - m) /\ k = m + (k - m) BY <1>11, <2>3
  <3>2. b[j - m] < b[k - m] BY <1>2, <3>1 DEF Enumerates
  <3> QED BY <1>10, <3>1, <3>2
 <2> QED BY <2>1, <2>2, <2>3
<1>12. {c[k] : k \in DOMAIN c} = S \cup R
 <2>0. DOMAIN c = 1 .. m + n BY <1>2 DEF c
 <2>1. ASSUME NEW k \in DOMAIN c PROVE c[k] \in S \cup R
  <3>1. CASE k \in 1 .. m BY <1>9, <3>1
  <3>2. CASE k - m \in 1 .. n /\ k = m + (k - m)
   <4>1. PICK j \in 1 .. n : k = m + j BY <3>2
   <4> QED BY <1>10, <4>1
  <3> QED BY <1>5, <2>0, <3>1, <3>2
 <2>2. ASSUME NEW x \in S PROVE \E k \in DOMAIN c : c[k] = x
  <3>1. PICK k \in 1 .. m : a[k] = x BY <1>2 DEF Enumerates
  <3> QED BY <1>7, <1>9, <2>0, <3>1
 <2>3. ASSUME NEW x \in R PROVE \E k \in DOMAIN c : c[k] = x
  <3>1. PICK k \in 1 .. n : b[k] = x BY <1>2 DEF Enumerates
  <3> QED BY <1>6, <1>10, <2>0, <3>1
 <2> QED BY <2>1, <2>2, <2>3
<1>13. \A j, k \in DOMAIN c : j < k => c[j] < c[k] BY <1>2, <1>11 DEF c
<1> QED BY <1>8, <1>12, <1>13 DEF Enumerates, c

(* Iter: the elements, each once and in ascending order, however many words are
   empty. *)
LEMMA IterIs == ASSUME NEW S \in SUBSET Index PROVE Iter(Bits(S)) \in Seq(Index) /\ Enumerates(Iter(Bits(S)), S)
<1> DEFINE b == Bits(S)
           M == NumWords
           T == Seq(Index)
           At(f, w) == IF w = 0 THEN <<>> ELSE f[w - 1] \o IndicesIn(b, w - 1)
           F == [p \in (1 .. M) \X T |-> p[2] \o IndicesIn(b, p[1] - 1)]
           P == CHOOSE f : f = [w \in 0 .. M |-> At(f, w)]
           part(w) == {i \in S : WordOf(i) = w}
           below(w) == {i \in S : WordOf(i) < w}
<1>1. M \in Nat /\ \A w \in 1 .. M : w - 1 \in Word /\ w - 1 \in Nat /\ w - 1 \in 0 .. M BY WordsType
<1>2. \A w \in Word : IndicesIn(b, w) \in T /\ Enumerates(IndicesIn(b, w), part(w)) BY IndicesAre
<1>3. \E f : f = [w \in 0 .. M |-> At(f, w)]
 <2>1. F \in [(1 .. M) \X T -> T]
  <3>1. ASSUME NEW q \in (1 .. M) \X T PROVE q[2] \o IndicesIn(b, q[1] - 1) \in T
   <4>1. q[1] \in 1 .. M /\ q[2] \in T OBVIOUS
   <4>2. IndicesIn(b, q[1] - 1) \in T
    <5> HIDE DEF b, M, T
    <5> QED BY <1>1, <1>2, <4>1
   <4> HIDE DEF b, M
   <4> QED BY <4>1, <4>2
  <3> HIDE DEF b, M, T
  <3> QED BY <3>1
 <2>2. <<>> \in T OBVIOUS
 <2>3. PICK f : IsLoop(T, <<>>, M, F, f)
  <3> HIDE DEF F, M, T
  <3> QED BY <1>1, <2>1, <2>2, LoopRecursion
 <2>4. f \in [0 .. M -> T] /\ f[0] = <<>> /\ \A w \in 1 .. M : f[w] = F[<<w, f[w - 1]>>] BY <2>3 DEF IsLoop
 <2>5. \A k \in 1 .. M, q \in T : F[<<k, q>>] = q \o IndicesIn(b, k - 1)
  <3> HIDE DEF M, T, b
  <3> QED OBVIOUS
 <2>6. f = [w \in 0 .. M |-> f[w]] BY <2>4
 <2> HIDE DEF F, M, T, b
 <2>7. ASSUME NEW w \in 0 .. M PROVE f[w] = At(f, w)
  <3>1. CASE w = 0 BY <2>4, <3>1
  <3>2. CASE w # 0
   <4>1. w \in 1 .. M /\ w - 1 \in 0 .. M BY <1>1, <3>2
   <4>2. f[w - 1] \in T /\ f[w] = F[<<w, f[w - 1]>>] BY <2>4, <4>1
   <4>3. F[<<w, f[w - 1]>>] = f[w - 1] \o IndicesIn(b, w - 1) BY <2>5, <4>1, <4>2
   <4> QED BY <3>2, <4>2, <4>3
  <3> QED BY <3>1, <3>2
 <2> HIDE DEF At
 <2>8. f = [w \in 0 .. M |-> At(f, w)] BY <2>6, <2>7
 <2> QED BY <2>8
<1>4. P = [w \in 0 .. M |-> At(P, w)] BY <1>3
<1>5. Iter(b) = P[M] BY DEF Iter, IterUpTo
<1> HIDE DEF P
<1>6. \A w \in 0 .. M : P[w] = At(P, w)
 <2> HIDE DEF At, M
 <2> QED BY <1>4
<1> HIDE DEF b
<1> DEFINE I == {w \in Nat : w \in 0 .. M => P[w] \in T /\ Enumerates(P[w], below(w))}
<1>7. 0 \in I
 <2>1. below(0) = {} BY IndexWord, WordsType
 <2>2. P[0] = <<>> /\ P[0] \in T
  <3>1. 0 \in 0 .. M /\ <<>> \in T BY <1>1
  <3>2. P[0] = <<>> BY <1>6, <3>1
  <3> QED BY <3>1, <3>2
 <2>3. Enumerates(<<>>, {}) BY DEF Enumerates
 <2> QED BY <2>1, <2>2, <2>3
<1>8. ASSUME NEW w \in Nat, w \in I PROVE w + 1 \in I
 <2> SUFFICES ASSUME w + 1 \in 0 .. M PROVE P[w + 1] \in T /\ Enumerates(P[w + 1], below(w + 1)) OBVIOUS
 <2>1. w \in 0 .. M /\ w \in Word /\ (w + 1) - 1 = w /\ w + 1 # 0 BY <1>1, WordsType
 <2>2. P[w + 1] = P[w] \o IndicesIn(b, w) BY <1>6, <2>1
 <2>3. \A i \in S : /\ WordOf(i) \in Nat /\ BitOf(i) \in Bit
                    /\ i = WordOf(i) * WordBits + BitOf(i) BY IndexWord, Located
 <2>4. below(w + 1) = below(w) \cup part(w) BY <2>3
 <2>5. ASSUME NEW i \in below(w), NEW j \in part(w) PROVE i < j BY <2>3, WordsOrdered
 <2>6. below(w) \in SUBSET Index /\ part(w) \in SUBSET Index OBVIOUS
 <2>7. P[w] \in T /\ Enumerates(P[w], below(w)) BY <1>8, <2>1
 <2>8. IndicesIn(b, w) \in T /\ Enumerates(IndicesIn(b, w), part(w)) BY <1>2, <2>1
 <2> HIDE DEF below, part
 <2>9. /\ P[w] \o IndicesIn(b, w) \in T
       /\ Enumerates(P[w] \o IndicesIn(b, w), below(w) \cup part(w)) BY <2>5, <2>6, <2>7, <2>8, EnumerationsJoined
 <2> QED BY <2>2, <2>4, <2>9
<1>9. M \in I
 <2> HIDE DEF I, M
 <2> QED BY <1>1, <1>7, <1>8, SetInduction
<1>10. below(M) = S
 <2>1. \A i \in S : WordOf(i) < M BY IndexWord, WordsType
 <2> QED BY <2>1
<1>11. P[M] \in T /\ Enumerates(P[M], S)
 <2>1. M \in 0 .. M BY <1>1
 <2> HIDE DEF M, T
 <2>2. P[M] \in T /\ Enumerates(P[M], below(M)) BY <1>9, <2>1
 <2> HIDE DEF below
 <2> QED BY <1>10, <2>2
<1> QED BY <1>5, <1>11 DEF b

(* The loop over live_out enters d at every other vreg that is live. *)
LEMMA MirroredIs ==
  ASSUME NEW A \in [Index -> SUBSET Index], NEW d \in Index, NEW L \in SUBSET Index,
         NEW adj, adj = [v \in Index |-> Bits(A[v])],
         NEW all, all = [v \in Index |-> Bits(IF v \in L \ {d} THEN A[v] \cup {d} ELSE A[v])]
  PROVE  Mirrored(adj, d, Bits(L)) = all
<1> DEFINE s == Iter(Bits(L))
           M == Len(s)
           T == [Index -> Bitsets]
           At(f, k) == IF k = 0 THEN adj ELSE Entered(f[k - 1], s[k], d)
           F == [p \in (1 .. M) \X T |-> Entered(p[2], s[p[1]], d)]
           P == CHOOSE f : f = [k \in 0 .. M |-> At(f, k)]
           met(k) == {s[j] : j \in 1 .. k}
           After(k) == [v \in Index |-> Bits(IF v \in met(k) \ {d} THEN A[v] \cup {d} ELSE A[v])]
<1>1. s \in Seq(Index) /\ Enumerates(s, L) BY IterIs
<1>2. M \in Nat /\ DOMAIN s = 1 .. M /\ \A k \in 1 .. M : s[k] \in Index
 <2> HIDE DEF s
 <2> QED BY <1>1
<1>3. met(M) = L BY <1>1, <1>2 DEF Enumerates
<1>4. \A b \in Bitsets, i \in Index : InsertBit(b, i) \in Bitsets BY IndexWord DEF InsertBit, Bitsets
<1>5. ASSUME NEW a \in T, NEW r \in Index PROVE Entered(a, r, d) \in T BY <1>4 DEF Entered
<1>6. adj \in T BY BitsHeld
<1>7. \E f : f = [k \in 0 .. M |-> At(f, k)]
 <2>1. F \in [(1 .. M) \X T -> T]
  <3>1. ASSUME NEW q \in (1 .. M) \X T PROVE Entered(q[2], s[q[1]], d) \in T
   <4>1. q[1] \in 1 .. M /\ q[2] \in T OBVIOUS
   <4> HIDE DEF M, T, s
   <4> QED BY <1>2, <1>5, <4>1
  <3> HIDE DEF M, T, s
  <3> QED BY <3>1
 <2>3. PICK f : IsLoop(T, adj, M, F, f)
  <3> HIDE DEF F, M, T
  <3> QED BY <1>2, <1>6, <2>1, LoopRecursion
 <2>4. f \in [0 .. M -> T] /\ f[0] = adj /\ \A k \in 1 .. M : f[k] = F[<<k, f[k - 1]>>] BY <2>3 DEF IsLoop
 <2>5. \A k \in 1 .. M, a \in T : F[<<k, a>>] = Entered(a, s[k], d)
  <3> HIDE DEF M, T, s
  <3> QED OBVIOUS
 <2>6. f = [k \in 0 .. M |-> f[k]] BY <2>4
 <2> HIDE DEF F, M, T, s
 <2>7. ASSUME NEW k \in 0 .. M PROVE f[k] = At(f, k)
  <3>1. CASE k = 0 BY <2>4, <3>1
  <3>2. CASE k # 0
   <4>1. k \in 1 .. M /\ k - 1 \in 0 .. M BY <1>2, <3>2
   <4>2. f[k - 1] \in T /\ f[k] = F[<<k, f[k - 1]>>] BY <2>4, <4>1
   <4>3. F[<<k, f[k - 1]>>] = Entered(f[k - 1], s[k], d) BY <2>5, <4>1, <4>2
   <4> QED BY <3>2, <4>2, <4>3
  <3> QED BY <3>1, <3>2
 <2> HIDE DEF At
 <2>8. f = [k \in 0 .. M |-> At(f, k)] BY <2>6, <2>7
 <2> QED BY <2>8
<1>8. P = [k \in 0 .. M |-> At(P, k)] BY <1>7
<1>9. Mirrored(adj, d, Bits(L)) = P[M] BY DEF Mirrored
<1> HIDE DEF P
<1>10. \A k \in 0 .. M : P[k] = At(P, k)
 <2> HIDE DEF At, M
 <2> QED BY <1>8
<1> HIDE DEF s, M
<1> DEFINE I == {k \in Nat : k \in 0 .. M => P[k] = After(k)}
<1>11. 0 \in I
 <2>1. met(0) = {} /\ 0 \in 0 .. M BY <1>2
 <2>2. P[0] = adj BY <1>10, <2>1
 <2> HIDE DEF met
 <2>3. After(0) = adj BY <2>1
 <2> QED BY <2>2, <2>3
<1>12. ASSUME NEW k \in Nat, k \in I PROVE k + 1 \in I
 <2> SUFFICES ASSUME k + 1 \in 0 .. M PROVE P[k + 1] = After(k + 1) OBVIOUS
 <2>1. k \in 0 .. M /\ (k + 1) - 1 = k /\ k + 1 # 0 /\ k + 1 \in 1 .. M BY <1>2
 <2> DEFINE r == s[k + 1]
 <2>2. P[k + 1] = Entered(After(k), r, d)
  <3>1. P[k + 1] = Entered(P[k], r, d) BY <1>10, <2>1
  <3>2. P[k] = After(k) BY <1>12, <2>1
  <3> QED BY <3>1, <3>2
 <2>3. met(k + 1) = met(k) \cup {r}
  <3>1. \A j \in 1 .. k + 1 : j \in 1 .. k \/ j = k + 1 OBVIOUS
  <3>2. k + 1 \in 1 .. k + 1 /\ \A j \in 1 .. k : j \in 1 .. k + 1 OBVIOUS
  <3> QED BY <3>1, <3>2
 <2>4. r \in Index BY <1>2, <2>1
 <2> HIDE DEF r, met
 <2>5. CASE r = d BY <2>2, <2>3, <2>5 DEF Entered
 <2>6. CASE r # d
  <3> DEFINE held == IF r \in met(k) \ {d} THEN A[r] \cup {d} ELSE A[r]
  <3>1. InsertBit(Bits(held), d) = Bits(held \cup {d})
   <4>1. held \in SUBSET Index
    <5>1. A[r] \in SUBSET Index /\ A[r] \cup {d} \in SUBSET Index BY <2>4
    <5> QED BY <5>1
   <4> QED BY <4>1, InsertedBit
  <3>2. held \cup {d} = A[r] \cup {d} OBVIOUS
  <3>3. After(k)[r] = Bits(held) BY <2>4
  <3>4. P[k + 1] = [After(k) EXCEPT ![r] = Bits(A[r] \cup {d})]
   <4>1. P[k + 1] = [After(k) EXCEPT ![r] = InsertBit(After(k)[r], d)] BY <2>2, <2>6 DEF Entered
   <4> HIDE DEF held, After
   <4> QED BY <3>1, <3>2, <3>3, <4>1
  <3>5. [After(k) EXCEPT ![r] = Bits(A[r] \cup {d})] = After(k + 1)
   <4>1. ASSUME NEW v \in Index
         PROVE  [After(k) EXCEPT ![r] = Bits(A[r] \cup {d})][v] = After(k + 1)[v] BY <2>3, <2>4, <2>6
   <4> DEFINE X == [After(k) EXCEPT ![r] = Bits(A[r] \cup {d})]
              Y == After(k + 1)
   <4>2. DOMAIN X = Index /\ DOMAIN Y = Index /\ X = [v \in Index |-> X[v]] /\ Y = [v \in Index |-> Y[v]] OBVIOUS
   <4> HIDE DEF X, Y
   <4>3. X = Y
    <5>1. \A v \in Index : X[v] = Y[v] BY <4>1 DEF X, Y
    <5> QED BY <4>2, <5>1
   <4> QED BY <4>3 DEF X, Y
  <3> QED BY <3>4, <3>5
 <2> QED BY <2>5, <2>6
<1>13. M \in I
 <2> HIDE DEF I
 <2> QED BY <1>2, <1>11, <1>12, SetInduction
<1>14. P[M] = After(M)
 <2>1. M \in 0 .. M BY <1>2
 <2> HIDE DEF After
 <2> QED BY <1>13, <2>1
<1> QED
 <2> HIDE DEF met
 <2> QED BY <1>3, <1>9, <1>14 DEF s

-----------------------------------------------------------------------------
(* The equations and the paths.  A set of nodes is reached against the edges by
   paths of any length; a shortest one visits no node twice. *)
Edge(a, b) == \E j \in DOMAIN graph.succs[a] : graph.succs[a][j] = b

Witness(n, v, k, p) ==
  /\ k \in Nat \ {0} /\ p \in [1 .. k -> Node]
  /\ p[1] = n
  /\ v \in Facts(gen[p[k]])
  /\ \A i \in 1 .. k - 1 : v \notin Facts(kill[p[i]]) /\ Edge(p[i], p[i + 1])

(* Cutting out what lies between two visits of a node. *)
LEMMA DetourCut ==
  ASSUME NEW n, NEW v, NEW k, NEW p, Witness(n, v, k, p),
         NEW i \in 1 .. k, NEW j \in 1 .. k, i < j, p[i] = p[j]
  PROVE  \E q : Witness(n, v, k - (j - i), q)
<1>1. PICK g \in Nat : g = j - i /\ g > 0 /\ k - g \in Nat \ {0} /\ k \in Nat \ {0} /\ i <= k - g BY DEF Witness
<1> DEFINE l == k - g
           q == [x \in 1 .. l |-> IF x <= i THEN p[x] ELSE p[x + g]]
<1>2. \A x \in 1 .. l : x \in 1 .. k /\ x + g \in 1 .. k BY <1>1
<1>3. q \in [1 .. l -> Node] BY <1>2 DEF Witness
<1>4. q[1] = n BY <1>1 DEF Witness
<1>5. q[l] = p[k] BY <1>1
<1>6. ASSUME NEW x \in 1 .. l - 1 PROVE v \notin Facts(kill[q[x]]) /\ Edge(q[x], q[x + 1])
 <2>0. x \in 1 .. l /\ x + 1 \in 1 .. l /\ x \in 1 .. k - 1 /\ x + g \in 1 .. k - 1 /\ (x + 1) + g = (x + g) + 1 BY <1>1
 <2>1. CASE x < i
  <3>1. q[x] = p[x] /\ q[x + 1] = p[x + 1] BY <2>0, <2>1
  <3> QED BY <2>0, <3>1 DEF Witness
 <2>2. CASE x = i
  <3>1. q[x] = p[x + g] /\ q[x + 1] = p[(x + g) + 1] BY <1>1, <2>0, <2>2
  <3> QED BY <2>0, <3>1 DEF Witness
 <2>3. CASE x > i
  <3>1. q[x] = p[x + g] /\ q[x + 1] = p[(x + g) + 1] BY <2>0, <2>3
  <3> QED BY <2>0, <3>1 DEF Witness
 <2> QED BY <2>0, <2>1, <2>2, <2>3
<1> HIDE DEF q
<1>7. Witness(n, v, l, q) BY <1>1, <1>3, <1>4, <1>5, <1>6 DEF Witness
<1> QED BY <1>1, <1>7

LEMMA ShortWitness ==
  ASSUME NEW n, NEW v, NEW k0, NEW p0, Witness(n, v, k0, p0) PROVE \E k \in 1 .. N : \E p : Witness(n, v, k, p)
<1> DEFINE K == {k \in Nat : \E p : Witness(n, v, k, p)}
<1>1. K \in SUBSET Nat /\ k0 \in K BY DEF Witness
<1>2. PICK k \in K : \A l \in K : k <= l BY <1>1, LeastNumber
<1>3. PICK p : Witness(n, v, k, p) OBVIOUS
<1>4. k \in Nat \ {0} /\ p \in [1 .. k -> Node] BY <1>3 DEF Witness
<1>5. \A i, j \in 1 .. k : i < j => p[i] # p[j]
 <2> SUFFICES ASSUME NEW i \in 1 .. k, NEW j \in 1 .. k, i < j, p[i] = p[j] PROVE FALSE OBVIOUS
 <2>1. PICK q : Witness(n, v, k - (j - i), q) BY <1>3, DetourCut
 <2>2. k - (j - i) \in K BY <2>1 DEF Witness
 <2> QED BY <1>2, <1>4, <2>2
<1>6. \A i, j \in 1 .. k : p[i] = p[j] => i = j
 <2>1. \A i, j \in 1 .. k : i < j \/ j < i \/ i = j BY <1>4
 <2> QED BY <1>5, <2>1
<1>7. p \in Injection(1 .. k, Node) BY <1>4, <1>6 DEF Injection, IsInjective
<1>8. IsFiniteSet(Node) /\ Cardinality(Node) = N /\ IsFiniteSet(1 .. k) /\ Cardinality(1 .. k) = k
  BY <1>4, SizeAssumption, FS_Interval DEF Node, NodesOf
<1>9. k <= N BY <1>7, <1>8, FS_Injection
<1> QED BY <1>3, <1>4, <1>9

(* The abstract definition of liveness speaks of the same paths. *)
LEMMA EntryByWitness ==
  ASSUME NEW n, NEW v PROVE Abstract!LiveEntry(n, v) <=> \E k \in 1 .. N : \E p : Witness(n, v, k, p)
<1> DEFINE Path(k, p) ==
             /\ p[1] = n
             /\ v \in AsFacts(gen)[p[k]]
             /\ \A i \in 1 .. k - 1 :
                  /\ v \notin AsFacts(kill)[p[i]]
                  /\ \E j \in DOMAIN graph.succs[p[i]] : graph.succs[p[i]][j] = p[i + 1]
<1>1. Abstract!Node = Node BY DEF Abstract!Node, Node, NodesOf
<1>2. ASSUME NEW k \in 1 .. N, NEW p \in [1 .. k -> Node] PROVE Path(k, p) <=> Witness(n, v, k, p)
 <2>1. k \in Nat \ {0} /\ p[k] \in Node /\ \A i \in 1 .. k - 1 : p[i] \in Node BY SizeAssumption
 <2>2. \A m \in Node : AsFacts(gen)[m] = Facts(gen[m]) /\ AsFacts(kill)[m] = Facts(kill[m]) BY DEF AsFacts
 <2> QED BY <2>1, <2>2 DEF Witness, Edge
<1>3. \A k \in 1 .. N : \A p : Witness(n, v, k, p) => p \in [1 .. k -> Node] BY DEF Witness
<1>4. Abstract!LiveEntry(n, v) <=> \E k \in 1 .. N : \E p \in [1 .. k -> Node] : Path(k, p) BY <1>1 DEF Abstract!LiveEntry
<1> HIDE DEF Path
<1> QED BY <1>2, <1>3, <1>4

SolvedInv ==
  /\ TypeOK /\ BelowEverySolution
  /\ \A n \in Node : Solved(n)

LEMMA SuccessorNodes ==
  ASSUME TypeOK, NEW n \in Node, NEW j \in DOMAIN graph.succs[n] PROVE graph.succs[n][j] \in Node
<1>1. graph.succs[n] \in Seq(Node) BY DEF TypeOK, Consistent, Node
<1> QED BY <1>1, ElementType

(* A solution tells a fact at a node from those of its successors. *)
LEMMA SolvedFacts ==
  ASSUME SolvedInv, NEW n \in Node, NEW v \in Index
  PROVE  /\ v \in Facts(live_out[n]) <=> \E m \in Node : Edge(n, m) /\ v \in Facts(live_in[m])
         /\ v \in Facts(live_in[n])
              <=> v \in Facts(gen[n]) \/ (v \in Facts(live_out[n]) /\ v \notin Facts(kill[n]))
<1>1. WordOf(v) \in Word /\ v < Capacity BY IndexWord, CapacityAssumption DEF Index
<1>2. \A b : v \in Facts(b) <=> BitOf(v) \in b[WordOf(v)] BY <1>1 DEF Facts, ContainsBit
<1>3. live_out[n] = Joined(n) /\ live_in[n] = Transfer(gen[n], kill[n], live_out[n]) BY DEF SolvedInv, Solved
<1>4. BitOf(v) \in Joined(n)[WordOf(v)]
        <=> \E j \in DOMAIN graph.succs[n] : BitOf(v) \in live_in[graph.succs[n][j]][WordOf(v)] BY <1>1 DEF Joined
<1>5. \A j \in DOMAIN graph.succs[n] : graph.succs[n][j] \in Node BY SuccessorNodes DEF SolvedInv
<1>6. v \in Facts(live_out[n]) <=> \E m \in Node : Edge(n, m) /\ v \in Facts(live_in[m]) BY <1>2, <1>3, <1>4, <1>5 DEF Edge
<1>7. BitOf(v) \in Transfer(gen[n], kill[n], live_out[n])[WordOf(v)]
        <=> \/ BitOf(v) \in gen[n][WordOf(v)]
            \/ BitOf(v) \in live_out[n][WordOf(v)] /\ BitOf(v) \notin kill[n][WordOf(v)] BY <1>1 DEF Transfer
<1> QED BY <1>2, <1>3, <1>6, <1>7

(* A solution holds a fact at every node a path of which proves it live. *)
LEMMA WitnessSolved ==
  ASSUME SolvedInv, NEW n, NEW v \in Index, NEW k, NEW p, Witness(n, v, k, p) PROVE v \in Facts(live_in[n])
<1>1. k \in Nat \ {0} /\ p \in [1 .. k -> Node] BY DEF Witness
<1> DEFINE I == {d \in Nat : d < k => v \in Facts(live_in[p[k - d]])}
<1>2. 0 \in I
 <2>1. p[k] \in Node /\ k - 0 = k BY <1>1
 <2>2. v \in Facts(gen[p[k]]) BY DEF Witness
 <2>3. v \in Facts(live_in[p[k]]) BY <2>1, <2>2, SolvedFacts
 <2> QED BY <2>1, <2>3
<1>3. ASSUME NEW d \in Nat, d \in I PROVE d + 1 \in I
 <2> SUFFICES ASSUME d + 1 < k PROVE v \in Facts(live_in[p[k - (d + 1)]]) OBVIOUS
 <2> DEFINE i == k - (d + 1)
 <2>1. i \in 1 .. k - 1 /\ i + 1 = k - d /\ i \in 1 .. k /\ i + 1 \in 1 .. k /\ d < k BY <1>1
 <2> HIDE DEF i
 <2>2. v \in Facts(live_in[p[i + 1]]) BY <1>3, <2>1
 <2>3. v \notin Facts(kill[p[i]]) /\ Edge(p[i], p[i + 1]) BY <2>1 DEF Witness
 <2>4. p[i] \in Node /\ p[i + 1] \in Node BY <1>1, <2>1
 <2>5. v \in Facts(live_out[p[i]]) BY <2>2, <2>3, <2>4, SolvedFacts
 <2>6. v \in Facts(live_in[p[i]]) BY <2>3, <2>4, <2>5, SolvedFacts
 <2> QED BY <2>6 DEF i
<1>4. k - 1 \in I
 <2> HIDE DEF I
 <2> QED BY <1>1, <1>2, <1>3, SetInduction
<1>5. k - (k - 1) = 1 /\ k - 1 < k BY <1>1
<1>6. p[1] = n BY DEF Witness
<1> QED BY <1>4, <1>5, <1>6

(* The nodes a path proves a fact live at solve its equations. *)
LEMMA WitnessesClosed ==
  ASSUME TypeOK, NEW v \in Index PROVE Closed({n \in Node : \E k, p : Witness(n, v, k, p)}, WordOf(v), BitOf(v))
<1> DEFINE S == {n \in Node : \E k, p : Witness(n, v, k, p)}
<1>1. WordOf(v) \in Word /\ v < Capacity BY IndexWord, CapacityAssumption DEF Index
<1>2. \A b : v \in Facts(b) <=> BitOf(v) \in b[WordOf(v)] BY <1>1 DEF Facts, ContainsBit
<1>3. ASSUME NEW n \in Node, v \in Facts(gen[n]) PROVE n \in S
 <2> DEFINE p == [x \in 1 .. 1 |-> n]
 <2>1. p \in [1 .. 1 -> Node] /\ p[1] = n OBVIOUS
 <2>2. \A i \in 1 .. 1 - 1 : FALSE OBVIOUS
 <2> HIDE DEF p
 <2>3. Witness(n, v, 1, p) BY <1>3, <2>1, <2>2 DEF Witness
 <2> QED BY <2>3
<1>4. ASSUME NEW n \in Node, NEW m \in S, v \notin Facts(kill[n]), Edge(n, m) PROVE n \in S
 <2>1. PICK k, p : Witness(m, v, k, p) OBVIOUS
 <2>2. k \in Nat \ {0} /\ p \in [1 .. k -> Node] BY <2>1 DEF Witness
 <2> DEFINE q == [x \in 1 .. k + 1 |-> IF x = 1 THEN n ELSE p[x - 1]]
 <2>3. \A x \in 1 .. k + 1 : x # 1 => x - 1 \in 1 .. k BY <2>2
 <2>4. q \in [1 .. k + 1 -> Node] BY <2>2, <2>3
 <2>5. q[1] = n /\ \A x \in 1 .. k : q[x + 1] = p[x]
  <3>1. \A x \in 1 .. k : x + 1 \in 1 .. k + 1 /\ x + 1 # 1 /\ (x + 1) - 1 = x BY <2>2
  <3>2. 1 \in 1 .. k + 1 BY <2>2
  <3> QED BY <3>1, <3>2
 <2> HIDE DEF q
 <2>6. q[k + 1] = p[k] /\ v \in Facts(gen[p[k]]) /\ p[1] = m BY <2>1, <2>2, <2>5 DEF Witness
 <2>7. ASSUME NEW i \in 1 .. k PROVE v \notin Facts(kill[q[i]]) /\ Edge(q[i], q[i + 1])
  <3>1. CASE i = 1
   <4>1. q[i + 1] = m BY <2>2, <2>5, <2>6, <3>1
   <4> QED BY <1>4, <2>5, <3>1, <4>1
  <3>2. CASE i # 1
   <4>1. i - 1 \in 1 .. k - 1 /\ i - 1 \in 1 .. k /\ (i - 1) + 1 = i BY <2>2, <3>2
   <4>2. v \notin Facts(kill[p[i - 1]]) /\ Edge(p[i - 1], p[(i - 1) + 1]) BY <2>1, <4>1 DEF Witness
   <4>3. q[i] = p[i - 1] /\ q[i + 1] = p[i] BY <2>5, <4>1
   <4> QED BY <4>1, <4>2, <4>3
  <3> QED BY <3>1, <3>2
 <2>8. k + 1 \in Nat \ {0} /\ (k + 1) - 1 = k BY <2>2
 <2>9. Witness(n, v, k + 1, q) BY <2>4, <2>5, <2>6, <2>7, <2>8 DEF Witness
 <2> QED BY <2>9
<1> HIDE DEF S
<1> QED BY <1>2, <1>3, <1>4 DEF Closed, Edge, S

(* When the queue is empty, a fact is in a node's set exactly if it is live
   there in the sense of the paths. *)
LEMMA LiveExactly ==
  ASSUME SolvedInv, NEW n \in Node, NEW v \in Index
  PROVE  /\ v \in Facts(live_in[n]) <=> Abstract!LiveEntry(n, v)
         /\ v \in Facts(live_out[n]) <=> Abstract!LiveExit(n, v)
<1>1. ASSUME NEW m \in Node PROVE v \in Facts(live_in[m]) <=> Abstract!LiveEntry(m, v)
 <2>1. ASSUME v \in Facts(live_in[m]) PROVE Abstract!LiveEntry(m, v)
  <3> DEFINE S == {x \in Node : \E k, p : Witness(x, v, k, p)}
  <3>1. WordOf(v) \in Word /\ BitOf(v) \in Bit BY IndexWord
  <3>2. Closed(S, WordOf(v), BitOf(v)) /\ S \in SUBSET Node BY WitnessesClosed DEF SolvedInv
  <3>3. BitOf(v) \in live_in[m][WordOf(v)] BY <2>1 DEF Facts, ContainsBit
  <3> HIDE DEF S
  <3>4. m \in S BY <3>1, <3>2, <3>3 DEF SolvedInv, BelowEverySolution
  <3>5. PICK k, p : Witness(m, v, k, p) BY <3>4 DEF S
  <3> QED BY <3>5, ShortWitness, EntryByWitness
 <2>2. ASSUME Abstract!LiveEntry(m, v) PROVE v \in Facts(live_in[m])
  <3>1. PICK k \in 1 .. N : \E p : Witness(m, v, k, p) BY <2>2, EntryByWitness
  <3> QED BY <3>1, WitnessSolved
 <2> QED BY <2>1, <2>2
<1>2. Abstract!LiveExit(n, v) <=> \E m \in Node : Edge(n, m) /\ Abstract!LiveEntry(m, v)
 <2>1. \A j \in DOMAIN graph.succs[n] : graph.succs[n][j] \in Node BY SuccessorNodes DEF SolvedInv
 <2> QED BY <2>1 DEF Abstract!LiveExit, Edge
<1> QED BY <1>1, <1>2, SolvedFacts

-----------------------------------------------------------------------------
(* From the instruction stream to the graph.  Until the solver is done no edge
   is entered; after k instructions, v has met whom a definition among them
   found live or was found live by. *)
Met(v, k) ==
  {u \in Index \ {v} : \E i \in 0 .. k - 1 : \/ def[i] = v /\ u \in Facts(live_out[i])
                                             \/ def[i] = u /\ v \in Facts(live_out[i])}

StreamInv ==
  /\ SolverInv
  /\ uses \in [Node -> SUBSET Index] /\ def \in [Node -> Index \cup {NoVreg}]
  /\ gen = [i \in Node |-> Bits(uses[i])]
  /\ kill = [i \in Node |-> Bits(DefSet(def[i]))]
  /\ present = Bits(Mentioned([uses |-> uses, def |-> def]))
  /\ at \in 0 .. N
  /\ at > 0 => Done
  /\ adjacency = [v \in Index |-> Bits(Met(v, at))]

(* What is live somewhere is used somewhere, so no bit beyond the capacity is
   ever set. *)
LEMMA LiveProper ==
  ASSUME SolvedInv, uses \in [Node -> SUBSET Index], gen = [i \in Node |-> Bits(uses[i])],
         NEW n \in Node
  PROVE  live_out[n] = Bits(Facts(live_out[n]))
<1>1. ASSUME NEW m \in Node PROVE Proper(live_in[m])
 <2>1. live_in[m] \in Bitsets BY DEF SolvedInv, TypeOK
 <2>2. ASSUME NEW w \in Word, NEW x \in live_in[m][w] PROVE w * WordBits + x \in Index
  <3>1. x \in Bit BY <2>1 DEF Bitsets
  <3>2. ~Closed({}, w, x)
   <4>1. {} \in SUBSET Node OBVIOUS
   <4> QED BY <2>2, <3>1, <4>1 DEF SolvedInv, BelowEverySolution
  <3>3. PICK i \in Node : x \in gen[i][w] BY <3>2 DEF Closed
  <3>4. x \in Bits(uses[i])[w] /\ uses[i] \in SUBSET Index BY <3>3
  <3> QED BY <3>4, BitsHeld
 <2> QED BY <2>1, <2>2 DEF Proper
<1>2. \A j \in DOMAIN graph.succs[n] : Proper(live_in[graph.succs[n][j]]) BY <1>1, SuccessorNodes DEF SolvedInv
<1>3. live_out[n] = Joined(n) BY DEF SolvedInv, Solved
<1>4. live_out[n] \in Bitsets BY DEF SolvedInv, TypeOK
<1>5. Proper(live_out[n]) BY <1>2, <1>3, <1>4 DEF Joined, Proper
<1> QED BY <1>5, ProperIsBits

LEMMA DoneIsSolved == SolverInv /\ Done => SolvedInv
BY DEF SolverInv, SolvedInv, Done, FlagsMatchQueue, SettledNodesAreSolved, Owed, Queued

LEMMA NoVregApart == NoVreg \notin Index
BY CapacityAssumption DEF NoVreg, Index

(* An instruction enters exactly the edges of its definition. *)
LEMMA EdgesEntered ==
  ASSUME StreamInv, Done, at < N
  PROVE  /\ def[at] = NoVreg => \A v \in Index : Met(v, at + 1) = Met(v, at)
         /\ def[at] # NoVreg =>
              Mirrored([adjacency EXCEPT ![def[at]] =
                          RemoveBit(UnionWith(adjacency[def[at]], live_out[at]), def[at])],
                       def[at], live_out[at])
                = [v \in Index |-> Bits(Met(v, at + 1))]
<1> DEFINE d == def[at]
           L == Facts(live_out[at])
<1>0. at \in Node /\ at \in 0 .. N /\ N \in Nat BY SizeAssumption DEF StreamInv, Node, NodesOf
<1>1. \A i \in 0 .. (at + 1) - 1 : i \in 0 .. at - 1 \/ i = at BY <1>0
<1>2. at \in 0 .. (at + 1) - 1 /\ \A i \in 0 .. at - 1 : i \in 0 .. (at + 1) - 1 BY <1>0
<1>3. \A v \in Index : \A u \in Index \ {v} :
        u \in Met(v, at + 1) <=> u \in Met(v, at) \/ (d = v /\ u \in L) \/ (d = u /\ v \in L) BY <1>1, <1>2 DEF Met
<1>4. \A v \in Index : \A k : Met(v, k) \in SUBSET (Index \ {v}) BY DEF Met
<1>5. ASSUME d = NoVreg, NEW v \in Index PROVE Met(v, at + 1) = Met(v, at)
 <2>1. d \notin Index BY <1>5, NoVregApart
 <2> HIDE DEF d, L
 <2>2. Met(v, at + 1) \in SUBSET (Index \ {v}) /\ Met(v, at) \in SUBSET (Index \ {v}) BY <1>4
 <2>3. \A u \in Index \ {v} : u \in Met(v, at + 1) <=> u \in Met(v, at) BY <1>3, <2>1
 <2> QED BY <2>2, <2>3
<1>6. ASSUME d # NoVreg
      PROVE  Mirrored([adjacency EXCEPT ![d] = RemoveBit(UnionWith(adjacency[d], live_out[at]), d)],
                      d, live_out[at])
               = [v \in Index |-> Bits(Met(v, at + 1))]
 <2>1. d \in Index BY <1>0, <1>6 DEF StreamInv
 <2>2. live_out[at] = Bits(L) /\ L \in SUBSET Index BY <1>0, DoneIsSolved, LiveProper, FactsType DEF StreamInv
 <2>3. adjacency = [v \in Index |-> Bits(Met(v, at))] /\ Met(d, at) \in SUBSET Index BY <1>4, <2>1 DEF StreamInv
 <2> DEFINE A == [v \in Index |-> IF v = d THEN (Met(d, at) \cup L) \ {d} ELSE Met(v, at)]
 <2> HIDE DEF d, L
 <2>4. A \in [Index -> SUBSET Index] BY <1>4, <2>2, <2>3
 <2>5. RemoveBit(UnionWith(adjacency[d], live_out[at]), d) = Bits((Met(d, at) \cup L) \ {d})
  <3>1. adjacency[d] = Bits(Met(d, at)) BY <2>1, <2>3
  <3>2. UnionWith(Bits(Met(d, at)), Bits(L)) = Bits(Met(d, at) \cup L) BY <2>2, <2>3, UnitedBits
  <3>3. Met(d, at) \cup L \in SUBSET Index BY <2>2, <2>3
  <3>4. RemoveBit(Bits(Met(d, at) \cup L), d) = Bits((Met(d, at) \cup L) \ {d}) BY <2>1, <3>3, RemovedBit
  <3> QED BY <2>2, <3>1, <3>2, <3>4
 <2>6. [adjacency EXCEPT ![d] = Bits((Met(d, at) \cup L) \ {d})] = [v \in Index |-> Bits(A[v])]
  <3>1. [adjacency EXCEPT ![d] = Bits((Met(d, at) \cup L) \ {d})]
          = [v \in Index |-> IF v = d THEN Bits((Met(d, at) \cup L) \ {d}) ELSE Bits(Met(v, at))] BY <2>1, <2>3
  <3>2. \A v \in Index : (IF v = d THEN Bits((Met(d, at) \cup L) \ {d}) ELSE Bits(Met(v, at)))
                           = Bits(A[v]) OBVIOUS
  <3> HIDE DEF A
  <3> QED BY <3>1, <3>2
 <2>7. ASSUME NEW v \in Index PROVE (IF v \in L \ {d} THEN A[v] \cup {d} ELSE A[v]) = Met(v, at + 1)
  <3> DEFINE X == IF v \in L \ {d} THEN A[v] \cup {d} ELSE A[v]
  <3>1. CASE v = d
   <4>1. X = (Met(d, at) \cup L) \ {d} BY <3>1
   <4> HIDE DEF X, A
   <4>2. \A u \in Index \ {v} : u \in X <=> u \in Met(v, at + 1) BY <1>3, <3>1, <4>1
   <4>3. X \in SUBSET (Index \ {v}) BY <2>2, <2>3, <3>1, <4>1
   <4>4. Met(v, at + 1) \in SUBSET (Index \ {v}) BY <1>4
   <4>5. X = Met(v, at + 1) BY <4>2, <4>3, <4>4
   <4> QED BY <4>5 DEF X
  <3>2. CASE v # d
   <4>1. X = IF v \in L THEN Met(v, at) \cup {d} ELSE Met(v, at) BY <3>2
   <4> HIDE DEF X, A
   <4>2. \A u \in Index \ {v} : u \in X <=> u \in Met(v, at + 1) BY <1>3, <3>2, <4>1
   <4>3. X \in SUBSET (Index \ {v}) BY <1>4, <2>1, <3>2, <4>1
   <4>4. Met(v, at + 1) \in SUBSET (Index \ {v}) BY <1>4
   <4>5. X = Met(v, at + 1) BY <4>2, <4>3, <4>4
   <4> QED BY <4>5 DEF X
  <3> QED BY <3>1, <3>2
 <2>8. Mirrored([v \in Index |-> Bits(A[v])], d, Bits(L))
         = [v \in Index |-> Bits(IF v \in L \ {d} THEN A[v] \cup {d} ELSE A[v])]
  <3> DEFINE adj == [v \in Index |-> Bits(A[v])]
             all == [v \in Index |-> Bits(IF v \in L \ {d} THEN A[v] \cup {d} ELSE A[v])]
  <3>1. adj = [v \in Index |-> Bits(A[v])] OBVIOUS
  <3>2. all = [v \in Index |-> Bits(IF v \in L \ {d} THEN A[v] \cup {d} ELSE A[v])] OBVIOUS
  <3> HIDE DEF A, adj, all
  <3>3. Mirrored(adj, d, Bits(L)) = all BY <2>1, <2>2, <2>4, <3>1, <3>2, MirroredIs
  <3> QED BY <3>3 DEF adj, all
 <2>9. [v \in Index |-> Bits(IF v \in L \ {d} THEN A[v] \cup {d} ELSE A[v])]
         = [v \in Index |-> Bits(Met(v, at + 1))]
  <3> HIDE DEF A
  <3> QED BY <2>7
 <2> HIDE DEF A
 <2> QED BY <2>2, <2>5, <2>6, <2>8, <2>9
<1> QED BY <1>5, <1>6

LEMMA StreamInductive ==
  /\ StreamInit => StreamInv
  /\ StreamInv /\ [StreamNext]_allVars => StreamInv'
<1>1. ASSUME StreamInit PROVE StreamInv
 <2>1. PICK s \in Streams :
         /\ Start(GenKill(s)) /\ uses = s.uses /\ def = s.def
         /\ present = Collected(Mentioned(s)) BY <1>1 DEF StreamInit
 <2>2. /\ Consistent(s.graph, N) /\ uses \in [Node -> SUBSET Index]
       /\ def \in [Node -> Index \cup {NoVreg}] /\ Mentioned(s) \in SUBSET Index BY <2>1, StreamsAssumption DEF Fits
 <2>3. \A i \in Node : /\ Collected(uses[i]) = Bits(uses[i]) /\ Bits(uses[i]) \in Bitsets
                       /\ Collected(DefSet(def[i])) = Bits(DefSet(def[i]))
                       /\ Bits(DefSet(def[i])) \in Bitsets
  <3> SUFFICES ASSUME NEW i \in Node
               PROVE  /\ Collected(uses[i]) = Bits(uses[i]) /\ Bits(uses[i]) \in Bitsets
                      /\ Collected(DefSet(def[i])) = Bits(DefSet(def[i]))
                      /\ Bits(DefSet(def[i])) \in Bitsets OBVIOUS
  <3>1. uses[i] \in SUBSET Index /\ DefSet(def[i]) \in SUBSET Index BY <2>2 DEF DefSet
  <3> QED BY <3>1, CollectedIs, BitsHeld
 <2>4. /\ GenKill(s).graph = s.graph
       /\ GenKill(s).gen = [i \in Node |-> Collected(uses[i])]
       /\ GenKill(s).kill = [i \in Node |-> Collected(DefSet(def[i]))] BY <2>1 DEF GenKill
 <2>5. /\ GenKill(s).gen = [i \in Node |-> Bits(uses[i])]
       /\ GenKill(s).kill = [i \in Node |-> Bits(DefSet(def[i]))] BY <2>3, <2>4
 <2>6. IsCall(GenKill(s)) BY <2>2, <2>3, <2>4, <2>5 DEF IsCall
 <2>7. SolverInv BY <2>1, <2>6, SolverInductive
 <2>8. gen = [i \in Node |-> Bits(uses[i])] /\ kill = [i \in Node |-> Bits(DefSet(def[i]))] BY <2>1, <2>5 DEF Start
 <2>9. present = Bits(Mentioned([uses |-> uses, def |-> def]))
  <3>1. Mentioned(s) = Mentioned([uses |-> uses, def |-> def]) BY <2>1 DEF Mentioned
  <3> QED BY <2>1, <2>2, <3>1, CollectedIs
 <2>10. at = 0 /\ at \in 0 .. N BY <1>1, SizeAssumption DEF StreamInit
 <2>11. \A v \in Index : Met(v, 0) = {} BY DEF Met
 <2>12. adjacency = [v \in Index |-> Bits(Met(v, at))]
  <3>1. adjacency = [v \in Index |-> Empty] BY <1>1 DEF StreamInit
  <3>2. \A v \in Index : Bits(Met(v, at)) = Empty BY <2>10, <2>11, EmptyBits
  <3> QED BY <3>1, <3>2
 <2> QED BY <2>2, <2>7, <2>8, <2>9, <2>10, <2>12 DEF StreamInv
<1>2. ASSUME StreamInv, [StreamNext]_allVars PROVE StreamInv'
 <2>1. SolverInv'
  <3>1. [Next]_vars BY <1>2 DEF StreamNext, BuildEdges, allVars
  <3> QED BY <1>2, <3>1, SolverInductive DEF StreamInv
 <2>2. CASE Next /\ UNCHANGED buildVars
  <3>1. ~Done
   <4>1. worklist = <<>> /\ todo = <<>> => ~Visit /\ ~Requeue BY DEF Visit, Requeue
   <4> QED BY <2>2, <4>1 DEF Next, Done
  <3>2. at = 0 /\ at' = at BY <1>2, <2>2, <3>1 DEF StreamInv, buildVars
  <3>3. \A v \in Index : Met(v, at) = {} /\ Met(v, at)' = {} BY <3>2 DEF Met
  <3>4. gen' = gen /\ kill' = kill BY <2>2 DEF Next, Visit, Requeue, args
  <3>5. adjacency' = [v \in Index |-> Bits(Met(v, at)')]
   <4>1. adjacency' = [v \in Index |-> Bits(Met(v, at))] BY <1>2, <2>2 DEF StreamInv, buildVars
   <4>2. \A v \in Index : Met(v, at) = Met(v, at)' BY <3>3
   <4> QED BY <4>1, <4>2
  <3>6. /\ uses' = uses /\ def' = def /\ present' = present BY <2>2 DEF buildVars
  <3> QED BY <1>2, <2>1, <3>2, <3>4, <3>5, <3>6 DEF StreamInv, Bits
 <2>3. CASE BuildEdges
  <3> DEFINE d == def[at]
  <3>1. /\ Done /\ at < N /\ at' = at + 1 /\ UNCHANGED <<vars, uses, def, present>>
        /\ adjacency' = IF d = NoVreg THEN adjacency
                        ELSE Mirrored([adjacency EXCEPT ![d] =
                                         RemoveBit(UnionWith(adjacency[d], live_out[at]), d)],
                                      d, live_out[at]) BY <2>3 DEF BuildEdges
  <3>2. /\ d = NoVreg => \A v \in Index : Met(v, at + 1) = Met(v, at)
        /\ d # NoVreg =>
             Mirrored([adjacency EXCEPT ![d] =
                         RemoveBit(UnionWith(adjacency[d], live_out[at]), d)],
                      d, live_out[at])
               = [v \in Index |-> Bits(Met(v, at + 1))] BY <1>2, <3>1, EdgesEntered
  <3>3. adjacency = [v \in Index |-> Bits(Met(v, at))] BY <1>2 DEF StreamInv
  <3>4. adjacency' = [v \in Index |-> Bits(Met(v, at + 1))]
   <4> HIDE DEF d
   <4>1. CASE d = NoVreg BY <3>1, <3>2, <3>3, <4>1
   <4>2. CASE d # NoVreg BY <3>1, <3>2, <4>2
   <4> QED BY <4>1, <4>2
  <3>5. \A v \in Index : Met(v, at)' = Met(v, at + 1) BY <3>1 DEF Met, vars
  <3>6. at' \in 0 .. N /\ Done' BY <1>2, <3>1, SizeAssumption DEF StreamInv, vars, Done
  <3>7. adjacency' = [v \in Index |-> Bits(Met(v, at)')] BY <3>4, <3>5
  <3>8. /\ gen' = gen /\ kill' = kill /\ uses' = uses /\ def' = def /\ present' = present BY <3>1 DEF vars
  <3> QED BY <1>2, <2>1, <3>6, <3>7, <3>8 DEF StreamInv, Bits
 <2>4. CASE UNCHANGED allVars
  <3>1. \A v \in Index : Met(v, at)' = Met(v, at) BY <2>4 DEF allVars, vars, buildVars, Met
  <3>2. adjacency' = [v \in Index |-> Bits(Met(v, at)')] BY <1>2, <2>4, <3>1 DEF StreamInv, allVars, buildVars
  <3> QED BY <1>2, <2>1, <2>4, <3>2 DEF StreamInv, allVars, vars, buildVars, Done, Bits
 <2> QED BY <1>2, <2>2, <2>3, <2>4 DEF StreamNext
<1> QED BY <1>1, <1>2

(* The bit sets of a stream hold its uses and definitions, and the edges are
   those of the instructions looked at so far. *)
THEOREM StreamCorrect == StreamSpec => []StreamInv
<1> QED BY StreamInductive, PTL DEF StreamSpec

(* InterferenceGraph::build: for every stream, two vregs are joined exactly if
   one is defined where the other is still going to be read. *)
THEOREM GraphIsExact == StreamSpec => []InterferenceExact
<1>1. ASSUME StreamInv, Built PROVE InterferenceExact
 <2>1. SolvedInv /\ at = N BY <1>1, DoneIsSolved DEF StreamInv, Built
 <2>2. ASSUME NEW i \in Node PROVE LiveExits[i] = Facts(live_out[i])
  <3>1. \A v \in Index : v \in Facts(live_out[i]) <=> Abstract!LiveExit(i, v) BY <2>1, LiveExactly
  <3>2. Facts(live_out[i]) \in SUBSET Index BY FactsType
  <3>3. LiveExits[i] = {v \in Index : Abstract!LiveExit(i, v)} BY DEF LiveExits
  <3> QED BY <3>1, <3>2, <3>3
 <2>3. Facts(present) = Mentioned([uses |-> uses, def |-> def])
  <3>1. Mentioned([uses |-> uses, def |-> def]) \in SUBSET Index BY <1>1 DEF StreamInv, Mentioned, DefSet
  <3> QED BY <1>1, <3>1, BitsHeld DEF StreamInv
 <2> DEFINE clashing == Clashing(LiveExits)
            neighbours(v) == {u \in Index : {<<u, v>>, <<v, u>>} \cap clashing # {}}
 <2>4. ASSUME NEW u \in Index, NEW v \in Index
       PROVE  <<u, v>> \in clashing <=> u # v /\ \E i \in Node : def[i] = u /\ v \in Facts(live_out[i])
  <3>1. <<u, v>> \in clashing <=>
          \E i \in {j \in Node : def[j] # NoVreg} :
            \E x \in LiveExits[i] \ {def[i]} : <<u, v>> = <<def[i], x>> BY DEF Clashing
  <3> HIDE DEF clashing
  <3> QED BY <2>2, <3>1, NoVregApart
 <2>5. 0 .. N - 1 = Node BY DEF Node, NodesOf
 <2>6. ASSUME NEW v \in Index PROVE neighbours(v) = Met(v, at)
  <3>1. \A u \in Index : u \in neighbours(v) <=> <<u, v>> \in clashing \/ <<v, u>> \in clashing OBVIOUS
  <3>2. \A u \in Index : u \in Met(v, at) <=>
          u # v /\ \E i \in Node : \/ def[i] = v /\ u \in Facts(live_out[i])
                                   \/ def[i] = u /\ v \in Facts(live_out[i]) BY <2>1, <2>5 DEF Met
  <3>3. neighbours(v) \in SUBSET Index /\ Met(v, at) \in SUBSET Index BY DEF Met
  <3> HIDE DEF clashing, neighbours
  <3>4. \A u \in Index : u \in neighbours(v) <=> u \in Met(v, at) BY <2>4, <3>1, <3>2
  <3> QED BY <3>3, <3>4
 <2>7. ASSUME NEW v \in Index
       PROVE  /\ Facts(adjacency[v]) = neighbours(v)
              /\ Enumerates(Iter(adjacency[v]), neighbours(v))
              /\ Size(adjacency[v]) = Cardinality(neighbours(v))
              /\ IsEmpty(adjacency[v]) <=> neighbours(v) = {}
  <3>1. adjacency[v] = Bits(Met(v, at)) BY <1>1 DEF StreamInv
  <3>2. Met(v, at) \in SUBSET Index BY DEF Met
  <3>3. Facts(Bits(Met(v, at))) = Met(v, at) BY <3>2, BitsHeld
  <3>4. Enumerates(Iter(Bits(Met(v, at))), Met(v, at)) BY <3>2, IterIs
  <3>5. Size(Bits(Met(v, at))) = Cardinality(Met(v, at)) BY <3>2, SizeIs
  <3>6. IsEmpty(Bits(Met(v, at))) <=> Met(v, at) = {} BY <3>2, EmptinessOfBits
  <3> HIDE DEF neighbours
  <3> QED BY <2>6, <3>1, <3>3, <3>4, <3>5, <3>6
 <2> QED BY <2>3, <2>7 DEF InterferenceExact
<1>2. StreamInv => InterferenceExact BY <1>1 DEF InterferenceExact
<1> QED BY <1>2, StreamCorrect, PTL

-----------------------------------------------------------------------------
(* The refinement.  The result, once there is one, is the answer the paths
   define. *)
LEMMA AnswerFound ==
  SolvedInv =>
    [live_in |-> AsFacts(live_in), live_out |-> AsFacts(live_out)] = Abstract!Answer
<1> SUFFICES ASSUME SolvedInv
             PROVE  [live_in |-> AsFacts(live_in), live_out |-> AsFacts(live_out)] = Abstract!Answer OBVIOUS
<1>1. Abstract!Node = Node BY DEF Abstract!Node, Node, NodesOf
<1>2. ASSUME NEW n \in Node
      PROVE  /\ Facts(live_in[n]) = {v \in Index : Abstract!LiveEntry(n, v)}
             /\ Facts(live_out[n]) = {v \in Index : Abstract!LiveExit(n, v)}
 <2>1. Facts(live_in[n]) \in SUBSET Index /\ Facts(live_out[n]) \in SUBSET Index BY FactsType
 <2> QED BY <2>1, LiveExactly
<1>3. /\ AsFacts(live_in) = [n \in Node |-> {v \in Index : Abstract!LiveEntry(n, v)}]
      /\ AsFacts(live_out) = [n \in Node |-> {v \in Index : Abstract!LiveExit(n, v)}] BY <1>2 DEF AsFacts
<1> QED BY <1>1, <1>3 DEF Abstract!Answer

Result == IF Done THEN [live_in |-> AsFacts(live_in), live_out |-> AsFacts(live_out)] ELSE <<>>

(* The first call of `compute` on a stream finds at least one instruction. *)
LEMMA StreamHasInstructions == StreamInit => ~Done
<1> SUFFICES ASSUME StreamInit, Done PROVE FALSE OBVIOUS
<1>1. PICK s \in Streams : Start(GenKill(s)) BY DEF StreamInit
<1>2. Capacity - 1 \in Mentioned(s) BY StreamsAssumption DEF Fits
<1>3. PICK i \in Node : TRUE BY <1>2 DEF Mentioned
<1>4. N \in Nat \ {0} BY <1>3, SizeAssumption DEF Node, NodesOf
<1>5. worklist = [k \in 1 .. N |-> N - k] BY <1>1 DEF Start, Seed
<1>6. 1 \in DOMAIN worklist BY <1>4, <1>5
<1>7. worklist = <<>> BY DEF Done
<1> QED BY <1>6, <1>7

(* BackwardLiveness::compute: for every stream, the solver goes from no result
   to the least solution in one step seen from outside, and that is what the
   paths of the graph define liveness to be. *)
THEOREM SolverRefines == StreamSpec => ImplementsLiveness
<1>1. StreamInit => Abstract!Init BY StreamHasInstructions DEF Abstract!Init
<1>2. (SolvedInv => [live_in |-> AsFacts(live_in), live_out |-> AsFacts(live_out)] = Abstract!Answer)' BY AnswerFound, PTL
<1>3. (SolverInv /\ Done => SolvedInv)' BY DoneIsSolved, PTL
<1>4. ASSUME StreamInv, StreamInv', [StreamNext]_allVars
      PROVE  [Abstract!Compute]_<<graph, AsFacts(gen), AsFacts(kill), Result>>
 <2>1. CASE Next /\ UNCHANGED buildVars
  <3>1. ~Done
   <4>1. worklist = <<>> /\ todo = <<>> => ~Visit /\ ~Requeue BY DEF Visit, Requeue
   <4> QED BY <2>1, <4>1 DEF Next, Done
  <3>2. graph' = graph /\ gen' = gen /\ kill' = kill BY <2>1 DEF Next, Visit, Requeue, args
  <3>3. AsFacts(gen)' = AsFacts(gen) /\ AsFacts(kill)' = AsFacts(kill) BY <3>2 DEF AsFacts
  <3>4. Result = <<>> BY <3>1 DEF Result
  <3>5. CASE ~Done'
   <4>1. Result' = <<>> BY <3>5 DEF Result
   <4> QED BY <3>2, <3>3, <3>4, <4>1
  <3>6. CASE Done'
   <4>1. SolvedInv' BY <1>3, <1>4, <3>6 DEF StreamInv
   <4>2. Result' = Abstract!Answer' BY <1>2, <3>6, <4>1 DEF Result
   <4>3. Abstract!Answer' = Abstract!Answer BY <3>2, <3>3 DEF Abstract!Answer, Abstract!LiveEntry, Abstract!LiveExit
   <4>4. Result' # <<>>
    <5>1. DOMAIN Result' = {"live_in", "live_out"} BY <3>6 DEF Result
    <5> QED BY <5>1
   <4> QED BY <3>2, <3>3, <3>4, <4>2, <4>3, <4>4 DEF Abstract!Compute, Result
  <3> QED BY <3>5, <3>6
 <2>2. CASE BuildEdges \/ UNCHANGED allVars
  <3>1. UNCHANGED vars BY <2>2 DEF BuildEdges, allVars
  <3> QED BY <3>1 DEF vars, AsFacts, Result, Done
 <2> QED BY <1>4, <2>1, <2>2 DEF StreamNext
<1> QED BY <1>1, <1>4, StreamCorrect, PTL DEF ImplementsLiveness, Abstract!Spec, StreamSpec, Result
-----------------------------------------------------------------------------
(* The colouring.

   The inductive invariant joins the properties the model checker runs check
   with StackLow: a node pushed with insignificant degree has, apart from the
   nodes below it on the stack, fewer neighbours than there are colours.  When
   `select` pops it the nodes below are the uncoloured ones, which is the
   Chaitin-Briggs argument. *)

Below(i) == {stack[j] : j \in 1 .. i - 1}

StackLow ==
  \A i \in DOMAIN stack :
    stack[i] \notin potential_spills =>
      Cardinality(adjacent[stack[i]] \ Below(i)) < NumColors

IInv ==
  /\ ColoringTypeOK
  /\ EveryVregPlaced
  /\ DegreesExact
  /\ LowQueueExact
  /\ StackLow
  /\ ProperColoring
  /\ SpillsArePotential
-----------------------------------------------------------------------------
(* The sets the model counts are finite, so their cardinalities are natural
   numbers. *)
LEMMA FiniteSets ==
  ASSUME NEW S \in SUBSET Vreg
  PROVE  IsFiniteSet(S) /\ Cardinality(S) \in Nat BY ConstantsAssumption, FS_Subset, FS_CardinalityType

LEMMA IntervalSize == ASSUME NEW n \in Nat PROVE IsFiniteSet(1 .. n) /\ Cardinality(1 .. n) = n
<1>1. 1 \in Int /\ n \in Int OBVIOUS
<1>2. Cardinality(1 .. n) = IF 1 > n THEN 0 ELSE n - 1 + 1 BY <1>1, FS_Interval
<1>3. IsFiniteSet(1 .. n) BY <1>1, FS_Interval
<1>4. (IF 1 > n THEN 0 ELSE n - 1 + 1) = n OBVIOUS
<1> QED BY <1>2, <1>3, <1>4

LEMMA Listed ==
  ASSUME NEW P, NEW S \in SUBSET P, IsFiniteSet(S), NEW s \in Listings(S)
  PROVE  /\ s \in Seq(P)
         /\ DOMAIN s = 1 .. Cardinality(S)
         /\ \A k \in DOMAIN s : s[k] \in S
         /\ {s[k] : k \in DOMAIN s} = S
<1>1. Cardinality(S) \in Nat BY FS_CardinalityType
<1>2. s \in [1 .. Cardinality(S) -> S] BY DEF Listings
<1>3. s \in Seq(S) BY <1>1, <1>2
<1>4. \A v \in S : \E k \in DOMAIN s : s[k] = v BY DEF Listings
<1> QED BY <1>1, <1>2, <1>3, <1>4

(* The initial state: the queue lists the nodes of insignificant degree. *)
LEMMA InitCorrect == ColorInit => IInv
<1> SUFFICES ASSUME ColorInit PROVE IInv OBVIOUS
<1>1. WellFormed([present |-> occurring, adjacency |-> adjacent])
 <2>1. PICK x \in GraphInputs : occurring = x.present /\ adjacent = x.adjacency BY DEF ColorInit
 <2>2. WellFormed(x) BY GraphsAssumption
 <2> QED BY <2>1, <2>2 DEF WellFormed
<1> USE DEF ColorInit
<1>2. occurring \subseteq Vreg /\ adjacent \in [Vreg -> SUBSET occurring] BY <1>1 DEF WellFormed
<1>3. \A v \in Vreg : Cardinality(adjacent[v]) \in Nat BY <1>2, FiniteSets
<1>4. in_low \subseteq occurring /\ IsFiniteSet(in_low) BY <1>2, FiniteSets
<1>a. low_degree \in Listings(in_low) BY DEF ColorInit
<1>5. /\ low_degree \in Seq(occurring)
      /\ low_degree \in Listings(in_low)
      /\ \A k \in DOMAIN low_degree : low_degree[k] \in in_low
      /\ {low_degree[k] : k \in DOMAIN low_degree} = in_low
      /\ DOMAIN low_degree = 1 .. Cardinality(in_low)
 <2>1. in_low \in SUBSET occurring BY <1>4
 <2>2. low_degree \in Seq(occurring) /\ DOMAIN low_degree = 1 .. Cardinality(in_low) BY ONLY <1>4, <1>a, <2>1, Listed
 <2>3. \A k \in DOMAIN low_degree : low_degree[k] \in in_low BY ONLY <1>4, <1>a, <2>1, Listed
 <2>a. \A v \in in_low : \E k \in DOMAIN low_degree : low_degree[k] = v BY ONLY <1>a DEF Listings
 <2>4. {low_degree[k] : k \in DOMAIN low_degree} = in_low BY ONLY <2>3, <2>a
 <2> QED BY ONLY <1>a, <2>2, <2>3, <2>4
<1>6. ColoringTypeOK
 <2>1. stack \in Seq(occurring) /\ spill_order \in Seq(occurring) OBVIOUS
 <2> QED BY <1>1, <1>2, <1>3, <1>4, <1>5, <2>1 DEF ColoringTypeOK
<1>7. EveryVregPlaced BY DEF EveryVregPlaced, OnStack
<1>8. DegreesExact
 <2>1. \A v \in Vreg : adjacent[v] \ {} = adjacent[v] OBVIOUS
 <2> QED BY <1>2, <1>3, <2>1 DEF DegreesExact
<1>9. LowQueueExact
 <2>1. in_low = {v \in occurring \ removed : degree[v] < NumColors} BY <1>2 DEF Insignificant
 <2>2. {low_degree[k] : k \in DOMAIN low_degree} = in_low BY <1>5
 <2>3. ASSUME NEW j \in DOMAIN low_degree, NEW k \in DOMAIN low_degree,
              low_degree[j] = low_degree[k]
       PROVE  j = k
  <3>1. \A a, b \in DOMAIN low_degree : a < b => low_degree[a] < low_degree[b] BY DEF Ascending
  <3>2. j \in Nat /\ k \in Nat BY <1>4, <1>5, FS_CardinalityType
  <3>3. low_degree[j] \in Nat BY <1>2, <1>4, <1>5, ConstantsAssumption
  <3> QED BY <2>3, <3>1, <3>2, <3>3
 <2> QED BY <2>1, <2>2, <2>3 DEF LowQueueExact
<1>10. StackLow /\ ProperColoring /\ SpillsArePotential BY DEF StackLow, ProperColoring, SpillsArePotential
<1> QED BY <1>6, <1>7, <1>8, <1>9, <1>10 DEF IInv
-----------------------------------------------------------------------------
(* Facts of the type invariant in the form the steps use. *)
LEMMA GraphFacts ==
  ASSUME ColoringTypeOK
  PROVE  /\ occurring \subseteq Vreg
         /\ occurring \subseteq Nat
         /\ adjacent \in [Vreg -> SUBSET occurring]
         /\ \A u, v \in occurring : u \in adjacent[v] => v \in adjacent[u]
         /\ \A v \in occurring : v \notin adjacent[v]
         /\ \A S \in SUBSET occurring : IsFiniteSet(S) /\ Cardinality(S) \in Nat
<1>1. WellFormed([present |-> occurring, adjacency |-> adjacent]) BY DEF ColoringTypeOK
<1>2. /\ occurring \subseteq Vreg
      /\ adjacent \in [Vreg -> SUBSET occurring]
      /\ \A u, v \in Vreg : u \in adjacent[v] => v \in adjacent[u]
      /\ \A v \in Vreg : v \notin adjacent[v] BY <1>1 DEF WellFormed
<1>3. \A S \in SUBSET occurring : IsFiniteSet(S) /\ Cardinality(S) \in Nat BY <1>2, FiniteSets
<1> QED BY <1>2, <1>3, ConstantsAssumption

(* Pushing on the stack a node that is not there. *)
LEMMA PushFacts ==
  ASSUME ColoringTypeOK, EveryVregPlaced, pc = "simplify", NEW v \in occurring \ removed, TakeOut(v)
  PROVE  /\ removed' = removed \cup {v}
         /\ removed' \subseteq occurring
         /\ to_visit' = adjacent[v]
         /\ to_visit' \subseteq occurring
         /\ stack' \in Seq(occurring)
         /\ Len(stack) \in Nat
         /\ DOMAIN stack = 1 .. Len(stack)
         /\ DOMAIN stack' = 1 .. Len(stack) + 1
         /\ \A k \in DOMAIN stack : stack'[k] = stack[k]
         /\ stack'[Len(stack) + 1] = v
         /\ \A k \in DOMAIN stack : stack[k] \in removed
         /\ \A j, k \in DOMAIN stack' : stack'[j] = stack'[k] => j = k
         /\ {stack'[k] : k \in DOMAIN stack'} = removed'
<1>1. stack \in Seq(occurring) /\ removed \subseteq occurring /\ v \in Vreg BY GraphFacts DEF ColoringTypeOK
<1>2. stack' = Append(stack, v) BY DEF TakeOut
<1>3. /\ stack' \in Seq(occurring)
      /\ Len(stack) \in Nat
      /\ DOMAIN stack = 1 .. Len(stack)
      /\ DOMAIN stack' = 1 .. Len(stack) + 1
      /\ \A k \in DOMAIN stack : stack'[k] = stack[k]
      /\ stack'[Len(stack) + 1] = v BY <1>1, <1>2, AppendFacts
<1>4. /\ removed' = removed \cup {v}
      /\ to_visit' = adjacent[v]
      /\ adjacent[v] \subseteq occurring BY <1>1, GraphFacts DEF TakeOut
<1>5. {stack[k] : k \in DOMAIN stack} = removed BY DEF EveryVregPlaced, OnStack
<1>6. \A j, k \in DOMAIN stack : stack[j] = stack[k] => j = k BY DEF EveryVregPlaced
<1>7. \A k \in DOMAIN stack : stack[k] \in removed /\ stack[k] # v BY <1>5
<1>8. \A k \in DOMAIN stack' : k \in DOMAIN stack \/ k = Len(stack) + 1 BY <1>3
<1>9. \A j, k \in DOMAIN stack' : stack'[j] = stack'[k] => j = k BY <1>3, <1>6, <1>7, <1>8
<1>10. {stack'[k] : k \in DOMAIN stack'} = removed'
 <2>1. ASSUME NEW k \in DOMAIN stack' PROVE stack'[k] \in removed' BY <1>3, <1>4, <1>7, <1>8
 <2>2. ASSUME NEW u \in removed' PROVE \E k \in DOMAIN stack' : stack'[k] = u
  <3>1. CASE u = v BY <3>1, <1>3
  <3>2. CASE u \in removed
   <4>1. PICK k \in DOMAIN stack : stack[k] = u BY <3>2, <1>5
   <4>2. k \in DOMAIN stack' /\ stack'[k] = u BY <4>1, <1>3
   <4> QED BY <4>2
  <3> QED BY <3>1, <3>2, <1>4
 <2> QED BY <2>1, <2>2
<1> QED BY <1>1, <1>3, <1>4, <1>7, <1>9, <1>10

(* Taking a node out turns each of its neighbours' excess into a pending
   iteration of the loop. *)
LEMMA TakeOutDegrees ==
  ASSUME ColoringTypeOK, EveryVregPlaced, DegreesExact, pc = "simplify", to_visit = {},
         NEW v \in occurring \ removed, TakeOut(v), UNCHANGED <<graphVars, pc, degree>>
  PROVE  DegreesExact'
<1>1. /\ removed' = removed \cup {v}
      /\ to_visit' = adjacent[v] BY PushFacts
<1>2. ASSUME NEW w \in occurring \ removed'
      PROVE  degree[w] = Cardinality(adjacent[w] \ removed')
                           + (IF w \in to_visit' THEN 1 ELSE 0)
 <2> DEFINE S == adjacent[w] \ removed
 <2>1. w \in occurring \ removed /\ v \in occurring /\ v \notin removed BY <1>1
 <2>2. adjacent[w] \subseteq occurring /\ IsFiniteSet(S) /\ Cardinality(S) \in Nat BY <2>1, GraphFacts
 <2>3. degree[w] = Cardinality(S) BY <2>1, <2>2 DEF DegreesExact
 <2>4. S \ {v} = adjacent[w] \ removed' BY <1>1
 <2>5. w \in to_visit' <=> v \in S BY <2>1, <1>1, GraphFacts
 <2>6. Cardinality(S \ {v}) = IF v \in S THEN Cardinality(S) - 1 ELSE Cardinality(S) BY <2>2, FS_RemoveElement
 <2>7. Cardinality(S \ {v}) = Cardinality(adjacent[w] \ removed') BY <2>4
 <2> HIDE DEF S
 <2> QED BY ONLY <2>2, <2>3, <2>5, <2>6, <2>7
<1> QED BY <1>2 DEF DegreesExact, graphVars

(* The stack keeps StackLow when what is pushed is covered by it. *)
LEMMA PushKeepsStackLow ==
  ASSUME ColoringTypeOK, EveryVregPlaced, StackLow, pc = "simplify",
         NEW v \in occurring \ removed, TakeOut(v), UNCHANGED graphVars,
         potential_spills \subseteq potential_spills',
         v \notin potential_spills' => Cardinality(adjacent[v] \ removed) < NumColors
  PROVE  StackLow'
<1>1. /\ Len(stack) \in Nat
      /\ DOMAIN stack = 1 .. Len(stack)
      /\ DOMAIN stack' = 1 .. Len(stack) + 1
      /\ \A k \in DOMAIN stack : stack'[k] = stack[k]
      /\ stack'[Len(stack) + 1] = v BY PushFacts
<1>2. ASSUME NEW i \in DOMAIN stack', stack'[i] \notin potential_spills'
      PROVE  Cardinality(adjacent[stack'[i]] \ Below(i)') < NumColors
 <2>1. \A j \in 1 .. i - 1 : j \in DOMAIN stack /\ stack'[j] = stack[j] BY <1>1
 <2>2. Below(i)' = Below(i) BY <2>1 DEF Below
 <2>3. CASE i \in DOMAIN stack
  <3>1. stack'[i] = stack[i] /\ stack[i] \notin potential_spills BY <1>1, <1>2, <2>3
  <3>2. Cardinality(adjacent[stack[i]] \ Below(i)) < NumColors BY <2>3, <3>1 DEF StackLow
  <3> QED BY <2>2, <3>1, <3>2
 <2>4. CASE i = Len(stack) + 1
  <3>1. stack'[i] = v BY <2>4, <1>1
  <3>2. 1 .. i - 1 = DOMAIN stack BY <2>4, <1>1
  <3>3. Below(i) = removed BY <3>2 DEF Below, EveryVregPlaced, OnStack
  <3> QED BY <1>2, <2>2, <3>1, <3>3
 <2> QED BY <1>1, <2>3, <2>4
<1> QED BY <1>2 DEF StackLow, graphVars

LEMMA PickLowStep == IInv /\ PickLow => IInv'
<1> SUFFICES ASSUME IInv, PickLow PROVE IInv' OBVIOUS
<1>1. ColoringTypeOK /\ EveryVregPlaced /\ DegreesExact /\ LowQueueExact /\ StackLow BY DEF IInv
<1>2. /\ pc = "simplify"
      /\ to_visit = {}
      /\ UNCHANGED <<graphVars, pc, degree, potential_spills, coloring, spilled, spill_order>> BY DEF PickLow, Simplifying
<1>3. /\ in_low = {v \in occurring \ removed : degree[v] < NumColors}
      /\ {low_degree[k] : k \in DOMAIN low_degree} = in_low
      /\ \A j, k \in DOMAIN low_degree : low_degree[j] = low_degree[k] => j = k BY <1>1, <1>2 DEF LowQueueExact
<1>4. PICK k \in DOMAIN low_degree :
        /\ FirstLow(k)
        /\ low_degree' = SubSeq(low_degree, k + 1, Len(low_degree))
        /\ in_low' = in_low \ Popped(k)
        /\ TakeOut(low_degree[k]) BY DEF PickLow
<1> DEFINE v == low_degree[k]
<1>5. low_degree \in Seq(occurring) /\ low_degree # <<>> /\ DOMAIN low_degree = 1 .. Len(low_degree)
  BY <1>1, <1>4 DEF ColoringTypeOK
<1>6. \A j \in DOMAIN low_degree : low_degree[j] \notin removed BY <1>3
<1>7. k = 1 BY <1>4, <1>5, <1>6 DEF FirstLow
<1>8. v \in in_low /\ v \in occurring \ removed /\ degree[v] < NumColors BY <1>3
<1>9. /\ removed' = removed \cup {v}
      /\ removed' \subseteq occurring
      /\ to_visit' = adjacent[v]
      /\ to_visit' \subseteq occurring
      /\ stack' \in Seq(occurring)
      /\ \A i, j \in DOMAIN stack' : stack'[i] = stack'[j] => i = j
      /\ {stack'[i] : i \in DOMAIN stack'} = removed' BY <1>1, <1>2, <1>4, <1>8, PushFacts
<1>10. low_degree' = Tail(low_degree) BY <1>4, <1>5, <1>7, SubSeqTail
<1>11. /\ low_degree' \in Seq(occurring)
       /\ DOMAIN low_degree' = 1 .. Len(low_degree) - 1
       /\ \A j \in DOMAIN low_degree' : low_degree'[j] = low_degree[j + 1]
       /\ Len(low_degree) \in Nat BY <1>5, <1>10, TailFacts
<1>12. in_low' = in_low \ {v} BY <1>4, <1>7 DEF Popped
<1>13. ColoringTypeOK' BY <1>1, <1>2, <1>9, <1>11, <1>12 DEF ColoringTypeOK, graphVars
<1>14. EveryVregPlaced' BY <1>1, <1>2, <1>9 DEF EveryVregPlaced, OnStack
<1>15. DegreesExact' BY <1>1, <1>2, <1>4, <1>8, TakeOutDegrees
<1>16. LowQueueExact'
 <2>1. in_low' = {u \in occurring \ removed' : degree[u] < NumColors} BY <1>3, <1>9, <1>12
 <2>2. ASSUME NEW j \in DOMAIN low_degree' PROVE low_degree'[j] \in in_low'
  <3>1. j + 1 \in DOMAIN low_degree /\ j + 1 # k /\ low_degree'[j] = low_degree[j + 1] BY <1>5, <1>7, <1>11
  <3> QED BY <3>1, <1>3, <1>12
 <2>3. ASSUME NEW u \in in_low' PROVE \E j \in DOMAIN low_degree' : low_degree'[j] = u
  <3>1. PICK i \in DOMAIN low_degree : low_degree[i] = u BY <1>3, <1>12
  <3>2. i # 1 BY <3>1, <1>7, <1>12
  <3>3. i - 1 \in DOMAIN low_degree' /\ low_degree'[i - 1] = low_degree[i] BY <3>2, <1>5, <1>11
  <3> QED BY <3>1, <3>3
 <2>4. ASSUME NEW i \in DOMAIN low_degree', NEW j \in DOMAIN low_degree',
              low_degree'[i] = low_degree'[j]
       PROVE  i = j
  <3>1. i + 1 \in DOMAIN low_degree /\ j + 1 \in DOMAIN low_degree BY <1>5, <1>11
  <3>2. low_degree[i + 1] = low_degree[j + 1] BY <2>4, <1>11
  <3>3. i + 1 = j + 1 BY <3>1, <3>2, <1>3
  <3> QED BY <3>3, <1>11
 <2>5. {low_degree'[j] : j \in DOMAIN low_degree'} = in_low' BY <2>2, <2>3
 <2>6. occurring' = occurring /\ degree' = degree BY <1>2 DEF graphVars
 <2> QED BY <2>1, <2>4, <2>5, <2>6 DEF LowQueueExact
<1>17. StackLow'
 <2>1. degree[v] = Cardinality(adjacent[v] \ removed)
  <3>1. Cardinality(adjacent[v] \ removed) \in Nat BY <1>1, <1>8, GraphFacts
  <3> QED BY <1>1, <1>2, <1>8, <3>1 DEF DegreesExact
 <2> QED BY <1>1, <1>2, <1>4, <1>8, <2>1, PushKeepsStackLow
<1>18. ProperColoring' /\ SpillsArePotential' BY <1>2 DEF IInv, ProperColoring, SpillsArePotential, graphVars
<1> QED BY <1>13, <1>14, <1>15, <1>16, <1>17, <1>18 DEF IInv

LEMMA PickSpillStep == IInv /\ PickSpill => IInv'
<1> SUFFICES ASSUME IInv, PickSpill PROVE IInv' OBVIOUS
<1>1. ColoringTypeOK /\ EveryVregPlaced /\ DegreesExact /\ LowQueueExact /\ StackLow BY DEF IInv
<1>2. /\ pc = "simplify"
      /\ to_visit = {}
      /\ low_degree' = <<>>
      /\ UNCHANGED <<graphVars, pc, degree, coloring, spilled, spill_order>> BY DEF PickSpill, Simplifying
<1>3. PICK v \in occurring :
        MaxDegree(v) /\ TakeOut(v) /\ potential_spills' = potential_spills \cup {v} BY DEF PickSpill
<1>4. v \in occurring \ removed BY <1>3 DEF MaxDegree
<1>5. /\ removed' = removed \cup {v}
      /\ removed' \subseteq occurring
      /\ to_visit' = adjacent[v]
      /\ to_visit' \subseteq occurring
      /\ stack' \in Seq(occurring)
      /\ \A i, j \in DOMAIN stack' : stack'[i] = stack'[j] => i = j
      /\ {stack'[i] : i \in DOMAIN stack'} = removed' BY <1>1, <1>2, <1>3, <1>4, PushFacts
<1>6. /\ in_low = {u \in occurring \ removed : degree[u] < NumColors}
      /\ {low_degree[k] : k \in DOMAIN low_degree} = in_low BY <1>1, <1>2 DEF LowQueueExact
<1>7. in_low = {} /\ in_low' = {}
 <2>1. \A k \in DOMAIN low_degree : low_degree[k] \in removed BY DEF PickSpill, NoLow
 <2>2. in_low = {} BY <1>6, <2>1
 <2> QED BY <2>2 DEF PickSpill
<1>8. ColoringTypeOK'
 <2>1. <<>> \in Seq(occurring) OBVIOUS
 <2> QED BY <1>1, <1>2, <1>3, <1>5, <1>7, <2>1 DEF ColoringTypeOK, graphVars
<1>9. EveryVregPlaced' BY <1>1, <1>2, <1>5 DEF EveryVregPlaced, OnStack
<1>10. DegreesExact' BY <1>1, <1>2, <1>3, <1>4, TakeOutDegrees
<1>11. LowQueueExact'
 <2>1. in_low' = {u \in occurring \ removed' : degree[u] < NumColors} BY <1>5, <1>6, <1>7
 <2>2. occurring' = occurring /\ degree' = degree /\ DOMAIN low_degree' = {} BY <1>2 DEF graphVars
 <2> QED BY <1>7, <2>1, <2>2 DEF LowQueueExact
<1>12. StackLow'
 <2>1. v \in potential_spills' /\ potential_spills \subseteq potential_spills' BY <1>3
 <2> QED BY <1>1, <1>2, <1>3, <1>4, <2>1, PushKeepsStackLow
<1>13. ProperColoring' /\ SpillsArePotential' BY <1>2, <1>3 DEF IInv, ProperColoring, SpillsArePotential, graphVars
<1> QED BY <1>8, <1>9, <1>10, <1>11, <1>12, <1>13 DEF IInv

LEMMA LowerDegreeStep == IInv /\ LowerDegree => IInv'
<1> SUFFICES ASSUME IInv, LowerDegree PROVE IInv' OBVIOUS
<1>1. ColoringTypeOK /\ EveryVregPlaced /\ DegreesExact /\ LowQueueExact /\ StackLow BY DEF IInv
<1>2. /\ pc = "simplify"
      /\ UNCHANGED <<graphVars, pc, removed, stack, potential_spills, coloring, spilled,
                     spill_order>> BY DEF LowerDegree
<1>3. PICK u \in to_visit :
        /\ to_visit' = to_visit \ {u}
        /\ degree' = DegreeLowered(u)
        /\ IF BecomesLow(u)
           THEN low_degree' = Append(low_degree, u) /\ in_low' = in_low \cup {u}
           ELSE UNCHANGED <<low_degree, in_low>> BY DEF LowerDegree
<1>4. /\ u \in occurring
      /\ occurring \subseteq Vreg
      /\ degree \in [Vreg -> Nat]
      /\ low_degree \in Seq(occurring)
      /\ in_low \subseteq occurring
      /\ NumColors \in Nat BY <1>1, <1>3, GraphFacts, ConstantsAssumption DEF ColoringTypeOK
<1>5. /\ in_low = {v \in occurring \ removed : degree[v] < NumColors}
      /\ {low_degree[k] : k \in DOMAIN low_degree} = in_low
      /\ \A j, k \in DOMAIN low_degree : low_degree[j] = low_degree[k] => j = k BY <1>1, <1>2 DEF LowQueueExact
(* A neighbour still in the graph loses exactly one. *)
<1>6. u \notin removed =>
        /\ Cardinality(adjacent[u] \ removed) \in Nat
        /\ degree[u] = Cardinality(adjacent[u] \ removed) + 1
        /\ degree' = [degree EXCEPT ![u] = degree[u] - 1]
 <2> SUFFICES ASSUME u \notin removed
              PROVE  /\ Cardinality(adjacent[u] \ removed) \in Nat
                     /\ degree[u] = Cardinality(adjacent[u] \ removed) + 1
                     /\ degree' = [degree EXCEPT ![u] = degree[u] - 1] OBVIOUS
 <2>1. Cardinality(adjacent[u] \ removed) \in Nat BY <1>1, <1>4, GraphFacts
 <2>2. degree[u] = Cardinality(adjacent[u] \ removed) + 1 BY <1>1, <1>2, <1>3, <1>4 DEF DegreesExact
 <2>3. degree[u] > 0 BY ONLY <2>1, <2>2
 <2> QED BY <1>3, <2>1, <2>2, <2>3 DEF DegreeLowered
<1>7. u \in removed => degree' = degree /\ UNCHANGED <<low_degree, in_low>> BY <1>3 DEF DegreeLowered, BecomesLow
<1>8. degree' \in [Vreg -> Nat] /\ \A v \in Vreg \ {u} : degree'[v] = degree[v] BY <1>4, <1>6, <1>7
<1>9. DegreesExact'
 <2>1. ASSUME NEW v \in occurring \ removed
       PROVE  degree'[v] = Cardinality(adjacent[v] \ removed)
                             + (IF v \in to_visit' THEN 1 ELSE 0)
  <3>1. CASE v = u
   <4>1. degree'[u] = Cardinality(adjacent[u] \ removed) BY <3>1, <1>4, <1>6
   <4> QED BY <4>1, <3>1, <1>3, <1>6
  <3>2. CASE v # u
   <4>1. degree'[v] = degree[v] /\ (v \in to_visit' <=> v \in to_visit) BY <3>2, <1>3, <1>4, <1>8
   <4> QED BY <4>1, <1>1, <1>2 DEF DegreesExact
  <3> QED BY <3>1, <3>2
 <2>2. occurring' = occurring /\ adjacent' = adjacent /\ removed' = removed BY <1>2 DEF graphVars
 <2> QED BY <2>1, <2>2 DEF DegreesExact
<1>10. /\ low_degree' \in Seq(occurring)
       /\ in_low' \subseteq occurring
       /\ in_low' = {v \in occurring \ removed : degree'[v] < NumColors}
       /\ {low_degree'[k] : k \in DOMAIN low_degree'} = in_low'
       /\ \A j, k \in DOMAIN low_degree' : low_degree'[j] = low_degree'[k] => j = k
 <2>1. CASE u \in removed BY <2>1, <1>4, <1>5, <1>7
 <2>2. CASE u \notin removed /\ ~BecomesLow(u)
  <3>1. degree'[u] = degree[u] - 1 /\ degree[u] \in Nat /\ degree[u] > 0 BY <2>2, <1>4, <1>6
  <3>2. degree'[u] < NumColors <=> u \in in_low
   <4>1. u \in in_low <=> degree[u] < NumColors BY <2>2, <1>4, <1>5
   <4>2. ~(degree[u] - 1 < NumColors /\ u \notin in_low) BY <2>2, <3>1 DEF BecomesLow, Insignificant
   <4> QED BY ONLY <3>1, <4>1, <4>2, <1>4
  <3>3. in_low = {v \in occurring \ removed : degree'[v] < NumColors} BY <2>2, <3>2, <1>4, <1>5, <1>8
  <3>4. UNCHANGED <<low_degree, in_low>> BY <2>2, <1>3
  <3> QED BY <3>3, <3>4, <1>4, <1>5
 <2>3. CASE u \notin removed /\ BecomesLow(u)
  <3>1. low_degree' = Append(low_degree, u) /\ in_low' = in_low \cup {u} /\ u \notin in_low BY <2>3, <1>3 DEF BecomesLow
  <3>2. degree'[u] < NumColors BY <2>3, <1>4, <1>6 DEF BecomesLow, Insignificant
  <3>3. in_low' = {v \in occurring \ removed : degree'[v] < NumColors} BY <2>3, <3>1, <3>2, <1>4, <1>5, <1>8
  <3>4. /\ low_degree' \in Seq(occurring)
        /\ Len(low_degree) \in Nat
        /\ DOMAIN low_degree = 1 .. Len(low_degree)
        /\ DOMAIN low_degree' = 1 .. Len(low_degree) + 1
        /\ \A k \in DOMAIN low_degree : low_degree'[k] = low_degree[k]
        /\ low_degree'[Len(low_degree) + 1] = u BY <3>1, <1>4, AppendFacts
  <3>5. \A k \in DOMAIN low_degree' : k \in DOMAIN low_degree \/ k = Len(low_degree) + 1 BY <3>4
  <3>6. \A k \in DOMAIN low_degree : low_degree[k] \in in_low /\ low_degree[k] # u BY <3>1, <1>5
  <3>7. \A j, k \in DOMAIN low_degree' : low_degree'[j] = low_degree'[k] => j = k BY <3>4, <3>5, <3>6, <1>5
  <3>8. ASSUME NEW v \in in_low' PROVE \E k \in DOMAIN low_degree' : low_degree'[k] = v
   <4>1. CASE v = u BY <4>1, <3>4
   <4>2. CASE v \in in_low
    <5>1. PICK k \in DOMAIN low_degree : low_degree[k] = v BY <4>2, <1>5
    <5>2. k \in DOMAIN low_degree' /\ low_degree'[k] = v BY <5>1, <3>4
    <5> QED BY <5>2
   <4> QED BY <4>1, <4>2, <3>1
  <3>9. \A k \in DOMAIN low_degree' : low_degree'[k] \in in_low' BY <3>1, <3>4, <3>5, <3>6
  <3>10. {low_degree'[k] : k \in DOMAIN low_degree'} = in_low' BY <3>8, <3>9
  <3>11. in_low' \subseteq occurring BY <3>1, <1>4
  <3> QED BY <3>3, <3>4, <3>7, <3>10, <3>11
 <2> QED BY <2>1, <2>2, <2>3
<1>11. LowQueueExact' BY <1>2, <1>10 DEF LowQueueExact, graphVars
<1>12. ColoringTypeOK' BY <1>1, <1>2, <1>3, <1>8, <1>10 DEF ColoringTypeOK, graphVars
<1>13. EveryVregPlaced' BY <1>1, <1>2 DEF EveryVregPlaced, OnStack, graphVars
<1>14. StackLow' /\ ProperColoring' /\ SpillsArePotential'
  BY <1>1, <1>2 DEF IInv, StackLow, Below, ProperColoring, SpillsArePotential, graphVars
<1> QED BY <1>9, <1>11, <1>12, <1>13, <1>14 DEF IInv

(* When the loop ends every node is on the stack: the stack holds as many
   different nodes as there are. *)
LEMMA StackFull ==
  ASSUME ColoringTypeOK, EveryVregPlaced, Len(stack) >= Cardinality(occurring) PROVE OnStack = occurring
<1>1. /\ stack \in Seq(occurring)
      /\ Len(stack) \in Nat
      /\ stack \in [1 .. Len(stack) -> occurring]
      /\ \A j, k \in 1 .. Len(stack) : stack[j] = stack[k] => j = k BY DEF ColoringTypeOK, EveryVregPlaced
<1>2. stack \in Injection(1 .. Len(stack), occurring) BY <1>1 DEF Injection, IsInjective
<1>3. IsFiniteSet(occurring) /\ Cardinality(occurring) \in Nat BY GraphFacts
<1>4. Cardinality(1 .. Len(stack)) = Len(stack) BY <1>1, IntervalSize
<1>5. /\ Cardinality(1 .. Len(stack)) <= Cardinality(occurring)
      /\ Cardinality(1 .. Len(stack)) = Cardinality(occurring)
           <=> stack \in Surjection(1 .. Len(stack), occurring) BY <1>2, <1>3, FS_Injection
<1>6. stack \in Surjection(1 .. Len(stack), occurring) BY <1>1, <1>3, <1>4, <1>5
<1> QED BY <1>1, <1>6 DEF Surjection, OnStack

LEMMA StartSelectStep == IInv /\ StartSelect => IInv'
<1> SUFFICES ASSUME IInv, StartSelect PROVE IInv' OBVIOUS
<1>1. ColoringTypeOK /\ EveryVregPlaced /\ StackLow BY DEF IInv
<1>2. /\ pc = "simplify"
      /\ pc' = "select"
      /\ Len(stack) >= Cardinality(occurring)
      /\ UNCHANGED <<graphVars, degree, removed, low_degree, in_low, stack,
                     potential_spills, to_visit, coloring, spilled, spill_order>> BY DEF StartSelect
<1>3. OnStack = occurring BY <1>1, <1>2, StackFull
<1>4. DOMAIN coloring \cup spilled = {} BY <1>1, <1>2 DEF EveryVregPlaced
<1>5. ColoringTypeOK' /\ DegreesExact' /\ LowQueueExact'
  BY <1>1, <1>2 DEF ColoringTypeOK, DegreesExact, LowQueueExact, graphVars
<1>6. EveryVregPlaced' BY <1>1, <1>2, <1>3, <1>4 DEF EveryVregPlaced, OnStack, graphVars
<1>7. StackLow' /\ ProperColoring' /\ SpillsArePotential'
  BY <1>1, <1>2 DEF IInv, StackLow, Below, ProperColoring, SpillsArePotential, graphVars
<1> QED BY <1>5, <1>6, <1>7 DEF IInv
-----------------------------------------------------------------------------
(* The neighbours coloured so far use no more colours than there are of them. *)
LEMMA ColorsUsed ==
  ASSUME ColoringTypeOK, NEW v \in occurring
  PROVE  /\ IsFiniteSet(UsedColors(v))
         /\ Cardinality(UsedColors(v)) <= Cardinality(adjacent[v] \cap DOMAIN coloring)
<1> DEFINE C == adjacent[v] \cap DOMAIN coloring
           f == [u \in C |-> coloring[u]]
<1>1. IsFiniteSet(C) BY GraphFacts DEF ColoringTypeOK
<1>2. f \in Surjection(C, UsedColors(v)) BY DEF Surjection, UsedColors
<1> HIDE DEF f
<1> QED BY <1>1, <1>2, FS_Surjection

(* A node pushed with insignificant degree finds a free colour. *)
LEMMA LowNodesColorable ==
  ASSUME ColoringTypeOK, EveryVregPlaced, StackLow, pc = "select", stack # <<>>,
         Last(stack) \notin potential_spills
  PROVE  ~(Palette \subseteq UsedColors(Last(stack)))
<1> DEFINE v == Last(stack)
           n == Len(stack)
           C == adjacent[v] \cap DOMAIN coloring
           B == adjacent[v] \ Below(n)
<1>1. /\ v \in occurring
      /\ n \in Nat \ {0}
      /\ v = stack[n]
      /\ DOMAIN stack = 1 .. n BY FrontFacts DEF ColoringTypeOK
<1>2. Cardinality(B) < NumColors BY <1>1 DEF StackLow
<1>3. C \subseteq B
 <2>1. \A j \in 1 .. n - 1 : stack[j] \in OnStack BY <1>1 DEF OnStack
 <2>2. Below(n) \cap DOMAIN coloring = {} BY <2>1 DEF Below, EveryVregPlaced
 <2> QED BY <2>2
<1>4. B \subseteq occurring BY <1>1, GraphFacts
<1>5. IsFiniteSet(B) /\ Cardinality(B) \in Nat /\ IsFiniteSet(C) /\ Cardinality(C) \in Nat BY <1>3, <1>4, GraphFacts
<1>6. Cardinality(C) <= Cardinality(B) BY <1>3, <1>5, FS_Subset
<1>7. /\ IsFiniteSet(UsedColors(v))
      /\ Cardinality(UsedColors(v)) <= Cardinality(C)
      /\ Cardinality(UsedColors(v)) \in Nat BY <1>1, ColorsUsed, FS_CardinalityType
<1>8. ASSUME Palette \subseteq UsedColors(v) PROVE FALSE
 <2>1. Cardinality(Palette) <= Cardinality(UsedColors(v)) BY <1>7, <1>8, FS_Subset
 <2>2. Cardinality(Palette) = NumColors
  <3>1. NumColors \in Nat \ {0} /\ 0 \in Int /\ NumColors - 1 \in Int BY ConstantsAssumption
  <3>2. Cardinality(0 .. NumColors - 1) = IF 0 > NumColors - 1 THEN 0 ELSE NumColors - 1 - 0 + 1 BY <3>1, FS_Interval
  <3> QED BY <3>1, <3>2 DEF Palette
 <2>3. NumColors \in Nat BY ConstantsAssumption
 <2> HIDE DEF v, C, B
 <2> QED BY ONLY <2>1, <2>2, <2>3, <1>2, <1>5, <1>6, <1>7
<1> QED BY <1>8

LEMMA SelectStep == IInv /\ Select => IInv'
<1> SUFFICES ASSUME IInv, Select PROVE IInv' OBVIOUS
<1> DEFINE v == Last(stack)
<1>1. ColoringTypeOK /\ EveryVregPlaced /\ StackLow /\ ProperColoring /\ SpillsArePotential BY DEF IInv
<1>2. /\ pc = "select"
      /\ stack # <<>>
      /\ stack' = Front(stack)
      /\ UNCHANGED <<graphVars, pc, degree, removed, low_degree, in_low,
                     potential_spills, to_visit, spill_order>> BY DEF Select
<1>3. /\ stack' \in Seq(occurring)
      /\ v \in occurring
      /\ Len(stack) \in Nat \ {0}
      /\ v = stack[Len(stack)]
      /\ DOMAIN stack = 1 .. Len(stack)
      /\ DOMAIN stack' = 1 .. Len(stack) - 1
      /\ \A k \in DOMAIN stack' : stack'[k] = stack[k] BY <1>1, <1>2, FrontFacts DEF ColoringTypeOK
<1>4. \A j, k \in DOMAIN stack : stack[j] = stack[k] => j = k BY <1>1 DEF EveryVregPlaced
<1>5. OnStack' = OnStack \ {v}
 <2>1. ASSUME NEW k \in DOMAIN stack' PROVE stack'[k] \in OnStack \ {v}
  <3>1. k \in DOMAIN stack /\ k # Len(stack) /\ Len(stack) \in DOMAIN stack BY <1>3
  <3> QED BY <3>1, <1>3, <1>4 DEF OnStack
 <2>2. ASSUME NEW u \in OnStack \ {v} PROVE \E k \in DOMAIN stack' : stack'[k] = u
  <3>1. PICK k \in DOMAIN stack : stack[k] = u BY DEF OnStack
  <3>2. k \in DOMAIN stack' BY <3>1, <1>3
  <3> QED BY <3>1, <3>2, <1>3
 <2> QED BY <2>1, <2>2 DEF OnStack
<1>6. v \in OnStack /\ v \notin DOMAIN coloring /\ v \notin spilled
 <2>1. v \in OnStack BY <1>3 DEF OnStack
 <2> QED BY <2>1, <1>1, <1>2 DEF EveryVregPlaced
<1>7. /\ OnStack \cup DOMAIN coloring \cup spilled = occurring
      /\ OnStack \cap (DOMAIN coloring \cup spilled) = {}
      /\ DOMAIN coloring \cap spilled = {} BY <1>1, <1>2 DEF EveryVregPlaced
<1>8. \A j, k \in DOMAIN stack' : stack'[j] = stack'[k] => j = k BY <1>3, <1>4
<1>9. StackLow'
 <2>1. ASSUME NEW i \in DOMAIN stack', stack'[i] \notin potential_spills
       PROVE  Cardinality(adjacent[stack'[i]] \ Below(i)') < NumColors
  <3>1. i \in DOMAIN stack /\ stack'[i] = stack[i] BY <1>3
  <3>2. \A j \in 1 .. i - 1 : stack'[j] = stack[j] BY <1>3
  <3>3. Below(i)' = Below(i) BY <3>2 DEF Below
  <3>4. Cardinality(adjacent[stack[i]] \ Below(i)) < NumColors BY <2>1, <3>1, <1>1 DEF StackLow
  <3> QED BY <3>1, <3>3, <3>4
 <2> QED BY <2>1, <1>2 DEF StackLow, graphVars
<1>10. DegreesExact' /\ LowQueueExact' BY <1>2 DEF DegreesExact, LowQueueExact
<1>11. CASE Palette \subseteq UsedColors(v) /\ spilled' = Spilled(v) /\ UNCHANGED coloring
 <2>1. spilled' = spilled \cup {v} BY <1>11 DEF Spilled
 <2>2. v \in potential_spills BY <1>1, <1>2, <1>11, LowNodesColorable
 <2>3. ColoringTypeOK' BY <1>1, <1>2, <1>3, <1>11, <2>1 DEF ColoringTypeOK, graphVars
 <2>4. EveryVregPlaced' BY <1>2, <1>5, <1>6, <1>7, <1>8, <1>11, <2>1 DEF EveryVregPlaced, graphVars
 <2>5. ProperColoring' /\ SpillsArePotential' BY <1>1, <1>2, <1>11, <2>1, <2>2 DEF ProperColoring, SpillsArePotential, graphVars
 <2> QED BY <1>9, <1>10, <2>3, <2>4, <2>5 DEF IInv
<1>12. CASE \E c \in Palette :
              /\ FirstFree(UsedColors(v), c)
              /\ coloring' = [u \in DOMAIN coloring \cup {v} |->
                                IF u = v THEN c ELSE coloring[u]]
              /\ UNCHANGED spilled
 <2>1. PICK c \in Palette :
             /\ FirstFree(UsedColors(v), c)
             /\ coloring' = [u \in DOMAIN coloring \cup {v} |->
                               IF u = v THEN c ELSE coloring[u]]
             /\ UNCHANGED spilled BY <1>12
 <2>2. /\ DOMAIN coloring' = DOMAIN coloring \cup {v}
       /\ coloring'[v] = c
       /\ \A u \in DOMAIN coloring : coloring'[u] = coloring[u] BY <2>1, <1>6
 <2>3. c \in 0 .. NumColors - 1 BY <2>1 DEF Palette
 <2>4. ColoringTypeOK' BY <1>1, <1>2, <1>3, <2>1, <2>2, <2>3 DEF ColoringTypeOK, graphVars
 <2>5. EveryVregPlaced' BY <1>2, <1>5, <1>6, <1>7, <1>8, <2>1, <2>2 DEF EveryVregPlaced, graphVars
 <2>6. \A u \in adjacent[v] \cap DOMAIN coloring : coloring[u] # c BY <2>1 DEF FirstFree, UsedColors
 <2>7. ProperColoring'
  <3>1. ASSUME NEW u \in DOMAIN coloring', NEW w \in DOMAIN coloring', w \in adjacent[u]
        PROVE  coloring'[u] # coloring'[w]
   <4>1. u \in occurring /\ w \in occurring BY <1>1, <1>3, <2>2 DEF ColoringTypeOK
   <4>2. u \in adjacent[w] /\ u # w BY <1>1, <3>1, <4>1, GraphFacts
   <4>3. CASE u = v BY <2>2, <2>6, <3>1, <4>2, <4>3
   <4>4. CASE w = v BY <2>2, <2>6, <3>1, <4>2, <4>4
   <4>5. CASE u # v /\ w # v BY <1>1, <2>2, <3>1, <4>5 DEF ProperColoring
   <4> QED BY <4>3, <4>4, <4>5
  <3> QED BY <3>1, <1>2 DEF ProperColoring, graphVars
 <2>8. SpillsArePotential' BY <1>1, <1>2, <2>1 DEF SpillsArePotential
 <2> QED BY <1>9, <1>10, <2>4, <2>5, <2>7, <2>8 DEF IInv
<1> QED BY <1>11, <1>12 DEF Select

LEMMA FinishStep == IInv /\ Finish => IInv'
<1> SUFFICES ASSUME IInv, Finish PROVE IInv' OBVIOUS
<1>1. ColoringTypeOK /\ EveryVregPlaced /\ StackLow BY DEF IInv
<1>2. /\ pc = "select" /\ stack = <<>> /\ pc' = "done"
      /\ spill_order' \in Listings(spilled)
      /\ UNCHANGED <<graphVars, degree, removed, low_degree, in_low, stack,
                     potential_spills, to_visit, coloring, spilled>> BY DEF Finish
<1>3. spilled \subseteq occurring /\ IsFiniteSet(spilled) BY <1>1, GraphFacts DEF ColoringTypeOK
<1>4. /\ spill_order' \in Seq(occurring)
      /\ {spill_order'[k] : k \in DOMAIN spill_order'} = spilled BY <1>2, <1>3, Listed
<1>5. ColoringTypeOK' /\ DegreesExact' /\ LowQueueExact'
  BY <1>1, <1>2, <1>4 DEF ColoringTypeOK, DegreesExact, LowQueueExact, graphVars
<1>6. EveryVregPlaced' BY <1>1, <1>2, <1>4 DEF EveryVregPlaced, OnStack, graphVars
<1>7. StackLow' /\ ProperColoring' /\ SpillsArePotential'
  BY <1>1, <1>2 DEF IInv, StackLow, Below, ProperColoring, SpillsArePotential, graphVars
<1> QED BY <1>5, <1>6, <1>7 DEF IInv
-----------------------------------------------------------------------------
LEMMA StepCorrect == IInv /\ [ColorNext]_colorVars => IInv'
<1> SUFFICES ASSUME IInv, [ColorNext]_colorVars PROVE IInv' OBVIOUS
<1>1. CASE UNCHANGED colorVars
 <2>1. UNCHANGED graphVars /\ UNCHANGED <<degree, removed, low_degree, in_low, stack, potential_spills,
                                          to_visit, coloring, spilled, spill_order, pc>> BY <1>1 DEF colorVars, graphVars
 <2>2. ColoringTypeOK' BY <2>1 DEF IInv, ColoringTypeOK, graphVars
 <2>3. EveryVregPlaced' BY <2>1 DEF IInv, EveryVregPlaced, OnStack, graphVars
 <2>4. DegreesExact' /\ LowQueueExact' BY <2>1 DEF IInv, DegreesExact, LowQueueExact, graphVars
 <2>5. StackLow' BY <2>1 DEF IInv, StackLow, Below, graphVars
 <2>6. ProperColoring' /\ SpillsArePotential' BY <2>1 DEF IInv, ProperColoring, SpillsArePotential, graphVars
 <2> QED BY <2>2, <2>3, <2>4, <2>5, <2>6 DEF IInv
<1>2. CASE ColorNext BY <1>2, PickLowStep, PickSpillStep, LowerDegreeStep, StartSelectStep, SelectStep,
     FinishStep DEF ColorNext
<1> QED BY <1>1, <1>2

(* The allocator's data structures keep their shape, for every graph and every
   number of registers. *)
THEOREM ColoringTypeCorrect == ColorSpec => []ColoringTypeOK
<1>1. IInv => ColoringTypeOK BY DEF IInv
<1> QED BY <1>1, InitCorrect, StepCorrect, PTL DEF ColorSpec

(* No two vregs that interfere get the same register: `select` looks at all
   neighbours coloured so far, and interference is symmetric. *)
THEOREM ColoringIsProper == ColorSpec => []ProperColoring
<1>1. IInv => ProperColoring BY DEF IInv
<1> QED BY <1>1, InitCorrect, StepCorrect, PTL DEF ColorSpec

(* Chaitin-Briggs: a vreg that `simplify` took out with fewer neighbours than
   there are registers always gets a register. *)
THEOREM OnlyPotentialSpills == ColorSpec => []SpillsArePotential
<1>1. IInv => SpillsArePotential BY DEF IInv
<1> QED BY <1>1, InitCorrect, StepCorrect, PTL DEF ColorSpec

(* Every vreg of the stream ends in exactly one of the two results. *)
THEOREM NothingLost == ColorSpec => []EveryVregPlaced
<1>1. IInv => EveryVregPlaced BY DEF IInv
<1> QED BY <1>1, InitCorrect, StepCorrect, PTL DEF ColorSpec

(* The incremental degrees and the queue of insignificant nodes are exact at
   every iteration. *)
THEOREM DegreesCorrect == ColorSpec => []IncrementalStateExact
<1>1. IInv => IncrementalStateExact BY DEF IInv, IncrementalStateExact
<1> QED BY <1>1, InitCorrect, StepCorrect, PTL DEF ColorSpec
=============================================================================
