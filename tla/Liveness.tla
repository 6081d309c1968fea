------------------------------ MODULE Liveness ------------------------------
(* BackwardLiveness::compute of src/common/graph.rs, the worklist solver that
   every liveness question of the compiler goes through: the pruned phi
   placement of opt/mem2reg.rs (one Boolean per block) and the interference
   graph of the register allocator (a set of virtual registers per
   instruction).  A lattice value is a Bitset; the Boolean lattice is the case
   of one bit.

   One behaviour is one call.  Its arguments are state that never changes, so
   that one run explores many graphs. *)
EXTENDS FlowGraph, Bitset

CONSTANTS N,      \* number of nodes
          Inputs  \* the calls considered: records [graph, gen, kill]

Node == NodesOf(N)

ASSUME SizeAssumption == N \in Nat

ASSUME InputsAssumption ==
  \A x \in Inputs : /\ Consistent(x.graph, N)
                    /\ x.gen \in [Node -> Bitsets]
                    /\ x.kill \in [Node -> Bitsets]

VARIABLES
  graph, gen, kill,   \* the arguments
  live_in, live_out,  \* the result under construction
  worklist,           \* VecDeque<usize>: popped at the front, pushed at the back
  in_worklist,        \* Vec<bool>
  todo                \* predecessors the `for` loop has still to visit

args == <<graph, gen, kill>>
vars == <<graph, gen, kill, live_in, live_out, worklist, in_worklist, todo>>

-----------------------------------------------------------------------------
(* `vec![bottom; n]`: no fact is live yet. *)
Bottom == Empty

(* The worklist is seeded with all nodes, highest index first. *)
Seed == [k \in 1 .. N |-> N - k]

(* `new_out`: reset, then joined with live_in of every successor. *)
Joined(i) ==
  [w \in Word |-> UNION {live_in[graph.succs[i][j]][w] : j \in DOMAIN graph.succs[i]}]

(* Lattice::transfer: gen | (out & !kill), and whether it changed live_in. *)
Transferred(i) == Transfer(gen[i], kill[i], Joined(i))

ChangedAlways(i) == TRUE
Changed(i) == Differ(live_in[i], Transferred(i))

(* `in_worklist[i] = false` on pop. *)
FlagKept(i) == in_worklist
FlagCleared(i) == [in_worklist EXCEPT ![i] = FALSE]

(* Who must look again when live_in[i] changes. *)
DependentsForward(i) == graph.succs[i]
Dependents(i) == graph.preds[i]
-----------------------------------------------------------------------------
Start(x) ==
  /\ graph = x.graph /\ gen = x.gen /\ kill = x.kill
  /\ live_in = [n \in Node |-> Bottom]
  /\ live_out = [n \in Node |-> Bottom]
  /\ worklist = Seed
  /\ in_worklist = [n \in Node |-> TRUE]
  /\ todo = <<>>

Init == \E x \in Inputs : Start(x)

(* One iteration of `while let Some(i) = worklist.pop_front()` up to the loop
   over the predecessors: recompute both values of node i. *)
Visit ==
  /\ todo = <<>>
  /\ worklist # <<>>
  /\ LET i == Head(worklist) IN
       /\ worklist' = Tail(worklist)
       /\ in_worklist' = FlagCleared(i)
       /\ live_out' = [live_out EXCEPT ![i] = Joined(i)]
       /\ live_in' = [live_in EXCEPT ![i] = Transferred(i)]
       /\ todo' = IF Changed(i) THEN Dependents(i) ELSE <<>>
  /\ UNCHANGED args

(* One iteration of `for &p in graph.predecessors(i)`. *)
Requeue ==
  /\ todo # <<>>
  /\ todo' = Tail(todo)
  /\ LET p == Head(todo) IN
       IF in_worklist[p]
       THEN UNCHANGED <<worklist, in_worklist>>
       ELSE /\ worklist' = Append(worklist, p)
            /\ in_worklist' = [in_worklist EXCEPT ![p] = TRUE]
  /\ UNCHANGED <<args, live_in, live_out>>

Next == Visit \/ Requeue

(* The function is straight-line code: it runs until the worklist is empty. *)
Spec == Init /\ [][Next]_vars /\ WF_vars(Next)

Done == worklist = <<>> /\ todo = <<>>
-----------------------------------------------------------------------------
TypeOK ==
  /\ Consistent(graph, N)
  /\ gen \in [Node -> Bitsets]
  /\ kill \in [Node -> Bitsets]
  /\ live_in \in [Node -> Bitsets]
  /\ live_out \in [Node -> Bitsets]
  /\ worklist \in Seq(Node)
  /\ in_worklist \in [Node -> BOOLEAN]
  /\ todo \in Seq(Node)

(* The flag vector and the queue never disagree, and no node is queued twice:
   the queue is bounded by the number of nodes. *)
Queued(n) == \E k \in DOMAIN worklist : worklist[k] = n

FlagsMatchQueue ==
  /\ \A n \in Node : in_worklist[n] <=> Queued(n)
  /\ \A j, k \in DOMAIN worklist : worklist[j] = worklist[k] => j = k

(* A node that nobody is going to visit again already satisfies its two
   dataflow equations: no change of a successor is ever lost. *)
Owed(n) == in_worklist[n] \/ \E k \in DOMAIN todo : todo[k] = n

Solved(n) ==
  /\ live_out[n] = Joined(n)
  /\ live_in[n] = Transfer(gen[n], kill[n], live_out[n])

SettledNodesAreSolved == \A n \in Node : ~Owed(n) => Solved(n)

(* The queue can be trusted: it holds whom its flags say, and everyone it does
   not hold is done. *)
WorklistSound == FlagsMatchQueue /\ SettledNodesAreSolved

(* What a caller relies on when `compute` returns: both equations hold at every
   node, so that a live value is never missed (a missed one loses an
   interference edge and two values share a register). *)
ResultIsSolution == Done => \A n \in Node : Solved(n)

(* The result is the least solution: at every moment, and for every fact, the
   nodes it is live at are contained in every set of nodes that solves its
   equations. *)
Closed(S, w, b) ==
  \A n \in Node :
    (\/ b \in gen[n][w]
     \/ /\ b \notin kill[n][w]
        /\ \E j \in DOMAIN graph.succs[n] : graph.succs[n][j] \in S)
    => n \in S

BelowEverySolution ==
  \A w \in Word, b \in Bit : \A S \in SUBSET Node :
    Closed(S, w, b) => \A n \in Node : b \in live_in[n][w] => n \in S

(* The solver stops. *)
Terminates == <>Done

-----------------------------------------------------------------------------
(* The refinement: until the call returns, the abstract specification has no
   result; the return is its only step. *)
AsFacts(X) == [n \in Node |-> Facts(X[n])]
Abstract == INSTANCE LivenessSpec WITH
  Value <- Index,
  gen <- AsFacts(gen),
  kill <- AsFacts(kill),
  Pending <- <<>>,
  result <- IF Done THEN [live_in |-> AsFacts(live_in), live_out |-> AsFacts(live_out)]
            ELSE <<>>

ImplementsLiveness == Abstract!Spec
=============================================================================
