----------------------------- MODULE Dominators -----------------------------
(* DominatorInfo of src/opt/dominator.rs.  DominatorInfo::compute: a
   depth-first search numbers the blocks in reverse postorder, and the
   algorithm of Cooper, Harvey and Kennedy then improves the immediate
   dominators until a whole pass changes none.  Mem2Reg goes on from phase
   "done".

   Before that, what is derived from the immediate dominators, and what
   dominance means.  The blocks of a function are numbered 0 .. N-1 and block 0
   is the entry. *)
EXTENDS FlowGraph

Entry == 0
None == -1   \* Option::None, in the place of a block

(* DominatorInfo::dominates walks up from block b until it meets d. *)
TreeDominates(idom, d, b) ==
  LET meets[x \in DOMAIN idom] == x = d \/ (idom[x] # None /\ meets[idom[x]])
  IN  meets[b]

(* build_dom_tree and dom_tree_roots. *)
Children(idom, b) == {c \in DOMAIN idom : idom[c] = b}
RootsEntryOnly(idom) == {Entry}
Roots(idom) == {b \in DOMAIN idom : idom[b] = None}

(* compute_dominance_frontiers: what leaves b itself, and what leaves one of
   its children, unless b is its immediate dominator. *)

Frontiers(succs, idom) ==
  LET df[b \in DOMAIN idom] ==
        {w \in ToSet(succs[b]) \cup UNION {df[c] : c \in Children(idom, b)} : idom[w] # b}
  IN  df
-----------------------------------------------------------------------------
(* The definitions.  A block is dominated by d when no path from the entry
   avoids d. *)
ReachableAvoiding(succs, d) ==
  LET step(X) == X \cup ((UNION {ToSet(succs[b]) : b \in X}) \ {d})
      within[k \in Nat] == IF k = 0 THEN {Entry} \ {d} ELSE step(within[k - 1])
  IN  within[Cardinality(DOMAIN succs)]

Reachable(succs) == ReachableAvoiding(succs, None)

Dominators(succs, b) ==
  {d \in DOMAIN succs : b \notin ReachableAvoiding(succs, d)}

(* The closest strict dominator: all the others dominate it. *)
ImmediateDominator(succs, b) ==
  LET strict == Dominators(succs, b) \ {b}
  IN  CHOOSE d \in strict : strict \subseteq Dominators(succs, d)

IsFrontier(succs, b, W) ==
  W = {w \in DOMAIN succs :
         /\ \E p \in Reachable(succs) : w \in ToSet(succs[p]) /\ b \in Dominators(succs, p)
         /\ b = w \/ b \notin Dominators(succs, w)}
-----------------------------------------------------------------------------

CONSTANT N   \* number of blocks

Block == NodesOf(N)
Unnumbered == N   \* usize::MAX: larger than every index

ASSUME SizeAssumption == N \in Nat \ {0}

VARIABLES
  succs, preds,  \* the graph
  phase,         \* "search", "iterate", "done", and what the caller goes on to
  stack,         \* calls of dfs under way: [block, next], the innermost last
  visited,
  post,
  idom,
  changed,
  position,      \* of the block being visited in the order
  todo,          \* its predecessors still to be folded in
  new_idom,
  fingers        \* b1 and b2 of a call of intersect, or <<>>

graph == <<succs, preds>>
search == <<stack, visited, post>>
scan == <<position, todo, new_idom, fingers>>
dominatorsVars == <<graph, phase, search, idom, changed, scan>>
-----------------------------------------------------------------------------
Order == Reverse(post)

RpoIndex(b) ==
  IF b \in ToSet(Order) THEN CHOOSE i \in DOMAIN Order : Order[i] = b ELSE Unnumbered

DominatorsInit(flow) ==
  /\ succs = flow
  /\ preds = NewGraph(succs, N).preds
  /\ phase = "search"
  /\ stack = <<[block |-> Entry, next |-> 1]>>
  /\ visited = {Entry}
  /\ post = <<>>
  /\ idom = [b \in Block |-> None]
  /\ changed = TRUE
  /\ position = 1 /\ todo = <<>> /\ new_idom = None /\ fingers = <<>>

(* dfs: the next successor, or the end of the loop. *)
Top == stack[Len(stack)]

Visit ==
  /\ stack # <<>>
  /\ Top.next <= Len(succs[Top.block])
  /\ LET s == succs[Top.block][Top.next]
         advanced == [stack EXCEPT ![Len(stack)].next = @ + 1]
     IN  /\ visited' = visited \cup {s}
         /\ stack' = IF s \in visited THEN advanced
                     ELSE Append(advanced, [block |-> s, next |-> 1])
  /\ UNCHANGED <<graph, phase, post, idom, changed, scan>>

Leave ==
  /\ stack # <<>>
  /\ Top.next > Len(succs[Top.block])
  /\ post' = Append(post, Top.block)
  /\ stack' = Front(stack)
  /\ UNCHANGED <<graph, phase, visited, idom, changed, scan>>
-----------------------------------------------------------------------------
(* One pass of `while changed` starts behind the entry. *)
StartPass ==
  /\ \/ phase = "search" /\ stack = <<>>
     \/ phase = "iterate" /\ position > Len(Order) /\ changed
  /\ phase' = "iterate"
  /\ idom' = [idom EXCEPT ![Entry] = Entry]
  /\ changed' = FALSE
  /\ position' = 2
  /\ todo' = IF Len(Order) < 2 THEN <<>> ELSE preds[Order[2]]
  /\ UNCHANGED <<graph, search, new_idom, fingers>>

Visiting == phase = "iterate" /\ position <= Len(Order)

(* `for &p in &preds[b]`; a block without idom is not looked at. *)
Processed(p) == idom[p] # None

TakePredecessor ==
  /\ Visiting /\ todo # <<>> /\ fingers = <<>>
  /\ LET p == Head(todo) IN
       /\ todo' = Tail(todo)
       /\ new_idom' = IF Processed(p) /\ new_idom = None THEN p ELSE new_idom
       /\ fingers' = IF Processed(p) /\ new_idom # None THEN <<p, new_idom>> ELSE <<>>
  /\ UNCHANGED <<graph, phase, search, idom, changed, position>>

(* intersect: the side with the larger index walks up. *)
WalksUpEqual(b, other) == RpoIndex(b) >= RpoIndex(other)
WalksUp(b, other) == RpoIndex(b) > RpoIndex(other)

WalkUp ==
  /\ fingers # <<>>
  /\ \/ /\ WalksUp(fingers[1], fingers[2])
        /\ fingers' = [fingers EXCEPT ![1] = idom[@]]
     \/ /\ WalksUp(fingers[2], fingers[1])
        /\ fingers' = [fingers EXCEPT ![2] = idom[@]]
  /\ UNCHANGED <<graph, phase, search, idom, changed, position, todo, new_idom>>

Meet ==
  /\ fingers # <<>> /\ fingers[1] = fingers[2]
  /\ new_idom' = fingers[1]
  /\ fingers' = <<>>
  /\ UNCHANGED <<graph, phase, search, idom, changed, position, todo>>

DiffersNever(b) == FALSE
Differs(b) == idom[b] # new_idom

Commit ==
  /\ Visiting /\ todo = <<>> /\ fingers = <<>>
  /\ LET b == Order[position] IN
       /\ idom' = [idom EXCEPT ![b] = new_idom]
       /\ changed' = (changed \/ Differs(b))
  /\ position' = position + 1
  /\ todo' = IF position < Len(Order) THEN preds[Order[position + 1]] ELSE <<>>
  /\ new_idom' = None
  /\ UNCHANGED <<graph, phase, search, fingers>>

(* A pass changed nothing; the sentinel at the entry is taken away. *)
FinishDominators ==
  /\ phase = "iterate" /\ position > Len(Order) /\ ~changed
  /\ phase' = "done"
  /\ idom' = [idom EXCEPT ![Entry] = None]
  /\ UNCHANGED <<graph, search, changed, scan>>

DominatorsNext ==
  \/ Visit \/ Leave
  \/ StartPass \/ TakePredecessor \/ WalkUp \/ Meet \/ Commit
  \/ FinishDominators

Done == phase = "done"
-----------------------------------------------------------------------------
(* The order lists what is reachable, once, the entry first, and every other
   block behind one of its predecessors, so that a first pass finds at least
   one processed predecessor for every block. *)
OrderUsable ==
  /\ ToSet(Order) = Reachable(succs) /\ IsInjective(Order)
  /\ Order[1] = Entry
  /\ \A i \in 2 .. Len(Order) : \E j \in 1 .. i - 1 : Order[j] \in ToSet(preds[Order[i]])

(* Every idom points strictly towards the entry: `intersect` terminates, and
   its `expect` never fails. *)
IdomsPointUp ==
  /\ \A b \in Block \ {Entry} : idom[b] # None => RpoIndex(idom[b]) < RpoIndex(b)
  /\ \A i \in DOMAIN fingers : idom[fingers[i]] # None

(* What truly dominates a block is an ancestor of it in the tree so far. *)
DominatorsKept ==
  LET tree == [idom EXCEPT ![Entry] = None]
  IN  \A b \in Block \ {Entry} :
        idom[b] # None => \A d \in Dominators(succs, b) : TreeDominates(tree, d, b)

(* In the middle of any pass, on irreducible flow graphs too: the order is
   usable, the chains that intersect walks lead to the entry, and no update
   ever loses a dominator. *)
PassesSound == phase = "iterate" => OrderUsable /\ IdomsPointUp /\ DominatorsKept

(* The result: the immediate dominator of every reachable block, none for the
   entry and what is unreachable, which become roots of their own; `dominates`
   answers what dominance means, and the frontiers are exact. *)
ResultIsDominatorTree ==
  Done =>
    /\ \A b \in Block :
         idom[b] = IF b \in Reachable(succs) \ {Entry} THEN ImmediateDominator(succs, b) ELSE None
    /\ \A b \in Reachable(succs) :
         /\ \A d \in Block : TreeDominates(idom, d, b) <=> d \in Dominators(succs, b)
         /\ IsFrontier(succs, b, Frontiers(succs, idom)[b])
=============================================================================
