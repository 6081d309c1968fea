----------------------------- MODULE FlowGraph -----------------------------
(* The directed graph of src/common/graph.rs: `Graph` keeps a successor list
   and a predecessor list per node, both Vec<Vec<usize>>.  A list may hold a
   node twice (a conditional jump whose two labels are equal gives a duplicated
   edge), so both are sequences and not sets. *)
EXTENDS Integers, Sequences, SequencesExt

(* `n` nodes are numbered 0 .. n-1, as the indices of the code's vectors. *)
NodesOf(n) == 0 .. n - 1

(* Graph::new: `preds[s].push(i)` for every i in ascending order and every
   occurrence of s in succs[i]. *)
Occurrences(list, s) == Cardinality({j \in DOMAIN list : list[j] = s})

PredecessorList(succs, n, s) ==
  LET pushed[k \in 0 .. n] ==
        IF k = 0 THEN <<>>
        ELSE pushed[k - 1] \o [j \in 1 .. Occurrences(succs[k - 1], s) |-> k - 1]
  IN  pushed[n]

NewGraph(succs, n) ==
  [succs |-> succs,
   preds |-> [s \in NodesOf(n) |-> PredecessorList(succs, n, s)]]

(* What the type promises its users: both lists describe one edge set. *)
Consistent(g, n) ==
  /\ g.succs \in [NodesOf(n) -> Seq(NodesOf(n))]
  /\ g.preds \in [NodesOf(n) -> Seq(NodesOf(n))]
  /\ \A a, b \in NodesOf(n) :
       (\E j \in DOMAIN g.preds[b] : g.preds[b][j] = a)
         <=> (\E j \in DOMAIN g.succs[a] : g.succs[a][j] = b)

(* The successor lists of all graphs with at most `width`-way terminators, each
   list in ascending order (the order of successors plays no role). *)
AscendingLists(n, k) ==
  {l \in [1 .. k -> NodesOf(n)] : \A i, j \in 1 .. k : i < j => l[i] <= l[j]}

SuccessorLists(n, width) ==
  [NodesOf(n) -> UNION {AscendingLists(n, k) : k \in 0 .. width}]
=============================================================================
