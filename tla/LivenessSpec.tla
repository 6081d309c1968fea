---------------------------- MODULE LivenessSpec ----------------------------
(* What BackwardLiveness::compute promises its callers, independent of the
   worklist: one step from "not yet computed" to the path definition of
   liveness.  A value v is live at the entry of a node when some path from the
   node reaches a node that reads v (v is in gen) before any node that
   overwrites it (v in kill). *)
EXTENDS Integers, Sequences

CONSTANTS N,      \* number of nodes
          Value,  \* the dataflow facts: virtual registers, or one variable
          Pending \* stands for the result before it is computed

Node == 0 .. N - 1

VARIABLES graph, gen, kill, result

(* A shortest witness visits no node twice, so N nodes are enough. *)
LiveEntry(n, v) ==
  \E k \in 1 .. N : \E p \in [1 .. k -> Node] :
    /\ p[1] = n
    /\ v \in gen[p[k]]
    /\ \A i \in 1 .. k - 1 :
         /\ v \notin kill[p[i]]
         /\ \E j \in DOMAIN graph.succs[p[i]] : graph.succs[p[i]][j] = p[i + 1]

LiveExit(n, v) ==
  \E j \in DOMAIN graph.succs[n] : LiveEntry(graph.succs[n][j], v)

Answer ==
  [live_in  |-> [n \in Node |-> {v \in Value : LiveEntry(n, v)}],
   live_out |-> [n \in Node |-> {v \in Value : LiveExit(n, v)}]]

Init == result = Pending

Compute ==
  /\ result = Pending /\ result' # Pending
  /\ result' = Answer
  /\ UNCHANGED <<graph, gen, kill>>

Spec == Init /\ [][Compute]_<<graph, gen, kill, result>>
=============================================================================
