----------------------------- MODULE MCLiveness -----------------------------
(* Every graph of three nodes with at most two successors each (the widest
   terminator is a conditional branch, and both of its targets may be equal;
   the last node of a stream is none), with two virtual registers that live in
   different words of a bit set, whose last word is not full. The first one may
   be used and defined anywhere; the second one is used one node before, and
   defined, where the first is not, one node before. *)
EXTENDS InterferenceGraph

Low == 0
High == 2

MCLists == {l \in SuccessorLists(N, 2) : Len(l[N - 1]) <= 1}
MCUses(g) == [n \in Node |-> (IF g[n] THEN {Low} ELSE {})
                               \cup (IF g[(n + 1) % N] THEN {High} ELSE {})]
MCDef(k) == [n \in Node |-> IF k[n] THEN Low ELSE IF k[(n + 1) % N] THEN High ELSE NoVreg]

MCStreams ==
  {s \in {[graph |-> NewGraph(l, N), uses |-> MCUses(g), def |-> MCDef(k)] :
            l \in MCLists, g \in [Node -> BOOLEAN], k \in [Node -> BOOLEAN]} :
     Fits(s)}

MCInputs == {GenKill(s) : s \in MCStreams}
=============================================================================
