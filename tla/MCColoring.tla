----------------------------- MODULE MCColoring -----------------------------
(* Every interference graph on the vregs 0 .. NumVregs - 1, with one vreg
   possibly absent from the instruction stream. *)
EXTENDS Coloring

CONSTANT NumVregs

MCVreg == 0 .. NumVregs - 1

MCPairs == {<<u, v>> \in MCVreg \X MCVreg : u < v}

MCGraph(edges, here) ==
  [present |-> here,
   adjacency |-> [v \in MCVreg |->
                    {u \in here : v \in here /\ (<<u, v>> \in edges \/ <<v, u>> \in edges)}]]

MCInputs ==
  {MCGraph(edges, here) : edges \in SUBSET MCPairs, here \in {MCVreg, MCVreg \ {1}}}
=============================================================================
