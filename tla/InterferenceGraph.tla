------------------------- MODULE InterferenceGraph -------------------------
(* From an instruction stream to the interference graph, as
   RegisterAllocator::allocate of src/asm/aarch64/register_allocator.rs goes:
   build_gen_kill, BackwardLiveness::compute, and then InterferenceGraph::build
   over its live_out, all of it on bit sets whose capacity is the number of
   virtual registers. *)
EXTENDS Liveness

CONSTANT Streams   \* records [graph, uses, def]

NoVreg == -1

VARIABLES
  uses, def,   \* the instructions: vregs used, vreg defined or NoVreg
  present,     \* vregs that occur
  adjacency,   \* Vec<Bitset>: the vregs each one interferes with
  at           \* the instruction `build` looks at next

buildVars == <<uses, def, present, adjacency, at>>
allVars == <<vars, buildVars>>
-----------------------------------------------------------------------------
(* build_gen_kill: indices inserted into empty sets, in some order. *)
Collected(S) ==
  LET collected[R \in SUBSET S] ==
        IF R = {} THEN Empty
        ELSE LET v == CHOOSE v \in R : TRUE IN InsertBit(collected[R \ {v}], v)
  IN  collected[S]
DefSet(d) == IF d = NoVreg THEN {} ELSE {d}
Mentioned(s) == UNION {s.uses[i] \cup DefSet(s.def[i]) : i \in Node}

(* max_vreg_index and one: the capacity of every set. *)
Fits(s) == Mentioned(s) \subseteq Index /\ Capacity - 1 \in Mentioned(s)

ASSUME StreamsAssumption ==
  \A s \in Streams : /\ Consistent(s.graph, N)
                     /\ s.uses \in [Node -> SUBSET Index]
                     /\ s.def \in [Node -> Index \cup {NoVreg}]
                     /\ Fits(s)

GenKill(s) ==
  [graph |-> s.graph,
   gen |-> [i \in Node |-> Collected(s.uses[i])],
   kill |-> [i \in Node |-> Collected(DefSet(s.def[i]))]]

StreamInit ==
  /\ \E s \in Streams :
       /\ Start(GenKill(s))
       /\ uses = s.uses /\ def = s.def
       /\ present = Collected(Mentioned(s))
  /\ adjacency = [v \in Index |-> Empty]
  /\ at = 0

(* `for r in live_out.iter()`: the edge is entered at its other end too. *)
Entered(adj, r, d) == IF r = d THEN adj ELSE [adj EXCEPT ![r] = InsertBit(@, d)]
Mirrored(adj, d, live) ==
  LET others == Iter(live)
      mirrored[k \in 0 .. Len(others)] ==
        IF k = 0 THEN adj ELSE Entered(mirrored[k - 1], others[k], d)
  IN  mirrored[Len(others)]

(* InterferenceGraph::build, one instruction. *)
BuildEdges ==
  /\ Done /\ at < N
  /\ LET d == def[at]
         row == RemoveBit(UnionWith(adjacency[d], live_out[at]), d)
     IN  adjacency' = IF d = NoVreg THEN adjacency
                      ELSE Mirrored([adjacency EXCEPT ![d] = row], d, live_out[at])
  /\ at' = at + 1
  /\ UNCHANGED <<vars, uses, def, present>>

Built == Done /\ at = N

StreamNext == (Next /\ UNCHANGED buildVars) \/ BuildEdges
StreamSpec == StreamInit /\ [][StreamNext]_allVars /\ WF_allVars(StreamNext)
-----------------------------------------------------------------------------
(* The finished graph joins exactly the vregs one of which is defined where the
   other is still going to be read: on some path from there it is used before
   it is defined again.  Both ends know of every edge, no vreg is its own
   neighbour, a degree is the number of neighbours, and enumerating a set of
   neighbours meets each once, in ascending order. *)
LiveExits == [i \in Node |-> {v \in Index : Abstract!LiveExit(i, v)}]
Clashing(exits) ==
  UNION {{<<def[i], v>> : v \in exits[i] \ {def[i]}} : i \in {j \in Node : def[j] # NoVreg}}

Enumerates(seq, S) ==
  /\ \A j, k \in DOMAIN seq : j < k => seq[j] < seq[k]
  /\ {seq[k] : k \in DOMAIN seq} = S

InterferenceExact ==
  Built =>
    /\ Facts(present) = Mentioned([uses |-> uses, def |-> def])
    /\ LET clashing == Clashing(LiveExits) IN
       \A v \in Index :
         LET neighbours == {u \in Index : {<<u, v>>, <<v, u>>} \cap clashing # {}}
         IN  /\ Facts(adjacency[v]) = neighbours
             /\ Enumerates(Iter(adjacency[v]), neighbours)
             /\ Size(adjacency[v]) = Cardinality(neighbours)
             /\ IsEmpty(adjacency[v]) <=> neighbours = {}
=============================================================================
