------------------------------ MODULE Coloring ------------------------------
(* InterferenceGraph::color of src/asm/aarch64/register_allocator.rs:
   optimistic graph colouring.  `simplify` takes the nodes out of the graph one
   by one, preferring nodes with fewer neighbours than colours, and pushes them
   on a stack; `select` pops them and gives each the first colour no coloured
   neighbour has, or spills it.

   One behaviour is one call; the graph is state that never changes. *)
EXTENDS Integers, Sequences, FiniteSets, SequencesExt

CONSTANTS
  Vreg,        \* virtual registers, 0 .. num_vregs - 1
  NumColors,   \* NUM_COLORS: the colours are 0 .. NumColors - 1
  GraphInputs  \* the graphs considered: records [present, adjacency]

Palette == 0 .. NumColors - 1

(* `build` inserts both directions, no loops, and only vregs that occur. *)
WellFormed(g) ==
  /\ g.present \in SUBSET Vreg
  /\ g.adjacency \in [Vreg -> SUBSET g.present]
  /\ \A u, v \in Vreg : u \in g.adjacency[v] => v \in g.adjacency[u]
  /\ \A v \in Vreg : v \notin g.adjacency[v]
  /\ \A v \in Vreg \ g.present : g.adjacency[v] = {}

ASSUME ConstantsAssumption ==
  /\ Vreg \subseteq Nat
  /\ IsFiniteSet(Vreg)
  /\ NumColors \in Nat \ {0}

ASSUME GraphsAssumption == \A x \in GraphInputs : WellFormed(x)

VARIABLES
  occurring, adjacent, \* the graph: its fields present and adjacency
  pc,                  \* "simplify", "select" or "done"
  degree,              \* neighbours still in the graph
  removed,             \* nodes taken out of the graph
  low_degree, in_low,  \* queue of nodes of insignificant degree, its bit set
  stack,               \* the nodes taken out, in order
  potential_spills,    \* nodes taken out with significant degree
  to_visit,            \* neighbours the loop of `simplify` has still to visit
  coloring,            \* vreg -> colour, partial
  spilled,             \* vregs without a colour
  spill_order          \* the same as the sorted list `color` returns

graphVars == <<occurring, adjacent>>
colorVars == <<occurring, adjacent, pc, degree, removed, low_degree, in_low, stack,
          potential_spills, to_visit, coloring, spilled, spill_order>>
-----------------------------------------------------------------------------
InsignificantOffByOne(d) == d <= NumColors
Insignificant(d) == d < NumColors

(* The sequences that hold every element of S once. *)
Listings(S) ==
  {s \in [1 .. Cardinality(S) -> S] : \A v \in S : \E k \in DOMAIN s : s[k] = v}

Ascending(s) == \A j, k \in DOMAIN s : j < k => s[j] < s[k]

ColorInit ==
  /\ \E x \in GraphInputs : occurring = x.present /\ adjacent = x.adjacency
  /\ pc = "simplify"
  /\ degree = [v \in Vreg |-> Cardinality(adjacent[v])]
  /\ removed = {}
  /\ in_low = {v \in occurring : Insignificant(degree[v])}
  /\ low_degree \in {s \in Listings(in_low) : Ascending(s)}
  /\ stack = <<>>
  /\ potential_spills = {}
  /\ to_visit = {}
  /\ coloring = <<>>
  /\ spilled = {}
  /\ spill_order = <<>>
-----------------------------------------------------------------------------
(* pick_node, first part: pop the queue until a node still in the graph shows
   up.  The k-th entry is the first such node. *)
FirstLow(k) ==
  /\ low_degree[k] \notin removed
  /\ \A j \in 1 .. k - 1 : low_degree[j] \in removed

NoLow == \A k \in DOMAIN low_degree : low_degree[k] \in removed

Popped(k) == {low_degree[j] : j \in 1 .. k}

ForgottenOnStack(v) == removed' = removed \cup {v} /\ to_visit' = adjacent[v] /\ stack' = stack

(* The picked node leaves the graph; the loop over its neighbours starts. *)
TakeOut(v) ==
  /\ removed' = removed \cup {v}
  /\ stack' = Append(stack, v)
  /\ to_visit' = adjacent[v]

Simplifying == pc = "simplify" /\ to_visit = {} /\ Len(stack) < Cardinality(occurring)

PickLow ==
  /\ Simplifying
  /\ \E k \in DOMAIN low_degree :
       /\ FirstLow(k)
       /\ low_degree' = SubSeq(low_degree, k + 1, Len(low_degree))
       /\ in_low' = in_low \ Popped(k)
       /\ TakeOut(low_degree[k])
  /\ UNCHANGED <<graphVars, pc, degree, potential_spills, coloring, spilled, spill_order>>

(* pick_node, second part: `max_by_key` over the nodes left, in ascending
   order; of several maxima it returns the last. *)
MaxDegree(v) ==
  /\ v \in occurring \ removed
  /\ \A u \in occurring \ removed :
       degree[u] < degree[v] \/ (degree[u] = degree[v] /\ u <= v)

PickSpill ==
  /\ Simplifying
  /\ NoLow
  /\ low_degree' = <<>>
  /\ in_low' = in_low \ Popped(Len(low_degree))
  /\ \E v \in occurring : MaxDegree(v) /\ TakeOut(v) /\ potential_spills' = potential_spills \cup {v}
  /\ UNCHANGED <<graphVars, pc, degree, coloring, spilled, spill_order>>

(* One iteration of `for u in self.adjacency[pick].iter()`, ascending. *)
DegreeKept(u) == degree
DegreeLowered(u) ==
  IF u \notin removed /\ degree[u] > 0 THEN [degree EXCEPT ![u] = @ - 1] ELSE degree

BecomesLow(u) ==
  /\ u \notin removed
  /\ degree[u] > 0
  /\ Insignificant(degree[u] - 1)
  /\ u \notin in_low

LowerDegree ==
  /\ pc = "simplify"
  /\ \E u \in to_visit :
       /\ \A w \in to_visit : u <= w
       /\ to_visit' = to_visit \ {u}
       /\ degree' = DegreeLowered(u)
       /\ IF BecomesLow(u)
          THEN low_degree' = Append(low_degree, u) /\ in_low' = in_low \cup {u}
          ELSE UNCHANGED <<low_degree, in_low>>
  /\ UNCHANGED <<graphVars, pc, removed, stack, potential_spills, coloring,
                 spilled, spill_order>>

StartSelect ==
  /\ pc = "simplify"
  /\ to_visit = {}
  /\ Len(stack) >= Cardinality(occurring)
  /\ pc' = "select"
  /\ UNCHANGED <<graphVars, degree, removed, low_degree, in_low, stack,
                 potential_spills, to_visit, coloring, spilled, spill_order>>
-----------------------------------------------------------------------------
(* `used_colors`: what the neighbours coloured so far have. *)
UsedByLower(v) == {coloring[u] : u \in {w \in adjacent[v] \cap DOMAIN coloring : w < v}}
UsedColors(v) == {coloring[u] : u \in adjacent[v] \cap DOMAIN coloring}

(* The first of ALLOCATABLE_REGS that is not used. *)
FirstFree(used, c) ==
  /\ c \in Palette \ used
  /\ \A d \in Palette \ used : c <= d

NotSpilled(v) == spilled
Spilled(v) == spilled \cup {v}

Select ==
  /\ pc = "select"
  /\ stack # <<>>
  /\ stack' = Front(stack)
  /\ LET v == Last(stack) IN
       \/ \E c \in Palette :
            /\ FirstFree(UsedColors(v), c)
            /\ coloring' = [u \in DOMAIN coloring \cup {v} |->
                              IF u = v THEN c ELSE coloring[u]]
            /\ UNCHANGED spilled
       \/ /\ Palette \subseteq UsedColors(v)
          /\ spilled' = Spilled(v)
          /\ UNCHANGED coloring
  /\ UNCHANGED <<graphVars, pc, degree, removed, low_degree, in_low,
                 potential_spills, to_visit, spill_order>>

(* `spilled.sort_by_key`: potential spills first, then by index. *)
SpillBefore(u, v) ==
  \/ u \in potential_spills /\ v \notin potential_spills
  \/ /\ u \in potential_spills <=> v \in potential_spills
     /\ u < v

Sorted(s) == \A j, k \in DOMAIN s : j < k => SpillBefore(s[j], s[k])

Finish ==
  /\ pc = "select"
  /\ stack = <<>>
  /\ pc' = "done"
  /\ spill_order' \in {s \in Listings(spilled) : Sorted(s)}
  /\ UNCHANGED <<graphVars, degree, removed, low_degree, in_low, stack,
                 potential_spills, to_visit, coloring, spilled>>

ColorNext == PickLow \/ PickSpill \/ LowerDegree \/ StartSelect \/ Select \/ Finish

(* Two loops that nothing interrupts. *)
ColorSpec == ColorInit /\ [][ColorNext]_colorVars /\ WF_colorVars(ColorNext)

Colored == pc = "done"
-----------------------------------------------------------------------------
ColoringTypeOK ==
  /\ WellFormed([present |-> occurring, adjacency |-> adjacent])
  /\ pc \in {"simplify", "select", "done"}
  /\ degree \in [Vreg -> Nat]
  /\ removed \subseteq occurring
  /\ low_degree \in Seq(occurring)
  /\ in_low \subseteq occurring
  /\ stack \in Seq(occurring)
  /\ potential_spills \subseteq occurring
  /\ to_visit \subseteq occurring
  /\ DOMAIN coloring \subseteq occurring
  /\ \A v \in DOMAIN coloring : coloring[v] \in 0 .. NumColors - 1
  /\ spilled \subseteq occurring
  /\ spill_order \in Seq(occurring)

(* The hazard the allocator exists to avoid: two vregs that are live at the
   same time never share a physical register. *)
ProperColoring ==
  \A u, v \in DOMAIN coloring : v \in adjacent[u] => coloring[u] # coloring[v]

(* The incremental degree is the number of neighbours still in the graph
   (neighbours whose loop iteration is still ahead count as present). *)
DegreesExact ==
  pc = "simplify" =>
    \A v \in occurring \ removed :
      degree[v] = Cardinality(adjacent[v] \ removed)
                    + (IF v \in to_visit THEN 1 ELSE 0)

(* The queue holds exactly the nodes of insignificant degree still in the
   graph, each once. *)
LowQueueExact ==
  pc = "simplify" =>
    /\ in_low = {v \in occurring \ removed : degree[v] < NumColors}
    /\ {low_degree[k] : k \in DOMAIN low_degree} = in_low
    /\ \A j, k \in DOMAIN low_degree : low_degree[j] = low_degree[k] => j = k

(* What simplify keeps up to date instead of computing it anew is exact at
   every iteration: pick_node gives up on colouring a node for sure only when
   no node is certain to be colourable. *)
IncrementalStateExact == DegreesExact /\ LowQueueExact

(* Chaitin-Briggs: only a node taken out with significant degree can end
   without a colour.  (The final sort puts potential spills first; every spill
   is one.) *)
SpillsArePotential == spilled \subseteq potential_spills

(* Nothing is lost between the two loops: every vreg is in exactly one of the
   places it can be, and at the end each has a register or a slot. *)
OnStack == {stack[k] : k \in DOMAIN stack}

EveryVregPlaced ==
  /\ \A j, k \in DOMAIN stack : stack[j] = stack[k] => j = k
  /\ pc = "simplify" => OnStack = removed /\ DOMAIN coloring \cup spilled = {}
  /\ pc # "simplify" =>
       /\ OnStack \cup DOMAIN coloring \cup spilled = occurring
       /\ OnStack \cap (DOMAIN coloring \cup spilled) = {}
       /\ DOMAIN coloring \cap spilled = {}
  /\ pc = "done" => /\ stack = <<>>
                    /\ {spill_order[k] : k \in DOMAIN spill_order} = spilled

(* simplify and select end, with no node forgotten in the graph. *)
ColoringTerminates == <>Colored
=============================================================================
