------------------------- MODULE RegisterAllocation -------------------------
(* RegisterAllocator::allocate of src/asm/aarch64/register_allocator.rs and
   what it is for.  The two algorithms it calls appear by what they return:
   live sets that solve the dataflow equations (Liveness) and a proper partial
   colouring of the interference graph, every other vreg being spilled
   (Coloring).  This module builds the graph, places every vreg in a register
   or in a frame slot of its own, and then runs the instruction stream twice in
   lockstep, on virtual registers and on the places the allocator chose. *)
EXTENDS Integers, Sequences

CONSTANTS
  N,          \* number of instructions
  Vreg,       \* virtual registers
  NumColors,  \* allocatable physical registers
  Val,        \* what registers hold
  Op(_, _),   \* Op(i, operands): the value instruction i defines
  Inputs      \* records [succs, uses, def, live_in, live_out, coloring, spilled, regs]

Node == 0 .. N - 1
NoVreg == -1
Palette == 0 .. NumColors - 1

Register(c) == [kind |-> "reg", id |-> c]
Spill(s) == [kind |-> "spill", id |-> s]

(* build_gen_kill: gen is what an instruction uses, kill what it defines. *)
Solves(x) ==
  \A i \in Node :
    /\ x.live_out[i] = UNION {x.live_in[s] : s \in x.succs[i]}
    /\ x.live_in[i] = x.uses[i] \cup (x.live_out[i] \ {x.def[i]})

Present(uses, def) ==
  (UNION {uses[i] : i \in Node}) \cup ({def[i] : i \in Node} \ {NoVreg})

(* InterferenceGraph::build: what an instruction defines interferes with
   everything live after it, whether or not the definition itself is live. *)
ClashesIfLive(def, live_out, i, v) ==
  def[i] # v /\ v \in live_out[i] /\ def[i] \in live_out[i]
Clashes(def, live_out, i, v) == def[i] # v /\ v \in live_out[i]

Interferes(def, live_out, u, v) ==
  \E i \in Node : \/ def[i] = u /\ Clashes(def, live_out, i, v)
                  \/ def[i] = v /\ Clashes(def, live_out, i, u)

(* InterferenceGraph::color: see Coloring, its ProperColoring and its
   EveryVregPlaced. *)
Colors(x) ==
  /\ DOMAIN x.coloring \subseteq Present(x.uses, x.def)
  /\ \A v \in DOMAIN x.coloring : x.coloring[v] \in Palette
  /\ \A u, v \in DOMAIN x.coloring :
       Interferes(x.def, x.live_out, u, v) => x.coloring[u] # x.coloring[v]
  /\ x.spilled \in Seq(Vreg)
  /\ {x.spilled[k] : k \in DOMAIN x.spilled} = Present(x.uses, x.def) \ DOMAIN x.coloring
  /\ \A j, k \in DOMAIN x.spilled : x.spilled[j] = x.spilled[k] => j = k

Stream(x) ==
  /\ x.succs \in [Node -> SUBSET Node]
  /\ x.uses \in [Node -> SUBSET Vreg]
  /\ x.def \in [Node -> Vreg \cup {NoVreg}]
  /\ x.live_in \in [Node -> SUBSET Vreg]
  /\ x.live_out \in [Node -> SUBSET Vreg]

ASSUME ConstantsAssumption ==
  /\ N \in Nat \ {0}
  /\ NumColors \in Nat \ {0}
  /\ NoVreg \notin Vreg
  /\ \A i \in Node : \A S \in SUBSET Vreg : \A f \in [S -> Val] : Op(i, f) \in Val

(* regs: what the machine holds when the function is entered. *)
ASSUME InputsAssumption ==
  \A x \in Inputs :
    /\ Stream(x) /\ Solves(x) /\ Colors(x)
    /\ x.regs \in [Palette -> Val]

VARIABLES
  succs, uses, def,    \* the instruction stream
  live_in, live_out,   \* the result of BackwardLiveness::compute
  coloring,            \* the result of InterferenceGraph::color
  to_spill,            \* spilled vregs without a slot yet
  locations,           \* RegisterAllocation::locations
  pc,                  \* "allocate" or "run"
  at,                  \* the instruction about to execute
  env,                 \* contents of the virtual registers
  regs, slots          \* contents of the physical registers and of the frame's spill slots

stream == <<succs, uses, def, live_in, live_out, coloring>>
allocVars == <<succs, uses, def, live_in, live_out, coloring, to_spill, locations,
          pc, at, env, regs, slots>>
-----------------------------------------------------------------------------
AllocInit ==
  /\ \E x \in Inputs :
       /\ succs = x.succs /\ uses = x.uses /\ def = x.def
       /\ live_in = x.live_in /\ live_out = x.live_out
       /\ coloring = x.coloring /\ to_spill = x.spilled
       /\ regs = x.regs
  /\ slots = <<>>
  /\ locations = [v \in DOMAIN coloring |-> Register(coloring[v])]
  /\ pc = "allocate"
  /\ at = 0
  /\ env = [v \in Vreg |-> regs[0]]

FirstSlot == 1
NewSlot == Len(slots) + 1

(* `for vreg in spilled`: a slot of the frame for each, in this order. The
   frame grows by the slot; what it holds is arbitrary. *)
ReserveSlot ==
  /\ pc = "allocate"
  /\ to_spill # <<>>
  /\ to_spill' = Tail(to_spill)
  /\ locations' = [v \in DOMAIN locations \cup {Head(to_spill)} |->
                     IF v = Head(to_spill) THEN Spill(NewSlot) ELSE locations[v]]
  /\ \E w \in Val : slots' = Append(slots, w)
  /\ UNCHANGED <<stream, pc, at, env, regs>>

Content(l) == IF l.kind = "reg" THEN regs[l.id] ELSE slots[l.id]

(* A vreg no instruction has defined yet holds whatever its place does. *)
Enter ==
  /\ pc = "allocate"
  /\ to_spill = <<>>
  /\ pc' = "run"
  /\ env' = [v \in Vreg |-> IF v \in DOMAIN locations THEN Content(locations[v]) ELSE env[v]]
  /\ UNCHANGED <<stream, to_spill, locations, at, regs, slots>>

VirtualResult(i) == Op(i, [v \in uses[i] |-> env[v]])
PhysicalResult(i) == Op(i, [v \in uses[i] |-> Content(locations[v])])

SetPlace(l, value) ==
  IF l.kind = "reg"
  THEN regs' = [regs EXCEPT ![l.id] = value] /\ slots' = slots
  ELSE slots' = [slots EXCEPT ![l.id] = value] /\ regs' = regs

(* One instruction, on both machines; the branch it takes is open. *)
Step ==
  /\ pc = "run"
  /\ at' \in succs[at]
  /\ IF def[at] = NoVreg
     THEN UNCHANGED <<env, regs, slots>>
     ELSE /\ env' = [env EXCEPT ![def[at]] = VirtualResult(at)]
          /\ SetPlace(locations[def[at]], PhysicalResult(at))
  /\ UNCHANGED <<stream, to_spill, locations, pc>>

AllocNext == ReserveSlot \/ Enter \/ Step

AllocSpec == AllocInit /\ [][AllocNext]_allocVars
-----------------------------------------------------------------------------
TypeOK ==
  /\ Stream([succs |-> succs, uses |-> uses, def |-> def,
             live_in |-> live_in, live_out |-> live_out])
  /\ to_spill \in Seq(Vreg)
  /\ DOMAIN locations \subseteq Present(uses, def)
  /\ \A v \in DOMAIN locations :
       \/ \E c \in Palette : locations[v] = Register(c)
       \/ \E s \in DOMAIN slots : locations[v] = Spill(s)
  /\ pc \in {"allocate", "run"}
  /\ at \in Node
  /\ env \in [Vreg -> Val]
  /\ regs \in [Palette -> Val]
  /\ slots \in Seq(Val)

(* No two vregs that interfere are given the same place: not the same register,
   and never the same spill slot. *)
InterferenceRespected ==
  \A u, v \in DOMAIN locations :
    /\ u # v /\ locations[u].kind = "spill" => locations[u] # locations[v]
    /\ Interferes(def, live_out, u, v) => locations[u] # locations[v]

(* A value that is still going to be read is not overwritten: every live vreg's
   place holds its value. *)
LiveValuesIntact ==
  pc = "run" =>
    \A v \in live_in[at] \cap DOMAIN locations : Content(locations[v]) = env[v]

(* The allocator's purpose: every operand an instruction reads is in its place
   when the instruction executes, whatever was computed in between. *)
OperandsIntact ==
  pc = "run" =>
    \A v \in uses[at] : v \in DOMAIN locations /\ Content(locations[v]) = env[v]
=============================================================================
