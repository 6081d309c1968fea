---------------------------- MODULE PhiLowering -----------------------------
(* phi_lowering::plan of src/asm/aarch64/phi_lowering.rs and the emission loop
   of FunctionGenerator::generate: every control-flow edge into a block with
   phis gets the copies of that edge, either before the terminator of the block
   it leaves or, when that block has several successors, in a new block on the
   edge.

   A behaviour builds the plan and then runs the code it describes: where a
   bundle of copies stands, the moves of ParallelCopy are made one after the
   other.  The code numbers the temporaries of all bundles in one sequence;
   they are dead behind their bundle, so each starts anew here. *)
EXTENDS FlowGraph, ParallelCopy, FiniteSetsExt

CONSTANTS
  N,         \* number of basic blocks; block 0 is the entry
  NumVars,   \* registers 0 .. NumVars - 1 are the program's
  Functions  \* functions considered: records [label, term, phis, env]

Block == NodesOf(N)
Var == 0 .. NumVars - 1
Undefined == -1

(* The entry's label names the function: it is no jump target. *)
EntryLabel == 0

Terminators == [kind : {"return", "jump", "cjump", "fall"}, targets : Seq(Nat)]

(* A phi takes a register or a constant from each block whose label it lists. *)
VarOperand == {Local(v) : v \in Var} \cup {Const(c) : c \in Val}
PhisOver(labels) ==
  [dst : {Local(v) : v \in Var},
   incomings : UNION {[listed -> VarOperand] : listed \in SUBSET labels}]

ASSUME SizesAssumption ==
  /\ N \in Nat \ {0}
  /\ NumVars \in Nat /\ NumVars <= MaxReg + 1
  /\ 0 \in Val

ASSUME FunctionsAssumption ==
  \A x \in Functions :
    /\ x.label \in [Block -> Nat] /\ IsInjective(x.label)
    /\ \A b \in Block : x.label[b] = EntryLabel <=> b = 0
    /\ x.term \in [Block -> Terminators]
    /\ \A b \in Block : \A k \in DOMAIN x.term[b].targets :
         \E t \in Block \ {0} : x.term[b].targets[k] = x.label[t]
    /\ \A b \in Block : x.term[b].kind = "fall" => x.term[b].targets = <<>>
    /\ x.term[N - 1].kind # "fall"   \* generate() ends every body with a return
    /\ x.phis \in [Block -> Seq(PhisOver({x.label[b] : b \in Block}))]
    /\ \A b \in Block : DistinctDestinations(x.phis[b])
    /\ x.env \in [Reg -> Val]

VARIABLES
  label, term, phis,  \* the function: per block its label, its terminator, its phis
  pc,                 \* "place", "patch" or "run"
  edges,              \* edges (block, predecessor) place_phi_copies has still to visit
  inserts,            \* pending_inserts: copies to emit before a block's terminator
  splits,             \* the blocks put on edges
  next_block_id,      \* label of the next one
  patch,              \* number of splits whose terminator has been retargeted
  new_term,           \* terminators of the lowered function
  at                  \* running: position in the emitted stream, 1 based

function == <<label, term, phis>>
plan == <<pc, edges, inserts, splits, next_block_id, patch, new_term>>
moves == <<copies, env0, first, pending, env, next_vreg>>
allVars == <<function, plan, at, moves>>
-----------------------------------------------------------------------------
(* BasicBlock::successors: duplicates stay when both labels are equal. *)
BlockOf(l) == CHOOSE b \in Block : label[b] = l

Successors(b) ==
  IF term[b].kind = "fall"
  THEN IF b + 1 < N THEN <<b + 1>> ELSE <<>>
  ELSE [k \in DOMAIN term[b].targets |-> BlockOf(term[b].targets[k])]

Cfg == NewGraph([b \in Block |-> Successors(b)], N)

(* place_phi_copies visits the blocks with phis, and their predecessors. *)
EdgesInto(b) ==
  IF phis[b] = <<>> THEN <<>>
  ELSE [j \in DOMAIN Cfg.preds[b] |-> [block |-> b, pred |-> Cfg.preds[b][j]]]

EdgesToVisit ==
  LET listed[k \in 0 .. N] ==
        IF k = 0 THEN <<>> ELSE listed[k - 1] \o EdgesInto(k - 1)
  IN  listed[N]

(* build_parallel_copies: the phis' operands for one predecessor; a phi that
   lists none gets the constant 0; copies to itself are left out. *)
Source(phi, l) == IF l \in DOMAIN phi.incomings THEN phi.incomings[l] ELSE Const(0)

Needed(copy) == copy.src # copy.dst
PhiCopy(phi, p) == [dst |-> phi.dst, src |-> Source(phi, label[p])]

Copies(b, p) ==
  LET kept[k \in 0 .. Len(phis[b])] ==
        IF k = 0 THEN <<>>
        ELSE IF Needed(PhiCopy(phis[b][k], p))
        THEN Append(kept[k - 1], PhiCopy(phis[b][k], p))
        ELSE kept[k - 1]
  IN  kept[Len(phis[b])]

(* next_basic_block_id: one above every basic block's label. *)
CountedBlocks(ls) == Cardinality(ls) + 1
NextBlockId(ls) == IF ls = {} THEN 1 ELSE Max(ls) + 1

PlanInit ==
  /\ \E x \in Functions :
       label = x.label /\ term = x.term /\ phis = x.phis /\ env = x.env
  /\ env0 = env /\ first = NumVars /\ next_vreg = first
  /\ copies = <<>> /\ pending = <<>>
  /\ pc = "place"
  /\ edges = EdgesToVisit
  /\ inserts = [b \in Block |-> <<>>]
  /\ splits = <<>>
  /\ next_block_id = NextBlockId({label[b] : b \in Block} \ {EntryLabel})
  /\ patch = 0
  /\ new_term = term
  /\ at = 0
-----------------------------------------------------------------------------
AtPredAlways(p) == TRUE
SingleSuccessor(p) == Len(Cfg.succs[p]) = 1

(* One iteration of the inner loop of place_phi_copies. *)
Place ==
  /\ pc = "place"
  /\ edges # <<>>
  /\ edges' = Tail(edges)
  /\ LET b == Head(edges).block
         p == Head(edges).pred
         needed == Copies(b, p)
     IN  \/ /\ needed = <<>>
            /\ UNCHANGED <<inserts, splits, next_block_id>>
         \/ /\ needed # <<>> /\ SingleSuccessor(p)
            /\ inserts' = [inserts EXCEPT ![p] = @ \o needed]
            /\ UNCHANGED <<splits, next_block_id>>
         \/ /\ needed # <<>> /\ ~SingleSuccessor(p)
            /\ splits' = Append(splits, [pred |-> p, succ |-> label[b],
                                         label |-> next_block_id, copies |-> needed])
            /\ next_block_id' = next_block_id + 1
            /\ UNCHANGED inserts
  /\ UNCHANGED <<function, pc, patch, new_term, at, moves>>

StartPatch ==
  /\ pc = "place" /\ edges = <<>>
  /\ pc' = "patch"
  /\ UNCHANGED <<function, edges, inserts, splits, next_block_id, patch, new_term, at, moves>>

(* Both labels of a conditional jump are retargeted when both match. *)
RetargetedFirst(t, from, to) ==
  [t EXCEPT !.targets = IF t.targets # <<>> /\ Head(t.targets) = from
                        THEN <<to>> \o Tail(t.targets) ELSE t.targets]
Retargeted(t, from, to) ==
  [t EXCEPT !.targets = [k \in DOMAIN t.targets |->
                           IF t.targets[k] = from THEN to ELSE t.targets[k]]]

PatchedNext == patch + 1

(* One iteration of patch_terminators. *)
Patch ==
  /\ pc = "patch" /\ patch < Len(splits)
  /\ LET s == splits[patch + 1] IN
       new_term' = [new_term EXCEPT ![s.pred] = Retargeted(@, s.succ, s.label)]
  /\ patch' = PatchedNext
  /\ UNCHANGED <<function, pc, edges, inserts, splits, next_block_id, at, moves>>

(* The emitted stream: the blocks in order, then the split blocks; a label is
   the position it is emitted at, a block without terminator falls into the
   next position. *)
IsSplit(p) == p > N
LabelAt(p) == IF IsSplit(p) THEN splits[p - N].label ELSE label[p - 1]
Emitted == 1 .. N + Len(splits)
PositionsOf(l) == {p \in Emitted : LabelAt(p) = l}

(* The copies emitted at the end of a block, for which emit_parallel_copies is
   called if there are any. *)
Bundle(p) == IF IsSplit(p) THEN splits[p - N].copies ELSE inserts[p - 1]

Arrive(p) ==
  /\ at' = p
  /\ copies' = Bundle(p) /\ pending' = Bundle(p)
  /\ env0' = env /\ next_vreg' = first
  /\ UNCHANGED <<env, first>>

StartRun ==
  /\ pc = "patch" /\ patch = Len(splits)
  /\ pc' = "run"
  /\ Arrive(1)
  /\ UNCHANGED <<function, edges, inserts, splits, next_block_id, patch, new_term>>

(* One `mov`, of a ready copy or of a register that breaks a cycle. *)
Move ==
  /\ pc = "run" /\ Next
  /\ UNCHANGED <<function, plan, at>>

LeaveBlock ==
  /\ pc = "run" /\ ~IsSplit(at) /\ Done
  /\ LET t == new_term[at - 1] IN
       \/ t.kind = "fall" /\ at + 1 \in Emitted /\ Arrive(at + 1)
       \/ \E k \in DOMAIN t.targets : \E p \in PositionsOf(t.targets[k]) : Arrive(p)
  /\ UNCHANGED <<function, plan>>

LeaveSplit ==
  /\ pc = "run" /\ IsSplit(at) /\ Done
  /\ \E p \in PositionsOf(splits[at - N].succ) : Arrive(p)
  /\ UNCHANGED <<function, plan>>

PhiNext == Place \/ StartPatch \/ Patch \/ StartRun \/ Move \/ LeaveBlock \/ LeaveSplit

PhiSpec == PlanInit /\ [][PhiNext]_allVars
-----------------------------------------------------------------------------
(* No label is emitted twice: a split block's label is neither that of a block
   of the function nor that of another split block. *)
LabelsUnique == \A p, q \in Emitted : LabelAt(p) = LabelAt(q) => p = q

(* Once the terminators are patched, every label names one place and every copy
   bundle sits on exactly the edge it was made for: following a target leads,
   through at most one split block, to a successor of the block in the original
   function, and the copies met on the way are those of that edge. *)
Through(b, l) ==
  LET p == CHOOSE q \in Emitted : LabelAt(q) = l IN
  IF IsSplit(p)
  THEN [to |-> splits[p - N].succ, copies |-> inserts[b] \o splits[p - N].copies]
  ELSE [to |-> l, copies |-> inserts[b]]

EdgesCarryTheirCopies ==
  /\ LabelsUnique
  /\ pc = "run" =>
       \A b \in Block : \A k \in DOMAIN term[b].targets :
         Through(b, new_term[b].targets[k]) =
           [to |-> term[b].targets[k], copies |-> Copies(BlockOf(term[b].targets[k]), b)]

-----------------------------------------------------------------------------
(* The refinement: the lowered function does what the phis say.  In a split
   block control is still, abstractly, in the block the edge leaves, and the
   phis have not taken their values before control is behind it. *)
AbstractBlock ==
  IF pc # "run" THEN Undefined
  ELSE IF IsSplit(at) THEN splits[at - N].pred
  ELSE at - 1

PhiOf(b, v) == CHOOSE k \in DOMAIN phis[b] : phis[b][k].dst = Local(v)

AbstractPhis ==
  [b \in Block |->
     [v \in {phis[b][k].dst.id : k \in DOMAIN phis[b]} |->
        [p \in {q \in Block : label[q] \in DOMAIN phis[b][PhiOf(b, v)].incomings} |->
           phis[b][PhiOf(b, v)].incomings[label[p]]]]]

Ssa == INSTANCE SsaExecution WITH
  Running <- Undefined,
  Entry <- 0,
  succ <- [b \in Block |-> {Cfg.succs[b][k] : k \in DOMAIN Cfg.succs[b]}],
  phis <- AbstractPhis,
  block <- AbstractBlock,
  env <- [v \in Var |-> env0[v]]

ImplementsSsa == Ssa!Spec
=============================================================================
