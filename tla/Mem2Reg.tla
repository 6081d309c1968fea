------------------------------ MODULE Mem2Reg -------------------------------
(* Mem2RegPass of src/opt/mem2reg.rs on one function: allocas that are only
   loaded and stored become SSA values.  The pass computes dominators (module
   Dominators), chooses the variables, puts phis where values meet (in the
   order of several hash tables, which is arbitrary), and renames along the
   dominator tree.

   When it is done the function runs twice, once as it was and once as the pass
   left it, a block at a time along the same path. *)
EXTENDS Dominators, IrExecution

CONSTANTS
  MaxLocal,       \* bound: locals are 1 .. MaxLocal
  Functions,      \* the functions considered: [succs, blocks, next_vreg]
  SingleDefLimit, \* SINGLE_DEF_LIMIT
  MaxBlocks       \* bound on the blocks executed

Id == 1 .. MaxLocal

Stmt ==
  {Alloca(d, t) : d \in Id, t \in {"i32", "ptr"}}
    \cup [op : {"load"}, dst : Id, ptr : Operand]
    \cup [op : {"store"}, src : Operand, ptr : Operand]
    \cup [op : {"gep", "call"}, dst : Id, arg : Operand]

(* What the generator makes: no local is defined twice, and in reachable code
   what is read has been defined, before or in a block above.  (A parameter is
   defined at the start of the entry.) *)
DefinedOnce(code) ==
  \A b, c \in Block : \A j \in DOMAIN code[b], k \in DOMAIN code[c] :
    Defines(code[b][j]) \cap Defines(code[c][k]) # {} => b = c /\ j = k

DefinedFirst(flow, code) ==
  \A b \in Reachable(flow) : \A k \in DOMAIN code[b] :
    \A o \in ReadOperands(code[b][k]) : o.kind = "local" =>
      \/ \E j \in 1 .. k - 1 : o.id \in Defines(code[b][j])
      \/ \E d \in Dominators(flow, b) \ {b} : \E j \in DOMAIN code[d] :
           o.id \in Defines(code[d][j])

DefinedBelow(code, bound) ==
  \A b \in Block : \A j \in DOMAIN code[b] : \A i \in Defines(code[b][j]) : i < bound

(* There are no pointer constants: an address is an alloca's (IrExecution
   counts them downwards from -1), never a number in the program. *)
ConstantsPlain(code) ==
  \A b \in Block : \A k \in DOMAIN code[b] : \A o \in ReadOperands(code[b][k]) :
    o.kind = "const" => o.id >= 0

ASSUME FunctionsAssumption ==
  /\ MaxLocal \in Nat /\ SingleDefLimit \in Nat /\ MaxBlocks \in Nat
  /\ \A f \in Functions :
       /\ f.succs \in [Block -> Seq(Block)]
       /\ f.blocks \in [Block -> Seq(Stmt)]
       /\ f.next_vreg \in Id
       /\ DefinedOnce(f.blocks) /\ DefinedBelow(f.blocks, f.next_vreg)
       /\ DefinedFirst(f.succs, f.blocks)
       /\ ConstantsPlain(f.blocks)

VARIABLES
  blocks,                \* the function, with succs of Dominators
  promotable,            \* the variables chosen
  next_vreg,
  unplaced,              \* variables whose phis are still to be placed
  worklist, frontier,    \* of the variable being placed, which is the last of
  var,                   \*   those taken from unplaced
  phis,                  \* PhiPlacement: per block, records [var, dst, incomings]
  calls,                 \* calls of rename_block under way: records
                         \*   [block, at, pushed, added, children]
  roots,                 \* dominator tree roots still to be renamed
  var_stack, alias_map,
  rewritten,             \* statements of the result, without its phis
  at, before,            \* the block the function is to run, and the one it ran
  run, ssa,              \* its two machine states
  executed               \* how many blocks it ran

function == <<dominatorsVars, blocks>>
placing == <<unplaced, worklist, frontier, var>>
renaming == <<calls, roots, var_stack, alias_map, rewritten>>
running == <<at, before, run, ssa, executed>>
mem2regVars == <<blocks, promotable, next_vreg, placing, phis, renaming, running>>
vars == <<dominatorsVars, mem2regVars>>
info == <<graph, search, idom, changed, scan>>   \* all of Dominators but phase
-----------------------------------------------------------------------------
(* AllocaAnalysis::from_blocks *)
Candidates ==
  {v \in Id : \E b \in Block : \E k \in DOMAIN blocks[b] : blocks[b][k] = Alloca(v, "i32")}

Loads(s, v) == s.op = "load" /\ s.ptr = Local(v)
Stores(s, v) == s.op = "store" /\ s.ptr = Local(v)

DefBlocks(v) == {b \in Block : \E k \in DOMAIN blocks[b] : Stores(blocks[b][k], v)}
HasLoad(v) == \E b \in Block : \E k \in DOMAIN blocks[b] : Loads(blocks[b][k], v)

LoadBeforeStoreBlocks(v) ==
  {b \in Block : \E k \in DOMAIN blocks[b] :
     Loads(blocks[b][k], v) /\ \A j \in 1 .. k - 1 : ~Stores(blocks[b][j], v)}

Invalid(v) ==
  \E b \in Block : \E k \in DOMAIN blocks[b] : Local(v) \in UseOperands(blocks[b][k])

(* promotable_vars *)
DominatedByDef(v) ==
  \A b \in LoadBeforeStoreBlocks(v) : \E d \in DefBlocks(v) : d # b /\ TreeDominates(idom, d, b)

PromotableVars ==
  LET usable == {v \in Candidates : ~Invalid(v) /\ DefBlocks(v) # {} /\ DominatedByDef(v)}
      single == {v \in usable : Cardinality(DefBlocks(v)) <= 1}
  IN  IF Cardinality(single) <= SingleDefLimit THEN usable ELSE usable \ single

(* BackwardLiveness::compute for one fact: the least solution.  A variable is
   live where it may be loaded before it is stored. *)
LiveFrom(flow, gen, kill) ==
  LET earlier(X) == {b \in Block \ kill : ToSet(flow[b]) \cap X # {}}
      within[k \in Nat] == IF k = 0 THEN gen ELSE within[k - 1] \cup earlier(within[k - 1])
  IN  within[N]

LiveIn(v) == LiveFrom(succs, LoadBeforeStoreBlocks(v), DefBlocks(v))
-----------------------------------------------------------------------------
Idle == [env |-> <<>>, calls |-> 0, out |-> <<>>, mem |-> <<>>]
Machine == [Idle EXCEPT !.env = [i \in Id |-> Poison],
                        !.mem = [a \in {Address(i) : i \in Id} |-> Undefined]]

Init ==
  /\ \E f \in Functions : DominatorsInit(f.succs) /\ blocks = f.blocks /\ next_vreg = f.next_vreg
  /\ promotable = {} /\ unplaced = {}
  /\ worklist = <<>> /\ frontier = {} /\ var = None
  /\ phis = [b \in Block |-> <<>>]
  /\ calls = <<>> /\ roots = {}
  /\ var_stack = <<>> /\ alias_map = <<>>
  /\ rewritten = [b \in Block |-> <<>>]
  /\ at = Entry /\ before = None /\ executed = 0
  /\ run = Idle /\ ssa = Idle

(* The dominators are known: with nothing to promote the pass returns. *)
ComputeDominators == DominatorsNext /\ UNCHANGED mem2regVars

ChooseVariables ==
  /\ Done /\ PromotableVars # {}
  /\ promotable' = PromotableVars
  /\ phase' = "place"
  /\ unplaced' = {v \in promotable' : HasLoad(v)}
  /\ roots' = Roots(idom)
  /\ var_stack' = [v \in promotable' |-> <<>>]
  /\ UNCHANGED <<info, blocks, next_vreg, worklist, frontier, var, phis, calls, alias_map,
                 rewritten, running>>
-----------------------------------------------------------------------------
(* place_phis: the outer loop, over a HashMap. *)
PlaceVariable ==
  /\ phase = "place" /\ worklist = <<>> /\ frontier = {}
  /\ \E v \in unplaced :
       /\ var' = v
       /\ unplaced' = unplaced \ {v}
       /\ \E order \in SetToSeqs(DefBlocks(v)) : worklist' = order
  /\ UNCHANGED <<function, promotable, next_vreg, frontier, phis, renaming, running>>

PopWorklist ==
  /\ phase = "place" /\ worklist # <<>> /\ frontier = {}
  /\ frontier' = Frontiers(succs, idom)[Head(worklist)]
  /\ worklist' = Tail(worklist)
  /\ UNCHANGED <<function, promotable, next_vreg, unplaced, var, phis, renaming, running>>

HasPhi(b, v) == \E i \in DOMAIN phis[b] : phis[b][i].var = v

(* A phi is a definition too. *)
RequeueNever(y) == worklist
Requeue(y) == IF y \in DefBlocks(var) THEN worklist ELSE Append(worklist, y)

ConsiderFrontier ==
  /\ \E y \in frontier :
       /\ frontier' = frontier \ {y}
       /\ IF y \in LiveIn(var) /\ ~HasPhi(y, var)
          THEN /\ next_vreg \in Id
               /\ phis' = [phis EXCEPT ![y] =
                             Append(@, [var |-> var, dst |-> next_vreg, incomings |-> <<>>])]
               /\ next_vreg' = next_vreg + 1
               /\ worklist' = Requeue(y)
          ELSE UNCHANGED <<phis, next_vreg, worklist>>
  /\ UNCHANGED <<function, promotable, unplaced, var, renaming, running>>

StartRenaming ==
  /\ phase = "place" /\ unplaced = {} /\ worklist = <<>> /\ frontier = {}
  /\ phase' = "rename"
  /\ UNCHANGED <<info, blocks, promotable, next_vreg, placing, phis, renaming, running>>
-----------------------------------------------------------------------------
Resolve(o) ==
  LET end[p \in Operand] ==
        IF p.kind = "local" /\ p.id \in DOMAIN alias_map THEN end[alias_map[p.id]] ELSE p
  IN  end[o]

CurrentValue(v) ==
  IF var_stack[v] = <<>> THEN Const(0) ELSE Resolve(Last(var_stack[v]))

(* A call of rename_block starts by pushing the results of the phis. *)
PhiVars(b) == [i \in DOMAIN phis[b] |-> phis[b][i].var]

Called(b) == [block |-> b, at |-> 1, pushed |-> PhiVars(b), added |-> {},
              children |-> Children(idom, b)]

(* A block has one phi for a variable at most (PhiPlacement::lookup). *)
PhiOf(b, v) == CHOOSE i \in DOMAIN phis[b] : phis[b][i].var = v

Pushed(stacks, b) ==
  [v \in promotable |-> IF HasPhi(b, v) THEN Append(stacks[v], Local(phis[b][PhiOf(b, v)].dst))
                        ELSE stacks[v]]

Least(S) == CHOOSE b \in S : \A c \in S : b <= c

(* Renamer::run, with clear_state. *)
RenameRoot ==
  /\ phase = "rename" /\ calls = <<>> /\ roots # {}
  /\ LET b == Least(roots) IN
       /\ roots' = roots \ {b}
       /\ calls' = <<Called(b)>>
       /\ var_stack' = Pushed([v \in promotable |-> <<>>], b)
       /\ alias_map' = <<>>
  /\ UNCHANGED <<function, promotable, next_vreg, placing, phis, rewritten, running>>

Frame == calls[Len(calls)]
ThisStmt == blocks[Frame.block][Frame.at]
Reading == calls # <<>> /\ Frame.at <= Len(blocks[Frame.block])

IsPromoted(o) == o.kind = "local" /\ o.id \in promotable

(* One statement of the block: removed, or kept with its uses renamed. *)
RenameAlloca ==
  /\ Reading /\ ThisStmt.op = "alloca" /\ ThisStmt.dst \in promotable
  /\ calls' = [calls EXCEPT ![Len(calls)].at = @ + 1]
  /\ UNCHANGED <<function, promotable, next_vreg, placing, phis, roots, var_stack,
                 alias_map, rewritten, running>>

RenameStore ==
  /\ Reading /\ ThisStmt.op = "store" /\ IsPromoted(ThisStmt.ptr)
  /\ LET v == ThisStmt.ptr.id IN
       /\ var_stack' = [var_stack EXCEPT ![v] = Append(@, Resolve(ThisStmt.src))]
       /\ calls' = [calls EXCEPT ![Len(calls)].at = @ + 1,
                                 ![Len(calls)].pushed = Append(@, v)]
  /\ UNCHANGED <<function, promotable, next_vreg, placing, phis, roots, alias_map,
                 rewritten, running>>

RenameLoad ==
  /\ Reading /\ ThisStmt.op = "load" /\ IsPromoted(ThisStmt.ptr)
  /\ LET i == ThisStmt.dst IN
       /\ alias_map' = [j \in DOMAIN alias_map \cup {i} |->
                          IF j = i THEN CurrentValue(ThisStmt.ptr.id) ELSE alias_map[j]]
       /\ calls' = [calls EXCEPT ![Len(calls)].at = @ + 1,
                                 ![Len(calls)].added = @ \cup {i}]
  /\ UNCHANGED <<function, promotable, next_vreg, placing, phis, roots, var_stack,
                 rewritten, running>>

Resolved(s) == MapUses(s, [o \in ReadOperands(s) |-> Resolve(o)])
RenameOther ==
  /\ Reading
  /\ ~(ThisStmt.op = "alloca" /\ ThisStmt.dst \in promotable)
  /\ ~(ThisStmt.op \in {"load", "store"} /\ IsPromoted(ThisStmt.ptr))
  /\ rewritten' = [rewritten EXCEPT ![Frame.block] = Append(@, Resolved(ThisStmt))]
  /\ calls' = [calls EXCEPT ![Len(calls)].at = @ + 1]
  /\ UNCHANGED <<function, promotable, next_vreg, placing, phis, roots, var_stack,
                 alias_map, running>>

(* The phis of every successor learn the values at the end of the block. *)
Edges(b, y) == Occurrences(succs[b], y)

FillSuccessors ==
  /\ calls # <<>> /\ Frame.at = Len(blocks[Frame.block]) + 1
  /\ phis' = [y \in Block |-> [i \in DOMAIN phis[y] |->
       [phis[y][i] EXCEPT !.incomings = @ \o
          [e \in 1 .. Edges(Frame.block, y) |->
             [label |-> Frame.block, value |-> CurrentValue(phis[y][i].var)]]]]]
  /\ calls' = [calls EXCEPT ![Len(calls)].at = @ + 1]
  /\ UNCHANGED <<function, promotable, next_vreg, placing, roots, var_stack, alias_map,
                 rewritten, running>>

Filled == calls # <<>> /\ Frame.at = Len(blocks[Frame.block]) + 2

RenameChild ==
  /\ Filled /\ Frame.children # {}
  /\ LET c == Least(Frame.children) IN
       /\ calls' = Append([calls EXCEPT ![Len(calls)].children = @ \ {c}], Called(c))
       /\ var_stack' = Pushed(var_stack, c)
  /\ UNCHANGED <<function, promotable, next_vreg, placing, phis, roots, alias_map,
                 rewritten, running>>

(* Back to the parent: the aliases and the pushed values are taken away. *)
Popped ==
  [v \in promotable |->
     SubSeq(var_stack[v], 1, Len(var_stack[v]) - Occurrences(Frame.pushed, v))]

LeaveBlock ==
  /\ Filled /\ Frame.children = {}
  /\ alias_map' = [j \in DOMAIN alias_map \ Frame.added |-> alias_map[j]]
  /\ var_stack' = Popped
  /\ calls' = Front(calls)
  /\ UNCHANGED <<function, promotable, next_vreg, placing, phis, roots, rewritten, running>>

Finish ==
  /\ phase = "rename" /\ calls = <<>> /\ roots = {}
  /\ phase' = "run"
  /\ run' = Machine /\ ssa' = Machine
  /\ UNCHANGED <<info, blocks, promotable, next_vreg, placing, phis, renaming, at, before, executed>>
-----------------------------------------------------------------------------
(* One block of both programs.  All phis of a block take their values at once;
   one that lists nothing for the block left behind gets none. *)
PhiValue(phi) ==
  LET fitting == {k \in DOMAIN phi.incomings : phi.incomings[k].label = before}
  IN  IF fitting = {} THEN Poison ELSE ValueOf(ssa, phi.incomings[Least(fitting)].value)

AfterPhis ==
  [ssa EXCEPT !.env = [i \in Id |->
     IF \E k \in DOMAIN phis[at] : phis[at][k].dst = i
     THEN PhiValue(phis[at][CHOOSE k \in DOMAIN phis[at] : phis[at][k].dst = i])
     ELSE @[i]]]

RunBlock ==
  /\ phase = "run" /\ executed < MaxBlocks /\ at # None
  /\ run' = ExecuteAll(run, blocks[at])
  /\ ssa' = ExecuteAll(AfterPhis, rewritten[at])
  /\ IF succs[at] = <<>> THEN at' = None ELSE at' \in ToSet(succs[at])
  /\ before' = at
  /\ executed' = executed + 1
  /\ UNCHANGED <<function, promotable, next_vreg, placing, phis, renaming>>

Next ==
  \/ ComputeDominators \/ ChooseVariables
  \/ PlaceVariable \/ PopWorklist \/ ConsiderFrontier \/ StartRenaming
  \/ RenameRoot \/ RenameAlloca \/ RenameStore \/ RenameLoad \/ RenameOther
  \/ FillSuccessors \/ RenameChild \/ LeaveBlock \/ Finish
  \/ RunBlock

Spec == Init /\ [][Next]_vars
-----------------------------------------------------------------------------
(* What phi lowering relies on: a phi lists every predecessor, unreachable ones
   too, exactly as often as there is an edge. *)
PhisComplete ==
  \A y \in Block : \A i \in DOMAIN phis[y] : \A b \in Block :
    Cardinality({k \in DOMAIN phis[y][i].incomings : phis[y][i].incomings[k].label = b})
      = Edges(b, y)

(* No two phis or statements of the result define the same local. *)
SingleDefinitions ==
  /\ \A b, c \in Block : \A i \in DOMAIN phis[b], j \in DOMAIN phis[c] :
       phis[b][i].dst = phis[c][j].dst => b = c /\ i = j
  /\ \A b, c \in Block : \A i \in DOMAIN phis[b], k \in DOMAIN rewritten[c] :
       phis[b][i].dst \notin Defines(rewritten[c][k])
  /\ DefinedOnce(rewritten)

DefinedAt(i) ==
  {b \in Block : \/ \E j \in DOMAIN phis[b] : phis[b][j].dst = i
                 \/ \E k \in DOMAIN rewritten[b] : i \in Defines(rewritten[b][k])}

DefinedBefore(i, b, k) ==
  \/ \E j \in DOMAIN phis[b] : phis[b][j].dst = i
  \/ \E j \in 1 .. k - 1 : i \in Defines(rewritten[b][j])
  \/ \E d \in DefinedAt(i) \ {b} : d \in Dominators(succs, b)

UsesDominated ==
  \A b \in Reachable(succs) :
    /\ \A k \in DOMAIN rewritten[b] : \A o \in ReadOperands(rewritten[b][k]) :
         o.kind = "local" => DefinedBefore(o.id, b, k)
    /\ \A j \in DOMAIN phis[b] : \A p \in ToSet(phis[b][j].incomings) :
         p.label \in Reachable(succs) /\ p.value.kind = "local" =>
           DefinedBefore(p.value.id, p.label, Len(rewritten[p.label]) + 1)

(* The result is in SSA form: no local is defined twice, and in reachable code
   every use is dominated by the definition, that of a phi at the end of the
   predecessor.  So nothing mentions a removed load or alloca, and no sibling
   in the dominator tree sees a value that does not dominate it. *)
WellFormedSsa ==
  phase = "run" /\ executed = 0 =>
    /\ SingleDefinitions
    /\ UsesDominated
    /\ PhisComplete

(* The pass keeps the meaning: along every path, both programs read the same
   values in every call, comparison and return. *)
SameOutput == run.out = ssa.out
=============================================================================
