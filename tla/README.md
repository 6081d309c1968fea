# TLA+ models and proofs for teac

teac compiles TeaLang to AArch64 assembly.  It is a sequential program: one
thread, no persistent state, no messages.  What is hard in it is what is hard
in compilers: long chains of steps, each of which leaves the program being
compiled in a representation the next step relies on, worklists whose order is
arbitrary, incremental bookkeeping that must stay exact, and rewritings that
must not change what the compiled program computes.  The specifications here
model those algorithms as state machines, and where the purpose of an
algorithm is to preserve meaning they run its output next to its input.

Contents: 1 the system, 2 the modules and the code they stand for, 3 the runs,
4 disagreements found, 5 the proofs, 6 what is not modelled, 7 the plan.
PROJECT.json holds the definition-by-definition map to source lines, the list
of hazards with the properties that answer them, and the mutations of the
model each property is known to reject.

## 1. The system

    source text
      | parser (pest grammar)                            src/parser, src/ast
      v
    AST
      | IrGenerator: use statements, signatures, types,  src/ir/gen
      |   one FunctionGenerator per body, then
      |   harvest_function_irs cuts the flat statement
      |   list into basic blocks
      v
    IR module (functions of basic blocks, alloca/load/store)
      | Optimizer: Mem2RegPass                           src/opt
      |   (dominators, phi placement, renaming)
      v
    IR module in SSA form
      | AArch64AsmGenerator, per function:               src/asm
      |   FrameLayout   a slot per alloca
      |   handle_arguments, FunctionGenerator
      |     (phi_lowering::plan, emit_parallel_copies)   instructions on vregs
      |   RegisterAllocator
      |     (Graph, BackwardLiveness, InterferenceGraph,
      |      spill slots, InstRewriter)                  physical registers
      v
    AsmPrinter                                           text

Components call each other; they share the IR module (rewritten in place by
the passes) and, within the back-end, the frame, which grows while the
register allocator reserves spill slots.  There are no callbacks besides the
two lists of passes, no threads, and nothing outlives a compilation; so there
are no hazards of concurrency, crashes or delivery to look for.

| component | state it keeps | operations | what is hard | what makes it correct |
| --- | --- | --- | --- | --- |
| Parser (`tealang.pest`, `src/parser`) | the text, the pairs recognised in it | the grammar's rules, `parse_*` | ordered choice: the first rule that matches wins, and keywords are identifiers too; left association out of flat lists | a function reads as it was written |
| Module registration (`gen/module_gen.rs`) | registry of functions, link names, structs; globals; function list | `handle_use_stmt`, `handle_fn_decl`, `handle_fn_def`, `handle_struct_def`, `handle_global_var_decl`, `generate` | three passes over elements in any order, repeated and clashing names | acceptance does not depend on order; one symbol per function; bodies reach their names |
| Static evaluation (`gen/static_eval.rs`) | none | `handle_right_val_static` | checked arithmetic here, wrapping arithmetic at run time | a static value is the one execution gives |
| Type inference (`gen/type_infer.rs`) | environment, resolved types | `infer_function` | fork and merge at branches, types learned late | exactly the typeable bodies pass; the generator agrees |
| Function generation (`gen/function_gen.rs`, `ir/function.rs`) | flat statements, scopes, labels | `handle_*`, `harvest_function_irs` | short circuit, scopes, code after jumps | the blocks do what the body says |
| Dominators (`opt/dominator.rs`) | order, idom, children, frontier | `compute`, `dominates` | iteration on irreducible graphs, unreachable blocks | idom and frontier as defined by paths |
| Mem2Reg (`opt/mem2reg.rs`) | value stacks, aliases, phis | `run` | hash order, undefined values, dead code | SSA, and the same behaviour |
| Graph, BackwardLiveness (`common/graph.rs`) | successor and predecessor lists; `live_in`, `live_out`, worklist, `in_worklist` | `new`, `compute` | worklist order, loops, the flags cached beside the queue | stops with the least solution |
| Bit sets, interference (`common/bitset.rs`, `register_allocator.rs`) | words; adjacency | `insert`, `union_with`, `transfer*`, `iter`, `build` | word boundaries, empty words, both ends of an edge | the sets mean what the solver needs; edges exactly where a definition meets a live value |
| Instruction selection (`function_generator.rs`) | condition map, next vreg | `emit_*`, `lower_*` | conditions looked up by vreg while the flags are those of the last comparison; address arithmetic in several shapes | each statement has its meaning |
| Phi lowering (`phi_lowering.rs`) | pending inserts, split edges, next label | `plan`, emission | critical and double edges, label clashes | copies run on their edge only |
| Parallel copies (`function_generator.rs`) | pending copies, next vreg | `emit_parallel_copies` | chains and cycles | all copies as one assignment |
| Frame and layout (`asm/common`, `frame.rs`) | offsets, frame size | `alloc`, `from_struct_types` | alignment, order of a hash map | nothing overlaps |
| Calls (`aapcs.rs`, `frame.rs`, `aarch64.rs`, `printer.rs`) | outgoing area, save area, sp | `classify_args`, `emit_call`, `handle_arguments` | sp moves between the steps of a call | arguments arrive, registers survive |
| Colouring (`register_allocator.rs`) | degrees, removed set, low queue, stack | `simplify`, `select` | exact incremental degrees, potential spills | proper, nothing lost |
| Register allocation (`register_allocator.rs`) | locations, frame | `allocate` | dead definitions, slots shared by mistake | every operand is in its place |
| Rewriting and printing (`register_allocator.rs`, `printer.rs`) | scratch registers, sp | `rewrite`, `emit_*` | two scratch registers, limits of encodings | each instruction has its effect and no other |

Around these stand parts without state of their own that matters here: the
display of the AST, the printers of IR, the driver, the lists of passes, and
`experimental/return_infer.rs`, an exercise left open.  Section 6 says why
they are not modelled.

## 2. The modules

The modules follow the pipeline from its end to its front.  Names of
operators are the names in the code, in the case TLA+ modules use
(`align_up` is `AlignUp`), or say which condition of it they are
(`find_ready_copy` selects with `Ready`).  An action is one iteration of a loop or
one call of a handler; loops over hash tables choose freely what comes next.
A module with `Inputs`, `Programs`, `Functions`, `Calls`, `Sources` or `Bodies` gets
these as a set and a behaviour starts by choosing one, so one run explores
many programs.

**Bitset, FlowGraph, Liveness, LivenessSpec, InterferenceGraph.**  `Bitset`
is the vector of words, an operation that also reports a change being two
operators.  `NewGraph` is `Graph::new`; successor and predecessor lists are
sequences because an edge can be there twice.  `Liveness` is
`BackwardLiveness::compute` on bit sets: `worklist` and `in_worklist` are the
`VecDeque` and the flag vector, one action pops a node, recomputes it and
requeues its dependents.  `InterferenceGraph` is the frame around it in
`allocate`: `build_gen_kill` before, `InterferenceGraph::build` behind, one
instruction at a time.  `LivenessSpec` says what callers are promised without
mentioning a queue: a value is live where some path reads it before it is
overwritten.

**ParallelCopy, ParallelAssign.**  `emit_parallel_copies`: either a ready copy
is emitted (`find_ready_copy` takes the first) or a cycle is broken by saving
the destination of the first pending copy in a fresh vreg and redirecting the
sources that name it.  The register file `env` is what the emitted moves have
done so far.  `ParallelAssign` is the single simultaneous assignment that the
phi nodes mean.

**PhiLowering, SsaExecution.**  `plan` visits every block and every phi and
distributes copies over predecessors, splitting edges that leave a block with
two successors; emission follows the order of `FunctionGenerator::generate`.
The second half of a behaviour runs the code the plan describes.  Where a
bundle of copies stands it hands the register file to `ParallelCopy`, which
`PhiLowering` extends, and goes on when the last move is made.  `SsaExecution`
is the machine that runs the function with its phis; it makes one step for
each of these bundles and the moves in between are its stutters.

**Coloring.**  `InterferenceGraph::color`: `PickLow` and `PickSpill` are
`pick_node`, `LowerDegree` is one iteration over the neighbours of the node
taken out, `Select` pops the stack and gives the first free register.  The
lazy deletion in the queue, the order of `max_by_key` and the final sort of the
spills are all there.

**RegisterAllocation.**  `RegisterAllocator::allocate`: interference from
live sets, a slot per spilled vreg, and then every instruction executed on
virtual registers and on the places.  The two algorithms it calls are
represented by their contracts, `Solves` (the dataflow equations) and `Colors`
(a proper partial colouring), which are what InterferenceProofs proves of them.

**CallSequence.**  `Classify` is `classify_args`, as a recursive function over
the list of types.  The actions then execute the call: save bands, reserve,
stack and register arguments, `bl`, prologue, `handle_arguments`, a body that
may destroy whatever it is allowed to, epilogue, release, restore and the
result.

**Declarations** composes **ModuleRegistration** (which extends **StaticEval**)
and **FrameLayout**.  `ModuleRegistration` has
the passes of `IrGenerator::generate` as phases, one action per kind of
top-level element; every early return is `Fail`.  `StaticEval` is pure:
`Static` is what the compiler computes for an initializer and `Executed` what
the generated code would.  `FrameLayout` places one field per step and then
one slot per step, allocas in any order.  `GenerateAssembly` of
`Declarations` is the point where the registry built by the first becomes the
input of the second, in the order of the registry's `IndexMap`.

**Dominators** and **Mem2Reg** (with `IrExecution`).
`Mem2Reg` extends `Dominators`; the phases of one behaviour are the depth-first
search, the passes that improve `idom`, choice of variables, phi placement,
the recursion `rename_block` as an explicit stack of calls, and finally an
execution of the function before and after, along the same path.  Phi
placement asks BackwardLiveness which blocks need a variable; here it is asked
by the fixpoint it returns.

**InstructionSelection, InstRewriting, AsmPrinter, A64Machine.**
`InstructionSelection` turns one IR statement after the other into
instructions on vregs (`Select`, with `Emitted` for the `emit_*` of each form
and `Accepts` for its refusals), in the order phi copies put before the
terminator come in.  It extends `InstRewriting`, which is
`InstRewriter`, one instruction form at a time; `AsmPrinter` expands each result
into machine instructions, and `A64Machine` runs them.  So one behaviour has the statement, the instruction on
vregs and the machine code of the same program, and `Interpret` says what the
statements mean: a comparison leaves a value there, while in the code it leaves
flags.  The architecture is scaled: 8
values in a chunk of a wide move (65536 in A64), immediates below 4 (4096),
unscaled offsets down to -24 (-256).  The printer's stash is 16 bytes in the
code (`SCRATCH_SPILL_SLOT`) and 12 here, the largest the scaled immediate
allows.  All comparisons are against these parameters, so both sides of each
limit are reached with small numbers.

**Ast, Parser.**  `Ast` has the constructors of the tree.  `Parser` has the
grammar of tealang.pest as data, rule by rule, and `Match` for pest's ordered
choice, so that what a text means is decided here as there by which alternative
comes first.  A text is a sequence of words, numbers and single signs, each
knowing whether a space, a comment or nothing follows: that is what the
atomic keyword rules look ahead for, and what keeps two signs from being one
operator.  The `Parse*` functions are those of src/parser, walking over the
pairs.  `Written` goes the other way, in four styles: `tight`, with as little
space as possible; `spaced`; `full` of comments, parentheses and empty else
branches; and `grouped`, the only one with parentheses around the value of a
return.

**StructuredProgram, FunctionLowering.**  `StructuredProgram` is an
abstract machine for TeaLang functions and the meaning against which the
lowering is judged: a stack of what is left to do, operands, and scopes of
names whose values are numbers, references, and aggregates of these.
`FunctionLowering` starts with a text (`ParseSource`), continues with the
generator's recursion as a stack of tasks (one action per `handle_*` and per
point where it returns), then `harvest_function_irs` statement by statement,
and at last runs both programs side by side, callees answering as they like and
writing into the arrays they are lent.  Operands carry their `Dtype`, as the
generator decides by it what is a load, an element or a member; memory
consists of the allocas as objects of many cells.  A literal is at most
`MaxLiteral`, which stands for the greatest i32.

**TypeInference.**  `process_*` of `type_infer.rs` as one walk over the body,
and the generator's own second walk with its scopes and slots, both over the
`Dtype`s of arrays, structs and references.  The rules they
should implement (`Typeable`) are stated without a walk: a typing exists under
which every statement is well-formed.

## 3. The runs

| run | what is explored | states |
| --- | --- | --- |
| `liveness_solver` | every graph of 3 nodes with up to two successors each (double edges included), every pattern of uses and definitions of two vregs that live in different words of a bit set | 299111 |
| `graph_coloring` | every interference graph on 5 vregs, one possibly absent, 2 colours | 24640 |
| `phi_lowering` | every flow graph of 3 blocks, every terminator, five phi lists on each block; one edge with every bundle of up to 4 copies among 4 registers and a constant | 242225 |
| `register_allocation` | streams of 3 instructions over 2 vregs, three control flows, every proper partial colouring in 2 registers | 945378 |
| `call_sequence` | every mix of up to 8 integer and floating-point arguments; calls of up to 4 arguments with 2 argument registers | 106926 |
| `mem2reg` | 7 shapes of five blocks with two or three variables; every flow graph of four blocks for the dominators | 813890 |
| `inst_rewriting` | every form of statement and instruction, blocks with comparisons, branches and edge copies; each vreg in a register, a near or a far slot | 91028 |
| `wide_literal` | a constant of two chunks (expected to violate) | |
| `function_lowering` | 1505 texts of about a thousand functions: branches, loops, nested conditions, scopes, arrays, structs, references, operators, and what is to be refused | 230608 |
| `keyword_as_name` | a return of a value in parentheses (expected to violate) | |
| `type_inference` | 4591 bodies around one untyped local | 41693 |
| `declarations` | up to 3 of 18 top-level elements, imports, thousands of initializers, nested structs and frames | 193370 |

Why the bounds are enough.

* *Liveness.*  Facts do not interact, so one of them is the general case for
  the solver; three nodes contain self loops, two-node loops, joins and
  unreachable nodes.  Interference needs two facts that meet: the second vreg is
  used one node before the first, and defined, where the first is not, one node
  before.  Words of two bits and a capacity of three put a word boundary
  between the two and leave a bit of the last word unused.  The safety part is
  proved for every size.
* *Parallel copies.*  With four registers there are two disjoint swaps, a
  cycle of three with a reader outside, and chains; `MaxReg = 6` leaves room for
  one temporary more than `TemporariesBounded` allows.  Also proved in general.
* *Colouring.*  Two colours and five vregs: the odd cycle and the five-clique
  force spills, and the queue empties while nodes are left.  Proved in general.
* *Phi lowering.*  Three blocks give critical edges, edges with the same target
  twice, self loops, and blocks that fall through.  Label numbers are chosen so
  that a label made from the number of blocks would collide.
* *Register allocation.*  Two vregs in two registers or two slots; three
  instructions give a value that is live across an unrelated definition and a
  definition nobody reads.  Proved in general.
* *Calls.*  With two argument registers, arguments three and four are on the
  stack, which makes the outgoing area odd and even; with eight mixed arguments
  both cursors overflow into the one stack cursor.
* *Mem2Reg.*  `SINGLE_DEF_LIMIT` is 1 instead of 256, so that functions on both
  sides of it exist, and with a third variable, past the limit, some in which variables
  with one definition stay in memory beside promoted ones.  `MaxBlocks = 7` lets
  each loop run twice.  The dominators
  are checked on all four-block graphs because the interesting one, the
  irreducible one that needs another pass, is rare among compiled functions.
* *Rewriting.*  See the scaled limits above.  The values are chosen so that a
  wrong operand gives a different result.
* *Selection.*  Blocks of up to a few statements: what can go wrong between two
  statements goes through the flags, the condition map or the fresh vregs, so
  each pair that uses them is there, with an edge copy between.
* *Lowering and inference.*  Each family of bodies combines two or three of the
  constructs whose interaction matters, with every nesting; single constructs
  are covered once each.  Numbers are modulo 3, which tells -1, 0 and 1 apart
  and has every result of a comparison.  Each function is written in the style
  that fits it least; those with parentheses or several operators in all of
  them.
* *Declarations.*  Three elements suffice for "declared, defined, used" in all
  orders and for a struct defined again behind one that contains it.  Words of
  three bits have every overflow there is, with few literals.

Fairness.  `Liveness` and `Coloring` assume weak fairness of their steps: the
code is sequential and does not stop by itself, so a step that can be taken is
taken.  `Terminates` and `ColoringTerminates` say that the loops end.  `ParallelCopy` has none of its
own: `TemporariesBounded` bounds the temporaries by the number of cycles, and
every other step removes a pending copy.  In `call_sequence`,
`function_lowering`, `type_inference` and `declarations` a behaviour that gets
stuck in the middle is a deadlock and an error; a finished one stutters in an
explicit action.  The other models end with their algorithm or with the program
they run, and their runs say `CHECK_DEADLOCK FALSE`.

Properties in one line each:

* `WorklistSound`, `BelowEverySolution`, `InterferenceExact`,
  `ImplementsLiveness`: flags and queue agree, and a node outside the queue
  satisfies its equations; nothing is claimed live that is not live in every
  solution; vregs are adjacent exactly if one is defined while the other is
  live; the result is the path definition of liveness.
* `ProperColoring`, `IncrementalStateExact`, `SpillsArePotential`,
  `EveryVregPlaced`: neighbours differ; cached degrees and queue are exact; only
  significant nodes spill; no vreg is lost or placed twice.
* `EdgesCarryTheirCopies`, `PendingSourcesIntact`, `TemporariesBounded`,
  `ImplementsSsa`: the copies of an edge are on that edge and no other, behind
  a label nothing else has; no pending copy has lost its source; one temporary
  per cycle; the lowered code, move by move, behaves as the phis say.
* `InterferenceRespected`, `OperandsIntact`: no two places shared by vregs that
  interfere; every instruction reads what it would read on virtual registers.
* `LocationsSound`, `ArgumentsDelivered`, `CallerStateRestored`,
  `CallerFrameUntouched`: argument places are disjoint, inside the outgoing
  area; callee and caller agree on them; registers and sp come back; no step of
  the callee writes the caller's frame other than the outgoing arguments.
* `PassesSound`, `ResultIsDominatorTree`, `WellFormedSsa`, `SameOutput`: idom
  chains stay ancestors that `intersect` can climb; idom, children and frontiers
  are those of the definition by paths; definitions dominate uses, phis have one
  operand per predecessor; the calls read the same values.
* `SelectionFaithful`, `SameEffect`, `OthersUntouched`, `AllEncodable`: the
  instructions selected leave in the vregs and in memory, and branch to, what
  the statements say; the printed code leaves the result the instruction asks
  for; other registers, slots and sp are as they
  were; no immediate or offset is out of range.
* `ParsedAsWritten`, `ErrorsExact`, `WellFormedIr`, `SameEvents`: the tree is the
  one the text was written from; exactly the functions that break the rules of
  the language are refused; each block ends once, jumps go to blocks, a
  conditional jump tests the last comparison of its block; the calls and results
  are those of the source.
* `ViewsInSync`, `ExactlyTypeable`, `StoresFit`: see TypeInference; the last
  leaves out the bodies of disagreement 6 below.
* `ExactlyConsistent`, `LinkageSound`, `SameAsExecuted`, `LayoutsSound`,
  `FrameSound`: accepted exactly when the elements agree; one symbol per
  function and every body under its own; static values are run-time values;
  fields, array elements and slots are disjoint and aligned.

## 4. Disagreements between code and documentation

Checked by a run:

1. `wide_literal`: `emit_mov` (printer.rs:171) prints any immediate as one
   `mov`.  A literal such as 100000 that is moved as it stands cannot be
   assembled, although TeaLang's `i32` literals have no bound of 16 bits
   (docs/tealang.md:25, 40).  `inst_rewriting` keeps to the immediates a move
   can carry.
2. `keyword_as_name`: "Identifiers cannot be keywords" (docs/tealang.md:30), but
   the rule `identifier` accepts them (tealang.pest:111), and call statements are
   tried before return statements (tealang.pest:235-238).  `return (x);` is a
   call of a function named `return`, which the generator does not know.  The
   one test that returns a value beginning with a parenthesis goes on behind it
   (tests/long_code/long_code.tea:100), where the call fails and the return gets
   its turn.  `function_lowering` leaves parentheses around a returned value
   out.

Seen while modelling, and visible in the models.  In the grammar:

3. A comment directly behind `i32`, `else`, `break`, `continue` or `return`
   keeps the keyword from being one (the lookaheads list white space and
   signs).  Behind `i32` the name is then that of a struct.
4. The operands of a comparison are expression units, so `a + b < c` needs
   parentheses, and a condition that is no comparison (`if done`, `!done`) is
   not in the grammar.
5. `-2147483648` is refused: the literal is read before its sign
   (`InvalidNumber`).

In inference and in generation:

6. Types that inference finds for locals declared in a branch are dropped when
   the branches are merged (type_infer.rs:357).  The generator then gives the
   slot the type i32, whatever was stored.  `StoresFit` says nothing of a body
   that has such a local (`Forgotten`), since its value may go on into others.
7. An index that is a still untyped local is accepted (type_infer.rs:500),
   while the comment at type_infer.rs:43-44 has every use before the first
   assignment refused.
8. `&p` of a reference parameter has a type in inference but is refused by the
   generator (function_gen.rs:599).  A `let` that makes a reference is accepted,
   with its type written (`let r: &[i32] = &a`, function_gen.rs:303-323) and
   without, although docs/tealang.md:122, 148 and 596 forbid it and call that
   "enforced semantically"; the reference may outlive the array it names.
   `WellFormed` leaves this rule out, so `ErrorsExact` counts such a function
   as within the rules; `function_lowering` runs it.
9. The type of a value assigned to an element or a member is not inferred nor
   compared; an index is taken for an i32 whatever it is; a member of an array of
   structs, without index, gets the address of an element.  The models
   have the code's answer, the sources of the runs stay within the rules.
10. A struct defined twice keeps its first place in the registry
    (module_gen.rs:546) so that it may stand in front of a struct it contains,
    which module_gen.rs:505-508 rules out.  Layout then fails with
    `MissingStructLayout`; `LayoutsSound` excludes programs that define a struct
    twice, and checks that nothing worse than this error happens.
11. Structs must be defined before they are nested (module_gen.rs:525), while
    docs/tealang.md:591 allows any order at top level.  This is
    `StructsGrounded` in `ExactlyConsistent`.
12. A struct may have fields of reference type: `handle_struct_def`
    (module_gen.rs:514-550) does not look, while docs/tealang.md:122, 163 and 596
    do not permit them.  `Consistent` leaves this rule out, so
    `ExactlyConsistent` counts such programs as consistent; `declarations` has
    them, and `LayoutsSound` covers their layouts.
13. The least i32 divided by -1 is reported as `DivisionByZero`
    (static_eval.rs:57) and not as the overflow that static_eval.rs:48-49
    promises.

Not disagreements, but worth knowing: the order of names in a signature is
compared although only types should matter; a function may be defined twice
with the same signature and the later body wins; a global and a function of one
name are not compared (module_gen.rs:390), though both become assembler symbols;
the number of initializers of an array is compared with its length neither for
globals nor for locals; `return;` is accepted in a function that returns i32.

## 5. The proofs

`tlapm` checks every theorem below for all values of the constants, from the
assumptions named in the modules and nothing else.

| module | theorems | assumptions on the constants |
| --- | --- | --- |
| `BasicLemmas` | sequences (`Tail`, `Append`, `RemoveAt`, `\o`, ...), least numbers, induction over the naturals with sets, existence of recursive functions along a loop (`LoopRecursion`) and a rank (`RankedRecursion`), lists put together by a loop (`ListsAll`, `ListingOnce`) | none |
| `InterferenceProofs` | of the solver and the graph: `TypeCorrect`, `FlagsCorrect`, `SettledCorrect`, `WorklistCorrect`, `Soundness`, `Leastness`, `GraphIsExact`, `SolverRefines`; of the colouring: `ColoringTypeCorrect`, `ColoringIsProper`, `OnlyPotentialSpills`, `NothingLost`, `DegreesCorrect` | capacity and word size positive; successors are nodes; the vregs of a stream are below the capacity; finitely many vregs, at least one colour, a symmetric irreflexive graph |
| `PhiLoweringProofs` | of a bundle: `TypeCorrect`, `SourcesIntact`, `EmittedFinal`, `FewTemporaries`, `Refinement`; of a function: `PhiCorrect`, `EdgesCarried`, `LoweredBundles`, `LoweringRefinesSsa` | of a bundle: destinations distinct, no self copy, `next_vreg` above every register named; of a function: labels distinct, jump targets are blocks other than the entry, the phis of a block have distinct destinations, the last block does not fall through |
| `BackendProofs` | of the allocator: `TypeCorrect`, `PlacesDistinct`, `LiveValuesSurvive`, `AllocationCorrect`; of the code that is printed: `EveryLineAssembles` | of the allocator: live sets solve the equations, colouring proper, every other vreg in the spill list once; of the code: allocatable registers have numbers below those of vregs and are none of x0, x16, x17, fp, lr, sp; `0 < ScratchSpillSlot <= SpValue <= FpValue`; a block has the shape `IsBlock` says; for `EveryLineAssembles` that the literals a block moves fit one mov (`MovedLiteralsFit`; disagreement 1 above is about those that do not) |
| `PrintedCodeProofs` | of the printed code: `CodeKeepsItsMeaning`, `CodeDisturbsNothingElse`; of selection: `SelectedAsMeant` | the same without `MovedLiteralsFit`; of the printed code also, as a hypothesis of the theorems, `[]KeepsToItsMemory`; of selection `TypesAssumption`, that blocks are typed |
| `InterfaceProofs` | of the declarations: `DeclarationsInvariant`, `AcceptedExactly`, `Linkage`, `GlobalsAsExecuted`, `StaticAgrees`, `LayoutsAreSound`, `FramesSound`; of a call: `ArgumentsApart`, `ParametersReceived`, `CallerFindsItsState`, `CallerFrameKept` | elements, headers and expressions are of the shapes the parser produces; expressions are finite (they have a depth); bands of at most two registers, each register in one band; allocatable registers are none of those with another use; frames are multiples of 16 bytes; arguments are places of the caller, addresses or constants; the stack has room |
| `SsaFormProofs` | of the dominators: `DominatorsInvariant`, `NoDominatorLost`, `DominatorTreeComputed`; of the promotion: `PromotedWellFormed` | at least one block; successors are blocks; no local is defined twice, in reachable code what is read is defined before or in a dominating block, `next_vreg` is above every local defined |
| `Mem2RegProofs` | `PromotionKeepsOutput` | the same |

*Liveness.*  `WorklistSound` is the conjunction of exact flags and
`SettledNodesAreSolved`.  The latter is inductive once the flags are exact: a
node outside the queue satisfies its equations, because whenever the `live_in`
of a node grows, all nodes that read it (`DependentsComplete`: those are its
predecessors in the list) are put into the queue.  With an empty queue this is
`Soundness`.  `Leastness` is independent of the queue: a step that computes from
values below a solution stays below it.  Both speak of bit vectors; that the
word operations of `Bitset` are union, difference and membership, with a last
word that is not full and a difference by a vector of another length, is shown
first.  For the refinement the least solution is compared with paths: what a
path needs is in every solution, along the path from its end; and the set of
what some path needs is a solution, so the least one is below it.  The bound on
the length of paths in `LivenessSpec` costs a pigeonhole argument: a shortest
witness visits no node twice.  `GraphIsExact` follows the rows of `build` on top
of that.

*Parallel copies.*  `PendingSourcesIntact` needs that destinations are distinct
and that fresh registers are named by nobody (both in `TypeOK`): a ready copy
overwrites a register no pending copy reads, and redirection preserves what
each source stands for.  `EmittedAreFinal` adds that what has been written is
not written again; at the end both give the simultaneous assignment, and every
earlier step is a stutter of `ParallelAssign`.  `TemporaryInv` pays for the
temporaries: one of them is read by one copy only, so the copy that reads it
and the one whose destination it saved are a pair of its own.

*Phi lowering.*  `PlanInv` says of each phase what it has done so far.  While
edges are visited: the copies of a visited edge stand before the terminator of
a block with one successor, or in a split made for that edge and labelled above
every label in use.  While terminators are patched: each target is still the one
it was, and none of the splits done so far is for it, or it is the label of one
that is.  With `PlanInv` a target leads directly or through a split to its old
block (`TargetLeads`), double edges included; fall-through edges are the only
ones of their block, so their copies are in front of them.  `PhiInv` adds that
every bundle starts from the registers control arrives with and keeps the
invariants of `ParallelCopy`.  The refinement takes a jump behind the copies of an
edge to the abstract step along it; going into a split, planning and single
moves are stutters.

*Colouring.*  Properness alone would follow from `Select`; that no insignificant
node spills does not.  The inductive invariant adds `StackLow`: a node pushed as
insignificant has fewer than `NumColors` neighbours outside those pushed before
it.  It is established when the node is pushed, where the incremental degree has
to be exact (`DegreesExact`, `LowQueueExact`), and used when it is popped, when
the nodes below it are the ones without colour.  Cardinality arguments go
through the library's theorems on finite sets.

*Register allocation.*  `LiveValuesIntact`, that every value in the live-in set
of the next instruction is in its place, is inductive given the dataflow
equations and `InterferenceRespected`: the definition of an instruction
interferes with everything live after it, also when the definition itself is
dead.  `OperandsIntact` follows since uses are live.

*The printed code.*  `CodeInv` says of the instructions selection has emitted what
the allocator and the rewriter rely on: they read only what the block is given or
what was defined before them, x16 only directly behind the instruction that fills
it, and nothing but branches follows a branch.  `LinesInv` takes this through the
pipeline: places are legal (a vreg is not written to the register of one that is still
read, and slots are not shared), what waits is of the shapes the next stage
understands, and each line writes only registers in `Owned`: the scratch
registers, those the block names and the places of its vregs.  With it
`EveryLineAssembles` is a case distinction over the forms `AsmPrinter` chooses
between, with the limits of offsets, immediates and chunks as parameters.

`CodeKeepsItsMeaning` is a simulation.  `Runs` and `Computes` say what a stretch of
lines, and of rewritten instructions, does to a processor; for every form of
instruction, and for each operand in a register, in a slot near fp or in one too
far for its addressing mode, what is printed for it computes its value, keeps every
other place and gives the stack pointer back.  Where both
scratch registers are taken, what they hold waits below sp meanwhile.  `Sim`
puts the processor beside the machine with virtual registers: a vreg that is `Current`, that is whose place
has been given to no other since it was written, is found in its place.  The
invariant (`SimInv`, `Pipeline`) looks ahead: when the processor has run the lines
and instructions that wait, it is beside `ref`.  So rewriting an instruction moves both sides,
printing moves neither, and running a line shortens what waits.  At the end
nothing waits, which is `SameEffect`.

The hypothesis `KeepsToItsMemory` is about the program, not about the back end: it
reads and writes no spill slot and nothing below sp, and moves sp within the
stack.  Without it the statement is false, since a pointer may name a slot the
allocator is about to use.  Every program `inst_rewriting` runs keeps to it: as an
additional invariant of `MCInstRewriting.cfg` TLC finds it true in all states.

*Selection.*  `SelectedAsMeant` puts the machine of the IR beside the one with
virtual registers (`Alongside`): the same value in every local that is not only a
condition, the same memory, sp, first register and place of control, and in every local
a value its size has room for.  For each form of statement the instructions `Emitted`
take such a pair to such a pair (`StatementMeant`).  This is not inductive along the run,
because registers are numbered while statements are selected and `ref` starts only when
all are: so `SelectInv` says of *every* set of registers that contains those the
code touches, and of every machine on them that is beside the IR's at the entry, that the
code selected so far leads it to one beside `Interpreted(block)[Passed]`
(`Selected`).  A comparison has no register; what stands for it is `Decided`:
behind the statements selected so far the flags are those of the last
comparison, and its condition is in `cond_map`.
The statements keep this, since only a comparison sets flags.  When registers are
allocated, `StartRef` is such a machine (`EntersAtStart`); from there rewriting consumes
the code and `ref` walks the course foretold.  `TypesAssumption` is what the
theorem needs of IR: one size for a local wherever it occurs, copies between equal
sizes, and a branch on the last comparison before it.  The generator emits a branch
directly behind its comparison and with its result (function_gen.rs:499-505), a local has one type
from `fresh_local` on, and the structs' fields are entered with constant indices.

*Calls.*  `LocationsSound` is an induction along the argument list: the cursors
separate what is placed from what is not.  `CallInv` says, phase by phase,
where every value is: below sp while areas are pushed, in the save area, in the
outgoing area, in the registers, and at which distance from the caller's sp.

*Declarations.*  `DeclInv` says what the registry, the layouts and the frame hold
after each element, and that the passes refuse exactly when an element
disagrees with those before it.  `StaticAgrees` is an induction over the depth
of expressions, made possible by writing `Static` and `Executed` as recursive
functions over the set of expressions.

*Dominators.*  The first half is the depth-first search: when it is done its
order lists the reachable blocks once, and every block behind one that leads to
it, which is all the iteration needs of a reverse postorder.  The invariant of
the passes is that the ancestors of a block in the tree contain its dominators
and that `intersect` climbs towards the front of the order; no pass loses a
dominator (`NoDominatorLost`), and a pass that changes nothing has a tree whose
ancestors satisfy the dataflow equations, so they are dominators too.  Nothing
is assumed about the flow graph: irreducible loops, unreachable blocks and edges
to the entry are included.

*Promotion.*  `WellFormedSsa` speaks of the finished function; the invariant
behind it, `SsaInv`, has a part per phase (`EarlyInv`, `PlaceInv`, `RenameInv`).
The calls of `rename_block` under way are a path of the dominator tree
(`Nested`), and a block that is still to come is below the root or below a child
not yet called (`Reached`), so that every reachable block is renamed once.  What
has been written comes from a reached statement that is kept (`RewrittenFrom`)
and nothing that is kept is missing (`Written`); hence no local is defined
twice.  A phi has an operand for each edge from a block that is through and for
no other (`Counted`), double edges included.  The stacks are the hard part: each
is split into what every call under way has pushed (`Heights`, `StacksKnown`)
and the aliases of loads belong to one call (`AliasesKnown`), so what `read`
finds is defined in a block that dominates the one being renamed (`Avail`), and
`Popped` gives the caller back the stacks it had.  That makes every use known
where it is read (`ReadsKnown`), and every operand of a phi at the end of its
predecessor (`IncomingsKnown`).

*Promotion keeps the program.*  `SameOutput` needs more than well-formedness: that
the phis are where they have to be.  While they are placed, a block whose
frontier has not been looked at yet is in the worklist (`PlacingInv`), so the
blocks with a phi for a variable, together with those that store to it, end up
`Closed` under dominance frontiers.  From then on every block has the value of
the variable that its dominator chain hands down (`Traced`): its own phi, or the
one its immediate dominator ends with.  An edge into a block without a phi cannot
bring another one, because a value that differs was put in somewhere not above
the block, and the first block where that meets the other is in a frontier
(`FrontiersKnown`).  Renaming follows these values: the top of every stack is the
traced one (`Agrees`), statement by statement through loads, stores and aliases
(`FlowInv`).  The theorem is then a simulation (`Sim`) between the two runs along
the same path: a local that is kept has one value in both (`LocalsMatch`), and
the slot of a promoted variable holds what its current value stands for
(`SlotsMatch`).

What the proofs give together: the solver returns a solution (`Soundness`),
the colouring is proper and loses no vreg (`ColoringIsProper`, `NothingLost`),
and these are the assumptions `Solves` and `Colors` under which
`AllocationCorrect` holds; the graph that is coloured is the one `GraphIsExact`
describes.  `SelectedAsMeant` and `CodeKeepsItsMeaning` meet at `ref`: what the IR
means, the virtual registers hold, and what those hold the processor finds in
their places.  That the assumptions are met is shown per module, not by one theorem.

Induction over data is done with sets of naturals (`SetInduction`) and recursive
functions: the induction theorems of the library take an operator as parameter,
which the provers here cannot instantiate.

Only model-checked: everything that needs fairness (`Terminates`,
`ColoringTerminates`); and what reaches a `RECURSIVE` operator, that is the
parser, lowering and type inference.

## 6. What is not modelled

* *Floating point*: classified by `classify_args` and modelled there; every later
  stage ends in `todo!()`.
* *Return type inference* (`experimental/return_infer.rs`): its central functions
  (`bind`, `union`, `resolve`, `unify`, `merge_branches`, ...) are `todo!()`;
  there is no behaviour to translate.
* *AST display and IR printer*: from trees to text, without a reader that could
  be misled; the assembly printer is modelled.
* *Driver and pass managers*: command line and files; a list of one function
  pass and an empty list of module passes.
* In `ModuleRegistration`: the initializer of a global is one expression; lists and
  fills (module_gen.rs:367-379) evaluate several of the same kind.
* In `Parser`: the characters of names and numbers, and the wording and positions
  of errors.
* In `FunctionLowering`: aggregates as values, which the language has no way to
  write.  An unset variable holds one marked value, the same on both sides.
* In `InstRewriting`: section directives, symbol mangling and the forms for the
  two object formats; `Global` is one address.

## 7. The plan

The model is written: every component above is modelled or has its reason in
section 6.  Stages are composed where one consumes what the other produces and
both fit into one state space: text to executed blocks (`FunctionLowering`),
phis to moves (`PhiLowering`), statements to machine code
(`InstructionSelection`), streams to interference (`InterferenceGraph`),
registry to frames (`Declarations`).

The plan for the proofs is done as far as the prover reaches: every safety
property of a module without `RECURSIVE` operators is a theorem.  What could follow
is one theorem over the modules of the back end, from `Liveness` to `InstRewriting`,
that discharges the assumptions of each by the theorems of the one before; and
parser, lowering and inference written with recursive functions over finite sets of
texts and trees, as `StaticEval` is, which would bring them within reach.
