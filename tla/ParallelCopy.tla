---------------------------- MODULE ParallelCopy ----------------------------
(* FunctionGenerator::emit_parallel_copies of
   src/asm/aarch64/function_generator.rs with the helpers of phi_lowering.rs:
   the bundle of copies that replaces the phi nodes of one control-flow edge is
   turned into a sequence of `mov`s.

   The moves are executed in the order they are emitted with nothing in
   between, so the module keeps the register file they produce, `env`, instead
   of the list of moves. *)
EXTENDS Integers, Sequences, FiniteSets, SequencesExt

CONSTANTS
  Reg,       \* virtual registers, 0 .. MaxReg
  MaxReg,    \* bound: the highest virtual register a behaviour may name
  Val,       \* register contents
  Inputs     \* the calls considered: records [copies, env, next_vreg]

Local(r) == [kind |-> "Local", id |-> r]
Const(v) == [kind |-> "Const", id |-> v]

Locals == {Local(r) : r \in Reg}
Operand == Locals \cup {Const(v) : v \in Val}
Copy == [dst : Locals, src : Operand]

(* phi_lowering::build_parallel_copies: destinations are the phis of one block,
   hence distinct; a copy of a register to itself was filtered out, and a
   bundle with nothing left is dropped by place_phi_copies. *)
DistinctDestinations(bundle) ==
  \A j, k \in DOMAIN bundle : bundle[j].dst = bundle[k].dst => j = k

NoSelfCopy(bundle) == \A k \in DOMAIN bundle : bundle[k].dst # bundle[k].src

(* The counter was seeded with the high-water mark of the function body. *)
Below(bundle, bound) ==
  \A k \in DOMAIN bundle :
    /\ bundle[k].dst.id < bound
    /\ bundle[k].src.kind = "Local" => bundle[k].src.id < bound

ASSUME RegAssumption == MaxReg \in Nat /\ Reg = 0 .. MaxReg

ASSUME InputsAssumption ==
  \A x \in Inputs :
    /\ x.copies \in Seq(Copy) /\ x.copies # <<>>
    /\ x.env \in [Reg -> Val]
    /\ x.next_vreg \in Nat
    /\ DistinctDestinations(x.copies)
    /\ NoSelfCopy(x.copies)
    /\ Below(x.copies, x.next_vreg)

VARIABLES
  copies, env0, first, \* the arguments: bundle, registers, next_vreg on entry
  pending,             \* the copies not yet emitted
  env,                 \* the registers after the moves emitted so far
  next_vreg            \* source of fresh registers

args == <<copies, env0, first>>
vars == <<copies, env0, first, pending, env, next_vreg>>

ValueOf(e, operand) == IF operand.kind = "Local" THEN e[operand.id] ELSE operand.id
-----------------------------------------------------------------------------
(* find_ready_copy: the first copy whose destination no pending copy still has
   to read. *)
ReadyLaterOnly(k) ==
  \A j \in DOMAIN pending : j > k => pending[j].src # pending[k].dst
Ready(k) == \A j \in DOMAIN pending : pending[j].src # pending[k].dst

(* emit_copy: `mov dst, src`. *)
Moved(dst, src) == [env EXCEPT ![dst.id] = ValueOf(env, src)]

(* The cycle's destination is saved before anyone overwrites it. *)
Saved(temp, dst) == Moved(temp, dst)

(* Every reader of the saved register reads the temporary instead. *)
NotRedirected(temp, dst) == pending
Redirected(temp, dst) ==
  [k \in DOMAIN pending |->
     IF pending[k].src = dst THEN [pending[k] EXCEPT !.src = temp] ELSE pending[k]]

(* fresh_vreg advances the counter. *)
CounterAdvanced == next_vreg + 1
-----------------------------------------------------------------------------
Init ==
  /\ \E x \in Inputs : copies = x.copies /\ env0 = x.env /\ first = x.next_vreg
  /\ pending = copies
  /\ env = env0
  /\ next_vreg = first

EmitReady ==
  /\ \E k \in DOMAIN pending :
       /\ Ready(k)
       /\ \A j \in 1 .. k - 1 : ~Ready(j)
       /\ env' = Moved(pending[k].dst, pending[k].src)
       /\ pending' = RemoveAt(pending, k)
  /\ UNCHANGED <<args, next_vreg>>

BreakCycle ==
  /\ pending # <<>>
  /\ \A k \in DOMAIN pending : ~Ready(k)
  /\ next_vreg <= MaxReg
  /\ LET cycle_dst == pending[1].dst
         temp == Local(next_vreg)
     IN  /\ env' = Saved(temp, cycle_dst)
         /\ pending' = Redirected(temp, cycle_dst)
  /\ next_vreg' = CounterAdvanced
  /\ UNCHANGED args

Next == EmitReady \/ BreakCycle

(* A loop that nothing interrupts. *)
Spec == Init /\ [][Next]_vars /\ WF_vars(Next)

Done == pending = <<>>
-----------------------------------------------------------------------------
(* Types, and what the loop relies on: destinations stay distinct, no copy
   names the register that fresh_vreg will hand out next. *)
TypeOK ==
  /\ copies \in Seq(Copy)
  /\ env0 \in [Reg -> Val]
  /\ first \in Nat
  /\ pending \in Seq(Copy)
  /\ env \in [Reg -> Val]
  /\ next_vreg \in Nat
  /\ first <= next_vreg
  /\ DistinctDestinations(copies)
  /\ Below(copies, first)
  /\ DistinctDestinations(pending)
  /\ Below(pending, next_vreg)

(* The lost-copy hazard: every pending copy still finds in its source the value
   its destination must receive, the one its original source had before the
   first move. *)
PendingSourcesIntact ==
  \A k \in DOMAIN pending : \E j \in DOMAIN copies :
    /\ copies[j].dst = pending[k].dst
    /\ ValueOf(env, pending[k].src) = ValueOf(env0, copies[j].src)

(* Every copy no longer pending has been performed with the value its source
   had before the first move; a register of the program that is no destination
   is untouched. *)
EmittedAreFinal ==
  /\ \A j \in DOMAIN copies :
       \/ \E k \in DOMAIN pending : pending[k].dst = copies[j].dst
       \/ env[copies[j].dst.id] = ValueOf(env0, copies[j].src)
  /\ \A r \in Reg :
       r < first /\ (\A j \in DOMAIN copies : copies[j].dst # Local(r))
         => env[r] = env0[r]

(* At most one temporary per cycle: two copies or more go with each. *)
TemporariesBounded == 2 * (next_vreg - first) <= Len(copies)

-----------------------------------------------------------------------------
(* The refinement: seen from outside the program's registers change all at
   once, when the last copy has been emitted. *)
Visible(e) == [r \in {q \in Reg : q < first} |-> e[r]]

Abstract == INSTANCE ParallelAssign WITH
  env <- IF Done THEN Visible(env) ELSE Visible(env0),
  assigned <- Done

ImplementsParallelAssign == Abstract!Spec
=============================================================================
