---------------------------- MODULE CallSequence ----------------------------
(* One call, from both sides.  First classify_args of src/asm/aarch64/aapcs.rs
   and outgoing_stack_bytes of src/asm/aarch64/frame.rs: where each argument
   travels.  Two register cursors and one stack cursor advance over the
   argument list; caller and callee each make this walk, over the same types.

   Then FunctionGenerator::emit_call in the caller, handle_arguments in the
   callee, and what AsmPrinter makes of the frame instructions (prologue,
   epilogue, the bracket that saves the allocatable registers). The machine has
   registers and a memory of eight-byte words; both functions have been through
   register allocation. *)
EXTENDS Integers, Sequences, FiniteSets, SequencesExt

CONSTANTS
  NumIntArgRegs,  \* x0, x1, ...
  NumFpArgRegs,   \* s0, s1, ...
  ArgLists        \* the lists of argument classes considered

SlotBytes == 8     \* OUTGOING_ARG_SLOT_BYTES
SpAlignment == 16  \* SP_ALIGNMENT

Class == {"int", "float"}

ASSUME ArgumentAssumption ==
  /\ NumIntArgRegs \in Nat /\ NumFpArgRegs \in Nat
  /\ ArgLists \subseteq Seq(Class)

Gpr(n) == [kind |-> "gpr", at |-> n]
Fpr(n) == [kind |-> "fpr", at |-> n]
Stack(offset) == [kind |-> "stack", at |-> offset]

VARIABLES
  classes,    \* the argument list
  ngrn, nsrn, \* next general, next floating-point register number
  stack_off,  \* next free offset of the outgoing area
  locs        \* the locations given out so far

classifyVars == <<classes, ngrn, nsrn, stack_off, locs>>
-----------------------------------------------------------------------------
ClassifyInit ==
  /\ classes \in ArgLists
  /\ ngrn = 0 /\ nsrn = 0 /\ stack_off = 0
  /\ locs = <<>>

ThisClass == classes[Len(locs) + 1]

(* take_or_spill, for a class that has a register left. *)
RegisterFree(cursor, cap) == cursor < cap

TakeGpr ==
  /\ ThisClass = "int" /\ RegisterFree(ngrn, NumIntArgRegs)
  /\ locs' = Append(locs, Gpr(ngrn))
  /\ ngrn' = ngrn + 1
  /\ UNCHANGED <<classes, nsrn, stack_off>>

TakeFpr ==
  /\ ThisClass = "float" /\ RegisterFree(nsrn, NumFpArgRegs)
  /\ locs' = Append(locs, Fpr(nsrn))
  /\ nsrn' = nsrn + 1
  /\ UNCHANGED <<classes, ngrn, stack_off>>

(* take_or_spill, for a class whose registers are used up. *)
CursorKept == stack_off
CursorAdvanced == stack_off + SlotBytes

SpillToStack ==
  /\ IF ThisClass = "int" THEN ~RegisterFree(ngrn, NumIntArgRegs)
     ELSE ~RegisterFree(nsrn, NumFpArgRegs)
  /\ locs' = Append(locs, Stack(stack_off))
  /\ stack_off' = CursorAdvanced
  /\ UNCHANGED <<classes, ngrn, nsrn>>

Classified == Len(locs) = Len(classes)

Classify == ~Classified /\ (TakeGpr \/ TakeFpr \/ SpillToStack)

(* outgoing_stack_bytes: room for every stack argument, in whole multiples of
   the alignment sp must keep. *)
StackEnds(ls) ==
  {ls[k].at + SlotBytes : k \in {j \in DOMAIN ls : ls[j].kind = "stack"}}
BytesNeeded(ls) ==
  IF StackEnds(ls) = {} THEN 0
  ELSE CHOOSE e \in StackEnds(ls) : \A f \in StackEnds(ls) : f <= e

OutgoingStackBytes(ls) ==
  ((BytesNeeded(ls) + SpAlignment - 1) \div SpAlignment) * SpAlignment
-----------------------------------------------------------------------------
(* No two arguments travel in the same place. *)
LocationsDistinct ==
  \A j, k \in DOMAIN locs : locs[j] = locs[k] => j = k

(* Nothing goes to the stack while its class has a register left. *)
LocationsLegal ==
  \A k \in DOMAIN locs :
    \/ locs[k].kind = "gpr" /\ classes[k] = "int" /\ locs[k].at < NumIntArgRegs
    \/ locs[k].kind = "fpr" /\ classes[k] = "float" /\ locs[k].at < NumFpArgRegs
    \/ /\ locs[k].kind = "stack" /\ locs[k].at % SlotBytes = 0
       /\ classes[k] = "int" => ngrn = NumIntArgRegs
       /\ classes[k] = "float" => nsrn = NumFpArgRegs

(* The area the caller reserves holds every stack argument's slot and keeps sp
   aligned, without a spare alignment unit. *)
OutgoingAreaFits ==
  LET bytes == OutgoingStackBytes(locs) IN
  /\ \A k \in DOMAIN locs :
       locs[k].kind = "stack" => 0 <= locs[k].at /\ locs[k].at + SlotBytes <= bytes
  /\ bytes % SpAlignment = 0
  /\ bytes < stack_off + SpAlignment

(* Whatever the mix of classes, which share the stack cursor: arguments travel
   apart, each in a place its class may use, registers first, and the outgoing
   area is exactly as large as they need. *)
LocationsSound == LocationsDistinct /\ LocationsLegal /\ OutgoingAreaFits
-----------------------------------------------------------------------------
CONSTANTS
  Bands,   \* the register pairs emit_save_caller_regs pushes, in order
  Calls,   \* records [classes, args, params, result, frame, callee_frame]
  Top      \* address of the caller's fp

SCRATCH0 == 16
FP == 29
LR == 30
SP == 31
Allocatable == UNION {{Bands[k][j] : j \in DOMAIN Bands[k]} : k \in DOMAIN Bands}
RegNumber == (0 .. NumIntArgRegs - 1) \cup Allocatable \cup {0, SCRATCH0, FP, LR, SP}
Address == {a \in 0 .. Top + 32 : a % 8 = 0}

(* Values besides addresses: what the callee returns, what it leaves behind in
   registers and memory that are its own, the return address. *)
Returned == -1
Junk == -2
CallSite == -3

(* Where an operand is: a register, a word at an offset from fp, the address of
   such a word (an alloca), a constant. *)
InReg(r) == [kind |-> "reg", id |-> r]
InFrame(off) == [kind |-> "frame", id |-> off]
AddressOf(off) == [kind |-> "alloca", id |-> off]
Constant(c) == [kind |-> "const", id |-> c]

(* Where register allocation can have put something, in a frame of so many
   bytes below fp. *)
FramePlaces(frame) ==
  {InReg(r) : r \in Allocatable} \cup {InFrame(-8 * k) : k \in 1 .. frame \div 8}

(* Pairs or single registers, each of them in one band; none passes an argument
   or has another use. *)
ASSUME BandAssumption ==
  /\ Bands \in Seq(Seq(Nat))
  /\ \A k \in DOMAIN Bands : Len(Bands[k]) <= 2
  /\ \A k, l \in DOMAIN Bands : \A i \in DOMAIN Bands[k], j \in DOMAIN Bands[l] :
       Bands[k][i] = Bands[l][j] => k = l /\ i = j
  /\ NumIntArgRegs <= SCRATCH0
  /\ Allocatable \cap ((0 .. NumIntArgRegs - 1) \cup {0, SCRATCH0, FP, LR, SP}) = {}

(* Arguments are places of the caller, addresses or constants.  Frames are
   whole multiples of 16 bytes, and so is the address above them. Parameters
   that are read are live together and have places of their own. *)
ASSUME CallAssumption ==
  /\ Top \in Nat /\ Top % SpAlignment = 0
  /\ \A call \in Calls :
       /\ call.classes \in ArgLists
       /\ call.frame \in Nat /\ call.frame % SpAlignment = 0
       /\ call.callee_frame \in Nat /\ call.callee_frame % SpAlignment = 0
       /\ DOMAIN call.args = DOMAIN call.classes /\ DOMAIN call.params = DOMAIN call.classes
       /\ \A k \in DOMAIN call.args :
            \/ call.args[k] \in FramePlaces(call.frame)
            \/ /\ call.args[k].id \in Int
               /\ call.args[k] \in {AddressOf(call.args[k].id), Constant(call.args[k].id)}
       /\ \A k \in DOMAIN call.params :
            /\ call.params[k] \in FramePlaces(call.callee_frame)
            /\ \A j \in DOMAIN call.params : call.params[j] = call.params[k] => j = k
       /\ call.result \in FramePlaces(call.frame)

(* The stack has room for both functions and what lies between them. *)
BandBytes == 16
ASSUME RoomAssumption ==
  \A call \in Calls :
    Top >= call.frame + BandBytes * Len(Bands) + SlotBytes * Len(call.classes) + SpAlignment
             + 16 + call.callee_frame

VARIABLES
  call,      \* the call
  code,      \* instructions still to execute in the function that runs
  after,     \* the caller's instructions behind the bl
  regs, mem, \* the machine
  start      \* the machine as it was before the call

machine == <<regs, mem>>
callVars == <<classifyVars, call, code, after, regs, mem, start>>
-----------------------------------------------------------------------------
Ins(op, a, b) == [op |-> op, a |-> a, b |-> b]

(* emit_call: stack arguments before register arguments. *)
StackStores(kinds) ==
  [k \in DOMAIN kinds |-> Ins("store_arg", call.args[kinds[k]], locs[kinds[k]].at)]
RegisterMoves(kinds) ==
  [k \in DOMAIN kinds |-> Ins("load_arg", call.args[kinds[k]], locs[kinds[k]].at)]

Picked(kind) ==
  LET upto[n \in 0 .. Len(locs)] ==
        IF n = 0 THEN <<>>
        ELSE IF locs[n].kind = kind THEN Append(upto[n - 1], n) ELSE upto[n - 1]
  IN  upto[Len(locs)]
OnStack == Picked("stack")
InRegisters == Picked("gpr")

Bracket(op, bytes) == IF bytes > 0 THEN <<Ins(op, bytes, 0)>> ELSE <<>>

BeforeBl ==
  <<Ins("save", 0, 0)>> \o Bracket("sub_sp", OutgoingStackBytes(locs))
    \o StackStores(OnStack) \o RegisterMoves(InRegisters) \o <<Ins("bl", 0, 0)>>

AfterBl ==
  Bracket("add_sp", OutgoingStackBytes(locs)) \o <<Ins("restore", 0, 0)>>
    \o <<Ins("result", call.result, 0)>>

(* handle_function: prologue, handle_arguments, the body. *)
CalleeCode ==
  <<Ins("prologue", call.callee_frame, 0)>>
    \o [k \in DOMAIN locs |-> Ins("take_arg", locs[k], call.params[k])]
    \o <<Ins("body", 0, 0), Ins("ret", 0, 0)>>

CallInit ==
  /\ call \in Calls /\ classes = call.classes
  /\ ClassifyInit
  /\ code = <<>> /\ after = <<>>
  /\ regs = [r \in RegNumber |->
               IF r = FP THEN Top ELSE IF r = SP THEN Top - call.frame ELSE 1000 + r]
  /\ mem = [a \in Address |-> 2000 + a]
  /\ start = [regs |-> regs, mem |-> mem]

(* Both sides have classified the argument list: code is generated.  The
   generator has no instructions yet for a floating-point argument. *)
Emit ==
  /\ Classified /\ code = <<>> /\ after = <<>>
  /\ "float" \notin ToSet(classes)
  /\ code' = BeforeBl
  /\ after' = AfterBl
  /\ UNCHANGED <<classifyVars, call, regs, mem, start>>
-----------------------------------------------------------------------------
Value(place) ==
  CASE place.kind = "reg" -> regs[place.id]
    [] place.kind = "frame" -> mem[regs[FP] + place.id]
    [] place.kind = "alloca" -> regs[FP] + place.id
    [] place.kind = "const" -> place.id

Put(place, value) ==
  IF place.kind = "reg"
  THEN regs' = [regs EXCEPT ![place.id] = value] /\ mem' = mem
  ELSE mem' = [mem EXCEPT ![regs[FP] + place.id] = value] /\ regs' = regs

At(op) == code # <<>> /\ Head(code).op = op
Advance == code' = Tail(code) /\ UNCHANGED <<classifyVars, call, after, start>>

(* A register's place: its band, and first or second in it. *)
BandPlace == UNION {{k} \X DOMAIN Bands[k] : k \in DOMAIN Bands}

(* emit_save_caller_regs: one pre-decremented store per band. *)
SavedUpwards(k, j) == regs[SP] + BandBytes * (k - 1) + 8 * (j - 1)
Saved(k, j) == regs[SP] - BandBytes * k + 8 * (j - 1)
Save ==
  /\ At("save")
  /\ mem' = [a \in Address |->
               IF \E p \in BandPlace : a = Saved(p[1], p[2])
               THEN LET q == CHOOSE p \in BandPlace : a = Saved(p[1], p[2])
                    IN  regs[Bands[q[1]][q[2]]]
               ELSE mem[a]]
  /\ regs' = [regs EXCEPT ![SP] = @ - BandBytes * Len(Bands)]
  /\ Advance

(* emit_restore_caller_regs: the bands in reverse order. *)
BandFromBottomUnreversed(k) == k - 1
BandFromBottom(k) == Len(Bands) - k
Restore ==
  /\ At("restore")
  /\ regs' = [r \in RegNumber |->
                IF r = SP THEN regs[SP] + BandBytes * Len(Bands)
                ELSE IF r \in Allocatable
                THEN LET q == CHOOSE p \in BandPlace : Bands[p[1]][p[2]] = r
                     IN  mem[regs[SP] + BandBytes * BandFromBottom(q[1]) + 8 * (q[2] - 1)]
                ELSE regs[r]]
  /\ mem' = mem
  /\ Advance

SubSp ==
  /\ At("sub_sp")
  /\ regs' = [regs EXCEPT ![SP] = @ - Head(code).a]
  /\ mem' = mem /\ Advance
AddSp ==
  /\ At("add_sp")
  /\ regs' = [regs EXCEPT ![SP] = @ + Head(code).a]
  /\ mem' = mem /\ Advance

(* emit_stack_arg: what has no register yet goes through x16. *)
StoreArg ==
  /\ At("store_arg")
  /\ mem' = [mem EXCEPT ![regs[SP] + Head(code).b] = Value(Head(code).a)]
  /\ regs' = IF Head(code).a.kind = "reg" THEN regs
             ELSE [regs EXCEPT ![SCRATCH0] = Value(Head(code).a)]
  /\ Advance

(* emit_gpr_arg. *)
LoadArg ==
  /\ At("load_arg")
  /\ regs' = [regs EXCEPT ![Head(code).b] = Value(Head(code).a)]
  /\ mem' = mem /\ Advance

Bl ==
  /\ At("bl")
  /\ regs' = [regs EXCEPT ![LR] = CallSite]
  /\ code' = CalleeCode
  /\ UNCHANGED <<classifyVars, call, after, mem, start>>

(* emit_prologue: the saved fp/lr pair, then the local frame. *)
Prologue ==
  /\ At("prologue")
  /\ mem' = [mem EXCEPT ![regs[SP] - 16] = regs[FP], ![regs[SP] - 8] = regs[LR]]
  /\ regs' = [regs EXCEPT ![SP] = @ - 16 - Head(code).a, ![FP] = regs[SP] - 16]
  /\ Advance

(* handle_arguments: a move out of x_, or a load from above the fp/lr pair. *)
StackArgFromFp == 0
StackArgFpBase == 16
TakeArg ==
  /\ At("take_arg")
  /\ LET from == Head(code).a IN
       Put(Head(code).b, IF from.kind = "gpr" THEN regs[from.at]
                         ELSE mem[regs[FP] + StackArgFpBase + from.at])
  /\ Advance

(* What a body may do: use its registers and its frame, and call others, which
   overwrites lr and everything below sp. *)
OwnMemory == {a \in Address : a < regs[FP]}
Body ==
  /\ At("body")
  /\ regs' = [r \in RegNumber |-> IF r = 0 THEN Returned
                                 ELSE IF r \in {FP, SP} THEN regs[r] ELSE Junk]
  /\ mem' = [a \in Address |-> IF a \in OwnMemory THEN Junk ELSE mem[a]]
  /\ Advance

(* emit_epilogue: sp back to fp, the fp/lr pair popped, a jump to lr. *)
PopPair(word) == mem[regs[FP] + word]
Ret ==
  /\ At("ret")
  /\ regs' = [regs EXCEPT ![SP] = regs[FP] + 16, ![FP] = PopPair(0), ![LR] = PopPair(8)]
  /\ PopPair(8) = CallSite
  /\ code' = after
  /\ UNCHANGED <<classifyVars, call, after, mem, start>>

(* emit_call_result: a move of x0 into the vreg's place. *)
Result ==
  /\ At("result")
  /\ Put(Head(code).a, regs[0])
  /\ Advance

Machine == \/ Save \/ Restore \/ SubSp \/ AddSp \/ StoreArg \/ LoadArg \/ Bl
           \/ Prologue \/ TakeArg \/ Body \/ Ret \/ Result

(* The call is over, or was given up; every other state has a successor. *)
Returning == after # <<>> /\ code = <<>>
CallEnded == /\ Returning \/ (Classified /\ "float" \in ToSet(classes))
          /\ UNCHANGED callVars

CallNext == \/ Classify /\ UNCHANGED <<call, code, after, regs, mem, start>>
        \/ Emit
        \/ Machine
        \/ CallEnded

CallSpec == CallInit /\ [][CallNext]_callVars
-----------------------------------------------------------------------------

(* When the callee's body starts, each parameter holds what the argument was in
   the caller before the call, wherever the two live, and sp is a multiple of
   16 as the hardware demands. *)
InitialValue(place) ==
  CASE place.kind = "reg" -> start.regs[place.id]
    [] place.kind = "frame" -> start.mem[Top + place.id]
    [] place.kind = "alloca" -> Top + place.id
    [] place.kind = "const" -> place.id

ArgumentsDelivered ==
  /\ At("body") => \A k \in DOMAIN call.params :
                     Value(call.params[k]) = InitialValue(call.args[k])
  /\ regs[SP] % SpAlignment = 0

(* After the call the caller finds what it left: its frame, sp, fp and all
   allocatable registers, except for the place of the result, which holds what
   the callee returned. *)
CallerStateRestored ==
  Returning =>
    /\ Value(call.result) = Returned
    /\ \A r \in Allocatable \cup {SP, FP} : InReg(r) # call.result => regs[r] = start.regs[r]
    /\ \A a \in Address : a >= start.regs[SP] /\ InFrame(a - Top) # call.result
                            => mem[a] = start.mem[a]

(* No step writes at or above the sp the caller had, whichever function runs,
   but for the move of the result. *)
CallerFrameUntouched ==
  [][~At("result") => \A a \in Address : a >= start.regs[SP] => mem'[a] = mem[a]]_callVars
=============================================================================
