--------------------------- MODULE InstRewriting ---------------------------
(* From instructions on virtual registers to text, and what the text does.
   InstRewriter::rewrite gives every virtual register its location, reloading
   and storing back spilled ones through the scratch registers; AsmPrinter
   prints the result; the processor runs it.  `ref` runs the instructions as
   they were, on a machine that has the virtual registers. *)
EXTENDS AsmPrinter, FiniteSets

CONSTANTS
  Registers,  \* the allocatable registers
  SlotsOf(_), \* fp offsets a virtual register may be spilled to
  FpValue, SpValue

FirstVReg == 100
IsVReg(r) == r >= FirstVReg

(* ALLOCATABLE_REGS has no register with another use, and the frame lies inside
   the address space, with room below the stack pointer. *)
ASSUME RegistersAssumption ==
  Registers \subseteq (0 .. FirstVReg - 1) \ {REG_X0, SCRATCH0, SCRATCH1, FP, LR, SP}
ASSUME FrameAssumption ==
  /\ FpValue \in Nat /\ SpValue \in Nat
  /\ ScratchSpillSlot <= SpValue /\ SpValue <= FpValue /\ FpValue < Modulus(X64)

VARIABLES
  code,    \* the instructions on virtual registers
  vals,    \* values of the virtual registers they read before writing them
  located, \* whether registers have been allocated
  place,   \* RegisterAllocation::location: a register, or (negative) a slot
  insts,   \* instructions still to rewrite
  output,  \* rewritten, still to print
  text,    \* printed, still to run
  m,       \* the processor
  ref      \* the machine with virtual registers

backendVars == <<code, vals, located, place, insts, output, text, m, ref>>
-----------------------------------------------------------------------------
OperandRegs(o) == IF o.kind = "reg" THEN {o.val} ELSE {}
AddrRegs(a) == IF a.kind = "global" THEN {} ELSE {a.base}

UsedVregs(i) ==
  {r \in CASE i.op = "Mov" -> OperandRegs(i.src)
           [] i.op \in {"BinOp", "Cmp"} -> {i.lhs} \cup OperandRegs(i.rhs)
           [] i.op \in {"Ldr", "Lea"} -> AddrRegs(i.addr)
           [] i.op = "Str" -> {i.src} \cup AddrRegs(i.addr)
           [] i.op = "Gep" -> {i.base} \cup OperandRegs(i.index)
           [] OTHER -> {} : IsVReg(r)}
DefinedVreg(i) ==
  IF i.op \in {"Mov", "BinOp", "Ldr", "Lea", "Gep"} /\ IsVReg(i.dst) THEN {i.dst} ELSE {}

Vregs == UNION {UsedVregs(code[k]) \cup DefinedVreg(code[k]) : k \in DOMAIN code}

(* What the allocator guarantees: virtual registers live at one time are apart,
   no two share a slot, and slots are in the frame. *)
UsedFrom(k) == UNION {UsedVregs(code[j]) : j \in k .. Len(code)}
Given == DOMAIN vals \cap Vregs
Legal(f) ==
  /\ \A v \in Vregs : f[v] \in Registers \cup (SpValue - FpValue .. -1)
  /\ \A v, w \in Vregs : f[v] = f[w] /\ f[v] < 0 => v = w
  /\ \A v, w \in Given : f[v] = f[w] => v = w
  /\ \A k \in DOMAIN code : \A v \in DefinedVreg(code[k]) :
       \A w \in UsedFrom(k + 1) : f[v] = f[w] => v = w

PhysicalRegs == {REG_X0, SCRATCH0, SCRATCH1, FP, LR, SP} \cup Registers
InitialReg(r) ==
  CASE r = FP -> FpValue [] r = SP -> SpValue [] OTHER -> (r * 7) % Modulus(W32)

(* The processor holds each value the code reads in its place. *)
Residents(f, r) == {v \in Given : f[v] = r}
StartMachine(f) ==
  [regs |-> [r \in PhysicalRegs |->
               IF Residents(f, r) = {} THEN InitialReg(r)
               ELSE vals[CHOOSE v \in Residents(f, r) : TRUE]],
   mem |-> [a \in {FpValue + f[v] : v \in {w \in Given : f[w] < 0}} |->
              vals[CHOOSE v \in Given : FpValue + f[v] = a]],
   flags |-> "none", at |-> Here]
StartRef ==
  [regs |-> [r \in PhysicalRegs \cup Vregs |->
               IF r \in Given THEN vals[r]
               ELSE IF IsVReg(r) THEN 0 ELSE InitialReg(r)],
   mem |-> <<>>, flags |-> "none", at |-> Here]

NoMachine == [regs |-> <<>>, mem |-> <<>>, flags |-> "none", at |-> Here]
BackendInit ==
  /\ located = FALSE /\ place = <<>>
  /\ insts = <<>> /\ output = <<>> /\ text = <<>>
  /\ m = NoMachine /\ ref = NoMachine

(* RegisterAllocator::allocate, by its contract: any legal placement. *)
Places == Registers \cup UNION {SlotsOf(v) : v \in Vregs}
Allocate ==
  /\ ~located
  /\ \E f \in [Vregs -> Places] :
       /\ \A v \in Vregs : f[v] < 0 => f[v] \in SlotsOf(v)
       /\ Legal(f)
       /\ place' = f /\ m' = StartMachine(f)
  /\ located' = TRUE /\ insts' = code /\ ref' = StartRef
  /\ UNCHANGED <<code, vals, output, text>>
-----------------------------------------------------------------------------
(* The rewriter.  A spilled source is reloaded into a scratch register, a
   spilled destination computed in one and stored back. *)
Spilled(r) == IsVReg(r) /\ place[r] < 0
MapReg(r) == IF IsVReg(r) THEN place[r] ELSE r
LocalAddr(slot) == BaseOff(FP, slot)

Mov(size, dst, src) == [op |-> "Mov", size |-> size, dst |-> dst, src |-> src]
Ldr(size, dst, addr) == [op |-> "Ldr", size |-> size, dst |-> dst, addr |-> addr]
Str(size, src, addr) == [op |-> "Str", size |-> size, src |-> src, addr |-> addr]

SpillLoad(r, size, scratch) ==
  IF Spilled(r) THEN <<Ldr(size, scratch, LocalAddr(place[r]))>> ELSE <<>>
SpillStore(r, size, scratch) ==
  IF Spilled(r) THEN <<Str(size, scratch, LocalAddr(place[r]))>> ELSE <<>>
InReg(r, scratch) == IF Spilled(r) THEN scratch ELSE MapReg(r)

LoadOperand(o, size, scratch) ==
  IF o.kind = "reg" THEN SpillLoad(o.val, size, scratch) ELSE <<>>
MapOperand(o, scratch) == IF o.kind = "reg" THEN Reg(InReg(o.val, scratch)) ELSE o

(* The scratch register for what is read after the base. *)
ScratchAfterBaseSame(base) == SCRATCH0
ScratchAfterBase(base) == IF Spilled(base) THEN SCRATCH1 ELSE SCRATCH0

LoadAddr(a) == IF a.kind = "global" THEN <<>> ELSE SpillLoad(a.base, X64, SCRATCH0)
MapAddr(a) == IF a.kind = "global" THEN a ELSE [a EXCEPT !.base = InReg(a.base, SCRATCH0)]
ScratchAfterAddr(a) == IF a.kind = "global" THEN SCRATCH0 ELSE ScratchAfterBase(a.base)

WriteToDst(i, size, scratch) ==
  <<[i EXCEPT !.dst = InReg(i.dst, scratch)]>> \o SpillStore(i.dst, size, scratch)

RewriteMov(i) ==
  LET src == MapOperand(i.src, SCRATCH1)
      load == LoadOperand(i.src, i.size, SCRATCH1)
  IN  CASE ~Spilled(i.dst) -> load \o <<Mov(i.size, MapReg(i.dst), src)>>
        [] Spilled(i.dst) /\ src.kind = "reg" -> load \o SpillStore(i.dst, i.size, src.val)
        [] OTHER -> <<Mov(i.size, SCRATCH0, src)>> \o SpillStore(i.dst, i.size, SCRATCH0)

RewriteBinop(i) ==
  SpillLoad(i.lhs, i.size, SCRATCH0) \o LoadOperand(i.rhs, i.size, SCRATCH1)
    \o WriteToDst([i EXCEPT !.lhs = InReg(i.lhs, SCRATCH0),
                            !.rhs = MapOperand(i.rhs, SCRATCH1)], i.size, SCRATCH0)
RewriteCmp(i) ==
  SpillLoad(i.lhs, i.size, SCRATCH0) \o LoadOperand(i.rhs, i.size, SCRATCH1)
    \o <<[i EXCEPT !.lhs = InReg(i.lhs, SCRATCH0), !.rhs = MapOperand(i.rhs, SCRATCH1)]>>
RewriteLdr(i) ==
  LoadAddr(i.addr)
    \o WriteToDst([i EXCEPT !.addr = MapAddr(i.addr)], i.size, ScratchAfterAddr(i.addr))
RewriteStr(i) ==
  LET scratch == ScratchAfterAddr(i.addr)
  IN  LoadAddr(i.addr) \o SpillLoad(i.src, i.size, scratch)
        \o <<Str(i.size, InReg(i.src, scratch), MapAddr(i.addr))>>
RewriteLea(i) ==
  LoadAddr(i.addr)
    \o WriteToDst([i EXCEPT !.addr = MapAddr(i.addr)], X64, ScratchAfterAddr(i.addr))
RewriteGep(i) ==
  LET scratch == ScratchAfterBase(i.base)
  IN  SpillLoad(i.base, X64, SCRATCH0) \o LoadOperand(i.index, W32, scratch)
        \o WriteToDst([i EXCEPT !.base = InReg(i.base, SCRATCH0),
                                !.index = MapOperand(i.index, scratch)], X64, scratch)

RewriteInst(i) ==
  CASE i.op = "Mov" -> RewriteMov(i)
    [] i.op = "BinOp" -> RewriteBinop(i)
    [] i.op = "Cmp" -> RewriteCmp(i)
    [] i.op = "Ldr" -> RewriteLdr(i)
    [] i.op = "Str" -> RewriteStr(i)
    [] i.op = "Lea" -> RewriteLea(i)
    [] i.op = "Gep" -> RewriteGep(i)
    [] OTHER -> <<i>>
-----------------------------------------------------------------------------
(* What an instruction means, before anything is done to it. *)
ValueOf(s, o) == IF o.kind = "reg" THEN s.regs[o.val] ELSE o.val
AddressOf(s, a) ==
  IF a.kind = "global" THEN a.offset ELSE (s.regs[a.base] + a.offset) % Modulus(X64)
Effect(s, i) ==
  CASE i.op = "Mov" -> Write(s, i.dst, ValueOf(s, i.src) % Modulus(i.size))
    [] i.op = "BinOp" ->
         Write(s, i.dst, Arith(i.binop, s.regs[i.lhs], ValueOf(s, i.rhs), i.size))
    [] i.op = "Cmp" ->
         [s EXCEPT !.flags = Flags(s.regs[i.lhs], ValueOf(s, i.rhs), i.size)]
    [] i.op = "Ldr" -> Write(s, i.dst, Fetch(s, AddressOf(s, i.addr), i.size))
    [] i.op = "Str" -> StoreCell(s, AddressOf(s, i.addr), Read(s, i.src, i.size))
    [] i.op = "Lea" -> Write(s, i.dst, AddressOf(s, i.addr))
    [] i.op = "Gep" ->
         Write(s, i.dst, (s.regs[i.base] + Signed(ValueOf(s, i.index), W32) * i.scale) % Modulus(X64))
    [] i.op = "SubSp" -> Write(s, SP, s.regs[SP] - i.imm)
    [] i.op = "AddSp" -> Write(s, SP, s.regs[SP] + i.imm)
    [] i.op = "BCond" ->
         IF CondHolds(i.cond, s.flags) THEN [s EXCEPT !.at = i.label] ELSE s
    [] i.op = "B" -> [s EXCEPT !.at = i.label]
    [] i.op = "Ret" -> [s EXCEPT !.at = Returned]
(* Behind a branch that was taken nothing runs. *)
Meaning(s, i) == IF s.at = Here THEN Effect(s, i) ELSE s

(* InstRewriter::rewrite, one instruction. *)
Rewrite ==
  /\ insts # <<>>
  /\ output' = output \o RewriteInst(Head(insts))
  /\ ref' = Meaning(ref, Head(insts))
  /\ insts' = Tail(insts)
  /\ UNCHANGED <<code, vals, located, place, text, m>>

(* AsmPrint::emit_insts, one instruction of the rewritten code. *)
Print1 ==
  /\ insts = <<>> /\ output # <<>>
  /\ text' = text \o EmitInst(Head(output))
  /\ output' = Tail(output)
  /\ UNCHANGED <<code, vals, located, place, insts, m, ref>>

(* The processor: a branch leaves the rest of the text behind. *)
Run ==
  /\ insts = <<>> /\ output = <<>> /\ text # <<>>
  /\ m' = Execute(m, Head(text))
  /\ text' = IF m'.at = Here THEN Tail(text) ELSE <<>>
  /\ UNCHANGED <<code, vals, located, place, insts, output, ref>>

(* A program may read and write its own memory: what the frame holds beside the
   spill slots, globals, and the areas it took from the stack and has not given
   back. *)
Slots == {FpValue + place[v] : v \in {w \in Vregs : place[w] < 0}}
OwnAccess(s, i) ==
  CASE i.op = "Ldr" -> AddressOf(s, i.addr) >= SpValue /\ AddressOf(s, i.addr) \notin Slots
    [] i.op = "Str" -> AddressOf(s, i.addr) >= s.regs[SP] /\ AddressOf(s, i.addr) \notin Slots
    [] i.op = "SubSp" -> ScratchSpillSlot <= s.regs[SP] - i.imm
    [] i.op = "AddSp" -> s.regs[SP] + i.imm <= SpValue
    [] OTHER -> TRUE
KeepsToItsMemory == insts # <<>> /\ ref.at = Here => OwnAccess(ref, Head(insts))

Rewritten == located /\ insts = <<>>
Done == Rewritten /\ output = <<>> /\ text = <<>>

BackendNext == Rewrite \/ Print1 \/ Run
-----------------------------------------------------------------------------
(* A virtual register counts at the end unless another one was given its
   register later. *)
Defined == UNION {DefinedVreg(code[k]) : k \in DOMAIN code}
Surviving ==
  {v \in Vregs : \A k \in DOMAIN code : \A w \in DefinedVreg(code[k]) \ {v} :
     place[w] = place[v] => \E j \in k + 1 .. Len(code) : v \in DefinedVreg(code[j])}
Held(v) == IF place[v] >= 0 THEN m.regs[place[v]] ELSE Cell(m, FpValue + place[v])
Named == {code[k].dst : k \in {j \in DOMAIN code : code[j].op \in {"Mov", "Ldr", "Lea"}}}
           \ {SCRATCH0, SCRATCH1}

(* When the printed code has run, every virtual register that is still wanted
   has in its place the value the program gave it, memory outside the spill
   slots, the flags and the branch taken are the program's, and so is a
   physical register an instruction names. *)
SameEffect ==
  Done =>
    /\ \A v \in Surviving : Held(v) = ref.regs[v]
    /\ \A a \in (DOMAIN m.mem \cup DOMAIN ref.mem) \ Slots :
         a >= SpValue => Cell(m, a) = Cell(ref, a)
    /\ m.flags = ref.flags /\ m.at = ref.at
    /\ \A r \in Named : ~IsVReg(r) => m.regs[r] = ref.regs[r]

(* A register the program did not name and the allocator gave to none of its
   virtual registers is never disturbed: only the scratch registers are free to
   use.  The stack pointer is back when an instruction ends. *)
OthersUntouched ==
  /\ located =>
       \A r \in PhysicalRegs \ ({SCRATCH0, SCRATCH1, SP} \cup Named) :
         (\A v \in Defined : place[v] # r) => m.regs[r] = StartMachine(place).regs[r]
  /\ Done => m.regs[SP] = ref.regs[SP]

(* Every printed line is an instruction the processor has. *)
AllEncodable == \A k \in DOMAIN text : Encodable(text[k])

(* What docs/tealang.md:25,40 promises of i32 and of decimal literals: a
   constant can be any of them, so each mov of one must assemble. *)
LiteralsAssemble ==
  \A k \in DOMAIN text : text[k].op = "mov_imm" => Encodable(text[k])
=============================================================================
