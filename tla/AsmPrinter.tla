----------------------------- MODULE AsmPrinter -----------------------------
(* AsmPrinter::emit_inst: the machine instructions printed for one instruction
   in physical-register form.  What an instruction cannot carry as an immediate
   goes through a scratch register, and when both scratch registers are taken
   through sixteen bytes of stack. *)
EXTENDS A64Machine

CONSTANT ScratchSpillSlot   \* frame::SCRATCH_SPILL_SLOT, 16 in A64

(* Operands, indices and addresses of an instruction. *)
Reg(r) == [kind |-> "reg", val |-> r]
Imm(i) == [kind |-> "imm", val |-> i]
BaseOff(b, o) == [kind |-> "base_off", base |-> b, offset |-> o]
Global(a) == [kind |-> "global", base |-> FP, offset |-> a]

(* Printed lines. *)
Line(op, size, dst, lhs, rhs, imm) ==
  [op |-> op, size |-> size, dst |-> dst, lhs |-> lhs, rhs |-> rhs, imm |-> imm]
Move(size, dst, src) == Line("mov", size, dst, SP, src, 0)
MoveImm(size, dst, imm) == Line("mov_imm", size, dst, SP, SP, imm)
Op3(op, size, dst, lhs, rhs) == Line(op, size, dst, lhs, rhs, 0)
OpImm(op, size, dst, lhs, imm) == Line(op, size, dst, lhs, SP, imm)
Access(op, size, reg, base, off) == Line(op, size, reg, base, SP, off)
Adr(dst, sym) == Line("adr", X64, dst, SP, SP, sym)
Sxtw(dst, src) == Line("sxtw", X64, dst, SP, src, 0)
-----------------------------------------------------------------------------
IsAddSubImmEncodableWide(imm) ==
  /\ imm >= 0
  /\ imm <= ImmLimit - 1 \/ (imm % ImmLimit = 0 /\ imm \div ImmLimit <= ImmLimit)
IsAddSubImmEncodable(imm) ==
  /\ imm >= 0
  /\ imm <= ImmLimit - 1 \/ (imm % ImmLimit = 0 /\ imm \div ImmLimit <= ImmLimit - 1)
IsLdrStrOffsetEncodable(size, off) ==
  off >= 0 /\ off % size = 0 /\ off \div size <= ImmLimit - 1
IsLdurSturOffsetEncodable(off) == off \in -Unscaled .. Unscaled - 1
ScaleToShift(scale) == scale \in {1, 2, 4, 8}

NoScratch == -1
PickFreeScratch(regs) ==
  CASE SCRATCH0 \notin regs -> SCRATCH0
    [] SCRATCH1 \notin regs -> SCRATCH1
    [] OTHER -> NoScratch
PickScratchOrClobberDst(regs, dst) ==
  IF PickFreeScratch(regs) = NoScratch THEN dst ELSE PickFreeScratch(regs)
OtherScratch(r) == IF r = SCRATCH0 THEN SCRATCH1 ELSE SCRATCH0

Abs(n) == IF n < 0 THEN -n ELSE n
AddOrSub(n) == IF n < 0 THEN "sub" ELSE "add"

(* The stack bounces below count on adjusting sp without a scratch. *)
ASSUME SpillSlotAssumption ==
  ScratchSpillSlot \in Nat \ {0} /\ IsAddSubImmEncodable(ScratchSpillSlot)

(* A chunk that is not zero: movz while nothing has been put into the register,
   movk beside the lower chunks. *)
MovChunk(size, reg, v, k) ==
  IF ChunkAt(v, k) = 0 THEN <<>>
  ELSE <<Line(IF v % Pow(Chunk, k) = 0 THEN "movz" ELSE "movk", size, reg, k, SP,
              ChunkAt(v, k))>>

EmitMovImm(size, reg, value) ==
  LET v == value % Modulus(size)
      low == MovChunk(size, reg, v, 0) \o MovChunk(size, reg, v, 1)
      high == MovChunk(size, reg, v, 2) \o MovChunk(size, reg, v, 3)
  IN  IF v <= Chunk - 1 THEN <<MoveImm(size, reg, v)>>
      ELSE low \o (IF size = W32 THEN <<>> ELSE high)

EmitAddXImmWith(dst, base, off, scratch) ==
  CASE off = 0 -> <<Move(X64, dst, base)>>
    [] off # 0 /\ IsAddSubImmEncodable(Abs(off)) ->
         <<OpImm(IF off > 0 THEN "add_imm" ELSE "sub_imm", X64, dst, base, Abs(off))>>
    [] OTHER -> EmitMovImm(X64, scratch, Abs(off))
                  \o <<Op3(AddOrSub(off), X64, dst, base, scratch)>>

AdjustSp(op, imm) ==
  CASE imm = 0 -> <<>>
    [] imm # 0 /\ IsAddSubImmEncodable(imm) ->
         <<OpImm(IF op = "add" THEN "add_imm" ELSE "sub_imm", X64, SP, SP, imm)>>
    [] OTHER -> EmitMovImm(X64, SCRATCH0, imm) \o <<Op3(op, X64, SP, SP, SCRATCH0)>>
EmitSubSp(imm) == AdjustSp("sub", imm)
EmitAddSp(imm) == AdjustSp("add", imm)
-----------------------------------------------------------------------------
EmitMov(i) ==
  IF i.src.kind = "imm" THEN <<MoveImm(i.size, i.dst, i.src.val)>>
  ELSE <<Move(i.size, i.dst, i.src.val)>>

EmitOpViaImmScratch(op, size, dst, lhs, imm) ==
  LET scratch == IF dst # lhs THEN dst ELSE OtherScratch(dst)
  IN  EmitMovImm(size, scratch, imm) \o <<Op3(op, size, dst, lhs, scratch)>>

EmitBinop(i) ==
  LET imm == i.rhs.val
      op == CASE i.binop = "add" /\ imm < 0 -> "sub"
              [] i.binop = "sub" /\ imm < 0 -> "add"
              [] OTHER -> i.binop
  IN  CASE i.rhs.kind = "reg" -> <<Op3(i.binop, i.size, i.dst, i.lhs, i.rhs.val)>>
        [] i.rhs.kind = "imm" /\ i.binop \in {"mul", "sdiv"} ->
             EmitOpViaImmScratch(i.binop, i.size, i.dst, i.lhs, imm)
        [] OTHER ->
             IF IsAddSubImmEncodable(Abs(imm))
             THEN <<OpImm(IF op = "add" THEN "add_imm" ELSE "sub_imm",
                          i.size, i.dst, i.lhs, Abs(imm))>>
             ELSE EmitOpViaImmScratch(op, i.size, i.dst, i.lhs, Abs(imm))

(* base + offset in addr, which may not be the base. *)
ComputeAddr(addr, base, off) ==
  EmitMovImm(X64, addr, Abs(off)) \o <<Op3(AddOrSub(off), X64, addr, base, addr)>>

(* Both scratches taken: reg waits on the stack while its register holds the
   address, and comes back in the base's. *)
BounceStore(size, reg, base, off) ==
  EmitSubSp(ScratchSpillSlot) \o <<Access("str", size, reg, SP, 0)>>
    \o ComputeAddr(reg, base, off)
    \o <<Access("ldr", size, base, SP, 0)>> \o EmitAddSp(ScratchSpillSlot)
    \o <<Access("str", size, base, reg, 0)>>

EmitMemAccess(op, size, reg, addr) ==
  LET base == addr.base
      off == addr.offset
      scratch == PickFreeScratch({reg} \cup IF addr.kind = "global" THEN {} ELSE {base})
  IN  CASE addr.kind = "global" ->
             LET at == IF op = "ldr" THEN reg ELSE scratch
             IN  <<Adr(at, off), Access(op, size, reg, at, 0)>>
        [] addr.kind # "global" /\ (off = 0 \/ IsLdrStrOffsetEncodable(size, off)) ->
             <<Access(op, size, reg, base, off)>>
        [] addr.kind # "global" /\ off # 0 /\ ~IsLdrStrOffsetEncodable(size, off) ->
             CASE IsLdurSturOffsetEncodable(off) ->
                    <<Access(IF op = "ldr" THEN "ldur" ELSE "stur", size, reg, base, off)>>
               [] ~IsLdurSturOffsetEncodable(off) /\ op = "ldr" ->
                    ComputeAddr(reg, base, off) \o <<Access(op, size, reg, reg, 0)>>
               [] ~IsLdurSturOffsetEncodable(off) /\ op = "str" ->
                    IF scratch # NoScratch
                    THEN EmitAddXImmWith(scratch, base, off, scratch)
                           \o <<Access(op, size, reg, scratch, 0)>>
                    ELSE BounceStore(size, reg, base, off)

EmitLea(i) ==
  IF i.addr.kind = "global" THEN <<Adr(i.dst, i.addr.offset)>>
  ELSE EmitAddXImmWith(i.dst, i.addr.base, i.addr.offset,
                       PickScratchOrClobberDst({i.dst, i.addr.base}, i.dst))

(* dst := base + index * scale for a scale that is not a shift.  acc holds the
   product, factor the scale. *)
Product(acc, index, factor, scale) ==
  <<Sxtw(acc, index)>> \o EmitMovImm(X64, factor, scale)
    \o <<Op3("mul", X64, acc, acc, factor)>>
Stash(reg) == EmitSubSp(ScratchSpillSlot) \o <<Access("str", X64, reg, SP, 0)>>
UnstashNoPop(reg) == <<Access("ldr", X64, reg, SP, 0)>>
Unstash(reg) == <<Access("ldr", X64, reg, SP, 0)>> \o EmitAddSp(ScratchSpillSlot)

ScaledIndex(dst, base, index, scale) ==
  LET free == PickFreeScratch({dst, base})
      other == OtherScratch(base)
      Sum(lhs, rhs) == <<Op3("add", X64, dst, lhs, rhs)>>
  IN  CASE dst # base /\ free # NoScratch ->
             Product(dst, index, free, scale) \o Sum(base, dst)
        [] dst # base /\ free = NoScratch ->
             Stash(base) \o Product(dst, index, base, scale) \o Unstash(base) \o Sum(base, dst)
        [] dst = base /\ base \in {SCRATCH0, SCRATCH1} ->
             Stash(base) \o Product(base, index, other, scale) \o Unstash(other)
               \o Sum(other, base)
        [] OTHER -> Product(SCRATCH0, index, SCRATCH1, scale) \o Sum(base, SCRATCH0)

EmitGep(i) ==
  CASE i.index.kind = "imm" ->
         EmitAddXImmWith(i.dst, i.base, i.index.val * i.scale,
                         PickScratchOrClobberDst({i.dst, i.base}, i.dst))
    [] i.index.kind = "reg" /\ ScaleToShift(i.scale) ->
         <<Line("add_sxtw", X64, i.dst, i.base, i.index.val, i.scale)>>
    [] OTHER -> ScaledIndex(i.dst, i.base, i.index.val, i.scale)

EmitCmp(i) ==
  CASE i.rhs.kind = "reg" -> <<Op3("cmp", i.size, SP, i.lhs, i.rhs.val)>>
    [] i.rhs.kind = "imm" /\ IsAddSubImmEncodable(i.rhs.val) ->
         <<OpImm("cmp_imm", i.size, SP, i.lhs, i.rhs.val)>>
    [] OTHER -> EmitMovImm(i.size, OtherScratch(i.lhs), i.rhs.val)
                  \o <<Op3("cmp", i.size, SP, i.lhs, OtherScratch(i.lhs))>>

(* A return stands for the whole epilogue, which is CallSequence's. *)
EmitInst(i) ==
  CASE i.op = "Mov" -> EmitMov(i)
    [] i.op = "BinOp" -> EmitBinop(i)
    [] i.op = "Cmp" -> EmitCmp(i)
    [] i.op = "Ldr" -> EmitMemAccess("ldr", i.size, i.dst, i.addr)
    [] i.op = "Str" -> EmitMemAccess("str", i.size, i.src, i.addr)
    [] i.op = "Lea" -> EmitLea(i)
    [] i.op = "Gep" -> EmitGep(i)
    [] i.op = "SubSp" -> EmitSubSp(i.imm)
    [] i.op = "AddSp" -> EmitAddSp(i.imm)
    [] i.op = "B" -> <<OpImm("b", X64, SP, SP, i.label)>>
    [] i.op = "BCond" -> <<Line("b_cond", X64, SP, SP, i.cond, i.label)>>
    [] i.op = "Ret" -> <<OpImm("ret", X64, SP, SP, 0)>>
=============================================================================
