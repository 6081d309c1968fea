----------------------------- MODULE A64Machine -----------------------------
(* The processor as the instructions AsmPrinter writes see it: general
   registers, sp, the operands of the last comparison, and a memory of cells
   that are always accessed at one width.  The architecture is scaled: a
   move-wide instruction carries Chunk values (65536 in A64), a w register two
   chunks, an x register four; an immediate operand has ImmLimit values (4096),
   an unscaled offset reaches Unscaled (256) down. *)
EXTENDS Integers, Sequences

CONSTANTS Chunk, ImmLimit, Unscaled

ASSUME MachineAssumption ==
  Chunk \in Nat \ {0, 1} /\ ImmLimit \in Nat \ {0} /\ Unscaled \in Nat \ {0}

SP == 32     \* the stack pointer, beside registers 0..30
FP == 29
LR == 30
REG_X0 == 0
SCRATCH0 == 16
SCRATCH1 == 17

(* A register size is the number of bytes it moves. *)
W32 == 4
X64 == 8
Modulus(size) == IF size = W32 THEN Chunk * Chunk ELSE Chunk * Chunk * Chunk * Chunk
Signed(v, size) ==
  LET n == v % Modulus(size) IN IF 2 * n >= Modulus(size) THEN n - Modulus(size) ELSE n
Pow(b, n) == CASE n = 0 -> 1 [] n = 1 -> b [] n = 2 -> b * b [] n = 3 -> b * b * b

(* Division rounds towards zero; by zero it gives zero. *)
Quotient(a, b) ==
  LET q == (IF a < 0 THEN -a ELSE a) \div (IF b < 0 THEN -b ELSE b)
  IN  IF b = 0 THEN 0 ELSE IF (a < 0) = (b < 0) THEN q ELSE -q

Arith(op, a, b, size) ==
  CASE op = "add" -> (a + b) % Modulus(size)
    [] op = "sub" -> (a - b) % Modulus(size)
    [] op = "mul" -> ((a % Modulus(size)) * (b % Modulus(size))) % Modulus(size)
    [] op = "sdiv" -> Quotient(Signed(a, size), Signed(b, size)) % Modulus(size)

(* What a comparison of two signed operands leaves in the flags. *)
Flags(a, b, size) ==
  CASE Signed(a, size) < Signed(b, size) -> "lt"
    [] Signed(a, size) = Signed(b, size) -> "eq"
    [] OTHER -> "gt"

(* The comparisons a conditional branch can test. *)
CondHolds(cond, flags) ==
  CASE cond = "eq" -> flags = "eq"  [] cond = "ne" -> flags # "eq"
    [] cond = "lt" -> flags = "lt"  [] cond = "le" -> flags # "gt"
    [] cond = "gt" -> flags = "gt"  [] cond = "ge" -> flags # "lt"

(* Where control is: in the block that runs, back in the caller, or at the
   start of a block, whose number is the target of a branch. *)
Here == 0
Returned == -1
-----------------------------------------------------------------------------
(* A machine is [regs, mem, flags, at]; regs holds the stack pointer too, mem
   the cells written so far: one never written holds its own address. *)
Read(m, r, size) == m.regs[r] % Modulus(size)
Write(m, r, v) == [m EXCEPT !.regs[r] = v]
AddressAt(m, base, off) == (m.regs[base] + off) % Modulus(X64)
Cell(m, a) == IF a \in DOMAIN m.mem THEN m.mem[a] ELSE a
Fetch(m, a, size) == Cell(m, a) % Modulus(size)
Assigned(f, x, v) == [y \in DOMAIN f \cup {x} |-> IF y = x THEN v ELSE f[y]]
StoreCell(m, a, v) == [m EXCEPT !.mem = Assigned(m.mem, a, v)]

(* Chunks of a value, least significant first. *)
ChunkAt(v, k) == (v \div Pow(Chunk, k)) % Chunk

(* What one machine instruction does: mov and its relatives have dst and rhs or
   imm, arithmetic dst, lhs and rhs or imm, loads and stores a register, a base
   lhs and an offset imm, branches a target imm. *)
Execute(m, i) ==
  CASE i.op = "mov" -> Write(m, i.dst, Read(m, i.rhs, i.size))
    [] i.op = "mov_imm" -> Write(m, i.dst, i.imm % Modulus(i.size))
    [] i.op = "movz" -> Write(m, i.dst, i.imm * Pow(Chunk, i.lhs))
    [] i.op = "movk" ->
         LET old == Read(m, i.dst, i.size)
         IN  Write(m, i.dst, old + (i.imm - ChunkAt(old, i.lhs)) * Pow(Chunk, i.lhs))
    [] i.op \in {"add", "sub", "mul", "sdiv"} ->
         Write(m, i.dst, Arith(i.op, Read(m, i.lhs, i.size), Read(m, i.rhs, i.size), i.size))
    [] i.op = "add_imm" -> Write(m, i.dst, Arith("add", m.regs[i.lhs], i.imm, i.size))
    [] i.op = "sub_imm" -> Write(m, i.dst, Arith("sub", m.regs[i.lhs], i.imm, i.size))
    [] i.op = "add_sxtw" ->
         Write(m, i.dst, (m.regs[i.lhs] + Signed(m.regs[i.rhs], W32) * i.imm) % Modulus(X64))
    [] i.op = "sxtw" -> Write(m, i.dst, Signed(m.regs[i.rhs], W32) % Modulus(X64))
    [] i.op = "adr" -> Write(m, i.dst, i.imm)
    [] i.op \in {"ldr", "ldur"} ->
         Write(m, i.dst, Fetch(m, AddressAt(m, i.lhs, i.imm), i.size))
    [] i.op \in {"str", "stur"} ->
         StoreCell(m, AddressAt(m, i.lhs, i.imm), Read(m, i.dst, i.size))
    [] i.op = "cmp" ->
         [m EXCEPT !.flags = Flags(m.regs[i.lhs], m.regs[i.rhs], i.size)]
    [] i.op = "cmp_imm" -> [m EXCEPT !.flags = Flags(m.regs[i.lhs], i.imm, i.size)]
    [] i.op = "b_cond" -> IF CondHolds(i.rhs, m.flags) THEN [m EXCEPT !.at = i.imm] ELSE m
    [] i.op = "b" -> [m EXCEPT !.at = i.imm]
    [] i.op = "ret" -> [m EXCEPT !.at = Returned]

(* The address a load or store uses. *)
IsAccess(i) == i.op \in {"ldr", "ldur", "str", "stur"}
Accessed(m, i) == AddressAt(m, i.lhs, i.imm)
-----------------------------------------------------------------------------
(* What the instruction set can encode.  An assembler accepts mov with an
   immediate when one movz or movn produces the value (bit patterns for orr
   aside). *)
OneChunk(v, size) ==
  \E k \in 0 .. (IF size = W32 THEN 1 ELSE 3) : v = ChunkAt(v, k) * Pow(Chunk, k)
Encodable(i) ==
  CASE i.op = "mov_imm" ->
         \/ OneChunk(i.imm % Modulus(i.size), i.size)
         \/ OneChunk((-1 - i.imm) % Modulus(i.size), i.size)
    [] i.op \in {"movz", "movk"} ->
         i.imm \in 0 .. Chunk - 1 /\ i.lhs \in 0 .. (IF i.size = W32 THEN 1 ELSE 3)
    [] i.op \in {"add_imm", "sub_imm", "cmp_imm"} ->
         \/ i.imm \in 0 .. ImmLimit - 1
         \/ i.imm % ImmLimit = 0 /\ i.imm \div ImmLimit \in 0 .. ImmLimit - 1
    [] i.op \in {"ldr", "str"} ->
         i.imm >= 0 /\ i.imm % i.size = 0 /\ i.imm \div i.size < ImmLimit
    [] i.op \in {"ldur", "stur"} -> i.imm \in -Unscaled .. Unscaled - 1
    [] i.op = "add_sxtw" -> i.imm \in {1, 2, 4, 8}
    [] i.op \in {"mul", "sdiv"} -> SP \notin {i.dst, i.lhs, i.rhs}
    [] i.op \in {"mov", "add", "sub"} -> i.size = X64 \/ i.dst # SP
    [] OTHER -> TRUE
=============================================================================
