------------------------ MODULE InstructionSelection ------------------------
(* FunctionGenerator of src/asm/aarch64/function_generator.rs: one IR statement
   after another becomes instructions on virtual registers, which InstRewriting
   then takes to the processor.  What the statements mean is said by a machine
   of the IR: a local has a value, a comparison is a value like any other, and
   memory is addressed by pointers. *)
EXTENDS InstRewriting, SequencesExt

CONSTANTS
  Programs,  \* records [body, copies, vals]: the statements of a block, the
             \* copies its phi edges ask for, in sequence, and the values of
             \* the locals it reads before writing them
  Allocas,   \* the slot of every alloca: an offset from fp, by local
  Layouts,   \* StructLayouts: records [size, offsets], by name
  NextVReg   \* the function's next_vreg: no local has this number or more

VARIABLES
  block,      \* the program
  stmts,      \* statements still to select
  cond_map,   \* HashMap<usize, Cond>: the condition of every compared local
  next_vreg,  \* fresh_vreg's counter
  refused     \* Error

selectionVars == <<block, stmts, cond_map, next_vreg, refused>>
vars == <<backendVars, selectionVars>>
-----------------------------------------------------------------------------
(* Types and operands of the IR. *)
I1 == [kind |-> "i1"]
I32 == [kind |-> "i32"]
Pointer(to) == [kind |-> "ptr", to |-> to]
Struct(name) == [kind |-> "struct", name |-> name]
Array(of) == [kind |-> "array", of |-> of]

Const(c) == [kind |-> "const", val |-> c, dtype |-> I32]
Local(id, dtype) == [kind |-> "local", id |-> id, dtype |-> dtype]
GlobalOp(sym, dtype) == [kind |-> "global", sym |-> sym, dtype |-> dtype]

IsInt(d) == d.kind \in {"i1", "i32"}
HasRegister(d) == d.kind \in {"i1", "i32", "ptr"}
RegisterSize(d) == IF IsInt(d) THEN W32 ELSE X64
HasAlloca(o) == o.kind = "local" /\ o.id \in DOMAIN Allocas

(* size_align_of, with the layouts StructLayout computes. *)
SizeOf(d) ==
  CASE d.kind = "i1" -> 1 [] d.kind = "i32" -> W32 [] d.kind = "ptr" -> X64
    [] d.kind = "struct" -> Layouts[d.name].size
-----------------------------------------------------------------------------
(* Operands.  Each kind of use accepts some operands and refuses others. *)
LowersInt(o) ==
  o.kind = "const" \/ (o.kind = "local" /\ IsInt(o.dtype) /\ ~HasAlloca(o))
LowersValue(o) ==
  \/ o.kind = "const"
  \/ o.kind = "local" /\ IsInt(o.dtype)
  \/ o.kind = "local" /\ o.dtype.kind = "ptr" /\ ~HasAlloca(o)
LowersPtr(o) ==
  HasAlloca(o) \/ o.kind = "global" \/ (o.kind = "local" /\ o.dtype.kind = "ptr")

LowerValue(o) == IF o.kind = "const" THEN Imm(o.val) ELSE Reg(o.id)
LowerPtrAsAddr(o) ==
  CASE HasAlloca(o) -> LocalAddr(Allocas[o.id])
    [] o.kind = "global" -> Global(o.sym)
    [] OTHER -> BaseOff(o.id, 0)

(* An immediate in the place of a register moves into a fresh one. *)
NeedsFresh(o) == o.kind = "const"
InRegister(o) == IF NeedsFresh(o) THEN next_vreg ELSE o.id
MoveFresh(o) ==
  IF NeedsFresh(o) THEN <<Mov(RegisterSize(o.dtype), next_vreg, Imm(o.val))>> ELSE <<>>

BinOp(op, size, dst, lhs, rhs) ==
  [op |-> "BinOp", binop |-> op, size |-> size, dst |-> dst, lhs |-> lhs, rhs |-> rhs]
Cmp(lhs, rhs) == [op |-> "Cmp", size |-> W32, lhs |-> lhs, rhs |-> rhs]
Lea(dst, addr) == [op |-> "Lea", dst |-> dst, addr |-> addr]
Gep(dst, base, index, scale) ==
  [op |-> "Gep", dst |-> dst, base |-> base, index |-> index, scale |-> scale]
B(label) == [op |-> "B", label |-> label]
BCond(cond, label) == [op |-> "BCond", cond |-> cond, label |-> label]

(* emit_ptr_to_reg. *)
PtrToReg(o, dst) ==
  IF HasAlloca(o) \/ o.kind = "global" THEN <<Lea(dst, LowerPtrAsAddr(o))>>
  ELSE <<Mov(X64, dst, Reg(o.id))>>
-----------------------------------------------------------------------------
CmpOpToCond(kind) ==
  CASE kind = "Eq" -> "eq" [] kind = "Ne" -> "ne" [] kind = "Slt" -> "lt"
    [] kind = "Sle" -> "le" [] kind = "Sgt" -> "gt" [] kind = "Sge" -> "ge"

(* emit_gep: a field of a struct, or an element counted from the base. *)
IsStructFieldAccess(s) ==
  /\ s.base.dtype.kind = "ptr" /\ s.base.dtype.to.kind = "struct"
  /\ s.dst.dtype # s.base.dtype
Stepped(d) ==
  LET of == IF d.kind = "ptr" THEN d.to ELSE d
  IN  IF of.kind = "array" THEN of.of ELSE of

GepStructAccepts(s) ==
  /\ s.index.kind = "const"
  /\ s.base.dtype.to.name \in DOMAIN Layouts
  /\ s.index.val \in 0 .. Len(Layouts[s.base.dtype.to.name].offsets) - 1
FieldOffset(s) == Layouts[s.base.dtype.to.name].offsets[s.index.val + 1]

EmitPtrOffset(dst, base, offset) ==
  CASE HasAlloca(base) -> <<Lea(dst, LocalAddr(Allocas[base.id] + offset))>>
    [] base.kind = "global" ->
         <<Lea(dst, Global(base.sym))>>
           \o (IF offset = 0 THEN <<>> ELSE <<BinOp("add", X64, dst, dst, Imm(offset))>>)
    [] OTHER -> <<Lea(dst, BaseOff(base.id, offset))>>

EmitGepArray(s) ==
  LET step(base) == Gep(s.dst.id, base, LowerValue(s.index), SizeOf(Stepped(s.base.dtype)))
  IN  IF HasAlloca(s.base) \/ s.base.kind = "global"
      THEN <<Lea(s.dst.id, LowerPtrAsAddr(s.base)), step(s.dst.id)>>
      ELSE <<step(s.base.id)>>

(* emit_stack_arg: what is no register goes through x16. *)
EmitStackArg(s) ==
  LET slot == BaseOff(SP, s.at)
      size == RegisterSize(s.src.dtype)
  IN  CASE s.src.dtype.kind \in {"ptr", "array"} ->
             PtrToReg(s.src, SCRATCH0) \o <<Str(X64, SCRATCH0, slot)>>
        [] s.src.kind = "const" ->
             <<Mov(size, SCRATCH0, Imm(s.src.val)), Str(size, SCRATCH0, slot)>>
        [] OTHER -> <<Str(size, s.src.id, slot)>>

EmitGprArg(s) ==
  IF s.src.dtype.kind \in {"ptr", "array"} THEN PtrToReg(s.src, s.at)
  ELSE <<Mov(RegisterSize(s.src.dtype), s.at, LowerValue(s.src))>>
-----------------------------------------------------------------------------
(* emit_stmt: whether it succeeds, and what it appends.  gpr_arg, stack_arg,
   call_result and as_is are pieces of a call, whose order is the subject of
   CallSequence; copy is one copy of a phi. *)
Accepts(s) ==
  CASE s.op = "store" -> LowersValue(s.src) /\ LowersPtr(s.ptr)
    [] s.op = "load" -> HasRegister(s.dst.dtype) /\ LowersPtr(s.ptr)
    [] s.op \in {"biop", "cmp"} -> LowersInt(s.left) /\ LowersInt(s.right)
    [] s.op = "cjump" -> s.cond.kind = "local" /\ s.cond.id \in DOMAIN cond_map
    [] s.op = "gep" ->
         /\ LowersPtr(s.base) /\ s.base.dtype.kind \in {"ptr", "array"}
         /\ IF IsStructFieldAccess(s) THEN GepStructAccepts(s)
            ELSE LowersInt(s.index)
    [] s.op = "return" -> LowersValue(s.val)
    [] s.op \in {"gpr_arg", "stack_arg"} ->
         IF s.src.dtype.kind \in {"ptr", "array"} THEN LowersPtr(s.src) ELSE LowersValue(s.src)
    [] s.op = "copy" -> HasRegister(s.dst.dtype) /\ s.src.kind # "global"
    [] s.op = "call_result" -> HasRegister(s.dst.dtype)
    [] s.op = "phi" -> FALSE
    [] OTHER -> TRUE

Emitted(s) ==
  CASE s.op = "store" ->
         MoveFresh(s.src)
           \o <<Str(RegisterSize(s.src.dtype), InRegister(s.src), LowerPtrAsAddr(s.ptr))>>
    [] s.op = "load" -> <<Ldr(RegisterSize(s.dst.dtype), s.dst.id, LowerPtrAsAddr(s.ptr))>>
    [] s.op = "biop" ->
         MoveFresh(s.left)
           \o <<BinOp(s.kind, W32, s.dst.id, InRegister(s.left), LowerValue(s.right))>>
    [] s.op = "cmp" -> MoveFresh(s.left) \o <<Cmp(InRegister(s.left), LowerValue(s.right))>>
    [] s.op = "cjump" -> <<BCond(cond_map[s.cond.id], s.true), B(s.false)>>
    [] s.op = "jump" -> <<B(s.target)>>
    [] s.op = "gep" ->
         IF IsStructFieldAccess(s) THEN EmitPtrOffset(s.dst.id, s.base, FieldOffset(s))
         ELSE EmitGepArray(s)
    [] s.op = "return" ->
         <<Mov(RegisterSize(s.val.dtype), REG_X0, LowerValue(s.val)), [op |-> "Ret"]>>
    [] s.op = "return_void" -> <<[op |-> "Ret"]>>
    [] s.op = "gpr_arg" -> EmitGprArg(s)
    [] s.op = "stack_arg" -> EmitStackArg(s)
    [] s.op = "call_result" -> <<Mov(RegisterSize(s.dst.dtype), s.dst.id, Reg(REG_X0))>>
    [] s.op = "copy" -> <<Mov(RegisterSize(s.dst.dtype), s.dst.id, LowerValue(s.src))>>
    [] s.op = "as_is" -> <<s.inst>>
    [] s.op = "alloca" -> <<>>

TakesFresh(s) ==
  CASE s.op = "store" -> NeedsFresh(s.src)
    [] s.op \in {"biop", "cmp"} -> NeedsFresh(s.left)
    [] OTHER -> FALSE
-----------------------------------------------------------------------------
(* emit_block_body: the copies go before the last terminator, or to the end of
   a block without one. *)
IsTerminator(s) == s.op \in {"jump", "cjump", "return", "return_void"}
Terminators(body) == {k \in DOMAIN body : IsTerminator(body[k])}
CopiesAtTheEnd(body, copies) == body \o copies
EmissionOrder(body, copies) ==
  IF Terminators(body) = {} THEN body \o copies
  ELSE LET pos == CHOOSE k \in Terminators(body) : \A j \in Terminators(body) : j <= k
       IN  SubSeq(body, 1, pos - 1) \o copies \o SubSeq(body, pos, Len(body))

(* The statements IR generation and promotion produce: operands are i32
   constants, addresses of globals and numbered locals, of which allocas are
   pointers; a block ends with its only terminator; what is read has been
   defined. *)
Locals == FirstVReg .. NextVReg - 1
IsOperand(o) ==
  CASE o.kind = "const" ->
         /\ o.dtype.kind = "i32"
         /\ o.val \in Int /\ 2 * o.val \in -Modulus(W32) .. Modulus(W32) - 1
    [] o.kind = "global" -> o.sym \in 0 .. Modulus(X64) - 1
    [] OTHER -> /\ o.kind = "local" /\ o.id \in Locals
                /\ o.id \in DOMAIN Allocas => o.dtype.kind = "ptr"
PiecesOfCalls ==
  [op : {"SubSp", "AddSp"}, imm : Nat]
    \cup [op : {"Ldr"}, size : {W32, X64}, dst : Locals,
          addr : [kind : {"base_off"}, base : {FP}, offset : Int]]

Operands(s) ==
  CASE s.op = "store" -> {s.src, s.ptr} [] s.op = "load" -> {s.ptr}
    [] s.op \in {"biop", "cmp"} -> {s.left, s.right}
    [] s.op = "gep" -> {s.base, s.index} [] s.op = "return" -> {s.val}
    [] s.op \in {"gpr_arg", "stack_arg", "copy"} -> {s.src}
    [] OTHER -> {}
DefinedLocals(s) ==
  CASE s.op \in {"load", "biop", "gep", "call_result", "copy"} -> {s.dst.id}
    [] s.op = "as_is" /\ s.inst.op = "Ldr" -> {s.inst.dst}
    [] OTHER -> {}
ReadLocals(s) == {o.id : o \in {x \in Operands(s) : x.kind = "local" /\ ~HasAlloca(x)}}

IsStatement(s) ==
  /\ \A o \in Operands(s) : IsOperand(o)
  /\ DefinedLocals(s) \subseteq Locals
  /\ CASE s.op = "biop" -> s.kind \in {"add", "sub", "mul", "sdiv"}
       [] s.op = "cmp" -> s.kind \in {"Eq", "Ne", "Slt", "Sle", "Sgt", "Sge"}
       [] s.op = "cjump" -> s.true \in Nat \ {Here} /\ s.false \in Nat \ {Here}
       [] s.op = "jump" -> s.target \in Nat \ {Here}
       [] s.op = "gep" ->
            IF IsStructFieldAccess(s) THEN GepStructAccepts(s) => FieldOffset(s) \in Nat
            ELSE SizeOf(Stepped(s.base.dtype)) \in Nat
       [] s.op = "gpr_arg" -> s.at = REG_X0
       [] s.op = "stack_arg" -> s.at \in Nat
       [] s.op = "as_is" -> s.inst \in PiecesOfCalls
       [] s.op = "copy" -> ~HasAlloca(s.src)
       [] OTHER -> s.op \in {"store", "load", "return", "return_void", "call_result", "alloca", "phi"}

IsBlock(p) ==
  LET order == EmissionOrder(p.body, p.copies)
  IN  /\ p.body \in Seq(ToSet(p.body)) /\ p.copies \in Seq(ToSet(p.copies))
      /\ Terminators(p.body) \subseteq {Len(p.body)} /\ Terminators(p.copies) = {}
      /\ DOMAIN p.vals \subseteq Locals
      /\ \A v \in DOMAIN p.vals : p.vals[v] \in 0 .. Modulus(X64) - 1
      /\ \A k \in DOMAIN order :
           /\ IsStatement(order[k])
           /\ ReadLocals(order[k]) \subseteq
                DOMAIN p.vals \cup UNION {DefinedLocals(order[j]) : j \in 1 .. k - 1}

ASSUME ProgramsAssumption ==
  /\ NextVReg \in Nat /\ NextVReg >= FirstVReg
  /\ \A v \in DOMAIN Allocas : Allocas[v] \in Int
  /\ \A p \in Programs : IsBlock(p)

(* And they are typed: a local is of one size wherever it is defined or read,
   and a copy keeps it; an address computed from a pointer to a struct is that
   of a field, and its index is not in the local it is computed into.  What has
   been compared is a condition and nothing else, and a branch asks for the
   last comparison before it. *)
Sized(id, size) == [id |-> id, size |-> size]
SizesRead(s) ==
  {Sized(o.id, RegisterSize(o.dtype)) : o \in {x \in Operands(s) : x.kind = "local" /\ ~HasAlloca(x)}}
SizesDefined(s) ==
  CASE s.op \in {"load", "biop", "call_result", "copy"} -> {Sized(s.dst.id, RegisterSize(s.dst.dtype))}
    [] s.op = "gep" -> {Sized(s.dst.id, X64)}
    [] s.op = "as_is" /\ s.inst.op = "Ldr" -> {Sized(s.inst.dst, s.inst.size)}
    [] OTHER -> {}
SizesIn(order) == UNION {SizesRead(order[k]) \cup SizesDefined(order[k]) : k \in DOMAIN order}
IsTypedStatement(s) ==
  /\ s.op = "copy" => RegisterSize(s.src.dtype) = RegisterSize(s.dst.dtype)
  /\ s.op = "gep" =>
       /\ s.dst.id \notin ReadLocals(s)
       /\ s.base.dtype.kind = "ptr" /\ s.base.dtype.to.kind = "struct" => IsStructFieldAccess(s)
LastCompared(order, k, c) ==
  \E j \in 1 .. k :
    /\ order[j].op = "cmp" /\ order[j].dst.id = c
    /\ \A i \in j + 1 .. k : order[i].op # "cmp"
IsTyped(p) ==
  LET order == EmissionOrder(p.body, p.copies)
  IN  /\ \A s \in ToSet(p.copies) : s.op = "copy"
      /\ \A u, w \in SizesIn(order) : u.id = w.id => u.size = w.size
      /\ \A w \in SizesIn(order) : w.id \in DOMAIN p.vals => p.vals[w.id] < Modulus(w.size)
      /\ \A k \in DOMAIN order :
           /\ IsTypedStatement(order[k])
           /\ order[k].op = "cmp" =>
                order[k].dst.id \notin
                  DOMAIN Allocas \cup DOMAIN p.vals \cup UNION {DefinedLocals(order[j]) : j \in DOMAIN order}
           /\ order[k].op = "cjump" =>
                \A c \in {order[j].dst.id : j \in {i \in 1 .. k - 1 : order[i].op = "cmp"}} :
                  LastCompared(order, k - 1, c) => order[k].cond.id = c

ASSUME TypesAssumption == \A p \in Programs : IsTyped(p)

Init ==
  /\ block \in Programs
  /\ stmts = EmissionOrder(block.body, block.copies)
  /\ vals = block.vals
  /\ code = <<>> /\ cond_map = <<>>
  /\ next_vreg = NextVReg
  /\ refused = FALSE
  /\ BackendInit

(* One call of emit_stmt or emit_copy; an error ends the generation. *)
Select ==
  /\ ~refused /\ stmts # <<>>
  /\ LET s == Head(stmts) IN
       IF Accepts(s)
       THEN /\ code' = code \o Emitted(s)
            /\ next_vreg' = next_vreg + (IF TakesFresh(s) THEN 1 ELSE 0)
            /\ cond_map' = IF s.op = "cmp"
                           THEN Assigned(cond_map, s.dst.id, CmpOpToCond(s.kind))
                           ELSE cond_map
            /\ stmts' = Tail(stmts)
            /\ UNCHANGED refused
       ELSE /\ refused' = TRUE
            /\ UNCHANGED <<code, next_vreg, cond_map, stmts>>
  /\ UNCHANGED <<block, vals, located, place, insts, output, text, m, ref>>

Next ==
  \/ Select
  \/ /\ ~refused /\ stmts = <<>>
     /\ Allocate \/ BackendNext
     /\ UNCHANGED selectionVars
Spec == Init /\ [][Next]_vars
-----------------------------------------------------------------------------
(* The machine of the IR: the values of locals, memory, the first argument or
   result register, the stack pointer and where control is. *)
Env(s, o) ==
  CASE o.kind = "const" -> o.val % Modulus(W32)
    [] o.kind = "global" -> o.sym
    [] HasAlloca(o) -> (FpValue + Allocas[o.id]) % Modulus(X64)
    [] OTHER -> s.env[o.id]

(* A struct is entered, an array stepped through, a pointer stepped over what
   it points to, as the printed getelementptr says. *)
GepOffset(s, g) ==
  LET of == IF g.base.dtype.kind = "ptr" THEN g.base.dtype.to ELSE g.base.dtype
      index == Signed(Env(s, g.index), W32)
  IN  CASE of.kind = "struct" -> Layouts[of.name].offsets[index + 1]
        [] of.kind = "array" -> index * SizeOf(of.of)
        [] OTHER -> index * SizeOf(of)

Compares(kind, a, b) ==
  CASE kind = "Eq" -> a = b [] kind = "Ne" -> a # b [] kind = "Slt" -> a < b
    [] kind = "Sle" -> a <= b [] kind = "Sgt" -> a > b [] kind = "Sge" -> a >= b
Bind(s, dst, v) == [s EXCEPT !.env = Assigned(s.env, dst.id, v)]

(* Pieces of calls: the outgoing area, a parameter that came on the stack. *)
InterpretPiece(s, i) ==
  CASE i.op = "SubSp" -> [s EXCEPT !.sp = s.sp - i.imm]
    [] i.op = "AddSp" -> [s EXCEPT !.sp = s.sp + i.imm]
    [] i.op = "Ldr" ->
         [s EXCEPT !.env = Assigned(s.env, i.dst,
                                    Fetch(s, (FpValue + i.addr.offset) % Modulus(X64), i.size))]
Interpret(s, t) ==
  CASE t.op = "store" ->
         StoreCell(s, Env(s, t.ptr), Env(s, t.src) % Modulus(RegisterSize(t.src.dtype)))
    [] t.op = "load" -> Bind(s, t.dst, Fetch(s, Env(s, t.ptr), RegisterSize(t.dst.dtype)))
    [] t.op = "biop" -> Bind(s, t.dst, Arith(t.kind, Env(s, t.left), Env(s, t.right), W32))
    [] t.op = "cmp" ->
         Bind(s, t.dst, IF Compares(t.kind, Signed(Env(s, t.left), W32), Signed(Env(s, t.right), W32))
                        THEN 1 ELSE 0)
    [] t.op = "cjump" -> [s EXCEPT !.at = IF Env(s, t.cond) = 1 THEN t.true ELSE t.false]
    [] t.op = "jump" -> [s EXCEPT !.at = t.target]
    [] t.op = "gep" -> Bind(s, t.dst, (Env(s, t.base) + GepOffset(s, t)) % Modulus(X64))
    [] t.op = "return" -> [s EXCEPT !.at = Returned, !.x0 = Env(s, t.val)]
    [] t.op = "return_void" -> [s EXCEPT !.at = Returned]
    [] t.op = "gpr_arg" -> [s EXCEPT !.x0 = Env(s, t.src)]
    [] t.op = "stack_arg" -> StoreCell(s, (s.sp + t.at) % Modulus(X64), Env(s, t.src))
    [] t.op = "call_result" -> Bind(s, t.dst, s.x0 % Modulus(RegisterSize(t.dst.dtype)))
    [] t.op = "copy" -> Bind(s, t.dst, Env(s, t.src))
    [] t.op = "as_is" -> InterpretPiece(s, t.inst)
    [] OTHER -> s

(* A block runs its statements, then its copies, and then leaves. *)
Entered(p) ==
  [env |-> p.vals, mem |-> <<>>, x0 |-> InitialReg(REG_X0), sp |-> SpValue, at |-> Here]
AsMeant(p) ==
  IF p.body # <<>> /\ IsTerminator(Last(p.body))
  THEN Front(p.body) \o p.copies \o <<Last(p.body)>>
  ELSE p.body \o p.copies
Interpreted(p) ==
  LET after[k \in 0 .. Len(AsMeant(p))] ==
        IF k = 0 THEN Entered(p) ELSE Interpret(after[k - 1], AsMeant(p)[k])
  IN  after
Meant == Interpreted(block)[Len(AsMeant(block))]

(* The instructions do what the statements say: the same values in every local
   that is not just a condition, the same memory, the same register passed on,
   and above all the same way out of the block, although the condition of a
   branch is never a value but the flags of whatever was compared last. *)
Conditions == {s.dst.id : s \in {t \in ToSet(block.body) : t.op = "cmp"}}

SelectionFaithful ==
  Rewritten =>
    /\ \A v \in DOMAIN Meant.env \ (Conditions \cup (DOMAIN vals \ Vregs)) : ref.regs[v] = Meant.env[v]
    /\ \A a \in DOMAIN ref.mem \cup DOMAIN Meant.mem : Cell(ref, a) = Cell(Meant, a)
    /\ ref.regs[REG_X0] = Meant.x0
    /\ ref.at = Meant.at
=============================================================================
