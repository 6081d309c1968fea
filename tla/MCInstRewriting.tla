-------------------------- MODULE MCInstRewriting --------------------------
(* Every form of instruction FunctionGenerator emits, from the statements it is
   emitted for, with the locals D (the result), A and B in three registers or
   in near and far slots.  Chunk = 8, so w registers have 6 bits and x
   registers 12; ImmLimit = 4, Unscaled = 24: slots, allocas, offsets,
   immediates and scales lie on both sides of every limit. *)
EXTENDS InstructionSelection

D == 100
A == 101
B1 == 102
E == 103
Near == 110
Far == 111

MCRegisters == {8, 9, 10}
MCFp == 1024
MCSp == 768
MCNextVReg == 120
MCSlotsOf(v) ==
  CASE v = D -> {-8, -40} [] v = A -> {-16, -48} [] v = B1 -> {-24, -56}
    [] v = E -> {-32} [] OTHER -> {-64 - 8 * (v - 120)}
MCAllocas == [v \in {Near, Far} |-> IF v = Near THEN -12 ELSE -100]
MCLayouts == [s |-> [size |-> 12, offsets |-> <<0, 4, 8>>],
              t |-> [size |-> 20, offsets |-> <<0, 4, 16>>]]

Symbol == 3000
Address == 2000

IntD == Local(D, I32)
IntA == Local(A, I32)
IntB == Local(B1, I32)
PtrA(to) == Local(A, Pointer(to))
Values(d) == IF d = I32 THEN IntA ELSE PtrA(I32)

NearOp(to) == Local(Near, Pointer(to))
FarOp(to) == Local(Far, Pointer(to))
SymbolOp(to) == GlobalOp(Symbol, Pointer(to))
Memory(to) == {NearOp(to), FarOp(to), SymbolOp(to)}

Store(src, ptr) == [op |-> "store", src |-> src, ptr |-> ptr]
Load(dst, ptr) == [op |-> "load", dst |-> dst, ptr |-> ptr]
BiOp(kind, l, r) == [op |-> "biop", kind |-> kind, dst |-> IntD, left |-> l, right |-> r]
CmpS(kind, id, l, r) ==
  [op |-> "cmp", kind |-> kind, dst |-> Local(id, I1), left |-> l, right |-> r]
CJump(id) == [op |-> "cjump", cond |-> Local(id, I1), true |-> 1, false |-> 2]
Jump == [op |-> "jump", target |-> 1]
GepS(to, base, index) ==
  [op |-> "gep", dst |-> Local(D, Pointer(to)), base |-> base, index |-> index]
Return(v) == [op |-> "return", val |-> v]
GprArg(src) == [op |-> "gpr_arg", src |-> src, at |-> REG_X0]
StackArg(src, at) == [op |-> "stack_arg", src |-> src, at |-> at]
Result(dst) == [op |-> "call_result", dst |-> dst]
Copy(dst, src) == [op |-> "copy", dst |-> dst, src |-> src]
AdjSp(op, imm) == [op |-> "as_is", inst |-> [op |-> op, imm |-> imm]]

MoveImms == {0, 5, 16, -3}
Imms == {0, 3, 8, 7, 30, -3, -30, -32}
BiOps == {"add", "sub", "mul", "sdiv"}
Kinds == {"Eq", "Ne", "Slt", "Sle", "Sgt", "Sge"}
Outgoing == {0, 8, 64}
Elements == {I32, Pointer(I32), Struct("s"), Struct("t")}

NoValues == [v \in {} |-> 0]
Ints == {[v \in {A, B1} |-> IF v = A THEN 5 ELSE 61], [v \in {A, B1} |-> IF v = A THEN 40 ELSE 3]}
Same == [v \in {A, B1} |-> 5]
OneInt == {[v \in {A} |-> x] : x \in {5, 40}}
Ptr == [v \in {A} |-> Address]
PtrInt(x) == [v \in {A, B1} |-> IF v = A THEN Address ELSE x]

Block(bodies, reads) == {[body |-> b, copies |-> <<>>, vals |-> v] : b \in bodies, v \in reads}

PtrD == Local(D, Pointer(I32))
Moves ==
  Block({<<Copy(IntD, Const(i))>> : i \in MoveImms}
          \cup {<<op>> : op \in UNION {{Return(Const(i)), GprArg(Const(i))} : i \in MoveImms}}
          \cup {<<Result(IntD)>>, <<Result(PtrD)>>, <<[op |-> "return_void"]>>}, {NoValues})
  \cup Block({<<Copy(IntD, IntA)>>, <<Return(IntA)>>, <<GprArg(IntA)>>}, OneInt)
  \cup Block({<<Copy(PtrD, PtrA(I32))>>, <<Return(PtrA(I32))>>, <<GprArg(PtrA(I32))>>}, {Ptr})
Arithmetic ==
  Block({<<BiOp(op, IntA, IntB)>> : op \in BiOps}, Ints)
  \cup Block({<<BiOp(op, IntA, Const(i))>> : op \in BiOps, i \in Imms}
                \cup {<<BiOp(op, Const(16), IntA)>> : op \in BiOps}
                \cup {<<BiOp("sub", IntA, IntA)>>}, OneInt)
  \cup Block({<<BiOp("sub", Const(5), Const(30))>>}, {NoValues})

(* Between a comparison and its branch: what sets no flags, another comparison
   before it, the copies of an edge both labels share. *)
Between ==
  {<<Store(Const(5), FarOp(I32))>>, <<BiOp("mul", IntA, Const(3))>>,
   <<[GepS(Struct("t"), FarOp(Array(Struct("t"))), IntB) EXCEPT !.dst.id = D]>>}
Branches ==
  Block({<<CmpS(k, E, IntA, IntB), CJump(E)>> : k \in Kinds}, Ints \cup {Same})
  \cup Block({<<CmpS(k, E, IntA, Const(i)), CJump(E)>> : k \in {"Slt", "Sge"}, i \in Imms}
                \cup {<<CmpS("Sle", E, Const(5), IntA), CJump(E)>>}, OneInt)
  \cup Block({<<CmpS("Slt", E, IntA, IntB)>> \o b \o <<CJump(E)>> : b \in Between}
                \cup {<<CmpS("Slt", D, IntA, IntB), CmpS("Sge", E, IntA, IntB), CJump(E)>>}, Ints)
Edges ==
  {[body |-> <<last>>, copies |-> <<Copy(IntD, IntA), Copy(IntA, IntB)>>, vals |-> v] :
     last \in {BiOp("add", IntA, IntB), Jump, CJump(E)}, v \in Ints}
EdgeBlocks ==
  {IF p.body[1].op = "cjump" THEN [p EXCEPT !.body = <<CmpS("Slt", E, IntA, IntB)>> \o @] ELSE p :
     p \in Edges}

Loads ==
  Block({<<Load(IntD, p)>> : p \in Memory(I32)}
          \cup {<<Load(PtrD, p)>> : p \in Memory(Pointer(I32))}
          \cup {<<[op |-> "as_is", inst |-> Ldr(s, D, BaseOff(FP, off))]>> :
                   s \in {W32, X64}, off \in {16, 24, 64}}, {NoValues})
  \cup Block({<<Load(IntD, PtrA(I32))>>, <<Load(PtrD, PtrA(Pointer(I32)))>>}, {Ptr})
Stores ==
  Block({<<Store(IntA, p)>> : p \in Memory(I32)}
          \cup {<<StackArg(IntA, at)>> : at \in Outgoing}, OneInt)
  \cup Block({<<Store(Const(5), p)>> : p \in Memory(I32)}
                \cup {<<StackArg(Const(5), at)>> : at \in Outgoing}
                \cup {<<StackArg(p, at)>> : p \in Memory(I32), at \in Outgoing}
                \cup {<<GprArg(p)>> : p \in Memory(I32)}, {NoValues})
  \cup Block({<<Store(IntB, PtrA(I32))>>, <<Store(Local(B1, Pointer(I32)), PtrA(Pointer(I32)))>>},
             {PtrInt(9)})
  \cup Block({<<Store(Const(5), PtrA(I32))>>}
                \cup {<<StackArg(PtrA(I32), at)>> : at \in Outgoing}, {Ptr})

Fields ==
  UNION {{<<GepS(I32, base, Const(k))>> :
            base \in Memory(Struct(n)) \cup {PtrA(Struct(n))}, k \in 0 .. 2} : n \in {"s", "t"}}
ArrayElements(index) ==
  UNION {{<<GepS(of, base, index)>> :
            base \in Memory(Array(of)) \cup {PtrA(Array(of))}
                      \cup {PtrA(to) : to \in {of} \ {Struct("s"), Struct("t")}}} : of \in Elements}
Geps ==
  Block(Fields \cup ArrayElements(Const(0)) \cup ArrayElements(Const(9)), {Ptr})
  \cup Block(ArrayElements(IntB), {PtrInt(5), PtrInt(61)})
Brackets ==
  Block({<<AdjSp("SubSp", n), StackArg(Const(5), at), AdjSp("AddSp", n)>> : n \in {16, 80}, at \in {0, 8}},
        {NoValues})

(* What emit_stmt refuses. *)
Refused ==
  Block({<<CJump(E)>>, <<Store(NearOp(I32), FarOp(Pointer(I32)))>>, <<Load(IntD, Const(0))>>,
         <<GepS(I32, FarOp(Struct("s")), Const(3))>>, <<[op |-> "phi"]>>,
         <<BiOp("add", NearOp(I32), Const(3))>>}, {NoValues})

(* Constants of two chunks: 27 is neither one chunk nor the complement of one,
   as 100000 is not with chunks of 16 bits. *)
MCWideLiterals ==
  Block({<<Copy(IntD, Const(i))>> : i \in {16, -3, 27}} \cup {<<Return(Const(27))>>}, {NoValues})

MCPrograms ==
  Moves \cup Arithmetic \cup Branches \cup EdgeBlocks \cup Loads \cup Stores \cup Geps
    \cup Brackets \cup Refused
=============================================================================
