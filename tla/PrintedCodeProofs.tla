-------------------------- MODULE PrintedCodeProofs --------------------------
(* What the printed lines do when they run: first the lines for one instruction
   in physical registers, then, with reloads and stores around them, the lines
   for one on virtual registers; and then the processor beside the machine that
   has the virtual registers, step by step. At the end selection: the machine
   that has the virtual registers beside the one of the IR, statement by
   statement. *)
EXTENDS BackendProofs

(* What printing one instruction computes. *)
LEMMA OperandWords ==
  ASSUME NEW s, NEW R, Machine(s, R), NEW I, I \subseteq Int, NEW Q, Q \subseteq R,
         NEW o \in Immediates(I) \cup InRegisters(Q)
  PROVE  /\ ValueOf(s, o) \in Int
         /\ o.kind = "reg" => o.val \in Q /\ ValueOf(s, o) = s.regs[o.val]
         /\ o.kind # "reg" => o.kind = "imm" /\ o.val \in I /\ ValueOf(s, o) = o.val
         /\ o.kind # "imm" => o.kind = "reg"
<1>1. CASE o \in Immediates(I)
 <2>1. o.kind = "imm" /\ o.val \in I BY <1>1 DEF Immediates
 <2> QED BY <2>1 DEF ValueOf
<1>2. CASE o \in InRegisters(Q)
 <2>1. o.kind = "reg" /\ o.val \in Q BY <1>2 DEF InRegisters
 <2>2. s.regs[o.val] \in Int BY <2>1, RegisterWords
 <2> QED BY <2>1, <2>2 DEF ValueOf
<1> QED BY <1>1, <1>2

LEMMA PrintMov ==
  ASSUME NEW s, Ready(s), NEW i \in Movs(General, General)
  PROVE  \E t : Gives(s, EmitMov(i), i.dst, ValueOf(s, i.src) % Modulus(i.size), t)
<1> DEFINE n == i.size
           d == i.dst
           k == i.src.val
           v == ValueOf(s, i.src) % Modulus(i.size)
<1>1. n \in Sizes /\ d \in General /\ i.src \in Immediates(Int) \cup InRegisters(General) BY DEF Movs
<1>2. d \in PhysicalRegs /\ General \subseteq PhysicalRegs BY <1>1, PhysicalNumbers
<1>3. Machine(s, PhysicalRegs) BY DEF Ready
<1>4. CASE i.src.kind = "imm"
 <2>1. EmitMov(i) = <<MoveImm(n, d, k)>> BY <1>4 DEF EmitMov
 <2>2. k \in Int /\ ValueOf(s, i.src) = k BY <1>1, <1>4 DEF Immediates, InRegisters, ValueOf
 <2>3. v = k % Modulus(n) BY <2>2
 <2> HIDE DEF n, d, k, v
 <2>4. PICK t : Sets(s, MoveImm(n, d, k), d, k % Modulus(n), t) BY <1>1, <1>2, <2>2, RunMoveImm
 <2>5. Gives(s, <<MoveImm(n, d, k)>>, d, v, t) BY <2>3, <2>4, SetsGives
 <2> QED BY <2>1, <2>5 DEF d, v
<1>5. CASE i.src.kind # "imm"
 <2>1. EmitMov(i) = <<Move(n, d, k)>> BY <1>5 DEF EmitMov
 <2>2. k \in General /\ ValueOf(s, i.src) = s.regs[k] BY <1>1, <1>5 DEF Immediates, InRegisters, ValueOf
 <2>3. v = s.regs[k] % Modulus(n) BY <2>2
 <2>4. k \in PhysicalRegs BY <1>2, <2>2
 <2> HIDE DEF n, d, k, v
 <2>5. PICK t : Sets(s, Move(n, d, k), d, s.regs[k] % Modulus(n), t) BY <1>1, <1>2, <2>4, RunMove
 <2>6. Gives(s, <<Move(n, d, k)>>, d, v, t) BY <2>3, <2>5, SetsGives
 <2> QED BY <2>1, <2>6 DEF d, v
<1> QED BY <1>4, <1>5

LEMMA ViaScratchRuns ==
  ASSUME NEW s, Ready(s), NEW op \in ArithOps, NEW n \in Sizes, NEW d \in General, NEW l \in General,
         NEW k \in Int
  PROVE  \E t : Makes(s, EmitOpViaImmScratch(op, n, d, l, k), d, Arith(op, s.regs[l], k, n), t)
<1> DEFINE c == IF d # l THEN d ELSE OtherScratch(d)
           T == EmitMovImm(n, c, k) \o <<Op3(op, n, d, l, c)>>
           v == Arith(op, s.regs[l], k, n)
<1>1. EmitOpViaImmScratch(op, n, d, l, k) = T BY DEF EmitOpViaImmScratch
<1>2. c # l BY DEF OtherScratch, SCRATCH0, SCRATCH1
<1>3. c \in Scratches \cup {d} BY DEF OtherScratch, Scratches
<1>4. c \in PhysicalRegs /\ d \in PhysicalRegs /\ l \in PhysicalRegs BY <1>3, PhysicalNumbers DEF Scratches
<1> HIDE DEF c
<1>5. \E t : Via(s, T, c, d, v, t) BY <1>2, <1>4, ImmThenOp
<1> HIDE DEF T, v
<1>6. PICK t : Via(s, T, c, d, v, t) BY <1>5
<1>7. Makes(s, T, d, v, t) BY <1>3, <1>6, ViaWider
<1> QED BY <1>1, <1>7 DEF v

LEMMA PrintBinOp ==
  ASSUME NEW s, Ready(s), NEW i \in BinOps(General)
  PROVE  \E t : Makes(s, EmitBinop(i), i.dst, Arith(i.binop, s.regs[i.lhs], ValueOf(s, i.rhs), i.size), t)
<1> DEFINE n == i.size
           d == i.dst
           l == i.lhs
           op == i.binop
           k == i.rhs.val
           x == s.regs[i.lhs]
           v == Arith(i.binop, s.regs[i.lhs], ValueOf(s, i.rhs), i.size)
           other == CASE i.binop = "add" /\ i.rhs.val < 0 -> "sub"
                      [] i.binop = "sub" /\ i.rhs.val < 0 -> "add"
                      [] OTHER -> i.binop
           o == IF other = "add" THEN "add_imm" ELSE "sub_imm"
<1>1. n \in Sizes /\ d \in General /\ l \in General /\ op \in ArithOps
      /\ i.rhs \in Immediates(Int) \cup InRegisters(General) BY DEF BinOps
<1>2. d \in PhysicalRegs /\ l \in PhysicalRegs /\ General \subseteq PhysicalRegs BY <1>1, PhysicalNumbers
<1>3. x \in Int BY <1>2, RegisterWords DEF Ready
<1>4. CASE i.rhs.kind = "reg"
 <2>1. EmitBinop(i) = <<Op3(op, n, d, l, k)>> BY <1>4 DEF EmitBinop
 <2>2. k \in General /\ v = Arith(op, s.regs[l], s.regs[k], n) BY <1>1, <1>4 DEF Immediates, InRegisters, ValueOf
 <2>3. k \in PhysicalRegs BY <1>2, <2>2
 <2> HIDE DEF n, d, l, op, k, v
 <2>4. PICK t : Sets(s, Op3(op, n, d, l, k), d, Arith(op, s.regs[l], s.regs[k], n), t) BY <1>1, <1>2, <2>3, RunOp3
 <2>5. Gives(s, <<Op3(op, n, d, l, k)>>, d, v, t) BY <2>2, <2>4, SetsGives
 <2>6. Makes(s, <<Op3(op, n, d, l, k)>>, d, v, t) BY <2>5, GivesMakes
 <2> QED BY <2>1, <2>6 DEF d, v
<1>5. CASE i.rhs.kind # "reg"
 <2>1. k \in Int /\ i.rhs.kind = "imm" BY <1>1, <1>5 DEF Immediates, InRegisters
 <2>2. v = Arith(op, x, k, n) BY <1>5 DEF ValueOf
 <2>3. CASE op \in {"mul", "sdiv"}
  <3>1. EmitBinop(i) = EmitOpViaImmScratch(op, n, d, l, k) BY <2>1, <2>3 DEF EmitBinop
  <3>2. v = Arith(op, s.regs[l], k, n) BY <2>2
  <3> HIDE DEF n, d, l, op, k, v
  <3>3. PICK t : Makes(s, EmitOpViaImmScratch(op, n, d, l, k), d, Arith(op, s.regs[l], k, n), t) BY <1>1, <2>1, ViaScratchRuns
  <3> QED BY <3>1, <3>2, <3>3 DEF d, v
 <2>4. CASE op \notin {"mul", "sdiv"}
  <3>1. op \in {"add", "sub"} /\ other \in {"add", "sub"} BY <1>1, <2>4 DEF ArithOps
  <3>2. EmitBinop(i) = IF IsAddSubImmEncodable(Abs(k)) THEN <<OpImm(o, n, d, l, Abs(k))>>
                       ELSE EmitOpViaImmScratch(other, n, d, l, Abs(k)) BY <2>1, <2>4 DEF EmitBinop
  <3>3. Abs(k) \in Int BY <2>1, AbsFacts
  <3>4. Arith(other, x, Abs(k), n) = v
   <4>1. CASE k < 0 /\ op = "add"
    <5>1. other = "sub" /\ Abs(k) = -k BY <4>1 DEF Abs
    <5>2. x - (-k) = x + k BY <1>3, <2>1
    <5>3. Arith("sub", x, -k, n) = (x - (-k)) % Modulus(n) /\ Arith("add", x, k, n) = (x + k) % Modulus(n) BY ArithForms
    <5> QED BY <2>2, <4>1, <5>1, <5>2, <5>3
   <4>2. CASE k < 0 /\ op = "sub"
    <5>1. other = "add" /\ Abs(k) = -k BY <4>2 DEF Abs
    <5>2. x + (-k) = x - k BY <1>3, <2>1
    <5>3. Arith("add", x, -k, n) = (x + (-k)) % Modulus(n) /\ Arith("sub", x, k, n) = (x - k) % Modulus(n) BY ArithForms
    <5> QED BY <2>2, <4>2, <5>1, <5>2, <5>3
   <4>3. CASE ~(k < 0)
    <5>1. other = op /\ Abs(k) = k BY <4>3 DEF Abs
    <5> QED BY <2>2, <5>1
   <4> QED BY <3>1, <4>1, <4>2, <4>3
  <3>5. other \in ArithOps BY <3>1 DEF ArithOps
  <3>6. Arith(other, s.regs[l], Abs(k), n) = v BY <3>4
  <3> DEFINE e == Abs(k)
  <3> HIDE DEF n, d, l, op, k, v, e, other
  <3>7. CASE IsAddSubImmEncodable(e)
   <4>1. EmitBinop(i) = <<OpImm(o, n, d, l, e)>> BY <3>2, <3>7 DEF e
   <4>2. PICK t : Sets(s, OpImm(o, n, d, l, e), d, Arith(other, s.regs[l], e, n), t) BY <1>1, <1>2, <3>1, <3>3, RunOpImm DEF e
   <4>3. Gives(s, <<OpImm(o, n, d, l, e)>>, d, v, t) BY <3>6, <4>2, SetsGives DEF e
   <4>4. Makes(s, <<OpImm(o, n, d, l, e)>>, d, v, t) BY <4>3, GivesMakes
   <4> QED BY <4>1, <4>4 DEF d, v
  <3>8. CASE ~IsAddSubImmEncodable(e)
   <4>1. EmitBinop(i) = EmitOpViaImmScratch(other, n, d, l, e) BY <3>2, <3>8 DEF e
   <4>2. PICK t : Makes(s, EmitOpViaImmScratch(other, n, d, l, e), d, Arith(other, s.regs[l], e, n), t)
     BY <1>1, <3>3, <3>5, ViaScratchRuns DEF e
   <4> QED BY <3>6, <4>1, <4>2 DEF e, d, v
  <3> QED BY <3>7, <3>8
 <2> QED BY <2>3, <2>4
<1> QED BY <1>4, <1>5

(* A comparison sets the flags; it may use the scratch registers. *)
Tests(s, T, f, t) ==
  /\ Runs(s, T, t) /\ Machine(t, PhysicalRegs) /\ t.at = s.at /\ t.flags = f
  /\ \A r \in PhysicalRegs \ Scratches : t.regs[r] = s.regs[r]
  /\ \A a : Cell(t, a) = Cell(s, a)

LEMMA FlagsOfLine ==
  ASSUME NEW s, NEW u, NEW T, NEW Q, Q \subseteq Scratches, Does(s, T, Q, {}, u), s.at = Here,
         NEW l \in Lines, NEW f, Execute(u, l) = [u EXCEPT !.flags = f]
  PROVE  \E t : Tests(s, T \o <<l>>, f, t)
<1> DEFINE t == [u EXCEPT !.flags = f]
<1>1. Runs(s, T, u) /\ Kept(s, u, Q, {}) BY DEF Does
<1>2. Machine(u, PhysicalRegs) /\ u.at = s.at BY <1>1 DEF Kept
<1>3. AfterLine(u, l) = t BY <1>2 DEF AfterLine
<1>4. Runs(u, <<l>>, t) BY <1>3, RunsOne
<1>5. Runs(s, T \o <<l>>, t) BY <1>1, <1>4, RunsJoin
<1>6. /\ Machine(t, PhysicalRegs) /\ t.regs = u.regs /\ t.at = u.at /\ t.flags = f
      /\ \A a : Cell(t, a) = Cell(u, a) BY <1>2, Compared
<1> HIDE DEF t
<1>7. Tests(s, T \o <<l>>, f, t) BY <1>1, <1>2, <1>5, <1>6 DEF Tests, Kept
<1> QED BY <1>7

LEMMA PrintCmp ==
  ASSUME NEW s, Ready(s), NEW i \in Cmps(General)
  PROVE  \E t : Tests(s, EmitCmp(i), Flags(s.regs[i.lhs], ValueOf(s, i.rhs), i.size), t)
<1> DEFINE n == i.size
           l == i.lhs
           k == i.rhs.val
           x == s.regs[i.lhs]
           f == Flags(s.regs[i.lhs], ValueOf(s, i.rhs), i.size)
<1>1. n \in Sizes /\ l \in General /\ i.rhs \in Immediates(Int) \cup InRegisters(General) BY DEF Cmps
<1>2. l \in PhysicalRegs /\ General \subseteq PhysicalRegs /\ SP \in Int /\ l \in Int /\ 0 \in Int BY <1>1, PhysicalNumbers
<1>3. x \in Int BY <1>2, RegisterWords DEF Ready
<1>4. Machine(s, PhysicalRegs) /\ s.at = Here BY DEF Ready
<1>5. "cmp" \in LineOps /\ "cmp_imm" \in LineOps BY DEF LineOps
<1>6. Does(s, <<>>, {}, {}, s) BY <1>4, DoesNothing
<1>7. CASE i.rhs.kind = "reg"
 <2> DEFINE y == Op3("cmp", n, SP, l, k)
 <2>1. EmitCmp(i) = <<y>> BY <1>7 DEF EmitCmp
 <2>2. k \in General /\ f = Flags(s.regs[l], s.regs[k], n) BY <1>1, <1>7 DEF Immediates, InRegisters, ValueOf
 <2>3. k \in Int BY <1>2, <2>2, PhysicalNumbers
 <2> HIDE DEF n, l, k, f
 <2>4. y \in Lines /\ y.op = "cmp" /\ y.lhs = l /\ y.rhs = k /\ y.size = n BY <1>1, <1>2, <1>5, <2>3, LineShape DEF Op3
 <2> HIDE DEF y
 <2>5. Execute(s, y) = [s EXCEPT !.flags = f] BY <2>2, <2>4 DEF Execute
 <2> DEFINE T == <<>>
            Q == {}
 <2>6. Q \subseteq Scratches /\ Does(s, T, Q, {}, s) /\ T \o <<y>> = <<y>> BY <1>6
 <2> HIDE DEF T, Q
 <2>7. \E t : Tests(s, T \o <<y>>, f, t) BY <1>4, <2>4, <2>5, <2>6, FlagsOfLine
 <2> QED BY <2>1, <2>6, <2>7 DEF f
<1>8. CASE i.rhs.kind # "reg"
 <2>1. k \in Int /\ i.rhs.kind = "imm" BY <1>1, <1>8 DEF Immediates, InRegisters
 <2>2. f = Flags(x, k, n) BY <1>8 DEF ValueOf
 <2>3. CASE IsAddSubImmEncodable(k)
  <3> DEFINE y == OpImm("cmp_imm", n, SP, l, k)
  <3>1. EmitCmp(i) = <<y>> BY <2>1, <2>3 DEF EmitCmp
  <3>2. f = Flags(s.regs[l], k, n) BY <2>2
  <3> HIDE DEF n, l, k, f
  <3>3. y \in Lines /\ y.op = "cmp_imm" /\ y.lhs = l /\ y.imm = k /\ y.size = n BY <1>1, <1>2, <1>5, <2>1, LineShape DEF OpImm
  <3> HIDE DEF y
  <3>4. Execute(s, y) = [s EXCEPT !.flags = f] BY <3>2, <3>3 DEF Execute
  <3> DEFINE T == <<>>
             Q == {}
  <3>5. Q \subseteq Scratches /\ Does(s, T, Q, {}, s) /\ T \o <<y>> = <<y>> BY <1>6
  <3> HIDE DEF T, Q
  <3>6. \E t : Tests(s, T \o <<y>>, f, t) BY <1>4, <3>3, <3>4, <3>5, FlagsOfLine
  <3> QED BY <3>1, <3>5, <3>6 DEF f
 <2>4. CASE ~IsAddSubImmEncodable(k)
  <3> DEFINE c == OtherScratch(l)
             T == EmitMovImm(n, c, k)
             y == Op3("cmp", n, SP, l, c)
             w == k % Modulus(n)
  <3>1. EmitCmp(i) = T \o <<y>> BY <2>1, <2>4 DEF EmitCmp
  <3>2. c \in Scratches /\ c # l BY DEF OtherScratch, SCRATCH0, SCRATCH1, Scratches
  <3>3. c \in PhysicalRegs /\ c \in Int BY <3>2, PhysicalNumbers DEF Scratches
  <3>4. s.regs[l] = x OBVIOUS
  <3> HIDE DEF n, l, k, f, c, x, T
  <3>5. PICK u : Gives(s, T, c, w, u) BY <1>1, <2>1, <3>3, EmitMovImmRuns DEF T
  <3>6. u.regs[c] = w /\ u.regs[l] = s.regs[l] BY <1>2, <1>4, <3>2, <3>5, GivesReady
  <3>7. y \in Lines /\ y.op = "cmp" /\ y.lhs = l /\ y.rhs = c /\ y.size = n BY <1>1, <1>2, <1>5, <3>3, LineShape DEF Op3
  <3>8. Flags(x, w, n) = f
   <4>1. w \in Int /\ w % Modulus(n) = k % Modulus(n) BY <1>1, <2>1, ModulusFacts, ModInRange, ModTwice
   <4> HIDE DEF w
   <4>2. Flags(x, w, n) = Flags(x, k, n) BY <1>1, <1>3, <2>1, <4>1, FlagsAlike
   <4> QED BY <2>2, <4>2
  <3> HIDE DEF y, w
  <3>9. Execute(u, y) = [u EXCEPT !.flags = f] BY <3>4, <3>6, <3>7, <3>8 DEF Execute
  <3>10. Does(s, T, {c}, {}, u) BY <3>5 DEF Gives
  <3> DEFINE Q == {c}
  <3>11. Q \subseteq Scratches /\ Does(s, T, Q, {}, u) BY <3>2, <3>10
  <3> HIDE DEF Q
  <3>12. \E t : Tests(s, T \o <<y>>, f, t) BY <1>4, <3>7, <3>9, <3>11, FlagsOfLine
  <3> QED BY <3>1, <3>12 DEF f
 <2> QED BY <2>3, <2>4
<1> QED BY <1>7, <1>8
-----------------------------------------------------------------------------
(* Text that stores v at x, by way of the scratch registers. *)
Leaves(s, T, x, v, t) == Does(s, T, Scratches, {x}, t) /\ Cell(t, x) = v

LEMMA AddressPlain ==
  ASSUME NEW s, NEW R, Machine(s, R), NEW a,
         a.kind # "global" => a.base \in R /\ a.offset \in Int, a.kind = "global" => a.offset \in Word
  PROVE  /\ AddressOf(s, a) \in Word
         /\ a.kind # "global" => AddressOf(s, a) = AddressAt(s, a.base, a.offset)
         /\ a.kind = "global" => AddressOf(s, a) = a.offset
<1>1. CASE a.kind = "global" BY <1>1 DEF AddressOf
<1>2. CASE a.kind # "global"
 <2>1. AddressOf(s, a) = AddressAt(s, a.base, a.offset) BY <1>2 DEF AddressOf, AddressAt
 <2> DEFINE b == a.base
            k == a.offset
 <2>2. b \in R /\ k \in Int BY <1>2
 <2> HIDE DEF b, k
 <2>3. AddressAt(s, b, k) \in Word BY <2>2, AddressWords
 <2> QED BY <1>2, <2>1, <2>3 DEF b, k
<1> QED BY <1>1, <1>2

LEMMA AtRegister ==
  ASSUME NEW s, NEW b, s.regs[b] \in Word PROVE AddressAt(s, b, 0) = s.regs[b]
<1> DEFINE x == s.regs[b]
<1>1. x \in Int /\ x % Modulus(X64) = x BY WordFacts
<1> HIDE DEF x
<1>2. x + 0 = x BY <1>1
<1>3. AddressAt(s, b, 0) = (x + 0) % Modulus(X64) BY DEF AddressAt, x
<1> QED BY <1>1, <1>2, <1>3 DEF x

LEMMA FetchAlike ==
  ASSUME NEW s, NEW t, NEW x, Cell(t, x) = Cell(s, x), NEW n PROVE Fetch(t, x, n) = Fetch(s, x, n)
BY DEF Fetch

LEMMA ReadAlike ==
  ASSUME NEW s, NEW t, NEW r, t.regs[r] = s.regs[r], NEW n PROVE Read(t, r, n) = Read(s, r, n)
BY DEF Read

LEMMA ThenLoads ==
  ASSUME NEW s, Ready(s), NEW T, NEW d \in PhysicalRegs, NEW x \in Word, NEW u, Gives(s, T, d, x, u),
         NEW n \in Sizes
  PROVE  \E t : Gives(s, T \o <<Access("ldr", n, d, d, 0)>>, d, Fetch(s, x, n), t)
<1> DEFINE l == Access("ldr", n, d, d, 0)
           v == Fetch(s, x, n)
<1>1. s.at = Here BY DEF Ready
<1>2. Ready(u) /\ u.regs[d] = x /\ \A a : Cell(u, a) = Cell(s, a) BY <1>1, GivesReady
<1>3. AddressAt(u, d, 0) = x BY <1>2, AtRegister
<1>4. Cell(u, x) = Cell(s, x) BY <1>2
<1>5. Fetch(u, x, n) = v BY <1>4, FetchAlike
<1>6. 0 \in Int OBVIOUS
<1>7. PICK t : Sets(u, l, d, Fetch(u, AddressAt(u, d, 0), n), t) BY <1>2, <1>6, RunLoad
<1> HIDE DEF l, v
<1>8. Sets(u, l, d, v, t) BY <1>3, <1>5, <1>7
<1>9. Gives(u, <<l>>, d, v, t) BY <1>8, SetsGives
<1>10. Gives(s, T \o <<l>>, d, v, t) BY <1>9, GivesAgain
<1> QED BY <1>10 DEF l, v

LEMMA PutsLeaves ==
  ASSUME NEW s, NEW u, NEW T, NEW Q, Q \subseteq Scratches, Does(s, T, Q, {}, u),
         NEW l, NEW x, NEW v, NEW t, Puts(u, l, x, v, t)
  PROVE  Leaves(s, T \o <<l>>, x, v, t)
<1>1. Does(u, <<l>>, {}, {x}, t) /\ Cell(t, x) = v BY DEF Puts
<1>2. Does(s, T \o <<l>>, Q \cup {}, {} \cup {x}, t) BY <1>1, DoesJoin
<1>3. Does(s, T \o <<l>>, Scratches, {x}, t) BY <1>2, DoesWider
<1> QED BY <1>1, <1>3 DEF Leaves

LEMMA ThenStores ==
  ASSUME NEW s, Ready(s), NEW T, NEW c \in Scratches, NEW x \in Word, NEW u, Gives(s, T, c, x, u),
         NEW n \in Sizes, NEW d \in PhysicalRegs, d # c
  PROVE  \E t : Leaves(s, T \o <<Access("str", n, d, c, 0)>>, x, Read(s, d, n), t)
<1> DEFINE l == Access("str", n, d, c, 0)
           v == Read(s, d, n)
           Q == {c}
<1>1. s.at = Here BY DEF Ready
<1>2. Ready(u) /\ u.regs[c] = x /\ u.regs[d] = s.regs[d] BY <1>1, GivesReady
<1>3. AddressAt(u, c, 0) = x BY <1>2, AtRegister
<1>4. Read(u, d, n) = v BY <1>2, ReadAlike
<1>5. 0 \in Int /\ c \in PhysicalRegs BY PhysicalNumbers DEF Scratches
<1>6. PICK t : Puts(u, l, AddressAt(u, c, 0), Read(u, d, n), t) BY <1>2, <1>5, RunStore
<1>7. Q \subseteq Scratches /\ Does(s, T, Q, {}, u) BY DEF Gives
<1> HIDE DEF l, v, Q
<1>8. Puts(u, l, x, v, t) BY <1>3, <1>4, <1>6
<1>9. Leaves(s, T \o <<l>>, x, v, t) BY <1>7, <1>8, PutsLeaves
<1> QED BY <1>9 DEF l, v

LEMMA SameSequence ==
  ASSUME NEW S, NEW s \in Seq(S), NEW t \in Seq(S), Len(s) = Len(t), \A i \in 1 .. Len(s) : s[i] = t[i] PROVE s = t
OBVIOUS

LEMMA JoinedFacts ==
  ASSUME NEW S, NEW s \in Seq(S), NEW t \in Seq(S)
  PROVE  /\ s \o t \in Seq(S) /\ Len(s \o t) = Len(s) + Len(t)
         /\ \A k \in 1 .. Len(s) : (s \o t)[k] = s[k]
         /\ \A k \in 1 .. Len(t) : (s \o t)[Len(s) + k] = t[k]
OBVIOUS

LEMMA PairConcat == ASSUME NEW x, NEW y PROVE <<x, y>> = <<x>> \o <<y>>
<1> DEFINE S == {x, y}
           p == <<x>>
           q == <<y>>
           z == <<x, y>>
<1>1. p \in Seq(S) /\ q \in Seq(S) /\ z \in Seq(S) OBVIOUS
<1>2. Len(p) = 1 /\ Len(q) = 1 /\ Len(z) = 2 OBVIOUS
<1>3. z[1] = p[1] /\ z[2] = q[1] OBVIOUS
<1> HIDE DEF p, q, S, z
<1>4. p \o q \in Seq(S) /\ Len(p \o q) = Len(p) + Len(q) BY <1>1, JoinedFacts
<1>5. \A k \in 1 .. Len(p) : (p \o q)[k] = p[k] BY <1>1, JoinedFacts
<1>6. \A k \in 1 .. Len(q) : (p \o q)[Len(p) + k] = q[k] BY <1>1, JoinedFacts
<1>7. 1 \in 1 .. 1 /\ 1 + 1 = 2 OBVIOUS
<1>8. (p \o q)[1] = z[1] BY <1>2, <1>3, <1>5, <1>7
<1>9. (p \o q)[1 + 1] = q[1] BY <1>2, <1>6, <1>7
<1>10. (p \o q)[2] = z[2] BY <1>3, <1>7, <1>9
<1>11. Len(p \o q) = 2 BY <1>2, <1>4
<1>12. \A i \in 1 .. 2 : i = 1 \/ i = 2 OBVIOUS
<1>13. \A i \in 1 .. Len(p \o q) : (p \o q)[i] = z[i] BY <1>8, <1>10, <1>11, <1>12
<1>14. Len(p \o q) = Len(z) BY <1>2, <1>11
<1>15. p \o q = z BY <1>1, <1>4, <1>13, <1>14, SameSequence
<1> QED BY <1>15 DEF p, q, z

LEMMA PrintLdr ==
  ASSUME NEW s, Ready(s), NEW i \in Ldrs(General)
  PROVE  \E t : Gives(s, EmitMemAccess("ldr", i.size, i.dst, i.addr), i.dst,
                      Fetch(s, AddressOf(s, i.addr), i.size), t)
<1> DEFINE n == i.size
           d == i.dst
           a == i.addr
           e == EmitMemAccess("ldr", i.size, i.dst, i.addr)
           x == AddressOf(s, i.addr)
           v == Fetch(s, AddressOf(s, i.addr), i.size)
<1>1. n \in Sizes /\ d \in General /\ a \in OffBase({FP}, Int) \cup OffBase(General, {0}) \cup AtSymbol BY DEF Ldrs
<1>2. d \in PhysicalRegs /\ General \subseteq PhysicalRegs /\ FP \in PhysicalRegs /\ FP \notin General
  BY <1>1, PhysicalNumbers, RegisterNumbers
<1>3. Machine(s, PhysicalRegs) BY DEF Ready
<1>4. /\ a.kind = "global" => a.offset \in Word
      /\ a.kind # "global" => a.base \in PhysicalRegs /\ a.offset \in Int
 <2> HIDE DEF a
 <2>1. a.kind = "global" => a.offset \in 0 .. Modulus(X64) - 1 BY <1>1, AddressParts
 <2>2. a.kind # "global" => (a.base \in {FP} /\ a.offset \in Int) \/ (a.base \in General /\ a.offset \in {0})
   BY <1>1, AddressParts
 <2> QED BY <1>2, <2>1, <2>2 DEF Word
<1>5. /\ x \in Word
      /\ a.kind # "global" => x = AddressAt(s, a.base, a.offset)
      /\ a.kind = "global" => x = a.offset BY <1>3, <1>4, AddressPlain
<1>6. v = Fetch(s, x, n) OBVIOUS
<1>7. \/ a.kind = "global" /\ e = <<Adr(d, a.offset), Access("ldr", n, d, d, 0)>>
      \/ a.kind # "global" /\ e = <<Access("ldr", n, d, a.base, a.offset)>>
      \/ a.kind # "global" /\ e = <<Access("ldur", n, d, a.base, a.offset)>>
      \/ a.kind # "global" /\ a.base = FP
           /\ e = ComputeAddr(d, a.base, a.offset) \o <<Access("ldr", n, d, d, 0)>> BY <1>1, LoadForms
<1> DEFINE b == a.base
           k == a.offset
<1> HIDE DEF n, d, a, e, x, v, b, k
<1>8. SUFFICES \E t : Gives(s, e, d, v, t) BY DEF d, e, v
<1>9. CASE a.kind = "global" /\ e = <<Adr(d, k), Access("ldr", n, d, d, 0)>>
 <2>1. k = x BY <1>5, <1>9 DEF k
 <2>2. PICK u : Sets(s, Adr(d, x), d, x, u) BY <1>2, <1>5, RunAdr
 <2>3. Gives(s, <<Adr(d, x)>>, d, x, u) BY <2>2, SetsGives
 <2> DEFINE T == <<Adr(d, x)>>
 <2>4. Gives(s, T, d, x, u) BY <2>3
 <2>5. T \o <<Access("ldr", n, d, d, 0)>> = e BY <1>9, <2>1, PairConcat
 <2> HIDE DEF T
 <2>6. \E t : Gives(s, T \o <<Access("ldr", n, d, d, 0)>>, d, Fetch(s, x, n), t) BY <1>1, <1>2, <1>5, <2>4, ThenLoads
 <2> QED BY <1>6, <2>5, <2>6
<1>10. ASSUME NEW o \in {"ldr", "ldur"}, a.kind # "global" /\ e = <<Access(o, n, d, b, k)>>
       PROVE  \E t : Gives(s, e, d, v, t)
 <2>1. b \in PhysicalRegs /\ k \in Int /\ x = AddressAt(s, b, k) BY <1>4, <1>5, <1>10 DEF b, k
 <2>2. PICK t : Sets(s, Access(o, n, d, b, k), d, Fetch(s, AddressAt(s, b, k), n), t) BY <1>1, <1>2, <2>1, RunLoad
 <2>3. Gives(s, <<Access(o, n, d, b, k)>>, d, v, t) BY <1>6, <2>1, <2>2, SetsGives
 <2> QED BY <1>10, <2>3
<1>11. CASE a.kind # "global" /\ b = FP /\ e = ComputeAddr(d, b, k) \o <<Access("ldr", n, d, d, 0)>>
 <2>1. b \in PhysicalRegs /\ k \in Int /\ x = AddressAt(s, b, k) BY <1>4, <1>5, <1>11 DEF b, k
 <2>2. d # b BY <1>1, <1>2, <1>11
 <2>3. PICK u : Gives(s, ComputeAddr(d, b, k), d, AddressAt(s, b, k), u) BY <1>2, <2>1, <2>2, ComputeAddrRuns
 <2> DEFINE T == ComputeAddr(d, b, k)
 <2>4. Gives(s, T, d, x, u) BY <2>1, <2>3
 <2> HIDE DEF T
 <2>5. \E t : Gives(s, T \o <<Access("ldr", n, d, d, 0)>>, d, Fetch(s, x, n), t) BY <1>1, <1>2, <1>5, <2>4, ThenLoads
 <2> QED BY <1>6, <1>11, <2>5 DEF T
<1> QED BY <1>7, <1>9, <1>10, <1>11 DEF b, k

LEMMA StoreChoices ==
  ASSUME NEW n \in Sizes, NEW d \in General,
         NEW a \in OffBase({FP, SP}, Int) \cup OffBase(General, {0}) \cup AtSymbol,
         NEW e, e = EmitMemAccess("str", n, d, a)
  PROVE  \/ \E c \in Spare(d) :
              a.kind = "global" /\ e = <<Adr(c, a.offset), Access("str", n, d, c, 0)>>
         \/ a.kind # "global" /\ e = <<Access("str", n, d, a.base, a.offset)>>
         \/ a.kind # "global" /\ e = <<Access("stur", n, d, a.base, a.offset)>>
         \/ \E c \in Spare(d) :
              /\ a.kind # "global" /\ a.base \in {FP, SP}
              /\ e = EmitAddXImmWith(c, a.base, a.offset, c) \o <<Access("str", n, d, c, 0)>>
BY StoreForms

LEMMA PrintStr ==
  ASSUME NEW s, Ready(s), NEW i \in Strs(General, General)
  PROVE  \E t : Leaves(s, EmitMemAccess("str", i.size, i.src, i.addr), AddressOf(s, i.addr),
                       Read(s, i.src, i.size), t)
<1> DEFINE n == i.size
           d == i.src
           a == i.addr
           e == EmitMemAccess("str", i.size, i.src, i.addr)
           x == AddressOf(s, i.addr)
           v == Read(s, i.src, i.size)
<1>1. n \in Sizes /\ d \in General /\ a \in OffBase({FP, SP}, Int) \cup OffBase(General, {0}) \cup AtSymbol BY DEF Strs
<1>2. d \in PhysicalRegs /\ General \subseteq PhysicalRegs /\ {FP, SP} \subseteq PhysicalRegs
      /\ {FP, SP} \cap Scratches = {} BY <1>1, PhysicalNumbers DEF Scratches, FP, SP, SCRATCH0, SCRATCH1
<1>3. Machine(s, PhysicalRegs) BY DEF Ready
<1>4. /\ a.kind = "global" => a.offset \in Word
      /\ a.kind # "global" => a.base \in PhysicalRegs /\ a.offset \in Int
 <2> HIDE DEF a
 <2>1. a.kind = "global" => a.offset \in 0 .. Modulus(X64) - 1 BY <1>1, AddressParts
 <2>2. a.kind # "global" => (a.base \in {FP, SP} /\ a.offset \in Int) \/ (a.base \in General /\ a.offset \in {0})
   BY <1>1, AddressParts
 <2> QED BY <1>2, <2>1, <2>2 DEF Word
<1>5. /\ x \in Word
      /\ a.kind # "global" => x = AddressAt(s, a.base, a.offset)
      /\ a.kind = "global" => x = a.offset BY <1>3, <1>4, AddressPlain
<1>6. v = Read(s, d, n) OBVIOUS
<1>7. \/ \E c \in Spare(d) :
           a.kind = "global" /\ e = <<Adr(c, a.offset), Access("str", n, d, c, 0)>>
      \/ a.kind # "global" /\ e = <<Access("str", n, d, a.base, a.offset)>>
      \/ a.kind # "global" /\ e = <<Access("stur", n, d, a.base, a.offset)>>
      \/ \E c \in Spare(d) :
           /\ a.kind # "global" /\ a.base \in {FP, SP}
           /\ e = EmitAddXImmWith(c, a.base, a.offset, c) \o <<Access("str", n, d, c, 0)>>
 <2>1. e = EmitMemAccess("str", n, d, a) OBVIOUS
 <2> HIDE DEF n, d, a, e
 <2> QED BY <1>1, <2>1, StoreChoices
<1> DEFINE b == a.base
           k == a.offset
<1> HIDE DEF n, d, a, e, x, v, b, k
<1>8. SUFFICES \E t : Leaves(s, e, x, v, t) BY DEF x, e, v
<1>9. ASSUME NEW c \in Spare(d),
             a.kind = "global" /\ e = <<Adr(c, k), Access("str", n, d, c, 0)>>
      PROVE  \E t : Leaves(s, e, x, v, t)
 <2>1. k = x BY <1>5, <1>9 DEF k
 <2>2. c \in Scratches /\ c # d /\ c \in PhysicalRegs BY PhysicalNumbers DEF Scratches, Spare
 <2>3. PICK u : Sets(s, Adr(c, x), c, x, u) BY <1>5, <2>2, RunAdr
 <2>4. Gives(s, <<Adr(c, x)>>, c, x, u) BY <2>3, SetsGives
 <2> DEFINE T == <<Adr(c, x)>>
 <2>5. Gives(s, T, c, x, u) BY <2>4
 <2>6. T \o <<Access("str", n, d, c, 0)>> = e BY <1>9, <2>1, PairConcat
 <2> HIDE DEF T
 <2>7. \E t : Leaves(s, T \o <<Access("str", n, d, c, 0)>>, x, Read(s, d, n), t) BY <1>1, <1>2, <1>5, <2>2, <2>5, ThenStores
 <2> QED BY <1>6, <2>6, <2>7
<1>10. ASSUME NEW o \in {"str", "stur"}, a.kind # "global" /\ e = <<Access(o, n, d, b, k)>>
       PROVE  \E t : Leaves(s, e, x, v, t)
 <2>1. b \in PhysicalRegs /\ k \in Int /\ x = AddressAt(s, b, k) BY <1>4, <1>5, <1>10 DEF b, k
 <2>2. PICK t : Puts(s, Access(o, n, d, b, k), AddressAt(s, b, k), Read(s, d, n), t) BY <1>1, <1>2, <2>1, RunStore
 <2> DEFINE l == Access(o, n, d, b, k)
            T == <<>>
            Q == {}
 <2>3. Puts(s, l, x, v, t) BY <1>6, <2>1, <2>2
 <2>4. Q \subseteq Scratches /\ Does(s, T, Q, {}, s) BY <1>3, DoesNothing
 <2>5. T \o <<l>> = e BY <1>10
 <2> HIDE DEF l, T, Q
 <2>6. Leaves(s, T \o <<l>>, x, v, t) BY <2>3, <2>4, PutsLeaves
 <2> QED BY <2>5, <2>6
<1>11. ASSUME NEW c \in Spare(d), a.kind # "global" /\ b \in {FP, SP}
                /\ e = EmitAddXImmWith(c, b, k, c) \o <<Access("str", n, d, c, 0)>>
       PROVE  \E t : Leaves(s, e, x, v, t)
 <2>1. b \in PhysicalRegs /\ k \in Int /\ x = AddressAt(s, b, k) BY <1>4, <1>5, <1>11 DEF b, k
 <2>2. c \in Scratches /\ c # d /\ c # b /\ c \in PhysicalRegs BY <1>2, <1>11, PhysicalNumbers DEF Scratches, Spare
 <2>3. PICK u : Via(s, EmitAddXImmWith(c, b, k, c), c, c, AddressAt(s, b, k), u) BY <2>1, <2>2, AddXRuns
 <2> DEFINE T == EmitAddXImmWith(c, b, k, c)
 <2>4. Via(s, T, c, c, x, u) BY <2>1, <2>3
 <2>5. Gives(s, T, c, x, u) BY <2>4, ViaWider
 <2> HIDE DEF T
 <2>6. \E t : Leaves(s, T \o <<Access("str", n, d, c, 0)>>, x, Read(s, d, n), t) BY <1>1, <1>2, <1>5, <2>2, <2>5, ThenStores
 <2> QED BY <1>6, <1>11, <2>6 DEF T
<1> QED BY <1>7, <1>9, <1>10, <1>11 DEF b, k
-----------------------------------------------------------------------------
LEMMA PickApart ==
  ASSUME NEW d \in General, NEW b \in PhysicalRegs, d = b => d \notin Scratches,
         NEW c, c = PickScratchOrClobberDst({d, b}, d)
  PROVE  c \in Scratches \cup {d} /\ c # b /\ c \in PhysicalRegs
<1> DEFINE free == PickFreeScratch({d, b})
<1>1. c \in {SCRATCH0, SCRATCH1, d} BY FinePick
<1>2. CASE free = NoScratch
 <2>1. {d, b} = {SCRATCH0, SCRATCH1} BY <1>2, NoScratchLeft
 <2>2. c = d BY <1>2 DEF PickScratchOrClobberDst
 <2>3. SCRATCH0 # SCRATCH1 BY DEF SCRATCH0, SCRATCH1
 <2>4. d # b BY <2>1, <2>3
 <2> QED BY <2>2, <2>4, PhysicalNumbers
<1>3. CASE free # NoScratch
 <2>1. free \in {SCRATCH0, SCRATCH1} \ {d, b} BY <1>3, FinePick
 <2>2. c = free BY <1>3 DEF PickScratchOrClobberDst
 <2> HIDE DEF free
 <2> QED BY <2>1, <2>2, PhysicalNumbers DEF Scratches
<1> QED BY <1>2, <1>3

LEMMA PrintLea ==
  ASSUME NEW s, Ready(s), NEW i \in Leas(General, General)
  PROVE  \E t : Makes(s, EmitLea(i), i.dst, AddressOf(s, i.addr), t)
<1> DEFINE d == i.dst
           a == i.addr
           e == EmitLea(i)
           x == AddressOf(s, a)
<1>1. d \in General /\ a \in OffBase({FP} \cup General, Int) \cup AtSymbol BY DEF Leas
<1>2. d \in PhysicalRegs /\ {FP} \cup General \subseteq PhysicalRegs BY <1>1, PhysicalNumbers
<1>3. Machine(s, PhysicalRegs) BY DEF Ready
<1>4. /\ a.kind = "global" => a.offset \in Word
      /\ a.kind # "global" => a.base \in PhysicalRegs /\ a.offset \in Int
 <2> HIDE DEF a
 <2>1. a \in OffBase({FP} \cup General, Int) => a.kind # "global" /\ a.base \in {FP} \cup General /\ a.offset \in Int
   BY DEF OffBase
 <2>2. a \in AtSymbol => a.kind = "global" /\ a.offset \in Word BY DEF AtSymbol, Word
 <2> QED BY <1>1, <1>2, <2>1, <2>2
<1>5. /\ x \in Word
      /\ a.kind # "global" => x = AddressAt(s, a.base, a.offset)
      /\ a.kind = "global" => x = a.offset BY <1>3, <1>4, AddressPlain
<1>6. CASE a.kind = "global"
 <2>1. e = <<Adr(d, x)>> BY <1>5, <1>6 DEF EmitLea
 <2> HIDE DEF d, a, e, x
 <2>2. PICK t : Sets(s, Adr(d, x), d, x, t) BY <1>2, <1>5, RunAdr
 <2>3. Gives(s, e, d, x, t) BY <2>1, <2>2, SetsGives
 <2>4. Makes(s, e, d, x, t) BY <2>3, GivesMakes
 <2> QED BY <2>4 DEF d, a, e, x
<1>7. CASE a.kind # "global"
 <2> DEFINE b == a.base
            k == a.offset
            c == PickScratchOrClobberDst({d, b}, d)
 <2>1. e = EmitAddXImmWith(d, b, k, c) BY <1>7 DEF EmitLea
 <2>2. b \in PhysicalRegs /\ k \in Int /\ x = AddressAt(s, b, k) BY <1>4, <1>5, <1>7
 <2> HIDE DEF d, a, e, x, b, k
 <2>3. CASE d = b /\ d \in Scratches
  <3>1. c = OtherScratch(d)
    BY <2>3 DEF PickScratchOrClobberDst, PickFreeScratch, OtherScratch, Scratches, SCRATCH0, SCRATCH1, NoScratch
  <3>2. c \in Scratches /\ c # d BY <2>3, <3>1 DEF OtherScratch, Scratches, SCRATCH0, SCRATCH1
  <3>3. c \in PhysicalRegs BY <3>2, PhysicalNumbers DEF Scratches
  <3> HIDE DEF c
  <3>4. c # b BY <2>3, <3>2
  <3>5. PICK t : Via(s, EmitAddXImmWith(d, b, k, c), c, d, AddressAt(s, b, k), t) BY <1>2, <2>2, <3>3, <3>4, AddXRuns
  <3>6. Via(s, e, c, d, x, t) BY <2>1, <2>2, <3>5
  <3>7. Makes(s, e, d, x, t) BY <3>2, <3>6, ViaWider
  <3> QED BY <3>7 DEF d, a, e, x
 <2>4. CASE d = b => d \notin Scratches
  <3>1. c \in Scratches \cup {d} /\ c # b /\ c \in PhysicalRegs BY <1>1, <2>2, <2>4, PickApart
  <3> HIDE DEF c
  <3>2. PICK t : Via(s, EmitAddXImmWith(d, b, k, c), c, d, AddressAt(s, b, k), t) BY <1>2, <2>2, <3>1, AddXRuns
  <3>3. Via(s, e, c, d, x, t) BY <2>1, <2>2, <3>2
  <3>4. Makes(s, e, d, x, t) BY <3>1, <3>3, ViaWider
  <3> QED BY <3>4 DEF d, a, e, x
 <2> QED BY <2>3, <2>4
<1> QED BY <1>6, <1>7
-----------------------------------------------------------------------------
LEMMA SignedI32 == ASSUME NEW c \in I32Values PROVE Signed(c, W32) = c /\ c \in Int
<1> DEFINE M == Modulus(W32)
<1>1. M \in Nat \ {0} BY ModulusFacts
<1>2. c \in Int /\ -M <= 2 * c /\ 2 * c <= M - 1
 <2>1. -M \in Int /\ M - 1 \in Int BY <1>1
 <2> HIDE DEF M
 <2>2. c \in Int /\ 2 * c \in -M .. M - 1 BY DEF I32Values, M
 <2> QED BY <2>1, <2>2
<1>3. Signed(c, W32) = IF 2 * (c % M) >= M THEN (c % M) - M ELSE c % M BY DEF Signed
<1> HIDE DEF M
<1>4. CASE c >= 0
 <2>1. c \in 0 .. M - 1 BY <1>1, <1>2, <1>4
 <2>2. c % M = c BY <1>1, <2>1, ModSmall
 <2> QED BY <1>1, <1>2, <1>3, <2>2
<1>5. CASE c < 0
 <2>1. c + M \in 0 .. M - 1 BY <1>1, <1>2, <1>5
 <2>2. (c + M) % M = c + M BY <1>1, <2>1, ModSmall
 <2>3. (c + 1 * M) % M = c % M
  <3>1. 1 \in Int OBVIOUS
  <3> QED BY <1>1, <1>2, <3>1, ModShift
 <2>4. c % M = c + M BY <1>1, <1>2, <2>2, <2>3
 <2>5. 2 * (c + M) >= M /\ (c + M) - M = c BY <1>1, <1>2
 <2> QED BY <1>2, <1>3, <2>4, <2>5
<1> QED BY <1>2, <1>4, <1>5

LEMMA ProductRuns ==
  ASSUME NEW s, Ready(s), NEW d \in PhysicalRegs, NEW r \in PhysicalRegs, NEW c \in PhysicalRegs, c # d,
         NEW k \in Nat
  PROVE  \E t : Via(s, Product(d, r, c, k), c, d, (Signed(s.regs[r], W32) * k) % Modulus(X64), t)
<1> DEFINE x == Signed(s.regs[r], W32)
           M == Modulus(X64)
           v == (x * k) % M
           y == x % M
           z == k % M
           T == <<Sxtw(d, r)>>
           U == EmitMovImm(X64, c, k)
           l == Op3("mul", X64, d, d, c)
<1>1. X64 \in Sizes /\ W32 \in Sizes /\ k \in Int /\ "mul" \in ArithOps BY DEF Sizes, ArithOps
<1>2. s.regs[r] \in Int BY RegisterWords DEF Ready
<1>3. x \in Int BY <1>1, <1>2, SignedFacts
<1>4. M \in Nat \ {0} BY ModulusFacts
<1>5. PICK u : Sets(s, Sxtw(d, r), d, y, u) BY RunExtended
<1>6. Product(d, r, c, k) = T \o U \o <<l>> BY DEF Product
<1>7. s.at = Here BY DEF Ready
<1> HIDE DEF M
<1>8. y \in Int /\ z \in Int /\ y % M = y /\ z % M = z BY <1>1, <1>3, <1>4, ModInRange, ModTwice
<1>9. (y * z) % M = v BY <1>1, <1>3, <1>4, ModOfProduct
<1>10. Arith("mul", y, z, X64) = ((y % M) * (z % M)) % M BY ArithForms DEF M
<1>11. Arith("mul", y, z, X64) = v BY <1>8, <1>9, <1>10
<1>12. Gives(s, T, d, y, u) BY <1>5, SetsGives
<1>13. PICK w : Gives(u, EmitMovImm(X64, c, k), c, k % Modulus(X64), w)
 <2>1. Ready(u) BY <1>7, <1>12, GivesReady
 <2> QED BY <1>1, <2>1, EmitMovImmRuns
<1>14. Gives(u, U, c, z, w) BY <1>13 DEF M
<1> HIDE DEF T, U, l, x, y, z, v
<1>15. Ready(u) /\ u.regs[d] = y BY <1>7, <1>12, GivesReady
<1>16. Ready(w) /\ w.regs[c] = z /\ w.regs[d] = y
 <2>1. u.at = Here BY <1>15 DEF Ready
 <2> QED BY <1>14, <1>15, <2>1, GivesReady
<1>17. PICK t : Sets(w, Op3("mul", X64, d, d, c), d, Arith("mul", w.regs[d], w.regs[c], X64), t) BY <1>1, <1>16, RunOp3
<1>18. Sets(w, l, d, v, t) BY <1>11, <1>16, <1>17 DEF l
<1>19. Gives(w, <<l>>, d, v, t) BY <1>18, SetsGives
<1>20. Does(s, T, {d}, {}, u) /\ Does(u, U, {c}, {}, w) /\ Does(w, <<l>>, {d}, {}, t) /\ t.regs[d] = v
  BY <1>12, <1>14, <1>19 DEF Gives
<1>21. Does(s, T \o U, {d} \cup {c}, {} \cup {}, w) BY <1>20, DoesJoin
<1>22. Does(s, T \o U \o <<l>>, ({d} \cup {c}) \cup {d}, ({} \cup {}) \cup {}, t) BY <1>20, <1>21, DoesJoin
<1>23. Does(s, T \o U \o <<l>>, {c, d}, {}, t) BY <1>22, DoesWider
<1>24. Via(s, T \o U \o <<l>>, c, d, v, t) BY <1>20, <1>23 DEF Via
<1> QED BY <1>6, <1>24 DEF v, x, M

LEMMA ScaledSum ==
  ASSUME NEW a \in Int, NEW x \in Int, NEW k \in Int
  PROVE  Arith("add", a, (x * k) % Modulus(X64), X64) = (a + x * k) % Modulus(X64)
<1> DEFINE M == Modulus(X64)
           p == x * k
<1>1. M \in Nat \ {0} BY ModulusFacts
<1>2. p \in Int OBVIOUS
<1>3. Arith("add", a, p % M, X64) = (a + (p % M)) % M BY ArithForms
<1> HIDE DEF p, M
<1>4. (a + (p % M)) % M = (a + p) % M BY <1>1, <1>2, ModOfSum
<1> QED BY <1>3, <1>4 DEF p, M

(* The product in d, then d := b + it. *)
LEMMA ProductThenSum ==
  ASSUME NEW s, Ready(s), NEW d \in PhysicalRegs, NEW p \in PhysicalRegs, NEW b \in PhysicalRegs,
         NEW r \in PhysicalRegs, NEW c \in PhysicalRegs, c # p, b # p, b # c, NEW k \in Nat,
         {c, p} \subseteq Scratches \cup {d}
  PROVE  \E t : Makes(s, Product(p, r, c, k) \o <<Op3("add", X64, d, b, p)>>, d,
                      (s.regs[b] + Signed(s.regs[r], W32) * k) % Modulus(X64), t)
<1> DEFINE x == Signed(s.regs[r], W32)
           v == (s.regs[b] + x * k) % Modulus(X64)
           w == (x * k) % Modulus(X64)
           T == Product(p, r, c, k)
           l == Op3("add", X64, d, b, p)
<1>1. X64 \in Sizes /\ W32 \in Sizes /\ k \in Int /\ "add" \in ArithOps BY DEF Sizes, ArithOps
<1>2. s.regs[r] \in Int /\ s.regs[b] \in Int BY RegisterWords DEF Ready
<1>3. x \in Int BY <1>1, <1>2, SignedFacts
<1>4. PICK u : Via(s, T, c, p, w, u) BY ProductRuns
<1>5. Does(s, T, {c, p}, {}, u) /\ u.regs[p] = w BY <1>4 DEF Via
<1>6. u.regs[b] = s.regs[b] /\ Ready(u)
 <2>1. Kept(s, u, {c, p}, {}) BY <1>5 DEF Does
 <2> QED BY <2>1 DEF Kept, Ready
<1>7. PICK t : Sets(u, Op3("add", X64, d, b, p), d, Arith("add", u.regs[b], u.regs[p], X64), t) BY <1>1, <1>6, RunOp3
<1>8. Arith("add", u.regs[b], u.regs[p], X64) = v BY <1>1, <1>2, <1>3, <1>5, <1>6, ScaledSum
<1>9. Sets(u, l, d, v, t) BY <1>7, <1>8
<1> HIDE DEF l, T, v, w, x
<1>10. Does(u, <<l>>, {d}, {}, t) /\ t.regs[d] = v BY <1>9 DEF Sets
<1>11. Does(s, T \o <<l>>, {c, p} \cup {d}, {} \cup {}, t) BY <1>5, <1>10, DoesJoin
<1>12. ({c, p} \cup {d}) \cap PhysicalRegs \subseteq Scratches \cup {d} /\ {} \cup {} \subseteq Below OBVIOUS
<1>13. Does(s, T \o <<l>>, Scratches \cup {d}, Below, t) BY <1>11, <1>12, DoesWider
<1>14. Makes(s, T \o <<l>>, d, v, t) BY <1>10, <1>13 DEF Makes
<1> QED BY <1>14 DEF l, T, v, x

(* Both scratch registers in use: the base waits below the stack. *)
StackFree(s) == s.regs[SP] \in ScratchSpillSlot .. SpValue

LEMMA StashRuns ==
  ASSUME NEW s, Ready(s), StackFree(s), NEW b \in General
  PROVE  \E t : /\ Does(s, Stash(b), {SP}, Below, t)
                /\ t.regs[SP] = s.regs[SP] - ScratchSpillSlot
                /\ Cell(t, s.regs[SP] - ScratchSpillSlot) = s.regs[b]
<1> DEFINE x == s.regs[SP]
           y == x - ScratchSpillSlot
           l == OpImm("sub_imm", X64, SP, SP, ScratchSpillSlot)
           k == Access("str", X64, b, SP, 0)
           Q == {SP}
           X == {y}
<1>1. X64 \in Sizes /\ 0 \in Int BY DEF Sizes
<1>2. SP \in PhysicalRegs /\ b \in PhysicalRegs /\ b # SP BY PhysicalNumbers, RegisterNumbers
<1>3. ScratchSpillSlot \in Nat \ {0} /\ ScratchSpillSlot \in Int BY SpillSlotAssumption
<1>4. SpValue \in Nat /\ SpValue < Modulus(X64) /\ Modulus(X64) \in Nat \ {0} /\ FpValue \in Nat
 <2>1. Modulus(X64) \in Nat \ {0} BY ModulusFacts
 <2> QED BY <2>1, FrameAssumption
<1>5. x \in Int /\ ScratchSpillSlot <= x /\ x <= SpValue BY <1>3, <1>4 DEF StackFree
<1>6. y \in 0 .. Modulus(X64) - 1 /\ y \in Below BY <1>3, <1>4, <1>5 DEF Below
<1>7. y % Modulus(X64) = y /\ y \in Int /\ y \in Word BY <1>4, <1>6, ModSmall DEF Word
<1>8. Arith("sub", x, ScratchSpillSlot, X64) = y BY <1>7, ArithForms
<1>9. PICK u : Sets(s, OpImm("sub_imm", X64, SP, SP, ScratchSpillSlot), SP,
                    Arith("sub", s.regs[SP], ScratchSpillSlot, X64), u)
 <2>1. "sub" \in {"add", "sub"} /\ "sub" # "add" OBVIOUS
 <2> DEFINE o == "sub"
 <2>2. o \in {"add", "sub"} /\ o # "add" BY <2>1
 <2> HIDE DEF o
 <2>3. \E t : Sets(s, OpImm(IF o = "add" THEN "add_imm" ELSE "sub_imm", X64, SP, SP, ScratchSpillSlot), SP,
                   Arith(o, s.regs[SP], ScratchSpillSlot, X64), t) BY <1>1, <1>2, <1>3, <2>2, RunOpImm
 <2>4. \E t : Sets(s, OpImm("sub_imm", X64, SP, SP, ScratchSpillSlot), SP,
                   Arith(o, s.regs[SP], ScratchSpillSlot, X64), t) BY <2>2, <2>3
 <2> QED BY <2>4 DEF o
<1>10. Sets(s, l, SP, y, u) BY <1>8, <1>9
<1>11. Gives(s, <<l>>, SP, y, u) BY <1>10, SetsGives
<1>12. s.at = Here BY DEF Ready
<1>13. Ready(u) /\ u.regs[SP] = y /\ u.regs[b] = s.regs[b] BY <1>2, <1>11, <1>12, GivesReady
<1>14. AddressAt(u, SP, 0) = y BY <1>7, <1>13, AtRegister
<1>15. Read(u, b, X64) = s.regs[b]
 <2>1. s.regs[b] % Modulus(X64) = s.regs[b] BY <1>2, RegisterWords DEF Ready
 <2> QED BY <1>13, <2>1 DEF Read
<1>16. PICK t : Puts(u, k, AddressAt(u, SP, 0), Read(u, b, X64), t) BY <1>1, <1>2, <1>13, RunStore
<1>17. Stash(b) = <<l>> \o <<k>> BY SpillSlotLines DEF Stash
<1> HIDE DEF l, k, x, y
<1>18. Puts(u, k, y, s.regs[b], t) BY <1>14, <1>15, <1>16
<1>19. Does(u, <<k>>, {}, X, t) /\ Cell(t, y) = s.regs[b] BY <1>18 DEF Puts
<1>20. Does(s, <<l>>, Q, {}, u) BY <1>11 DEF Gives
<1>21. Does(s, <<l>> \o <<k>>, Q \cup {}, {} \cup X, t) BY <1>19, <1>20, DoesJoin
<1>22. Does(s, <<l>> \o <<k>>, Q, Below, t)
 <2>1. (Q \cup {}) \cap PhysicalRegs \subseteq Q /\ {} \cup X \subseteq Below BY <1>6
 <2> QED BY <1>21, <2>1, DoesWider
<1>23. t.regs[SP] = y
 <2>1. Kept(u, t, {}, X) BY <1>19 DEF Does
 <2> QED BY <1>2, <1>13, <2>1 DEF Kept
<1> HIDE DEF Q, X
<1>24. Does(s, Stash(b), Q, Below, t) BY <1>17, <1>22
<1> QED BY <1>19, <1>23, <1>24 DEF Q, y, x

Unstashed(s, b, v, x, t) ==
  Does(s, Unstash(b), {b, SP}, {}, t) /\ t.regs[b] = v /\ t.regs[SP] = x + ScratchSpillSlot

LEMMA UnstashRuns ==
  ASSUME NEW s, Ready(s), NEW x \in Word, NEW v \in Word, x + ScratchSpillSlot < Modulus(X64),
         s.regs[SP] = x, Cell(s, x) = v, NEW b \in General
  PROVE  \E t : Unstashed(s, b, v, x, t)
<1> DEFINE y == x + ScratchSpillSlot
           l == OpImm("add_imm", X64, SP, SP, ScratchSpillSlot)
           k == Access("ldr", X64, b, SP, 0)
<1>1. X64 \in Sizes /\ 0 \in Int BY DEF Sizes
<1>2. SP \in PhysicalRegs /\ b \in PhysicalRegs /\ b # SP BY PhysicalNumbers, RegisterNumbers
<1>3. ScratchSpillSlot \in Nat \ {0} /\ ScratchSpillSlot \in Int BY SpillSlotAssumption
<1>4. Modulus(X64) \in Nat \ {0} BY ModulusFacts
<1>5. x \in Int /\ x >= 0 /\ v % Modulus(X64) = v BY WordFacts DEF Word
<1>6. y \in 0 .. Modulus(X64) - 1 BY <1>3, <1>4, <1>5
<1>7. y % Modulus(X64) = y BY <1>4, <1>6, ModSmall
<1>8. Arith("add", x, ScratchSpillSlot, X64) = y BY <1>7, ArithForms
<1>9. AddressAt(s, SP, 0) = x BY AtRegister
<1>10. Fetch(s, x, X64) = v BY <1>5 DEF Fetch
<1>11. PICK u : Sets(s, Access("ldr", X64, b, SP, 0), b, Fetch(s, AddressAt(s, SP, 0), X64), u) BY <1>1, <1>2, RunLoad
<1>12. Sets(s, k, b, v, u) BY <1>9, <1>10, <1>11
<1>13. Gives(s, <<k>>, b, v, u) BY <1>12, SetsGives
<1>14. s.at = Here BY DEF Ready
<1>15. Ready(u) /\ u.regs[SP] = x /\ u.regs[b] = v BY <1>2, <1>13, <1>14, GivesReady
<1>16. PICK t : Sets(u, OpImm("add_imm", X64, SP, SP, ScratchSpillSlot), SP,
                     Arith("add", u.regs[SP], ScratchSpillSlot, X64), t)
 <2> DEFINE o == "add"
 <2>1. o \in {"add", "sub"} /\ o = "add" OBVIOUS
 <2> HIDE DEF o
 <2>2. \E w : Sets(u, OpImm(IF o = "add" THEN "add_imm" ELSE "sub_imm", X64, SP, SP, ScratchSpillSlot), SP,
                   Arith(o, u.regs[SP], ScratchSpillSlot, X64), w) BY <1>1, <1>2, <1>3, <1>15, <2>1, RunOpImm
 <2>3. \E w : Sets(u, OpImm("add_imm", X64, SP, SP, ScratchSpillSlot), SP,
                   Arith(o, u.regs[SP], ScratchSpillSlot, X64), w) BY <2>1, <2>2
 <2> QED BY <2>3 DEF o
<1>17. Sets(u, l, SP, y, t) BY <1>8, <1>15, <1>16
<1>18. Unstash(b) = <<k>> \o <<l>> BY SpillSlotLines DEF Unstash
<1> HIDE DEF l, k, y
<1>19. Gives(u, <<l>>, SP, y, t) BY <1>17, SetsGives
<1>20. Does(s, <<k>>, {b}, {}, u) /\ Does(u, <<l>>, {SP}, {}, t) /\ t.regs[SP] = y BY <1>13, <1>19 DEF Gives
<1>21. Does(s, <<k>> \o <<l>>, {b} \cup {SP}, {} \cup {}, t) BY <1>20, DoesJoin
<1>22. Does(s, <<k>> \o <<l>>, {b, SP}, {}, t) BY <1>21, DoesWider
<1>23. t.regs[b] = v
 <2>1. u.at = Here BY <1>15 DEF Ready
 <2> QED BY <1>2, <1>15, <1>19, <2>1, GivesReady
<1>24. Unstashed(s, b, v, x, t) BY <1>18, <1>20, <1>22, <1>23 DEF y, Unstashed
<1> QED BY <1>24
-----------------------------------------------------------------------------
(* A register that is back is kept. *)
LEMMA DoesNarrower ==
  ASSUME NEW s, NEW T, NEW Q, NEW X, NEW t, Does(s, T, Q, X, t),
         NEW r, t.regs[r] = s.regs[r], NEW P, Q \subseteq P \cup {r}
  PROVE  Does(s, T, P, X, t)
<1>1. Kept(s, t, Q, X) /\ Runs(s, T, t) BY DEF Does
<1>2. \A q \in PhysicalRegs \ P : t.regs[q] = s.regs[q] BY <1>1 DEF Kept
<1>3. Kept(s, t, P, X) BY <1>1, <1>2 DEF Kept
<1> QED BY <1>1, <1>3 DEF Does

LEMMA StashedProduct ==
  ASSUME NEW s, Ready(s), StackFree(s), NEW d \in Scratches, NEW b \in Scratches, d # b,
         NEW r \in General, NEW k \in Nat
  PROVE  \E t : Makes(s, ((Stash(b) \o Product(d, r, b, k)) \o Unstash(b)) \o <<Op3("add", X64, d, b, d)>>, d,
                      (s.regs[b] + Signed(s.regs[r], W32) * k) % Modulus(X64), t)
<1> DEFINE x == Signed(s.regs[r], W32)
           w == (x * k) % Modulus(X64)
           v == (s.regs[b] + x * k) % Modulus(X64)
           z == s.regs[SP]
           y == z - ScratchSpillSlot
           f == Stash(b)
           g == Product(d, r, b, k)
           h == Unstash(b)
           l == Op3("add", X64, d, b, d)
<1>1. d \in General /\ b \in General /\ r # SP /\ b # SP /\ d # SP /\ Scratches \subseteq PhysicalRegs
      /\ d \in PhysicalRegs /\ b \in PhysicalRegs /\ r \in PhysicalRegs /\ SP \in PhysicalRegs
  BY PhysicalNumbers, RegisterNumbers DEF Scratches, General
<1>2. ScratchSpillSlot \in Nat \ {0} /\ ScratchSpillSlot \in Int BY SpillSlotAssumption
<1>3. SpValue \in Nat /\ SpValue < Modulus(X64) /\ Modulus(X64) \in Nat \ {0}
 <2>1. Modulus(X64) \in Nat \ {0} BY ModulusFacts
 <2> QED BY <2>1, FrameAssumption
<1>4. z \in Int /\ ScratchSpillSlot <= z /\ z <= SpValue BY <1>2, <1>3 DEF StackFree
<1>5. y \in Word /\ y + ScratchSpillSlot = z /\ y + ScratchSpillSlot < Modulus(X64) BY <1>2, <1>3, <1>4 DEF Word
<1>6. s.regs[b] \in Word /\ s.regs[b] \in Int /\ s.regs[r] \in Int BY <1>1, RegisterWords DEF Ready
<1>7. x \in Int /\ k \in Int
 <2>1. W32 \in Sizes BY DEF Sizes
 <2> QED BY <1>6, <2>1, SignedFacts
<1>8. s.at = Here BY DEF Ready
<1>9. PICK s1 : /\ Does(s, Stash(b), {SP}, Below, s1)
                /\ s1.regs[SP] = s.regs[SP] - ScratchSpillSlot
                /\ Cell(s1, s.regs[SP] - ScratchSpillSlot) = s.regs[b] BY <1>1, StashRuns
<1>10. Ready(s1) /\ s1.regs[r] = s.regs[r] /\ s1.regs[SP] = y /\ Cell(s1, y) = s.regs[b]
 <2>1. Kept(s, s1, {SP}, Below) BY <1>9 DEF Does
 <2> QED BY <1>1, <1>8, <1>9, <2>1 DEF Kept, Ready
<1>11. PICK s2 : Via(s1, Product(d, r, b, k), b, d, (Signed(s1.regs[r], W32) * k) % Modulus(X64), s2)
  BY <1>1, <1>10, ProductRuns
<1>12. Does(s1, g, {b, d}, {}, s2) /\ s2.regs[d] = w BY <1>10, <1>11 DEF Via
<1>13. Ready(s2) /\ s2.regs[SP] = y /\ Cell(s2, y) = s.regs[b]
 <2>1. Kept(s1, s2, {b, d}, {}) BY <1>12 DEF Does
 <2> QED BY <1>1, <1>10, <2>1 DEF Kept, Ready
<1>14. PICK s3 : /\ Does(s2, Unstash(b), {b, SP}, {}, s3)
                 /\ s3.regs[b] = s.regs[b] /\ s3.regs[SP] = y + ScratchSpillSlot
 <2> DEFINE c == s.regs[b]
 <2> HIDE DEF y, c
 <2>1. y \in Word /\ c \in Word /\ Cell(s2, y) = c BY <1>5, <1>6, <1>13 DEF c
 <2>2. \E t : Unstashed(s2, b, c, y, t) BY <1>1, <1>5, <1>13, <2>1, UnstashRuns
 <2> QED BY <2>2 DEF c, Unstashed
<1>15. Ready(s3) /\ s3.regs[SP] = z /\ s3.regs[b] = s.regs[b] /\ s3.regs[d] = w
 <2>1. Kept(s2, s3, {b, SP}, {}) BY <1>14 DEF Does
 <2> QED BY <1>1, <1>5, <1>12, <1>13, <1>14, <2>1 DEF Kept, Ready
<1>16. PICK t : Sets(s3, Op3("add", X64, d, b, d), d, Arith("add", s3.regs[b], s3.regs[d], X64), t)
 <2>1. X64 \in Sizes /\ "add" \in ArithOps BY DEF Sizes, ArithOps
 <2> QED BY <1>1, <1>15, <2>1, RunOp3
<1>17. Arith("add", s3.regs[b], s3.regs[d], X64) = v BY <1>6, <1>7, <1>15, ScaledSum
<1>18. Does(s3, <<l>>, {d}, {}, t) /\ t.regs[d] = v BY <1>16, <1>17 DEF Sets
<1>19. t.regs[SP] = s.regs[SP]
 <2>1. Kept(s3, t, {d}, {}) BY <1>18 DEF Does
 <2> QED BY <1>1, <1>15, <2>1 DEF Kept
<1> HIDE DEF f, g, h, l, v, w, x, y, z
<1>20. Does(s, f, {SP}, Below, s1) /\ Does(s2, h, {b, SP}, {}, s3) BY <1>9, <1>14 DEF f, h
<1>21. Does(s, f \o g, {SP} \cup {b, d}, Below \cup {}, s2) BY <1>12, <1>20, DoesJoin
<1>22. Does(s, (f \o g) \o h, ({SP} \cup {b, d}) \cup {b, SP}, (Below \cup {}) \cup {}, s3) BY <1>20, <1>21, DoesJoin
<1>23. Does(s, ((f \o g) \o h) \o <<l>>, (({SP} \cup {b, d}) \cup {b, SP}) \cup {d}, ((Below \cup {}) \cup {}) \cup {}, t)
  BY <1>18, <1>22, DoesJoin
<1> DEFINE T == ((f \o g) \o h) \o <<l>>
           Q == Scratches \cup {SP}
<1>24. Does(s, T, Q, Below, t)
 <2>1. ((({SP} \cup {b, d}) \cup {b, SP}) \cup {d}) \cap PhysicalRegs \subseteq Scratches \cup {SP} OBVIOUS
 <2>2. ((Below \cup {}) \cup {}) \cup {} \subseteq Below OBVIOUS
 <2> QED BY <1>23, <2>1, <2>2, DoesWider
<1>25. Q \subseteq (Scratches \cup {d}) \cup {SP} OBVIOUS
<1> HIDE DEF T, Q
<1>26. Does(s, T, Scratches \cup {d}, Below, t) BY <1>19, <1>24, <1>25, DoesNarrower
<1>27. Makes(s, T, d, v, t) BY <1>18, <1>26 DEF Makes
<1> QED BY <1>27 DEF T, f, g, h, l, v, x

LEMMA PrintGep ==
  ASSUME NEW s, Ready(s), StackFree(s), NEW i \in Geps(General), i.dst = i.base => i.dst \notin Scratches
  PROVE  \E t : Makes(s, EmitGep(i), i.dst,
                      (s.regs[i.base] + Signed(ValueOf(s, i.index), W32) * i.scale) % Modulus(X64), t)
<1> DEFINE d == i.dst
           b == i.base
           o == i.index
           r == o.val
           k == i.scale
           e == EmitGep(i)
           x == Signed(ValueOf(s, o), W32)
           v == (s.regs[b] + x * k) % Modulus(X64)
           free == PickFreeScratch({d, b})
           kind == o.kind
<1>1. d \in General /\ b \in General /\ k \in Nat /\ o \in Immediates(I32Values) \cup InRegisters(General) BY DEF Geps
<1>2. d \in PhysicalRegs /\ b \in PhysicalRegs /\ General \subseteq PhysicalRegs BY <1>1, PhysicalNumbers
<1>3. s.regs[b] \in Int BY <1>2, RegisterWords DEF Ready
<1>4. kind = "reg" => r \in General /\ ValueOf(s, o) = s.regs[r]
 <2> HIDE DEF o
 <2> QED BY <1>1 DEF Immediates, InRegisters, ValueOf
<1>5. kind # "reg" => kind = "imm" /\ r \in I32Values /\ ValueOf(s, o) = r
 <2> HIDE DEF o
 <2> QED BY <1>1 DEF Immediates, InRegisters, ValueOf
<1>6. CASE kind # "reg"
 <2> DEFINE c == PickScratchOrClobberDst({d, b}, d)
            q == r * k
 <2>1. e = EmitAddXImmWith(d, b, q, c) BY <1>5, <1>6 DEF EmitGep
 <2>2. r \in Int /\ x = r BY <1>5, <1>6, SignedI32
 <2>3. q \in Int
  <3> HIDE DEF r, k
  <3> QED BY <1>1, <2>2
 <2>4. AddressAt(s, b, q) = v BY <2>2 DEF AddressAt
 <2>5. c \in Scratches \cup {d} /\ c # b /\ c \in PhysicalRegs BY <1>1, <1>2, PickApart
 <2> HIDE DEF c, d, b, q, e, v
 <2>6. PICK t : Via(s, EmitAddXImmWith(d, b, q, c), c, d, AddressAt(s, b, q), t) BY <1>2, <2>3, <2>5, AddXRuns
 <2>7. Via(s, e, c, d, v, t) BY <2>1, <2>4, <2>6
 <2>8. Makes(s, e, d, v, t) BY <2>5, <2>7, ViaWider
 <2> QED BY <2>8 DEF d, e, v, b, x, k, o
<1>7. CASE kind = "reg" /\ k \in {1, 2, 4, 8}
 <2>1. e = <<Line("add_sxtw", X64, d, b, r, k)>> BY <1>7 DEF EmitGep, ScaleToShift
 <2>2. r \in PhysicalRegs /\ x = Signed(s.regs[r], W32) BY <1>2, <1>4, <1>7
 <2> HIDE DEF d, b, r, k, e, x
 <2>3. \A n \in {1, 2, 4, 8} :
         \E t : Sets(s, Line("add_sxtw", X64, d, b, r, n), d, (s.regs[b] + Signed(s.regs[r], W32) * n) % Modulus(X64), t)
   BY <1>2, <2>2, RunExtended
 <2>4. PICK t : Sets(s, Line("add_sxtw", X64, d, b, r, k), d, (s.regs[b] + Signed(s.regs[r], W32) * k) % Modulus(X64), t)
   BY <1>7, <2>3
 <2>5. Sets(s, Line("add_sxtw", X64, d, b, r, k), d, v, t) BY <2>2, <2>4
 <2>6. Gives(s, e, d, v, t) BY <2>1, <2>5, SetsGives
 <2>7. Makes(s, e, d, v, t) BY <2>6, GivesMakes
 <2> QED BY <2>7 DEF d, e, b, x, k, o
<1>8. CASE kind = "reg" /\ k \notin {1, 2, 4, 8}
 <2>1. e = ScaledIndex(d, b, r, k) BY <1>8 DEF EmitGep, ScaleToShift
 <2>2. r \in General /\ r \in PhysicalRegs /\ x = Signed(s.regs[r], W32) BY <1>2, <1>4, <1>8
 <2>3. /\ (d # b /\ free # NoScratch) => e = Product(d, r, free, k) \o <<Op3("add", X64, d, b, d)>>
       /\ (d # b /\ free = NoScratch) =>
            e = ((Stash(b) \o Product(d, r, b, k)) \o Unstash(b)) \o <<Op3("add", X64, d, b, d)>>
       /\ (d = b /\ b \notin {SCRATCH0, SCRATCH1}) =>
            e = Product(SCRATCH0, r, SCRATCH1, k) \o <<Op3("add", X64, d, b, SCRATCH0)>> BY <2>1 DEF ScaledIndex
 <2>4. free # NoScratch => free \in {SCRATCH0, SCRATCH1} \ {d, b} BY FinePick
 <2>5. free = NoScratch => {d, b} = {SCRATCH0, SCRATCH1} BY NoScratchLeft
 <2> HIDE DEF d, b, r, k, e, x, free, v
 <2>6. CASE d # b /\ free # NoScratch
  <3>1. free \in Scratches /\ free # d /\ free # b /\ free \in PhysicalRegs BY <2>4, <2>6, PhysicalNumbers DEF Scratches
  <3>2. {free, d} \subseteq Scratches \cup {d} BY <3>1
  <3>3. \E t : Makes(s, Product(d, r, free, k) \o <<Op3("add", X64, d, b, d)>>, d,
                     (s.regs[b] + Signed(s.regs[r], W32) * k) % Modulus(X64), t)
    BY <1>1, <1>2, <2>2, <2>6, <3>1, <3>2, ProductThenSum
  <3> QED BY <2>2, <2>3, <2>6, <3>3 DEF v, d, e, b, x, k, o
 <2>7. CASE d # b /\ free = NoScratch
  <3>1. d \in Scratches /\ b \in Scratches BY <2>5, <2>7 DEF Scratches
  <3>2. \E t : Makes(s, ((Stash(b) \o Product(d, r, b, k)) \o Unstash(b)) \o <<Op3("add", X64, d, b, d)>>, d,
                    (s.regs[b] + Signed(s.regs[r], W32) * k) % Modulus(X64), t) BY <1>1, <2>2, <2>7, <3>1, StashedProduct
  <3> QED BY <2>2, <2>3, <2>7, <3>2 DEF v, d, e, b, x, k, o
 <2>8. CASE d = b
  <3>1. b \notin {SCRATCH0, SCRATCH1} /\ SCRATCH0 # SCRATCH1 BY <2>8 DEF Scratches, d, b, SCRATCH0, SCRATCH1
  <3>2. SCRATCH0 \in PhysicalRegs /\ SCRATCH1 \in PhysicalRegs BY PhysicalNumbers
  <3>3. {SCRATCH1, SCRATCH0} \subseteq Scratches \cup {d} BY DEF Scratches
  <3>4. b # SCRATCH0 /\ b # SCRATCH1 /\ SCRATCH1 # SCRATCH0 BY <3>1
  <3>5. \E t : Makes(s, Product(SCRATCH0, r, SCRATCH1, k) \o <<Op3("add", X64, d, b, SCRATCH0)>>, d,
                     (s.regs[b] + Signed(s.regs[r], W32) * k) % Modulus(X64), t)
    BY <1>1, <1>2, <2>2, <3>2, <3>3, <3>4, ProductThenSum
  <3> QED BY <2>2, <2>3, <2>8, <3>1, <3>5 DEF v, d, e, b, x, k, o
 <2> QED BY <2>6, <2>7, <2>8
<1> QED BY <1>6, <1>7, <1>8
-----------------------------------------------------------------------------
(* The stack pointer stays inside the address space. *)
LEMMA PrintSpMove ==
  ASSUME NEW s, Ready(s), NEW i \in SpMoves, NEW v \in Word,
         i.op = "SubSp" => v = s.regs[SP] - i.imm, i.op = "AddSp" => v = s.regs[SP] + i.imm
  PROVE  \E t : Makes(s, EmitInst(i), SP, v, t)
<1> DEFINE x == s.regs[SP]
           k == i.imm
           e == EmitInst(i)
           o == IF i.op = "SubSp" THEN "sub" ELSE "add"
<1>1. i.op \in {"SubSp", "AddSp"} /\ k \in Nat /\ "SubSp" # "AddSp" BY DEF SpMoves
<1>2. o \in {"add", "sub"} OBVIOUS
<1>3. e = AdjustSp(o, k) BY <1>1 DEF EmitInst, EmitSubSp, EmitAddSp
<1>4. v % Modulus(X64) = v BY WordFacts
<1>5. Arith(o, x, k, X64) = v
 <2>1. CASE i.op = "SubSp"
  <3>1. Arith("sub", x, k, X64) = (x - k) % Modulus(X64) BY ArithForms
  <3> QED BY <1>4, <2>1, <3>1
 <2>2. CASE i.op = "AddSp"
  <3>1. Arith("add", x, k, X64) = (x + k) % Modulus(X64) BY ArithForms
  <3> QED BY <1>4, <2>2, <3>1
 <2> QED BY <1>1, <2>1, <2>2
<1> HIDE DEF o, k, e
<1>6. PICK t : Via(s, AdjustSp(o, k), SCRATCH0, SP, Arith(o, s.regs[SP], k, X64), t) BY <1>1, <1>2, AdjustSpRuns
<1>7. Via(s, e, SCRATCH0, SP, v, t) BY <1>3, <1>5, <1>6
<1>8. SCRATCH0 \in Scratches \cup {SP} BY DEF Scratches
<1>9. Makes(s, e, SP, v, t) BY <1>7, <1>8, ViaWider
<1> QED BY <1>9 DEF e

(* A branch is one line, with the effect the program meant. *)
LEMMA BranchLine ==
  ASSUME NEW i \in Branches PROVE \E l \in Lines : EmitInst(i) = <<l>> /\ \A s : Execute(s, l) = Effect(s, i)
<1>1. SP \in Int /\ X64 \in Sizes /\ 0 \in Int /\ Returned \in Int BY PhysicalNumbers DEF Sizes, Returned
<1>2. CASE i \in [op : {"B"}, label : Nat \ {Here}]
 <2> DEFINE l == OpImm("b", X64, SP, SP, i.label)
 <2>1. i.op = "B" /\ i.label \in Int BY <1>2
 <2>2. EmitInst(i) = <<l>> BY <2>1 DEF EmitInst
 <2>3. "b" \in LineOps BY DEF LineOps
 <2>4. l \in Lines /\ l.op = "b" /\ l.imm = i.label BY <1>1, <2>1, <2>3, LineShape DEF OpImm
 <2> HIDE DEF l
 <2>5. \A s : Execute(s, l) = [s EXCEPT !.at = i.label] BY <2>4 DEF Execute
 <2>6. \A s : Effect(s, i) = [s EXCEPT !.at = i.label] BY <2>1 DEF Effect
 <2> QED BY <2>2, <2>4, <2>5, <2>6
<1>3. CASE i \in [op : {"BCond"}, cond : Comparisons, label : Nat \ {Here}]
 <2> DEFINE l == Line("b_cond", X64, SP, SP, i.cond, i.label)
 <2>1. i.op = "BCond" /\ i.label \in Int /\ i.cond \in Comparisons BY <1>3
 <2>2. EmitInst(i) = <<l>> BY <2>1 DEF EmitInst
 <2>3. "b_cond" \in LineOps BY DEF LineOps
 <2>4. l \in Lines /\ l.op = "b_cond" /\ l.imm = i.label /\ l.rhs = i.cond
  <3> DEFINE q == i.cond
             n == i.label
  <3>1. q \in Int \cup Comparisons /\ n \in Int BY <2>1
  <3> HIDE DEF q, n
  <3> DEFINE y == Line("b_cond", X64, SP, SP, q, n)
  <3>2. y \in Lines /\ y.op = "b_cond" /\ y.imm = n /\ y.rhs = q BY <1>1, <2>3, <3>1, LineShape
  <3> QED BY <3>2 DEF q, n
 <2> HIDE DEF l
 <2>5. \A s : Execute(s, l) = IF CondHolds(i.cond, s.flags) THEN [s EXCEPT !.at = i.label] ELSE s BY <2>4 DEF Execute
 <2>6. \A s : Effect(s, i) = IF CondHolds(i.cond, s.flags) THEN [s EXCEPT !.at = i.label] ELSE s BY <2>1 DEF Effect
 <2> QED BY <2>2, <2>4, <2>5, <2>6
<1>4. CASE i \in [op : {"Ret"}]
 <2> DEFINE l == OpImm("ret", X64, SP, SP, 0)
 <2>1. i.op = "Ret" BY <1>4
 <2>2. EmitInst(i) = <<l>> BY <2>1 DEF EmitInst
 <2>3. "ret" \in LineOps BY DEF LineOps
 <2>4. l \in Lines /\ l.op = "ret" BY <1>1, <2>3, LineShape DEF OpImm
 <2> HIDE DEF l
 <2>5. \A s : Execute(s, l) = [s EXCEPT !.at = Returned] BY <2>4 DEF Execute
 <2>6. \A s : Effect(s, i) = [s EXCEPT !.at = Returned] BY <2>1 DEF Effect
 <2> QED BY <2>2, <2>4, <2>5, <2>6
<1> QED BY <1>2, <1>3, <1>4 DEF Branches
-----------------------------------------------------------------------------
(* Running what is printed for rewritten code: some sequence of machines, each
   what the lines of one instruction lead to from the one before. *)
IsStory(tr, O) == \A k \in 1 .. Len(O) : Runs(tr[k - 1], EmitInst(O[k]), tr[k])
Computes(a, O, b) ==
  /\ O \in Seq(PInsts)
  /\ \E tr : tr[0] = a /\ tr[Len(O)] = b /\ IsStory(tr, O)

LEMMA ComputesNothing == ASSUME NEW a, NEW b PROVE Computes(a, <<>>, b) <=> a = b
<1>1. Len(<<>>) = 0 /\ <<>> \in Seq(PInsts) /\ 1 .. 0 = {} OBVIOUS
<1>2. Computes(a, <<>>, b) => a = b BY <1>1 DEF Computes
<1>3. ASSUME a = b PROVE Computes(a, <<>>, b)
 <2> DEFINE tr == [k \in {0} |-> a]
 <2>1. tr[0] = a /\ IsStory(tr, <<>>) BY <1>1 DEF IsStory
 <2> HIDE DEF tr
 <2> QED BY <1>1, <1>3, <2>1 DEF Computes
<1> QED BY <1>2, <1>3

LEMMA ComputesOne ==
  ASSUME NEW i \in PInsts, NEW a, NEW b, Runs(a, EmitInst(i), b) PROVE Computes(a, <<i>>, b)
<1> DEFINE tr == [k \in {0, 1} |-> IF k = 0 THEN a ELSE b]
           O == <<i>>
<1>1. O \in Seq(PInsts) /\ Len(O) = 1 /\ O[1] = i OBVIOUS
<1>2. tr[0] = a /\ tr[1] = b OBVIOUS
<1> HIDE DEF tr, O
<1>3. \A k \in 1 .. 1 : k = 1 /\ k - 1 = 0 OBVIOUS
<1>4. IsStory(tr, O) BY <1>1, <1>2, <1>3 DEF IsStory
<1>5. Computes(a, O, b) BY <1>1, <1>2, <1>4 DEF Computes
<1> QED BY <1>5 DEF O

LEMMA ComputesJoin ==
  ASSUME NEW a, NEW b, NEW c, NEW T, NEW U, Computes(a, T, b), Computes(b, U, c) PROVE Computes(a, T \o U, c)
<1> DEFINE n == Len(T)
           e == Len(U)
           J == T \o U
<1>1. T \in Seq(PInsts) /\ U \in Seq(PInsts) BY DEF Computes
<1>2. /\ J \in Seq(PInsts) /\ Len(J) = n + e /\ n \in Nat /\ e \in Nat
      /\ \A k \in 1 .. n : J[k] = T[k]
      /\ \A k \in 1 .. e : J[n + k] = U[k] BY <1>1
<1>3. PICK f : f[0] = a /\ f[n] = b /\ IsStory(f, T) BY DEF Computes
<1>4. PICK g : g[0] = b /\ g[e] = c /\ IsStory(g, U) BY DEF Computes
<1> DEFINE h == [k \in 0 .. n + e |-> IF k <= n THEN f[k] ELSE g[k - n]]
<1>5. \A k \in 0 .. n : h[k] = f[k] BY <1>2
<1>6. \A k \in 0 .. e : h[n + k] = g[k]
 <2>1. SUFFICES ASSUME NEW k \in 0 .. e PROVE h[n + k] = g[k] OBVIOUS
 <2>2. CASE k = 0 BY <1>2, <1>3, <1>4, <1>5, <2>2
 <2>3. CASE k # 0
  <3>1. n + k \in 0 .. n + e /\ ~(n + k <= n) /\ (n + k) - n = k BY <1>2, <2>1, <2>3
  <3> QED BY <3>1
 <2> QED BY <2>2, <2>3
<1> HIDE DEF h, J, n, e
<1>7. IsStory(h, J)
 <2>1. SUFFICES ASSUME NEW k \in 1 .. Len(J) PROVE Runs(h[k - 1], EmitInst(J[k]), h[k]) BY DEF IsStory
 <2>2. CASE k <= n
  <3>1. k \in 1 .. n /\ k \in 0 .. n /\ k - 1 \in 0 .. n BY <1>2, <2>1, <2>2
  <3>2. Runs(f[k - 1], EmitInst(T[k]), f[k]) BY <1>3, <3>1 DEF IsStory, n
  <3> QED BY <1>2, <1>5, <3>1, <3>2
 <2>3. CASE ~(k <= n)
  <3> DEFINE i == k - n
  <3>1. i \in 1 .. e /\ i \in 0 .. e /\ i - 1 \in 0 .. e /\ n + i = k /\ n + (i - 1) = k - 1 BY <1>2, <2>1, <2>3
  <3> HIDE DEF i
  <3>2. Runs(g[i - 1], EmitInst(U[i]), g[i]) BY <1>4, <3>1 DEF IsStory, e
  <3>3. J[k] = U[i] /\ h[k] = g[i] /\ h[k - 1] = g[i - 1]
   <4>1. J[n + i] = U[i] BY <1>2, <3>1
   <4>2. h[n + i] = g[i] BY <1>6, <3>1
   <4>3. h[n + (i - 1)] = g[i - 1] BY <1>6, <3>1
   <4> QED BY <3>1, <4>1, <4>2, <4>3
  <3> QED BY <3>2, <3>3
 <2> QED BY <2>2, <2>3
<1>8. h[0] = a BY <1>2, <1>3, <1>5
<1>9. h[Len(J)] = c BY <1>2, <1>4, <1>6
<1> QED BY <1>2, <1>7, <1>8, <1>9 DEF Computes, J

LEMMA ComputesHead ==
  ASSUME NEW a, NEW b, NEW T, Computes(a, T, b), T # <<>>
  PROVE  \E c : Runs(a, EmitInst(Head(T)), c) /\ Computes(c, Tail(T), b)
<1> DEFINE n == Len(T)
           U == Tail(T)
<1>1. T \in Seq(PInsts) BY DEF Computes
<1>2. /\ n \in Nat /\ n >= 1 /\ U \in Seq(PInsts) /\ Len(U) = n - 1 /\ Head(T) = T[1]
      /\ \A k \in 1 .. n - 1 : U[k] = T[k + 1] BY <1>1
<1>3. PICK f : f[0] = a /\ f[n] = b /\ IsStory(f, T) BY DEF Computes
<1> DEFINE h == [k \in 0 .. n - 1 |-> f[k + 1]]
<1>4. \A k \in 0 .. n - 1 : h[k] = f[k + 1] OBVIOUS
<1> HIDE DEF h, U, n
<1>5. Runs(f[0], EmitInst(T[1]), f[1])
 <2>1. 1 \in 1 .. n /\ 1 - 1 = 0 BY <1>2
 <2> QED BY <1>3, <2>1 DEF IsStory, n
<1>6. IsStory(h, U)
 <2>1. SUFFICES ASSUME NEW k \in 1 .. Len(U) PROVE Runs(h[k - 1], EmitInst(U[k]), h[k]) BY DEF IsStory
 <2>2. k + 1 \in 1 .. n /\ k \in 1 .. n - 1 /\ k \in 0 .. n - 1 /\ k - 1 \in 0 .. n - 1
       /\ (k + 1) - 1 = k /\ (k - 1) + 1 = k BY <1>2, <2>1
 <2>3. Runs(f[(k + 1) - 1], EmitInst(T[k + 1]), f[k + 1]) BY <1>3, <2>2 DEF IsStory, n
 <2> QED BY <1>2, <1>4, <2>2, <2>3
<1>7. h[0] = f[1] /\ h[Len(U)] = b
 <2>1. 0 \in 0 .. n - 1 /\ 0 + 1 = 1 /\ n - 1 \in 0 .. n - 1 /\ (n - 1) + 1 = n BY <1>2
 <2> QED BY <1>2, <1>3, <1>4, <2>1
<1>8. Computes(f[1], U, b) BY <1>2, <1>6, <1>7 DEF Computes
<1>9. Runs(a, EmitInst(Head(T)), f[1]) BY <1>2, <1>3, <1>5
<1> QED BY <1>8, <1>9 DEF U
-----------------------------------------------------------------------------
Acts(s, O, Q, X, t) == Computes(s, O, t) /\ Kept(s, t, Q, X)

LEMMA ActsNothing == ASSUME NEW s, Machine(s, PhysicalRegs), NEW Q, NEW X PROVE Acts(s, <<>>, Q, X, s)
BY ComputesNothing DEF Acts, Kept

LEMMA ActsOne ==
  ASSUME NEW i \in PInsts, NEW s, NEW Q, NEW X, NEW t, Does(s, EmitInst(i), Q, X, t) PROVE Acts(s, <<i>>, Q, X, t)
<1>1. Runs(s, EmitInst(i), t) /\ Kept(s, t, Q, X) BY DEF Does
<1>2. Computes(s, <<i>>, t) BY <1>1, ComputesOne
<1> QED BY <1>1, <1>2 DEF Acts

LEMMA ActsJoin ==
  ASSUME NEW s, NEW t, NEW u, NEW T, NEW U, NEW Q, NEW P, NEW X, NEW Y,
         Acts(s, T, Q, X, t), Acts(t, U, P, Y, u)
  PROVE  Acts(s, T \o U, Q \cup P, X \cup Y, u)
<1>1. Computes(s, T, t) /\ Computes(t, U, u) /\ Kept(s, t, Q, X) /\ Kept(t, u, P, Y) BY DEF Acts
<1>2. Computes(s, T \o U, u) BY <1>1, ComputesJoin
<1>3. Kept(s, u, Q \cup P, X \cup Y) BY <1>1, KeptJoin
<1> QED BY <1>2, <1>3 DEF Acts

LEMMA ActsWider ==
  ASSUME NEW s, NEW t, NEW T, NEW Q, NEW X, Acts(s, T, Q, X, t), NEW P, NEW Y,
         Q \cap PhysicalRegs \subseteq P, X \subseteq Y
  PROVE  Acts(s, T, P, Y, t)
<1>1. Kept(s, t, Q, X) BY DEF Acts
<1>2. Kept(s, t, P, Y) BY <1>1, KeptWider
<1> QED BY <1>2 DEF Acts
-----------------------------------------------------------------------------
(* Where a register's value is found on the processor, and what reloading and
   storing back do to it. *)
Located(r) == r \in General \/ (r \in Virtual /\ PlacedRegs({r}))
Found(s, r) == IF Spilled(r) THEN Cell(s, FpValue + place[r]) ELSE s.regs[MapReg(r)]
Steady(s) == Ready(s) /\ s.regs[FP] = FpValue

LEMMA SlotPlace ==
  ASSUME NEW r, place[r] \in Frame
  PROVE  /\ FpValue + place[r] \in Word /\ SpValue <= FpValue + place[r]
         /\ FpValue + place[r] \notin Below
         /\ \A s : s.regs[FP] = FpValue => AddressOf(s, LocalAddr(place[r])) = FpValue + place[r]
<1> DEFINE k == place[r]
           a == LocalAddr(place[r])
           x == FpValue + place[r]
<1>1. FpValue \in Nat /\ SpValue \in Nat /\ SpValue <= FpValue /\ FpValue < Modulus(X64) BY FrameAssumption
<1>2. k \in SpValue - FpValue .. -1 BY DEF Frame
<1>3. Modulus(X64) \in Nat \ {0} BY ModulusFacts
<1> HIDE DEF k
<1>4. FpValue + k \in 0 .. Modulus(X64) - 1 /\ SpValue <= FpValue + k /\ FpValue + k \notin 0 .. SpValue - 1 BY <1>1, <1>2, <1>3
<1>5. (FpValue + k) % Modulus(X64) = FpValue + k BY <1>3, <1>4, ModSmall
<1>6. a.kind = "base_off" /\ a.base = FP /\ a.offset = k BY DEF LocalAddr, BaseOff, k
<1> HIDE DEF a
<1>7. \A s : s.regs[FP] = FpValue => AddressOf(s, a) = FpValue + k BY <1>5, <1>6 DEF AddressOf
<1> QED BY <1>4, <1>7 DEF a, k, Word, Below

LEMMA HomeOf ==
  ASSUME NEW r, Located(r)
  PROVE  /\ Spilled(r) => place[r] \in Frame /\ r \in Virtual
         /\ ~Spilled(r) => MapReg(r) \in General /\ MapReg(r) \in PhysicalRegs
         /\ \A c \in Scratches : /\ InReg(r, c) \in General /\ InReg(r, c) \in PhysicalRegs
                                 /\ Spilled(r) => InReg(r, c) = c
                                 /\ ~Spilled(r) => InReg(r, c) = MapReg(r)
<1>1. r \in General \/ (r \in Virtual /\ PlacedRegs({r})) BY DEF Located
<1>2. General \subseteq PhysicalRegs BY PhysicalNumbers
<1>3. Scratches = {SCRATCH0, SCRATCH1} BY DEF Scratches
<1>4. ASSUME NEW c \in Scratches
      PROVE  /\ InReg(r, c) \in General
             /\ Spilled(r) => InReg(r, c) = c /\ place[r] \in Frame /\ IsVReg(r)
             /\ ~Spilled(r) => InReg(r, c) = MapReg(r)
             /\ r \in General => ~Spilled(r) BY <1>1, <1>3, <1>4, InRegGeneral
<1>5. SCRATCH0 \in Scratches BY <1>3
<1> QED BY <1>1, <1>2, <1>4, <1>5

LEMMA FoundWord ==
  ASSUME NEW s, Machine(s, PhysicalRegs), NEW r, Located(r) PROVE Found(s, r) \in Word /\ Found(s, r) \in Int
<1>1. CASE Spilled(r)
 <2>1. FpValue + place[r] \in Word BY <1>1, HomeOf, SlotPlace
 <2>2. Found(s, r) \in Word BY <1>1, <2>1 DEF Found, Machine
 <2> QED BY <2>2, WordFacts
<1>2. CASE ~Spilled(r)
 <2>1. MapReg(r) \in PhysicalRegs BY <1>2, HomeOf
 <2> QED BY <1>2, <2>1, RegisterWords DEF Found
<1> QED BY <1>1, <1>2

LEMMA SteadyAfter == ASSUME NEW s, Steady(s), NEW t, NEW Q, NEW X, Kept(s, t, Q, X), FP \notin Q PROVE Steady(t)
<1>1. FP \in PhysicalRegs BY PhysicalNumbers
<1> QED BY <1>1 DEF Steady, Ready, Kept

(* Scratch registers are no place of a virtual register. *)
LEMMA FoundAlike ==
  ASSUME NEW s, NEW t, NEW Q, NEW X, Kept(s, t, Q, X), NEW r, Located(r),
         ~Spilled(r) => MapReg(r) \notin Q, Spilled(r) => FpValue + place[r] \notin X
  PROVE  Found(t, r) = Found(s, r)
<1>1. CASE Spilled(r) BY <1>1 DEF Found, Kept
<1>2. CASE ~Spilled(r)
 <2>1. MapReg(r) \in PhysicalRegs BY <1>2, HomeOf
 <2> QED BY <1>2, <2>1 DEF Found, Kept
<1> QED BY <1>1, <1>2

Loads(s, O, c, r, n, t) ==
  /\ Acts(s, O, {c}, {}, t)
  /\ t.regs[InReg(r, c)] % Modulus(n) = Found(s, r) % Modulus(n)
  /\ n = X64 => t.regs[InReg(r, c)] = Found(s, r)

LEMMA ReloadRuns ==
  ASSUME NEW s, Steady(s), NEW r, Located(r), NEW n \in Sizes, NEW c \in Scratches
  PROVE  \E t : Loads(s, SpillLoad(r, n, c), c, r, n, t)
<1> DEFINE O == SpillLoad(r, n, c)
           q == InReg(r, c)
           x == Found(s, r)
<1>1. Ready(s) /\ Machine(s, PhysicalRegs) BY DEF Steady, Ready
<1>2. CASE ~Spilled(r)
 <2>1. O = <<>> /\ q = MapReg(r) BY <1>2, HomeOf DEF SpillLoad
 <2>2. s.regs[q] = x BY <1>2, <2>1 DEF Found
 <2>3. Acts(s, <<>>, {c}, {}, s) BY <1>1, ActsNothing
 <2>4. Acts(s, O, {c}, {}, s) BY <2>1, <2>3
 <2>5. Loads(s, O, c, r, n, s) BY <2>2, <2>4 DEF Loads
 <2> QED BY <2>5
<1>3. CASE Spilled(r)
 <2> DEFINE a == LocalAddr(place[r])
            i == Ldr(n, c, a)
            v == Fetch(s, FpValue + place[r], n)
 <2>1. O = <<i>> /\ q = c BY <1>3, HomeOf DEF SpillLoad
 <2>2. place[r] \in Frame BY <1>3, HomeOf
 <2>3. a \in OffBase({FP}, Int) /\ AddressOf(s, a) = FpValue + place[r] BY <2>2, SlotAddress, SlotPlace DEF Steady
 <2>4. c \in General /\ c \in PhysicalRegs BY PhysicalNumbers DEF Scratches, General
 <2> HIDE DEF a
 <2>5. /\ i \in PInsts /\ i \in Ldrs(General) /\ i.op = "Ldr"
       /\ i.size = n /\ i.dst = c /\ i.addr = a BY <2>3, <2>4, PhysicalShapes DEF Ldrs, Ldr
 <2>6. EmitInst(i) = EmitMemAccess("ldr", i.size, i.dst, i.addr) BY <2>5 DEF EmitInst
 <2> HIDE DEF i, O, q, x
 <2>7. PICK t : Gives(s, EmitMemAccess("ldr", i.size, i.dst, i.addr), i.dst,
                      Fetch(s, AddressOf(s, i.addr), i.size), t) BY <1>1, <2>5, PrintLdr
 <2>8. Gives(s, EmitInst(i), c, v, t) BY <2>3, <2>5, <2>6, <2>7
 <2>9. Does(s, EmitInst(i), {c}, {}, t) /\ t.regs[c] = v BY <2>8 DEF Gives
 <2>10. Acts(s, <<i>>, {c}, {}, t) BY <2>5, <2>9, ActsOne
 <2>11. x \in Word /\ x \in Int /\ v = x % Modulus(n)
  <3>1. v = x % Modulus(n) BY <1>3 DEF Fetch, Found, x
  <3> QED BY <1>1, <3>1, FoundWord DEF x
 <2>12. v % Modulus(n) = x % Modulus(n)
  <3>1. Modulus(n) \in Nat \ {0} BY ModulusFacts
  <3> QED BY <2>11, <3>1, ModTwice
 <2>13. n = X64 => v = x BY <2>11, WordFacts
 <2>14. Loads(s, O, c, r, n, t) BY <2>1, <2>9, <2>10, <2>12, <2>13 DEF Loads, q, x
 <2> QED BY <2>14 DEF O
<1> QED BY <1>2, <1>3
-----------------------------------------------------------------------------
HomeRegs(d) == IF Spilled(d) THEN {} ELSE {MapReg(d)}
HomeCells(d) == IF Spilled(d) THEN {FpValue + place[d]} ELSE {}
Delivers(s, O, d, x, t) ==
  Acts(s, O, Scratches \cup HomeRegs(d), Below \cup HomeCells(d), t) /\ Found(t, d) = x

(* Storing register c into the slot of d. *)
Saves(s, O, d, x, t) == Acts(s, O, Scratches, HomeCells(d), t) /\ Found(t, d) = x

LEMMA SaveRuns ==
  ASSUME NEW s, Steady(s), NEW d, Located(d), Spilled(d), NEW n \in Sizes, NEW c \in General
  PROVE  \E t : Saves(s, SpillStore(d, n, c), d, Read(s, c, n), t)
<1> DEFINE O == SpillStore(d, n, c)
           a == LocalAddr(place[d])
           i == Str(n, c, a)
           y == FpValue + place[d]
           v == Read(s, c, n)
<1>1. Ready(s) /\ Machine(s, PhysicalRegs) BY DEF Steady, Ready
<1>2. O = <<i>> BY DEF SpillStore
<1>3. place[d] \in Frame BY HomeOf
<1>4. a \in OffBase({FP, SP}, Int) /\ AddressOf(s, a) = y
 <2>1. a \in OffBase({FP}, Int) /\ AddressOf(s, a) = y BY <1>3, SlotAddress, SlotPlace DEF Steady
 <2> HIDE DEF a
 <2> QED BY <2>1 DEF OffBase
<1> HIDE DEF a
<1>5. /\ i \in PInsts /\ i \in Strs(General, General) /\ i.op = "Str"
      /\ i.size = n /\ i.src = c /\ i.addr = a BY <1>4, PhysicalShapes DEF Strs, Str
<1>6. EmitInst(i) = EmitMemAccess("str", i.size, i.src, i.addr) BY <1>5 DEF EmitInst
<1> HIDE DEF i, O
<1>7. PICK t : Leaves(s, EmitMemAccess("str", i.size, i.src, i.addr), AddressOf(s, i.addr),
                      Read(s, i.src, i.size), t) BY <1>1, <1>5, PrintStr
<1>8. Leaves(s, EmitInst(i), y, v, t) BY <1>4, <1>5, <1>6, <1>7
<1>9. Does(s, EmitInst(i), Scratches, {y}, t) /\ Cell(t, y) = v BY <1>8 DEF Leaves
<1>10. HomeCells(d) = {y} /\ Found(t, d) = v BY <1>9 DEF HomeCells, Found
<1>11. Acts(s, <<i>>, Scratches, {y}, t) BY <1>5, <1>9, ActsOne
<1>12. Saves(s, O, d, v, t) BY <1>2, <1>10, <1>11 DEF Saves
<1> QED BY <1>12 DEF O

LEMMA DeliverRuns ==
  ASSUME NEW s, Steady(s), NEW d, Located(d), NEW n \in Sizes, NEW c \in Scratches, NEW i \in PInsts,
         NEW x \in 0 .. Modulus(n) - 1, NEW t, Makes(s, EmitInst(i), InReg(d, c), x, t)
  PROVE  \E u : Delivers(s, <<i>> \o SpillStore(d, n, c), d, x, u)
<1> DEFINE q == InReg(d, c)
           T == SpillStore(d, n, c)
<1>1. Does(s, EmitInst(i), Scratches \cup {q}, Below, t) /\ t.regs[q] = x BY DEF Makes
<1>2. Acts(s, <<i>>, Scratches \cup {q}, Below, t) BY <1>1, ActsOne
<1>3. Kept(s, t, Scratches \cup {q}, Below) BY <1>2 DEF Acts
<1>4. CASE ~Spilled(d)
 <2>1. q = MapReg(d) /\ HomeRegs(d) = {q} /\ HomeCells(d) = {} BY <1>4, HomeOf DEF HomeRegs, HomeCells
 <2>2. T = <<>> BY <1>4 DEF SpillStore
 <2>3. Machine(t, PhysicalRegs) BY <1>3 DEF Kept
 <2>4. Acts(t, T, {}, {}, t) BY <2>2, <2>3, ActsNothing
 <2>5. Acts(s, <<i>> \o T, (Scratches \cup {q}) \cup {}, Below \cup {}, t) BY <1>2, <2>4, ActsJoin
 <2>6. ((Scratches \cup {q}) \cup {}) \cap PhysicalRegs \subseteq Scratches \cup HomeRegs(d)
       /\ Below \cup {} \subseteq Below \cup HomeCells(d) BY <2>1
 <2>7. Acts(s, <<i>> \o T, Scratches \cup HomeRegs(d), Below \cup HomeCells(d), t) BY <2>5, <2>6, ActsWider
 <2>8. Found(t, d) = x BY <1>1, <1>4, <2>1 DEF Found
 <2>9. Delivers(s, <<i>> \o T, d, x, t) BY <2>7, <2>8 DEF Delivers
 <2> QED BY <2>9
<1>5. CASE Spilled(d)
 <2>1. q = c /\ HomeRegs(d) = {} BY <1>5, HomeOf DEF HomeRegs
 <2>2. FP \notin Scratches \cup {q} BY <2>1 DEF Scratches, FP, SCRATCH0, SCRATCH1
 <2>3. Steady(t) BY <1>3, <2>2, SteadyAfter
 <2>4. c \in General BY DEF Scratches, General
 <2>5. Read(t, c, n) = x
  <3>1. Modulus(n) \in Nat \ {0} BY ModulusFacts
  <3>2. x % Modulus(n) = x BY <3>1, ModSmall
  <3> QED BY <1>1, <2>1, <3>2 DEF Read
 <2>6. PICK u : Saves(t, SpillStore(d, n, c), d, Read(t, c, n), u) BY <1>5, <2>3, <2>4, SaveRuns
 <2>7. Acts(t, T, Scratches, HomeCells(d), u) /\ Found(u, d) = x BY <2>5, <2>6 DEF Saves
 <2>8. Acts(s, <<i>> \o T, (Scratches \cup {q}) \cup Scratches, Below \cup HomeCells(d), u) BY <1>2, <2>7, ActsJoin
 <2>9. ((Scratches \cup {q}) \cup Scratches) \cap PhysicalRegs \subseteq Scratches \cup HomeRegs(d) BY <2>1
 <2>10. Acts(s, <<i>> \o T, Scratches \cup HomeRegs(d), Below \cup HomeCells(d), u) BY <2>8, <2>9, ActsWider
 <2>11. Delivers(s, <<i>> \o T, d, x, u) BY <2>7, <2>10 DEF Delivers
 <2> QED BY <2>11
<1> QED BY <1>4, <1>5

LEMMA ThenDelivers ==
  ASSUME NEW s, NEW t, NEW T, NEW Q, Q \subseteq Scratches, Acts(s, T, Q, {}, t),
         NEW U, NEW d, NEW x, NEW u, Delivers(t, U, d, x, u)
  PROVE  Delivers(s, T \o U, d, x, u)
<1>1. Acts(t, U, Scratches \cup HomeRegs(d), Below \cup HomeCells(d), u) /\ Found(u, d) = x BY DEF Delivers
<1>2. Acts(s, T \o U, Q \cup (Scratches \cup HomeRegs(d)), {} \cup (Below \cup HomeCells(d)), u) BY <1>1, ActsJoin
<1>3. (Q \cup (Scratches \cup HomeRegs(d))) \cap PhysicalRegs \subseteq Scratches \cup HomeRegs(d)
      /\ {} \cup (Below \cup HomeCells(d)) \subseteq Below \cup HomeCells(d) OBVIOUS
<1>4. Acts(s, T \o U, Scratches \cup HomeRegs(d), Below \cup HomeCells(d), u) BY <1>2, <1>3, ActsWider
<1> QED BY <1>1, <1>4 DEF Delivers
-----------------------------------------------------------------------------
(* What an operand or an address comes to, wherever its register is. *)
FoundOperand(s, o) == IF o.kind = "reg" THEN Found(s, o.val) ELSE o.val
FoundAddress(s, a) ==
  IF a.kind = "global" THEN a.offset ELSE (Found(s, a.base) + a.offset) % Modulus(X64)

LEMMA InRegApart ==
  ASSUME NEW r \in Virtual, Located(r), NEW c \in Scratches, NEW e \in Scratches, Spilled(r) => e # c
  PROVE  InReg(r, c) # e /\ (~Spilled(r) => MapReg(r) \notin Scratches)
<1>1. PlacedRegs({r}) \/ r \in General BY DEF Located
<1>2. IsVReg(r) BY DEF Virtual
<1>3. r \notin General BY <1>2, NumbersOfRegisters
<1>4. c \in {SCRATCH0, SCRATCH1} /\ e \in {SCRATCH0, SCRATCH1} BY DEF Scratches
<1>5. CASE Spilled(r)
 <2>1. InReg(r, c) = c BY <1>5, HomeOf
 <2> QED BY <1>5, <2>1
<1>6. CASE ~Spilled(r)
 <2>1. InReg(r, c) = MapReg(r) /\ MapReg(r) \in Registers BY <1>1, <1>3, <1>4, <1>6, InRegGeneral
 <2>2. MapReg(r) \notin Scratches BY <2>1, NumbersOfRegisters DEF Scratches
 <2> QED BY <2>1, <2>2
<1> QED BY <1>5, <1>6

LEMMA FoundKept ==
  ASSUME NEW s, NEW t, NEW Q, Q \subseteq Scratches, Kept(s, t, Q, {}), NEW r \in Virtual, Located(r)
  PROVE  Found(t, r) = Found(s, r)
<1>1. SCRATCH0 \in Scratches /\ SCRATCH1 \in Scratches /\ SCRATCH0 # SCRATCH1 BY DEF Scratches, SCRATCH0, SCRATCH1
<1>2. ~Spilled(r) => MapReg(r) \notin Scratches BY <1>1, InRegApart
<1> QED BY <1>2, FoundAlike

LoadsOperand(s, O, c, o, n, t) ==
  /\ Acts(s, O, {c}, {}, t)
  /\ ValueOf(t, MapOperand(o, c)) % Modulus(n) = FoundOperand(s, o) % Modulus(n)

LEMMA OperandRuns ==
  ASSUME NEW s, Steady(s), NEW I, I \subseteq Int, NEW o \in Immediates(I) \cup InRegisters(Virtual \cup General),
         o.kind = "reg" => Located(o.val), NEW n \in Sizes, NEW c \in Scratches
  PROVE  /\ \E t : LoadsOperand(s, LoadOperand(o, n, c), c, o, n, t)
         /\ MapOperand(o, c) \in Immediates(I) \cup InRegisters(General)
         /\ FoundOperand(s, o) \in Int
         /\ o.kind # "reg" => MapOperand(o, c) = o
<1>0. Machine(s, PhysicalRegs) BY DEF Steady, Ready
<1>1. CASE o.kind = "reg"
 <2> DEFINE r == o.val
            q == InReg(r, c)
            p == MapOperand(o, c)
 <2>1. Located(r) BY <1>1
 <2>2. p = Reg(q) /\ LoadOperand(o, n, c) = SpillLoad(r, n, c) /\ FoundOperand(s, o) = Found(s, r)
   BY <1>1 DEF MapOperand, LoadOperand, FoundOperand
 <2>3. q \in General BY <2>1, HomeOf
 <2>4. p.kind = "reg" /\ p.val = q /\ p \in InRegisters(General)
  <3> HIDE DEF q
  <3> QED BY <2>2, <2>3 DEF Reg, InRegisters
 <2> HIDE DEF p, r
 <2>5. \A t : ValueOf(t, p) = t.regs[q] BY <2>4 DEF ValueOf
 <2>6. PICK t : Loads(s, SpillLoad(r, n, c), c, r, n, t) BY <2>1, ReloadRuns
 <2>7. Acts(s, LoadOperand(o, n, c), {c}, {}, t) /\ t.regs[q] % Modulus(n) = Found(s, r) % Modulus(n) BY <2>2, <2>6 DEF Loads
 <2>8. LoadsOperand(s, LoadOperand(o, n, c), c, o, n, t) BY <2>2, <2>5, <2>7 DEF LoadsOperand, p
 <2>9. Found(s, r) \in Int BY <1>0, <2>1, FoundWord
 <2> QED BY <1>1, <2>2, <2>4, <2>8, <2>9 DEF p
<1>2. CASE o.kind # "reg"
 <2>1. o \in Immediates(I) /\ o.val \in I /\ o.val \in Int BY <1>2 DEF Immediates, InRegisters
 <2>2. MapOperand(o, c) = o /\ LoadOperand(o, n, c) = <<>> /\ FoundOperand(s, o) = o.val /\ ValueOf(s, o) = o.val
   BY <1>2 DEF MapOperand, LoadOperand, FoundOperand, ValueOf
 <2>3. Acts(s, <<>>, {c}, {}, s) BY <1>0, ActsNothing
 <2>4. LoadsOperand(s, LoadOperand(o, n, c), c, o, n, s) BY <2>2, <2>3 DEF LoadsOperand
 <2> QED BY <1>2, <2>1, <2>2, <2>4
<1> QED BY <1>1, <1>2

LEMMA FoundOperandKept ==
  ASSUME NEW s, NEW t, NEW Q, Q \subseteq Scratches, Kept(s, t, Q, {}),
         NEW o, o.kind = "reg" => o.val \in Virtual /\ Located(o.val)
  PROVE  FoundOperand(t, o) = FoundOperand(s, o)
<1>1. CASE o.kind = "reg"
 <2>1. Found(t, o.val) = Found(s, o.val) BY <1>1, FoundKept
 <2> QED BY <1>1, <2>1 DEF FoundOperand
<1>2. CASE o.kind # "reg" BY <1>2 DEF FoundOperand
<1> QED BY <1>1, <1>2

(* A register and an operand, both reloaded. *)
LoadsBoth(s, O, l, n, o, c, e, t) ==
  /\ Acts(s, O, Scratches, {}, t)
  /\ t.regs[InReg(l, SCRATCH0)] % Modulus(n) = Found(s, l) % Modulus(n)
  /\ n = X64 => t.regs[InReg(l, SCRATCH0)] = Found(s, l)
  /\ ValueOf(t, MapOperand(o, c)) % Modulus(e) = FoundOperand(s, o) % Modulus(e)

LEMMA BothRun ==
  ASSUME NEW s, Steady(s), NEW l \in Virtual, Located(l), NEW n \in Sizes,
         NEW I, I \subseteq Int, NEW o \in Immediates(I) \cup InRegisters(Virtual),
         o.kind = "reg" => Located(o.val), NEW e \in Sizes, NEW c \in Scratches, Spilled(l) => c = SCRATCH1
  PROVE  \E t : LoadsBoth(s, SpillLoad(l, n, SCRATCH0) \o LoadOperand(o, e, c), l, n, o, c, e, t)
<1> DEFINE T == SpillLoad(l, n, SCRATCH0)
           U == LoadOperand(o, e, c)
           q == InReg(l, SCRATCH0)
<1>1. SCRATCH0 \in Scratches /\ SCRATCH0 # SCRATCH1 /\ SCRATCH1 \in Scratches BY DEF Scratches, SCRATCH0, SCRATCH1
<1>2. q # c BY <1>1, InRegApart
<1>3. q \in PhysicalRegs BY <1>1, HomeOf
<1>4. o \in Immediates(I) \cup InRegisters(Virtual \cup General) /\ (o.kind = "reg" => o.val \in Virtual)
  BY DEF Immediates, InRegisters
<1> HIDE DEF T, U, q
<1>5. PICK u : Loads(s, T, SCRATCH0, l, n, u) BY <1>1, ReloadRuns DEF T
<1>6. Acts(s, T, {SCRATCH0}, {}, u) /\ Kept(s, u, {SCRATCH0}, {}) BY <1>5 DEF Loads, Acts
<1>7. FP \notin {SCRATCH0} BY DEF FP, SCRATCH0
<1>8. Steady(u) BY <1>6, <1>7, SteadyAfter
<1>9. {SCRATCH0} \subseteq Scratches /\ {SCRATCH0} \cup {c} \subseteq Scratches BY <1>1
<1>10. FoundOperand(u, o) = FoundOperand(s, o) BY <1>4, <1>6, <1>9, FoundOperandKept
<1>11. PICK t : LoadsOperand(u, U, c, o, e, t) BY <1>4, <1>8, OperandRuns DEF U
<1>12. Acts(u, U, {c}, {}, t) /\ Kept(u, t, {c}, {}) BY <1>11 DEF LoadsOperand, Acts
<1>13. t.regs[q] = u.regs[q] BY <1>2, <1>3, <1>12 DEF Kept
<1>14. Acts(s, T \o U, {SCRATCH0} \cup {c}, {} \cup {}, t) BY <1>6, <1>12, ActsJoin
<1>15. ({SCRATCH0} \cup {c}) \cap PhysicalRegs \subseteq Scratches /\ {} \cup {} \subseteq {} BY <1>9
<1>16. Acts(s, T \o U, Scratches, {}, t) BY <1>14, <1>15, ActsWider
<1>17. t.regs[q] % Modulus(n) = Found(s, l) % Modulus(n) /\ (n = X64 => t.regs[q] = Found(s, l)) BY <1>5, <1>13 DEF Loads, q
<1>18. ValueOf(t, MapOperand(o, c)) % Modulus(e) = FoundOperand(s, o) % Modulus(e) BY <1>10, <1>11 DEF LoadsOperand
<1>19. LoadsBoth(s, T \o U, l, n, o, c, e, t) BY <1>16, <1>17, <1>18 DEF LoadsBoth, q
<1> QED BY <1>19 DEF T, U

(* An address with its base reloaded. *)
LoadsAddress(s, O, a, t) ==
  Acts(s, O, {SCRATCH0}, {}, t) /\ AddressOf(t, MapAddr(a)) = FoundAddress(s, a)

LEMMA AddressRuns ==
  ASSUME NEW s, Steady(s), NEW a \in VAddress, a.kind # "global" /\ a.base \in Virtual => Located(a.base)
  PROVE  \E t : LoadsAddress(s, LoadAddr(a), a, t)
<1>0. Machine(s, PhysicalRegs) BY DEF Steady, Ready
<1>1. CASE a.kind = "global"
 <2>1. MapAddr(a) = a /\ LoadAddr(a) = <<>> BY <1>1 DEF MapAddr, LoadAddr
 <2>2. AddressOf(s, a) = FoundAddress(s, a) BY <1>1 DEF AddressOf, FoundAddress
 <2>3. Acts(s, <<>>, {SCRATCH0}, {}, s) BY <1>0, ActsNothing
 <2>4. LoadsAddress(s, LoadAddr(a), a, s) BY <2>1, <2>2, <2>3 DEF LoadsAddress
 <2> QED BY <2>4
<1>2. CASE a.kind # "global"
 <2> DEFINE b == a.base
            q == InReg(b, SCRATCH0)
            p == MapAddr(a)
            k == a.offset
 <2>1. b \in {FP, SP} \cup Virtual BY <1>2 DEF VAddress, OffBase, AtSymbol
 <2>2. p = [a EXCEPT !.base = q] /\ LoadAddr(a) = SpillLoad(b, X64, SCRATCH0) BY <1>2 DEF MapAddr, LoadAddr
 <2>3. a = BaseOff(b, k) BY <1>2 DEF VAddress, OffBase, AtSymbol, BaseOff
 <2> HIDE DEF q, b, k, p
 <2>4. p.kind = "base_off" /\ p.base = q /\ p.offset = k BY <2>2, <2>3 DEF BaseOff
 <2>5. \A t : AddressOf(t, p) = (t.regs[q] + k) % Modulus(X64) BY <2>4 DEF AddressOf
 <2>6. FoundAddress(s, a) = (Found(s, b) + k) % Modulus(X64) BY <1>2 DEF FoundAddress, b, k
 <2>7. CASE b \in Virtual
  <3>1. Located(b) BY <1>2, <2>7 DEF b
  <3>2. SCRATCH0 \in Scratches /\ X64 \in Sizes BY DEF Scratches, Sizes
  <3>3. PICK t : Loads(s, SpillLoad(b, X64, SCRATCH0), SCRATCH0, b, X64, t) BY <3>1, <3>2, ReloadRuns
  <3>4. Acts(s, LoadAddr(a), {SCRATCH0}, {}, t) /\ t.regs[q] = Found(s, b) BY <2>2, <3>3 DEF Loads, q
  <3>5. LoadsAddress(s, LoadAddr(a), a, t) BY <2>5, <2>6, <3>4 DEF LoadsAddress, p
  <3> QED BY <3>5
 <2>8. CASE b \in {FP, SP}
  <3>1. ~Spilled(b) /\ q = b /\ MapReg(b) = b BY <2>8, OutsideTheRegisters DEF q
  <3>2. LoadAddr(a) = <<>> BY <2>2, <3>1 DEF SpillLoad
  <3>3. Found(s, b) = s.regs[q] BY <3>1 DEF Found
  <3>4. Acts(s, <<>>, {SCRATCH0}, {}, s) BY <1>0, ActsNothing
  <3>5. LoadsAddress(s, LoadAddr(a), a, s) BY <2>5, <2>6, <3>2, <3>3, <3>4 DEF LoadsAddress, p
  <3> QED BY <3>5
 <2> QED BY <2>1, <2>7, <2>8
<1> QED BY <1>1, <1>2
-----------------------------------------------------------------------------
(* What the rewriting of each instruction computes, wherever its registers are:
   what the instruction computes of the values found there. *)
LEMMA ActsSteady ==
  ASSUME NEW s, Steady(s), NEW O, NEW Q, Q \subseteq Scratches, NEW t, Acts(s, O, Q, {}, t)
  PROVE  Steady(t) /\ Ready(t) /\ Machine(t, PhysicalRegs) /\ Kept(s, t, Q, {})
<1>1. FP \notin Q BY DEF Scratches, FP, SCRATCH0, SCRATCH1
<1>2. Kept(s, t, Q, {}) BY DEF Acts
<1>3. Steady(t) BY <1>1, <1>2, SteadyAfter
<1> QED BY <1>2, <1>3 DEF Steady, Ready

LEMMA BinOpRuns ==
  ASSUME NEW s, Steady(s), NEW i \in BinOps(Virtual), PlacedRegs(Concerns(i))
  PROVE  \E t : Delivers(s, RewriteBinop(i), i.dst,
                         Arith(i.binop, Found(s, i.lhs), FoundOperand(s, i.rhs), i.size), t)
<1> DEFINE n == i.size
           d == InReg(i.dst, SCRATCH0)
           l == InReg(i.lhs, SCRATCH0)
           o == MapOperand(i.rhs, SCRATCH1)
           c == SpillLoad(i.lhs, n, SCRATCH0) \o LoadOperand(i.rhs, n, SCRATCH1)
           f == SpillStore(i.dst, n, SCRATCH0)
           j == BinOp(i.binop, n, d, l, o)
           x == Found(s, i.lhs)
           y == FoundOperand(s, i.rhs)
           v == Arith(i.binop, Found(s, i.lhs), FoundOperand(s, i.rhs), i.size)
<1>1. RewriteBinop(i) = c \o (<<j>> \o f) BY BinOpForm
<1>2. /\ n \in Sizes /\ i.dst \in Virtual /\ i.lhs \in Virtual /\ i.binop \in ArithOps
      /\ i.rhs \in Immediates(Int) \cup InRegisters(Virtual)
      /\ i.rhs \in Immediates(Int) \cup InRegisters(Virtual \cup General)
      /\ i.op = "BinOp" /\ (i.rhs.kind = "reg" => i.rhs.val \in Virtual) BY DEF BinOps, Immediates, InRegisters
<1>3. Located(i.dst) /\ Located(i.lhs) /\ (i.rhs.kind = "reg" => Located(i.rhs.val))
 <2>1. IsVReg(i.dst) BY <1>2 DEF Virtual
 <2>2. DefinedVreg(i) = {i.dst} BY <1>2, <2>1 DEF DefinedVreg
 <2>3. UsedVregs(i) = {r \in {i.lhs} \cup OperandRegs(i.rhs) : IsVReg(r)} BY <1>2 DEF UsedVregs
 <2>4. PlacedRegs({i.dst}) /\ PlacedRegs({i.lhs}) /\ PlacedRegs(OperandRegs(i.rhs)) BY <2>2, <2>3 DEF Concerns, PlacedRegs
 <2> QED BY <1>2, <2>4 DEF Located, OperandRegs
<1>4. SCRATCH0 \in Scratches /\ SCRATCH1 \in Scratches /\ Int \subseteq Int BY DEF Scratches
<1>5. PICK u : LoadsBoth(s, c, i.lhs, n, i.rhs, SCRATCH1, n, u) BY <1>2, <1>3, <1>4, BothRun
<1>6. Acts(s, c, Scratches, {}, u) /\ u.regs[l] % Modulus(n) = x % Modulus(n)
      /\ ValueOf(u, o) % Modulus(n) = y % Modulus(n) BY <1>5 DEF LoadsBoth
<1>7. Steady(u) /\ Ready(u) /\ Machine(u, PhysicalRegs) BY <1>6, ActsSteady
<1>8. d \in General /\ l \in General /\ l \in PhysicalRegs BY <1>3, <1>4, HomeOf
<1>9. o \in Immediates(Int) \cup InRegisters(General) /\ y \in Int BY <1>2, <1>3, <1>4, OperandRuns
<1>10. x \in Int
 <2>1. Machine(s, PhysicalRegs) BY DEF Steady, Ready
 <2> QED BY <1>3, <2>1, FoundWord
<1>11. u.regs[l] \in Int /\ ValueOf(u, o) \in Int
 <2>1. General \subseteq PhysicalRegs BY PhysicalNumbers
 <2>2. u.regs[l] \in Int BY <1>7, <1>8, RegisterWords
 <2> QED BY <1>4, <1>7, <1>9, <2>1, <2>2, OperandWords
<1>12. i.dst \in Virtual \cup General /\ Located(i.dst) BY <1>2, <1>3
<1> HIDE DEF n, d, l, o, c, f, x, y
<1>13. /\ j \in PInsts /\ j \in BinOps(General) /\ j.op = "BinOp" /\ j.binop = i.binop /\ j.size = n
       /\ j.dst = d /\ j.lhs = l /\ j.rhs = o BY <1>2, <1>8, <1>9, PhysicalArithmetic DEF BinOps, BinOp, n
<1>14. EmitInst(j) = EmitBinop(j) BY <1>13 DEF EmitInst
<1> HIDE DEF j, v
<1>15. v \in 0 .. Modulus(n) - 1 /\ Arith(i.binop, u.regs[l], ValueOf(u, o), n) = v
 <2>1. v = Arith(i.binop, x, y, n) BY DEF v, x, y, n
 <2>2. n \in Sizes BY <1>2 DEF n
 <2>3. v \in 0 .. Modulus(n) - 1 BY <1>2, <1>9, <1>10, <2>1, <2>2, ArithFacts
 <2> QED BY <1>2, <1>6, <1>9, <1>10, <1>11, <2>1, <2>2, <2>3, ArithAlike
<1>16. PICK t : Makes(u, EmitBinop(j), j.dst, Arith(j.binop, u.regs[j.lhs], ValueOf(u, j.rhs), j.size), t)
  BY <1>7, <1>13, PrintBinOp
<1>17. Makes(u, EmitInst(j), d, v, t) BY <1>13, <1>14, <1>15, <1>16
<1>18. n \in Sizes /\ d = InReg(i.dst, SCRATCH0) BY <1>2 DEF n, d
<1>19. PICK w : Delivers(u, <<j>> \o SpillStore(i.dst, n, SCRATCH0), i.dst, v, w)
  BY <1>4, <1>7, <1>12, <1>13, <1>15, <1>17, <1>18, DeliverRuns
<1>20. Delivers(u, <<j>> \o f, i.dst, v, w) BY <1>19 DEF f
<1>21. Scratches \subseteq Scratches OBVIOUS
<1>22. Delivers(s, c \o (<<j>> \o f), i.dst, v, w) BY <1>6, <1>20, <1>21, ThenDelivers
<1>23. Delivers(s, RewriteBinop(i), i.dst, v, w) BY <1>1, <1>22
<1> QED BY <1>23 DEF v
-----------------------------------------------------------------------------
LEMMA MovRuns ==
  ASSUME NEW s, Steady(s), NEW D, NEW R, NEW i \in Movs(D, R), D \subseteq Virtual \cup General,
         R \subseteq Virtual \cup General, Located(i.dst), i.src.kind = "reg" => Located(i.src.val)
  PROVE  \E t : Delivers(s, RewriteMov(i), i.dst, FoundOperand(s, i.src) % Modulus(i.size), t)
<1> DEFINE n == i.size
           d == i.dst
           o == MapOperand(i.src, SCRATCH1)
           l == LoadOperand(i.src, n, SCRATCH1)
           y == FoundOperand(s, i.src)
           v == FoundOperand(s, i.src) % Modulus(i.size)
<1>1. /\ n \in Sizes /\ d \in Virtual \cup General
      /\ i.src \in Immediates(Int) \cup InRegisters(Virtual \cup General) BY DEF Movs, InRegisters
<1>2. RewriteMov(i) =
        CASE ~Spilled(d) -> l \o <<Mov(n, MapReg(d), o)>>
          [] Spilled(d) /\ o.kind = "reg" -> l \o SpillStore(d, n, o.val)
          [] OTHER -> <<Mov(n, SCRATCH0, o)>> \o SpillStore(d, n, SCRATCH0) BY DEF RewriteMov
<1>3. SCRATCH0 \in Scratches /\ SCRATCH1 \in Scratches /\ Int \subseteq Int BY DEF Scratches
<1>4. /\ \E t : LoadsOperand(s, LoadOperand(i.src, n, SCRATCH1), SCRATCH1, i.src, n, t)
      /\ o \in Immediates(Int) \cup InRegisters(General)
      /\ y \in Int
      /\ i.src.kind # "reg" => o = i.src BY <1>1, <1>3, OperandRuns
<1>5. PICK u : LoadsOperand(s, LoadOperand(i.src, n, SCRATCH1), SCRATCH1, i.src, n, u) BY <1>4
<1>6. Acts(s, l, {SCRATCH1}, {}, u) /\ ValueOf(u, o) % Modulus(n) = y % Modulus(n) BY <1>5 DEF LoadsOperand
<1>7. {SCRATCH1} \subseteq Scratches BY <1>3
<1>8. Steady(u) /\ Ready(u) /\ Machine(u, PhysicalRegs) BY <1>6, <1>7, ActsSteady
<1>9. v \in 0 .. Modulus(n) - 1 /\ v = y % Modulus(n)
 <2>1. v = y % Modulus(n) OBVIOUS
 <2> HIDE DEF v, y, n
 <2> QED BY <1>1, <1>4, <2>1, WordFacts
<1>10. o.kind = "reg" => o.val \in General BY <1>4 DEF Immediates, InRegisters
<1>11. o.kind # "reg" => i.src.kind # "reg" BY DEF MapOperand, Reg
<1> DEFINE Puts1(e) == Mov(n, e, o)
<1> HIDE DEF n, d, o, l, y, v
<1>12. ASSUME NEW e \in General
       PROVE  /\ Puts1(e) \in PInsts /\ Puts1(e) \in Movs(General, General) /\ Puts1(e).op = "Mov"
              /\ Puts1(e).size = n /\ Puts1(e).dst = e /\ Puts1(e).src = o
              /\ EmitInst(Puts1(e)) = EmitMov(Puts1(e))
 <2>1. /\ Puts1(e) \in PInsts /\ Puts1(e) \in Movs(General, General) /\ Puts1(e).op = "Mov"
       /\ Puts1(e).size = n /\ Puts1(e).dst = e /\ Puts1(e).src = o BY <1>1, <1>4, <1>12, PhysicalShapes DEF Movs, Mov
 <2> QED BY <2>1 DEF EmitInst
<1> HIDE DEF Puts1
<1>13. CASE ~Spilled(d)
 <2> DEFINE q == InReg(d, SCRATCH1)
            j == Puts1(q)
 <2>1. q = MapReg(d) /\ q \in General BY <1>3, <1>13, HomeOf DEF d
 <2>2. RewriteMov(i) = l \o (<<j>> \o SpillStore(d, n, SCRATCH1))
  <3>1. SpillStore(d, n, SCRATCH1) = <<>> BY <1>13 DEF SpillStore
  <3>2. RewriteMov(i) = l \o <<j>> BY <1>2, <1>13, <2>1 DEF Puts1
  <3> HIDE DEF j
  <3>3. <<j>> \o <<>> = <<j>> OBVIOUS
  <3> QED BY <3>1, <3>2, <3>3
 <2> HIDE DEF q
 <2>3. /\ j \in PInsts /\ j \in Movs(General, General) /\ j.size = n /\ j.dst = q /\ j.src = o
       /\ EmitInst(j) = EmitMov(j) BY <1>12, <2>1
 <2> HIDE DEF j
 <2>4. PICK t : Gives(u, EmitMov(j), j.dst, ValueOf(u, j.src) % Modulus(j.size), t) BY <1>8, <2>3, PrintMov
 <2>5. Gives(u, EmitInst(j), q, v, t) BY <1>6, <1>9, <2>3, <2>4
 <2>6. Makes(u, EmitInst(j), InReg(d, SCRATCH1), v, t) BY <2>5, GivesMakes DEF q
 <2>7. n \in Sizes /\ Located(d) BY <1>1 DEF n, d
 <2>8. PICK w : Delivers(u, <<j>> \o SpillStore(d, n, SCRATCH1), d, v, w) BY <1>3, <1>8, <1>9, <2>3, <2>6, <2>7, DeliverRuns
 <2> DEFINE U == <<j>> \o SpillStore(d, n, SCRATCH1)
            Q == {SCRATCH1}
 <2>9. Delivers(u, U, d, v, w) /\ Q \subseteq Scratches /\ Acts(s, l, Q, {}, u) BY <1>6, <1>7, <2>8
 <2>10. RewriteMov(i) = l \o U BY <2>2
 <2> HIDE DEF U, Q
 <2>11. Delivers(s, l \o U, d, v, w) BY <2>9, ThenDelivers
 <2> QED BY <2>10, <2>11 DEF d, v
<1>14. CASE Spilled(d) /\ o.kind = "reg"
 <2> DEFINE c == o.val
            U == SpillStore(d, n, o.val)
            Q == {SCRATCH1}
 <2>1. c \in General /\ n \in Sizes /\ Located(d) BY <1>1, <1>10, <1>14 DEF n, d
 <2>2. RewriteMov(i) = l \o U BY <1>2, <1>14
 <2>3. Read(u, c, n) = v BY <1>6, <1>9, <1>14 DEF Read, ValueOf
 <2> HIDE DEF c
 <2>4. PICK t : Saves(u, SpillStore(d, n, c), d, Read(u, c, n), t) BY <1>8, <1>14, <2>1, SaveRuns
 <2>5. Saves(u, U, d, v, t) BY <2>3, <2>4 DEF c
 <2>6. Q \subseteq Scratches /\ Acts(s, l, Q, {}, u) BY <1>6, <1>7
 <2> HIDE DEF U, Q
 <2>7. Acts(u, U, Scratches, HomeCells(d), t) /\ Found(t, d) = v BY <2>5 DEF Saves
 <2>8. Acts(u, U, Scratches \cup HomeRegs(d), Below \cup HomeCells(d), t)
  <3>1. Scratches \cap PhysicalRegs \subseteq Scratches \cup HomeRegs(d)
        /\ HomeCells(d) \subseteq Below \cup HomeCells(d) OBVIOUS
  <3> QED BY <2>7, <3>1, ActsWider
 <2>9. Delivers(u, U, d, v, t) BY <2>7, <2>8 DEF Delivers
 <2>10. Delivers(s, l \o U, d, v, t) BY <2>6, <2>9, ThenDelivers
 <2> QED BY <2>2, <2>10 DEF d, v
<1>15. CASE Spilled(d) /\ o.kind # "reg"
 <2> DEFINE q == InReg(d, SCRATCH0)
            j == Puts1(q)
            U == <<j>> \o SpillStore(d, n, SCRATCH0)
 <2>1. q = SCRATCH0 /\ q \in General BY <1>3, <1>15, HomeOf DEF d
 <2>2. RewriteMov(i) = U BY <1>2, <1>15, <2>1 DEF Puts1
 <2> HIDE DEF q
 <2>3. /\ j \in PInsts /\ j \in Movs(General, General) /\ j.size = n /\ j.dst = q /\ j.src = o
       /\ EmitInst(j) = EmitMov(j) BY <1>12, <2>1
 <2> HIDE DEF j
 <2>4. Ready(s) BY DEF Steady
 <2>5. PICK t : Gives(s, EmitMov(j), j.dst, ValueOf(s, j.src) % Modulus(j.size), t) BY <2>3, <2>4, PrintMov
 <2>6. ValueOf(s, o) = y
  <3>1. i.src.kind # "reg" /\ o = i.src BY <1>4, <1>11, <1>15
  <3> QED BY <3>1 DEF ValueOf, FoundOperand, y
 <2>7. Gives(s, EmitInst(j), q, v, t) BY <1>9, <2>3, <2>5, <2>6
 <2>8. Makes(s, EmitInst(j), InReg(d, SCRATCH0), v, t) BY <2>7, GivesMakes DEF q
 <2>9. n \in Sizes /\ Located(d) BY <1>1 DEF n, d
 <2>10. PICK w : Delivers(s, <<j>> \o SpillStore(d, n, SCRATCH0), d, v, w) BY <1>3, <1>9, <2>3, <2>8, <2>9, DeliverRuns
 <2>11. Delivers(s, RewriteMov(i), d, v, w) BY <2>2, <2>10
 <2> QED BY <2>11 DEF d, v
<1> QED BY <1>13, <1>14, <1>15
-----------------------------------------------------------------------------
LEMMA LdrRuns ==
  ASSUME NEW s, Steady(s), NEW i \in Ldrs(Virtual), PlacedRegs(Concerns(i))
  PROVE  \E t : Delivers(s, RewriteLdr(i), i.dst, Fetch(s, FoundAddress(s, i.addr), i.size), t)
<1> DEFINE n == i.size
           k == ScratchAfterAddr(i.addr)
           d == i.dst
           q == InReg(i.dst, k)
           a == MapAddr(i.addr)
           l == LoadAddr(i.addr)
           j == Ldr(n, q, a)
           v == Fetch(s, FoundAddress(s, i.addr), i.size)
           U == <<j>> \o SpillStore(i.dst, n, k)
<1>1. RewriteLdr(i) = l \o U BY LdrForm
<1>2. /\ n \in Sizes /\ d \in Virtual /\ i.op = "Ldr"
      /\ i.addr \in OffBase({FP}, Int) \cup OffBase(Virtual, {0}) \cup AtSymbol
      /\ i.addr \in VAddress BY DEF Ldrs, VAddress, OffBase
<1>3. PlacedRegs({d}) /\ PlacedRegs(AddrRegs(i.addr))
 <2>1. IsVReg(d) BY <1>2 DEF Virtual
 <2>2. DefinedVreg(i) = {d} BY <1>2, <2>1 DEF DefinedVreg
 <2>3. UsedVregs(i) = {r \in AddrRegs(i.addr) : IsVReg(r)} BY <1>2 DEF UsedVregs
 <2> QED BY <2>2, <2>3 DEF Concerns, PlacedRegs
<1>4. Located(d) /\ (i.addr.kind # "global" /\ i.addr.base \in Virtual => Located(i.addr.base))
  BY <1>2, <1>3 DEF Located, AddrRegs
<1>5. k \in {SCRATCH0, SCRATCH1} BY DEF ScratchAfterAddr, ScratchAfterBase
<1>6. k \in Scratches /\ q \in General
 <2>1. k \in Scratches BY <1>5 DEF Scratches
 <2> HIDE DEF k
 <2> QED BY <1>4, <2>1, HomeOf DEF d
<1>7. a \in OffBase({FP}, Int) \cup OffBase(General, {0}) \cup AtSymbol BY <1>2, <1>3, MapAddrShape DEF VAddress
<1>8. PICK u : LoadsAddress(s, LoadAddr(i.addr), i.addr, u) BY <1>2, <1>4, AddressRuns
<1> DEFINE Q == {SCRATCH0}
<1>9. Acts(s, l, Q, {}, u) /\ AddressOf(u, a) = FoundAddress(s, i.addr) BY <1>8 DEF LoadsAddress
<1>10. Q \subseteq Scratches BY DEF Scratches
<1> HIDE DEF n, k, d, q, a, l, v, Q
<1>11. Steady(u) /\ Ready(u) /\ Machine(u, PhysicalRegs) /\ Kept(s, u, Q, {}) BY <1>9, <1>10, ActsSteady
<1>12. /\ j \in PInsts /\ j \in Ldrs(General) /\ j.op = "Ldr"
       /\ j.size = n /\ j.dst = q /\ j.addr = a BY <1>2, <1>6, <1>7, PhysicalShapes DEF Ldrs, Ldr
<1>13. EmitInst(j) = EmitMemAccess("ldr", j.size, j.dst, j.addr) BY <1>12 DEF EmitInst
<1> HIDE DEF j
<1>14. PICK t : Gives(u, EmitMemAccess("ldr", j.size, j.dst, j.addr), j.dst,
                      Fetch(u, AddressOf(u, j.addr), j.size), t) BY <1>11, <1>12, PrintLdr
<1>15. Fetch(u, AddressOf(u, a), n) = v
 <2>1. Cell(u, FoundAddress(s, i.addr)) = Cell(s, FoundAddress(s, i.addr)) BY <1>11 DEF Kept
 <2> QED BY <1>9, <2>1, FetchAlike DEF v, n
<1>16. Gives(u, EmitInst(j), q, v, t) BY <1>12, <1>13, <1>14, <1>15
<1>17. Makes(u, EmitInst(j), InReg(d, k), v, t) BY <1>16, GivesMakes DEF q, d
<1>18. v \in 0 .. Modulus(n) - 1
 <2>1. a.kind # "global" => a.base \in PhysicalRegs /\ a.offset \in Int
  <3>1. General \subseteq PhysicalRegs /\ FP \in PhysicalRegs BY PhysicalNumbers
  <3> QED BY <1>7, <3>1 DEF OffBase, AtSymbol
 <2>2. a.kind = "global" => a.offset \in Word BY <1>7 DEF OffBase, AtSymbol, Word
 <2>3. AddressOf(u, a) \in Word BY <1>11, <2>1, <2>2, AddressPlain
 <2> QED BY <1>2, <1>11, <1>15, <2>3, FetchWords
<1>19. PICK w : Delivers(u, <<j>> \o SpillStore(d, n, k), d, v, w) BY <1>2, <1>4, <1>6, <1>11, <1>12, <1>17, <1>18, DeliverRuns
<1>20. Delivers(u, U, d, v, w) BY <1>19 DEF d
<1> HIDE DEF U
<1>21. Delivers(s, l \o U, d, v, w) BY <1>9, <1>10, <1>20, ThenDelivers
<1> QED BY <1>1, <1>21 DEF d, v
-----------------------------------------------------------------------------
LEMMA LeaRuns ==
  ASSUME NEW s, Steady(s), NEW R, NEW D, NEW i \in Leas(R, D), R \subseteq Virtual, D \subseteq Virtual \cup General,
         Located(i.dst), i.addr.kind # "global" /\ i.addr.base \in Virtual => Located(i.addr.base)
  PROVE  \E t : Delivers(s, RewriteLea(i), i.dst, FoundAddress(s, i.addr), t)
<1> DEFINE n == X64
           k == ScratchAfterAddr(i.addr)
           d == i.dst
           q == InReg(i.dst, k)
           a == MapAddr(i.addr)
           l == LoadAddr(i.addr)
           j == Lea(q, a)
           v == FoundAddress(s, i.addr)
           U == <<j>> \o SpillStore(i.dst, n, k)
<1>1. RewriteLea(i) = l \o U BY LeaForm
<1>2. /\ n \in Sizes /\ d \in Virtual \cup General
      /\ i.addr \in OffBase({FP} \cup Virtual, Int) \cup AtSymbol
      /\ i.addr \in VAddress BY DEF Leas, VAddress, OffBase, Sizes
<1>3. PlacedRegs(AddrRegs(i.addr))
 <2>1. ASSUME NEW r \in AddrRegs(i.addr), IsVReg(r) PROVE place[r] \in Registers \cup Frame
  <3>1. i.addr.kind # "global" /\ r = i.addr.base BY <2>1 DEF AddrRegs
  <3>2. r \in {FP} \cup Virtual BY <1>2, <3>1 DEF OffBase, AtSymbol
  <3>3. r \in Virtual /\ r \notin General BY <2>1, <3>2, NumbersOfRegisters
  <3>4. Located(r) BY <3>1, <3>3
  <3> QED BY <2>1, <3>3, <3>4 DEF Located, PlacedRegs
 <2> QED BY <2>1 DEF PlacedRegs
<1>5. k \in {SCRATCH0, SCRATCH1} BY DEF ScratchAfterAddr, ScratchAfterBase
<1>6. k \in Scratches /\ q \in General
 <2>1. k \in Scratches BY <1>5 DEF Scratches
 <2> HIDE DEF k
 <2> QED BY <2>1, HomeOf DEF d
<1>7. a \in OffBase({FP} \cup General, Int) \cup AtSymbol BY <1>2, <1>3, MapAddrShape DEF VAddress
<1>8. PICK u : LoadsAddress(s, LoadAddr(i.addr), i.addr, u) BY <1>2, AddressRuns
<1> DEFINE Q == {SCRATCH0}
<1>9. Acts(s, l, Q, {}, u) /\ AddressOf(u, a) = v BY <1>8 DEF LoadsAddress
<1>10. Q \subseteq Scratches BY DEF Scratches
<1>11. Located(d) OBVIOUS
<1> HIDE DEF n, k, d, q, a, l, v, Q
<1>12. Steady(u) /\ Ready(u) /\ Machine(u, PhysicalRegs) BY <1>9, <1>10, ActsSteady
<1>13. /\ j \in PInsts /\ j \in Leas(General, General) /\ j.op = "Lea" /\ j.dst = q /\ j.addr = a
  BY <1>2, <1>6, <1>7, PhysicalShapes DEF Leas, Lea
<1>14. EmitInst(j) = EmitLea(j) BY <1>13 DEF EmitInst
<1> HIDE DEF j
<1>15. PICK t : Makes(u, EmitLea(j), j.dst, AddressOf(u, j.addr), t) BY <1>12, <1>13, PrintLea
<1>16. Makes(u, EmitInst(j), InReg(d, k), v, t) BY <1>9, <1>13, <1>14, <1>15 DEF q, d
<1>17. v \in 0 .. Modulus(n) - 1
 <2>1. a.kind # "global" => a.base \in PhysicalRegs /\ a.offset \in Int
  <3>1. General \subseteq PhysicalRegs /\ FP \in PhysicalRegs BY PhysicalNumbers
  <3> QED BY <1>7, <3>1 DEF OffBase, AtSymbol
 <2>2. a.kind = "global" => a.offset \in Word BY <1>7 DEF OffBase, AtSymbol, Word
 <2>3. AddressOf(u, a) \in Word BY <1>12, <2>1, <2>2, AddressPlain
 <2> QED BY <1>9, <2>3 DEF Word, n
<1>18. PICK w : Delivers(u, <<j>> \o SpillStore(d, n, k), d, v, w) BY <1>2, <1>6, <1>11, <1>12, <1>13, <1>16, <1>17, DeliverRuns
<1>19. Delivers(u, U, d, v, w) BY <1>18 DEF d
<1> HIDE DEF U
<1>20. Delivers(s, l \o U, d, v, w) BY <1>9, <1>10, <1>19, ThenDelivers
<1> QED BY <1>1, <1>20 DEF d, v

LEMMA GepRuns ==
  ASSUME NEW s, Steady(s), StackFree(s), NEW i \in Geps(Virtual), PlacedRegs(Concerns(i))
  PROVE  \E t : Delivers(s, RewriteGep(i), i.dst,
                  (Found(s, i.base) + Signed(FoundOperand(s, i.index), W32) * i.scale) % Modulus(X64), t)
<1> DEFINE n == X64
           k == ScratchAfterBase(i.base)
           d == InReg(i.dst, k)
           b == InReg(i.base, SCRATCH0)
           o == MapOperand(i.index, k)
           c == SpillLoad(i.base, X64, SCRATCH0) \o LoadOperand(i.index, W32, k)
           j == Gep(d, b, o, i.scale)
           x == Found(s, i.base)
           y == FoundOperand(s, i.index)
           v == (Found(s, i.base) + Signed(FoundOperand(s, i.index), W32) * i.scale) % Modulus(X64)
           U == <<j>> \o SpillStore(i.dst, X64, k)
<1>1. RewriteGep(i) = c \o U BY GepForm
<1>2. /\ i.dst \in Virtual /\ i.base \in Virtual /\ i.scale \in Nat /\ i.op = "Gep"
      /\ i.index \in Immediates(I32Values) \cup InRegisters(Virtual)
      /\ i.index \in Immediates(I32Values) \cup InRegisters(Virtual \cup General)
      /\ (i.index.kind = "reg" => i.index.val \in Virtual)
      /\ W32 \in Sizes /\ X64 \in Sizes /\ I32Values \subseteq Int /\ n \in Sizes
  BY DEF Geps, Sizes, I32Values, Immediates, InRegisters
<1>3. Located(i.dst) /\ Located(i.base) /\ (i.index.kind = "reg" => Located(i.index.val))
 <2>1. IsVReg(i.dst) BY <1>2 DEF Virtual
 <2>2. DefinedVreg(i) = {i.dst} BY <1>2, <2>1 DEF DefinedVreg
 <2>3. UsedVregs(i) = {r \in {i.base} \cup OperandRegs(i.index) : IsVReg(r)} BY <1>2 DEF UsedVregs
 <2>4. PlacedRegs({i.dst}) /\ PlacedRegs({i.base}) /\ PlacedRegs(OperandRegs(i.index)) BY <2>2, <2>3 DEF Concerns, PlacedRegs
 <2> QED BY <1>2, <2>4 DEF Located, OperandRegs
<1>4. /\ SCRATCH0 \in Scratches /\ SCRATCH1 \in Scratches /\ SCRATCH0 # SCRATCH1 /\ k \in Scratches
      /\ (Spilled(i.base) => k = SCRATCH1) /\ (Spilled(i.base) => k # SCRATCH0)
  BY DEF Scratches, ScratchAfterBase, SCRATCH0, SCRATCH1
<1> HIDE DEF k
<1>5. PICK u : LoadsBoth(s, SpillLoad(i.base, n, SCRATCH0) \o LoadOperand(i.index, W32, k), i.base, n, i.index, k, W32, u)
  BY <1>2, <1>3, <1>4, BothRun
<1>6. Acts(s, c, Scratches, {}, u) /\ u.regs[b] = x /\ ValueOf(u, o) % Modulus(W32) = y % Modulus(W32) BY <1>5 DEF LoadsBoth
<1>7. Steady(u) /\ Ready(u) /\ Machine(u, PhysicalRegs) /\ Kept(s, u, Scratches, {}) BY <1>6, ActsSteady
<1>8. StackFree(u)
 <2>1. SP \in PhysicalRegs \ Scratches BY PhysicalNumbers DEF Scratches, SP, SCRATCH0, SCRATCH1
 <2>2. u.regs[SP] = s.regs[SP] BY <1>7, <2>1 DEF Kept
 <2> QED BY <2>2 DEF StackFree
<1>9. d \in General /\ b \in General BY <1>3, <1>4, HomeOf
<1>10. o \in Immediates(I32Values) \cup InRegisters(General) /\ y \in Int BY <1>2, <1>3, <1>4, OperandRuns
<1>11. ValueOf(u, o) \in Int
 <2>1. General \subseteq PhysicalRegs BY PhysicalNumbers
 <2> QED BY <1>2, <1>7, <1>10, <2>1, OperandWords
<1>12. d = b => d \notin Scratches
 <2>1. SUFFICES ASSUME d = b PROVE d \notin Scratches OBVIOUS
 <2>2. CASE Spilled(i.base)
  <3>1. b = SCRATCH0 /\ k = SCRATCH1 BY <1>3, <1>4, <2>2, HomeOf
  <3>2. d # SCRATCH0 BY <1>2, <1>3, <1>4, <3>1, InRegApart
  <3> QED BY <2>1, <3>1, <3>2
 <2>3. CASE ~Spilled(i.base)
  <3>1. b = MapReg(i.base) BY <1>3, <1>4, <2>3, HomeOf
  <3>2. b \notin Scratches BY <1>2, <1>3, <1>4, <2>3, <3>1, InRegApart
  <3> QED BY <2>1, <3>2
 <2> QED BY <2>2, <2>3
<1> HIDE DEF d, b, o, c, x, y, v
<1>13. /\ j \in PInsts /\ j \in Geps(General) /\ j.op = "Gep" /\ j.dst = d /\ j.base = b
       /\ j.index = o /\ j.scale = i.scale
 <2>1. d = b => d \notin {SCRATCH0, SCRATCH1} BY <1>12 DEF Scratches
 <2>2. j \in PInsts BY <1>2, <1>9, <1>10, <2>1, PhysicalArithmetic
 <2> QED BY <1>2, <1>9, <1>10, <2>2 DEF Geps, Gep
<1>14. EmitInst(j) = EmitGep(j) BY <1>13 DEF EmitInst
<1> HIDE DEF j
<1>15. PICK t : Makes(u, EmitGep(j), j.dst,
                  (u.regs[j.base] + Signed(ValueOf(u, j.index), W32) * j.scale) % Modulus(X64), t)
 <2>1. j.dst = j.base => j.dst \notin Scratches BY <1>12, <1>13
 <2> QED BY <1>7, <1>8, <1>13, <2>1, PrintGep
<1>16. Signed(ValueOf(u, o), W32) = Signed(y, W32) BY <1>2, <1>6, <1>10, <1>11, SignedAlike
<1>17. v = (x + Signed(y, W32) * i.scale) % Modulus(X64) BY DEF v, x, y
<1>18. Makes(u, EmitInst(j), d, v, t) BY <1>6, <1>13, <1>14, <1>15, <1>16, <1>17
<1>19. v \in 0 .. Modulus(n) - 1
 <2>1. x \in Int
  <3>1. Machine(s, PhysicalRegs) BY DEF Steady, Ready
  <3> QED BY <1>3, <3>1, FoundWord DEF x
 <2>2. Signed(y, W32) \in Int BY <1>2, <1>10, SignedFacts
 <2> DEFINE z == x + Signed(y, W32) * i.scale
 <2>3. z \in Int BY <1>2, <2>1, <2>2
 <2> HIDE DEF z
 <2>4. z % Modulus(X64) \in 0 .. Modulus(X64) - 1 BY <1>2, <2>3, WordFacts
 <2> QED BY <1>17, <2>4 DEF z
<1>20. i.dst \in Virtual \cup General /\ d = InReg(i.dst, k) BY <1>2 DEF d
<1> HIDE DEF n
<1>21. PICK w : Delivers(u, <<j>> \o SpillStore(i.dst, n, k), i.dst, v, w)
  BY <1>2, <1>3, <1>4, <1>7, <1>13, <1>18, <1>19, <1>20, DeliverRuns
<1>22. Delivers(u, U, i.dst, v, w) /\ Scratches \subseteq Scratches BY <1>21 DEF n
<1> HIDE DEF U
<1>23. Delivers(s, c \o U, i.dst, v, w) BY <1>6, <1>22, ThenDelivers
<1> QED BY <1>1, <1>23 DEF v
-----------------------------------------------------------------------------
(* A comparison, wherever its operands are. *)
Judges(s, O, f, t) ==
  /\ Computes(s, O, t) /\ Machine(t, PhysicalRegs) /\ t.at = s.at /\ t.flags = f
  /\ \A r \in PhysicalRegs \ Scratches : t.regs[r] = s.regs[r]
  /\ \A a : Cell(t, a) = Cell(s, a)

LEMMA CmpRuns ==
  ASSUME NEW s, Steady(s), NEW i \in Cmps(Virtual), PlacedRegs(Concerns(i))
  PROVE  \E t : Judges(s, RewriteCmp(i), Flags(Found(s, i.lhs), FoundOperand(s, i.rhs), i.size), t)
<1> DEFINE n == i.size
           l == InReg(i.lhs, SCRATCH0)
           o == MapOperand(i.rhs, SCRATCH1)
           c == SpillLoad(i.lhs, n, SCRATCH0) \o LoadOperand(i.rhs, n, SCRATCH1)
           j == [op |-> "Cmp", size |-> n, lhs |-> l, rhs |-> o]
           x == Found(s, i.lhs)
           y == FoundOperand(s, i.rhs)
           f == Flags(Found(s, i.lhs), FoundOperand(s, i.rhs), i.size)
<1>1. RewriteCmp(i) = c \o <<j>> BY CmpForm
<1>2. /\ n \in Sizes /\ i.lhs \in Virtual
      /\ i.rhs \in Immediates(Int) \cup InRegisters(Virtual)
      /\ i.rhs \in Immediates(Int) \cup InRegisters(Virtual \cup General)
      /\ i.op = "Cmp" /\ (i.rhs.kind = "reg" => i.rhs.val \in Virtual) BY DEF Cmps, Immediates, InRegisters
<1>3. Located(i.lhs) /\ (i.rhs.kind = "reg" => Located(i.rhs.val))
 <2>1. UsedVregs(i) = {r \in {i.lhs} \cup OperandRegs(i.rhs) : IsVReg(r)} BY <1>2 DEF UsedVregs
 <2>2. PlacedRegs({i.lhs}) /\ PlacedRegs(OperandRegs(i.rhs)) BY <2>1 DEF Concerns, PlacedRegs
 <2> QED BY <1>2, <2>2 DEF Located, OperandRegs
<1>4. SCRATCH0 \in Scratches /\ SCRATCH1 \in Scratches /\ Int \subseteq Int BY DEF Scratches
<1>5. PICK u : LoadsBoth(s, c, i.lhs, n, i.rhs, SCRATCH1, n, u) BY <1>2, <1>3, <1>4, BothRun
<1>6. Acts(s, c, Scratches, {}, u) /\ u.regs[l] % Modulus(n) = x % Modulus(n)
      /\ ValueOf(u, o) % Modulus(n) = y % Modulus(n) BY <1>5 DEF LoadsBoth
<1>7. Steady(u) /\ Ready(u) /\ Machine(u, PhysicalRegs) /\ Kept(s, u, Scratches, {}) /\ Computes(s, c, u)
  BY <1>6, ActsSteady DEF Acts
<1>8. l \in General /\ l \in PhysicalRegs BY <1>3, <1>4, HomeOf
<1>9. o \in Immediates(Int) \cup InRegisters(General) /\ y \in Int BY <1>2, <1>3, <1>4, OperandRuns
<1>10. x \in Int
 <2>1. Machine(s, PhysicalRegs) BY DEF Steady, Ready
 <2> QED BY <1>3, <2>1, FoundWord
<1>11. u.regs[l] \in Int /\ ValueOf(u, o) \in Int
 <2>1. General \subseteq PhysicalRegs BY PhysicalNumbers
 <2>2. u.regs[l] \in Int BY <1>7, <1>8, RegisterWords
 <2> QED BY <1>4, <1>7, <1>9, <2>1, <2>2, OperandWords
<1> HIDE DEF n, l, o, c, x, y
<1>12. /\ j \in PInsts /\ j \in Cmps(General) /\ j.op = "Cmp" /\ j.size = n /\ j.lhs = l /\ j.rhs = o
  BY <1>2, <1>8, <1>9, PhysicalArithmetic DEF Cmps
<1>13. EmitInst(j) = EmitCmp(j) BY <1>12 DEF EmitInst
<1> HIDE DEF j, f
<1>14. Flags(u.regs[l], ValueOf(u, o), n) = f
 <2>1. f = Flags(x, y, n) BY DEF f, x, y, n
 <2> QED BY <1>2, <1>6, <1>9, <1>10, <1>11, <2>1, FlagsAlike
<1>15. PICK t : Tests(u, EmitCmp(j), Flags(u.regs[j.lhs], ValueOf(u, j.rhs), j.size), t) BY <1>7, <1>12, PrintCmp
<1>16. Tests(u, EmitInst(j), f, t) BY <1>12, <1>13, <1>14, <1>15
<1>17. Computes(u, <<j>>, t) BY <1>12, <1>16, ComputesOne DEF Tests
<1>18. Computes(s, c \o <<j>>, t) BY <1>7, <1>17, ComputesJoin
<1>19. \A r \in PhysicalRegs \ Scratches : t.regs[r] = s.regs[r] BY <1>7, <1>16 DEF Tests, Kept
<1>20. \A a : Cell(t, a) = Cell(s, a) BY <1>7, <1>16 DEF Tests, Kept
<1>21. Machine(t, PhysicalRegs) /\ t.at = s.at /\ t.flags = f BY <1>7, <1>16 DEF Tests, Kept
<1>22. Judges(s, RewriteCmp(i), f, t) BY <1>1, <1>18, <1>19, <1>20, <1>21 DEF Judges
<1> QED BY <1>22 DEF f
-----------------------------------------------------------------------------
(* A store, wherever its value and its base are. *)
Deposits(s, O, x, v, t) == Acts(s, O, Scratches, {x}, t) /\ Cell(t, x) = v

LEMMA StrDelivers ==
  ASSUME NEW s, NEW u, NEW c, Acts(s, c, Scratches, {}, u), Ready(u), NEW j \in PInsts, j \in Strs(General, General),
         NEW x, AddressOf(u, j.addr) = x, NEW v, Read(u, j.src, j.size) = v
  PROVE  \E t : Deposits(s, c \o <<j>>, x, v, t)
<1>1. j.op = "Str" BY DEF Strs
<1>2. EmitInst(j) = EmitMemAccess("str", j.size, j.src, j.addr) BY <1>1 DEF EmitInst
<1>3. PICK t : Leaves(u, EmitMemAccess("str", j.size, j.src, j.addr), AddressOf(u, j.addr),
                      Read(u, j.src, j.size), t) BY PrintStr
<1>4. Leaves(u, EmitInst(j), x, v, t) BY <1>2, <1>3
<1> DEFINE X == {x}
           J == <<j>>
<1>5. Does(u, EmitInst(j), Scratches, X, t) /\ Cell(t, x) = v BY <1>4 DEF Leaves
<1> HIDE DEF X
<1>6. Acts(u, J, Scratches, X, t) BY <1>5, ActsOne
<1> HIDE DEF J
<1>7. Acts(s, c \o J, Scratches \cup Scratches, {} \cup X, t) BY <1>6, ActsJoin
<1>8. (Scratches \cup Scratches) \cap PhysicalRegs \subseteq Scratches /\ {} \cup X \subseteq X OBVIOUS
<1>9. Acts(s, c \o J, Scratches, X, t) BY <1>7, <1>8, ActsWider
<1>10. Deposits(s, c \o J, x, v, t) BY <1>5, <1>9 DEF Deposits, X
<1> QED BY <1>10 DEF J

LEMMA StrRuns ==
  ASSUME NEW s, Steady(s), NEW i \in Strs(Virtual, Virtual \cup {SCRATCH0}), PlacedRegs(Concerns(i)),
         ReadsScratch(i) => i.addr \in OffBase({SP}, Int)
  PROVE  \E t : Deposits(s, RewriteStr(i), FoundAddress(s, i.addr), Found(s, i.src) % Modulus(i.size), t)
<1> DEFINE n == i.size
           k == ScratchAfterAddr(i.addr)
           d == InReg(i.src, k)
           a == MapAddr(i.addr)
           c == LoadAddr(i.addr)
           e == SpillLoad(i.src, n, k)
           j == Str(n, d, a)
           x == FoundAddress(s, i.addr)
           y == Found(s, i.src)
<1>1. RewriteStr(i) = (c \o e) \o <<j>> BY DEF RewriteStr
<1>2. /\ n \in Sizes /\ i.src \in Virtual \cup {SCRATCH0} /\ i.op = "Str"
      /\ i.addr \in OffBase({FP, SP}, Int) \cup OffBase(Virtual, {0}) \cup AtSymbol
      /\ i.addr \in VAddress BY DEF Strs, VAddress, OffBase
<1>3. PlacedRegs({i.src}) /\ PlacedRegs(AddrRegs(i.addr))
 <2>3. UsedVregs(i) = {r \in {i.src} \cup AddrRegs(i.addr) : IsVReg(r)} BY <1>2 DEF UsedVregs
 <2> QED BY <2>3 DEF Concerns, PlacedRegs
<1>4. Located(i.src) /\ (i.addr.kind # "global" /\ i.addr.base \in Virtual => Located(i.addr.base))
 <2>1. SCRATCH0 \in General BY NumbersOfRegisters
 <2> QED BY <1>2, <1>3, <2>1 DEF Located, AddrRegs
<1>5. /\ k \in {SCRATCH0, SCRATCH1} /\ SCRATCH0 # SCRATCH1
      /\ i.addr.kind = "global" => k = SCRATCH0
      /\ i.addr.kind # "global" => (k = SCRATCH1 <=> Spilled(i.addr.base))
  BY DEF ScratchAfterAddr, ScratchAfterBase, SCRATCH0, SCRATCH1
<1>6. a \in OffBase({FP, SP}, Int) \cup OffBase(General, {0}) \cup AtSymbol BY <1>2, <1>3, MapAddrShape DEF VAddress
<1>7. k \in Scratches /\ SCRATCH0 \in Scratches BY <1>5 DEF Scratches
<1> HIDE DEF k
<1>8. d \in General BY <1>4, <1>7, HomeOf
<1>9. PICK u : LoadsAddress(s, LoadAddr(i.addr), i.addr, u) BY <1>2, <1>4, AddressRuns
<1> DEFINE Q == {SCRATCH0}
           P == {k}
<1>10. Acts(s, c, Q, {}, u) /\ AddressOf(u, a) = x BY <1>9 DEF LoadsAddress
<1>11. Q \subseteq Scratches /\ P \subseteq Scratches BY <1>7
<1> HIDE DEF a, c, x, d
<1>12. Steady(u) /\ Ready(u) /\ Kept(s, u, Q, {}) BY <1>10, <1>11, ActsSteady
<1>13. PICK w : Loads(u, SpillLoad(i.src, n, k), k, i.src, n, w) BY <1>2, <1>4, <1>7, <1>12, ReloadRuns
<1>14. Acts(u, e, P, {}, w) /\ w.regs[d] % Modulus(n) = Found(u, i.src) % Modulus(n) BY <1>13 DEF Loads, d
<1>15. Steady(w) /\ Ready(w) /\ Kept(u, w, P, {}) BY <1>11, <1>12, <1>14, ActsSteady
(* The reload of the value leaves the base alone. *)
<1>16. AddressOf(w, a) = x
 <2>1. CASE i.addr.kind = "global"
  <3>1. a = i.addr BY <2>1 DEF MapAddr, a
  <3> QED BY <1>10, <2>1, <3>1 DEF AddressOf
 <2>2. CASE i.addr.kind # "global"
  <3> DEFINE b == i.addr.base
             q == InReg(b, SCRATCH0)
             h == i.addr.offset
  <3>1. a = BaseOff(q, h) BY <1>2, <1>3, <2>2, MapAddrShape DEF a, VAddress
  <3>2. b \in {FP, SP} \cup Virtual BY <1>2, <2>2 DEF VAddress, OffBase, AtSymbol
  <3>3. q \in PhysicalRegs /\ q \notin P
   <4>1. CASE b \in Virtual
    <5>1. Located(b) /\ (Spilled(b) => k # SCRATCH0) BY <1>4, <1>5, <2>2, <4>1
    <5>2. q # k BY <1>7, <4>1, <5>1, InRegApart
    <5>3. q \in PhysicalRegs BY <1>7, <5>1, HomeOf
    <5> QED BY <5>2, <5>3
   <4>2. CASE b \in {FP, SP}
    <5>1. q = b BY <4>2, OutsideTheRegisters
    <5>2. k \notin {FP, SP} BY <1>5 DEF FP, SP, SCRATCH0, SCRATCH1
    <5>3. {FP, SP} \subseteq PhysicalRegs BY PhysicalNumbers
    <5> QED BY <4>2, <5>1, <5>2, <5>3
   <4> QED BY <3>2, <4>1, <4>2
  <3> HIDE DEF q
  <3>4. a.kind = "base_off" /\ a.base = q /\ a.offset = h BY <3>1 DEF BaseOff
  <3>5. w.regs[q] = u.regs[q] BY <1>15, <3>3 DEF Kept
  <3> QED BY <1>10, <3>4, <3>5 DEF AddressOf
 <2> QED BY <2>1, <2>2
<1>17. Found(u, i.src) = y
 <2>1. CASE i.src \in Virtual
  <3> QED BY <1>4, <1>11, <1>12, <2>1, FoundKept
 <2>2. CASE i.src = SCRATCH0
  <3>1. i.addr \in OffBase({SP}, Int) BY <1>2, <2>2 DEF ReadsScratch
  <3>2. i.addr.kind # "global" /\ i.addr.base = SP BY <3>1 DEF OffBase
  <3>3. ~Spilled(SP) BY OutsideTheRegisters
  <3>4. c = <<>> BY <3>2, <3>3 DEF c, LoadAddr, SpillLoad
  <3>5. u = s BY <1>10, <3>4, ComputesNothing DEF Acts
  <3> QED BY <3>5
 <2> QED BY <1>2, <2>1, <2>2
<1>18. Acts(s, c \o e, Scratches, {}, w)
 <2>1. Acts(s, c \o e, Q \cup P, {} \cup {}, w)
  <3> HIDE DEF e, Q, P
  <3> QED BY <1>10, <1>14, ActsJoin
 <2>2. (Q \cup P) \cap PhysicalRegs \subseteq Scratches /\ {} \cup {} \subseteq {} BY <1>11
 <2> HIDE DEF e, Q, P
 <2> QED BY <2>1, <2>2, ActsWider
<1> HIDE DEF e, n, y
<1>19. /\ j \in PInsts /\ j \in Strs(General, General) /\ j.size = n /\ j.src = d /\ j.addr = a
  BY <1>2, <1>6, <1>8, PhysicalShapes DEF Strs, Str, n
<1> DEFINE g == c \o e
<1> HIDE DEF j, g
<1>20. Read(w, d, n) = y % Modulus(n) BY <1>14, <1>17 DEF Read
<1>21. Acts(s, g, Scratches, {}, w) BY <1>18 DEF g
<1>22. PICK t : Deposits(s, g \o <<j>>, x, y % Modulus(n), t) BY <1>15, <1>16, <1>19, <1>20, <1>21, StrDelivers
<1>23. Deposits(s, RewriteStr(i), x, y % Modulus(n), t) BY <1>1, <1>22 DEF g
<1> QED BY <1>23 DEF x, y, n
-----------------------------------------------------------------------------
(* The processor beside the machine with virtual registers, after p
   instructions.  A virtual register is current when no other one was given its
   place since it was last written. *)
Current(p, v) ==
  /\ v \in Vregs
  /\ v \in Given \/ v \in DefinedBefore(code, p + 1)
  /\ \A k \in 1 .. p : \A w \in DefinedVreg(code[k]) \ {v} :
       place[w] = place[v] => \E j \in k + 1 .. p : v \in DefinedVreg(code[j])

Sim(p, s, r) ==
  /\ Machine(s, PhysicalRegs) /\ Machine(r, PhysicalRegs \cup Vregs)
  /\ s.at = r.at /\ s.flags = r.flags
  /\ s.regs[FP] = FpValue /\ r.regs[FP] = FpValue
  /\ s.regs[SP] = r.regs[SP] /\ StackFree(s)
  /\ s.regs[REG_X0] = r.regs[REG_X0]
  /\ p > 0 /\ FillsScratch(code[p]) => s.regs[SCRATCH0] = r.regs[SCRATCH0]
  /\ \A v : Current(p, v) => Found(s, v) = r.regs[v]
  /\ \A a : a >= SpValue /\ a \notin Slots => Cell(s, a) = Cell(r, a)
  /\ r.at # Here => p > 0 /\ IsBranch(code[p])

(* What the allocation and the code are known to be. *)
Allocated == Legal(place) /\ code \in Seq(VInsts) /\ Piece(code, DOMAIN vals, {})

LEMMA VregNumbers == code \in Seq(VInsts) => \A v \in Vregs : IsVReg(v)
<1>1. ASSUME NEW v \in Vregs PROVE IsVReg(v)
 <2>1. PICK k \in DOMAIN code : v \in UsedVregs(code[k]) \cup DefinedVreg(code[k]) BY <1>1 DEF Vregs
 <2>2. CASE v \in UsedVregs(code[k]) BY <2>2 DEF UsedVregs
 <2>3. CASE v \in DefinedVreg(code[k]) BY <2>3 DEF DefinedVreg
 <2> QED BY <2>1, <2>2, <2>3
<1> QED BY <1>1

LEMMA VregsPlaced ==
  ASSUME Allocated, NEW k \in DOMAIN code
  PROVE  /\ code[k] \in VInsts
         /\ UsedVregs(code[k]) \subseteq Vregs /\ DefinedVreg(code[k]) \subseteq Vregs
         /\ PlacedRegs(Concerns(code[k]))
<1>1. UsedVregs(code[k]) \subseteq Vregs /\ DefinedVreg(code[k]) \subseteq Vregs BY DEF Vregs
<1>2. PlacedRegs(Concerns(code[k])) BY CodePlaced DEF Allocated
<1>3. code[k] \in VInsts BY ElementType DEF Allocated
<1> QED BY <1>1, <1>2, <1>3

(* What an instruction reads is current. *)
LEMMA UsedIsCurrent ==
  ASSUME Allocated, NEW p \in Nat, p + 1 \in DOMAIN code, NEW v \in UsedVregs(code[p + 1]) PROVE Current(p, v)
<1>1. code \in Seq(VInsts) /\ Legal(place) /\ ReadsOnly(code, DOMAIN vals) BY DEF Allocated, Piece
<1>2. Len(code) \in Nat /\ DOMAIN code = 1 .. Len(code) BY <1>1
<1>3. v \in Vregs BY VregsPlaced
<1>4. v \in Given \/ v \in DefinedBefore(code, p + 1) BY <1>1, <1>3 DEF ReadsOnly, Given
<1>5. ASSUME NEW k \in 1 .. p, NEW w \in DefinedVreg(code[k]) \ {v}, place[w] = place[v] PROVE FALSE
 <2>1. k \in DOMAIN code /\ p + 1 \in k + 1 .. Len(code) BY <1>2
 <2>2. v \in UsedFrom(k + 1) BY <2>1 DEF UsedFrom
 <2>3. w = v BY <1>1, <1>5, <2>1, <2>2 DEF Legal
 <2> QED BY <2>3
<1> QED BY <1>3, <1>4, <1>5 DEF Current

(* Another register is current behind an instruction only if it was so before
   it, and kept its place. *)
LEMMA CurrentBefore ==
  ASSUME NEW p \in Nat, NEW v, Current(p + 1, v), v \notin DefinedVreg(code[p + 1])
  PROVE  Current(p, v) /\ \A d \in DefinedVreg(code[p + 1]) : place[d] # place[v]
<1>1. v \in Vregs BY DEF Current
<1>2. v \in Given \/ v \in DefinedBefore(code, p + 1)
 <2>1. ASSUME v \in DefinedBefore(code, (p + 1) + 1) PROVE v \in DefinedBefore(code, p + 1)
  <3>1. PICK j \in 1 .. ((p + 1) + 1) - 1 : v \in DefinedVreg(code[j]) BY <2>1 DEF DefinedBefore
  <3>2. j # p + 1 BY <3>1
  <3>3. j \in 1 .. (p + 1) - 1 BY <3>2
  <3> QED BY <3>1, <3>3 DEF DefinedBefore
 <2> QED BY <2>1 DEF Current
<1>3. ASSUME NEW k \in 1 .. p, NEW w \in DefinedVreg(code[k]) \ {v}, place[w] = place[v]
      PROVE  \E j \in k + 1 .. p : v \in DefinedVreg(code[j])
 <2>1. k \in 1 .. p + 1 OBVIOUS
 <2>2. PICK j \in k + 1 .. p + 1 : v \in DefinedVreg(code[j]) BY <1>3, <2>1 DEF Current
 <2>3. j # p + 1 BY <2>2
 <2>4. j \in k + 1 .. p BY <2>3
 <2> QED BY <2>2, <2>4
<1>4. ASSUME NEW d \in DefinedVreg(code[p + 1]), place[d] = place[v] PROVE FALSE
 <2>1. p + 1 \in 1 .. p + 1 /\ d \in DefinedVreg(code[p + 1]) \ {v} BY <1>4
 <2>2. \E j \in (p + 1) + 1 .. p + 1 : v \in DefinedVreg(code[j]) BY <1>4, <2>1 DEF Current
 <2> QED BY <2>2
<1> QED BY <1>1, <1>2, <1>3, <1>4 DEF Current

LEMMA CurrentPlace ==
  ASSUME Allocated, NEW v \in Vregs
  PROVE  /\ place[v] \in Registers \cup Frame /\ IsVReg(v)
         /\ Spilled(v) <=> place[v] < 0
         /\ Spilled(v) => place[v] \in Frame /\ FpValue + place[v] \in Slots
         /\ ~Spilled(v) => MapReg(v) = place[v] /\ place[v] \in Registers
<1>1. place[v] \in Registers \cup Frame BY DEF Allocated, Legal, Frame
<1>2. IsVReg(v) BY VregNumbers DEF Allocated
<1>3. \A r \in Registers : r \in 0 .. 99 BY NumbersOfRegisters
<1>4. \A r \in Frame : r < 0 BY FrameAssumption DEF Frame
<1> QED BY <1>1, <1>2, <1>3, <1>4 DEF Spilled, MapReg, Slots
-----------------------------------------------------------------------------
LEMMA SimSteady ==
  ASSUME NEW p, NEW s, NEW r, Sim(p, s, r), r.at = Here PROVE Steady(s) /\ StackFree(s) /\ Ready(s) /\ s.at = Here
BY DEF Sim, Steady, Ready

(* Operands and addresses come to the same. *)
LEMMA SameOperand ==
  ASSUME NEW p, NEW s, NEW r, Sim(p, s, r), NEW o,
         o.kind = "reg" => o.val = REG_X0 \/ Current(p, o.val)
  PROVE  FoundOperand(s, o) = ValueOf(r, o)
<1>1. CASE o.kind # "reg" BY <1>1 DEF FoundOperand, ValueOf
<1>2. CASE o.kind = "reg" /\ Current(p, o.val) BY <1>2 DEF FoundOperand, ValueOf, Sim
<1>3. CASE o.kind = "reg" /\ o.val = REG_X0
 <2>1. Found(s, REG_X0) = s.regs[REG_X0] BY NumbersOfRegisters DEF Found, Spilled, MapReg
 <2> QED BY <1>3, <2>1 DEF FoundOperand, ValueOf, Sim
<1> QED BY <1>1, <1>2, <1>3

LEMMA SameAddress ==
  ASSUME NEW p, NEW s, NEW r, Sim(p, s, r), NEW a,
         a.kind # "global" => a.base \in {FP, SP} \/ Current(p, a.base)
  PROVE  FoundAddress(s, a) = AddressOf(r, a)
<1>1. CASE a.kind = "global" BY <1>1 DEF FoundAddress, AddressOf
<1>2. CASE a.kind # "global"
 <2>1. Found(s, a.base) = r.regs[a.base]
  <3>1. CASE Current(p, a.base) BY <3>1 DEF Sim
  <3>2. CASE a.base \in {FP, SP}
   <4>1. Found(s, a.base) = s.regs[a.base] BY <3>2, OutsideTheRegisters DEF Found
   <4> QED BY <3>2, <4>1 DEF Sim
  <3> QED BY <1>2, <3>1, <3>2
 <2> QED BY <1>2, <2>1 DEF FoundAddress, AddressOf
<1> QED BY <1>1, <1>2
-----------------------------------------------------------------------------
LEMMA ConcernsVirtual == ASSUME NEW i \in VInsts PROVE Concerns(i) \subseteq Virtual
<1> DEFINE D == Virtual \cup {REG_X0, SCRATCH0}
           R == Virtual \cup {REG_X0}
<1>0. /\ \A r \in D : IsVReg(r) => r \in Virtual
      /\ \A r \in {FP, SP} : ~IsVReg(r) BY NumbersOfRegisters
<1>1. CASE i \in Movs(D, R) BY <1>0, <1>1 DEF Movs, InRegisters, Immediates, Concerns, UsedVregs, DefinedVreg, OperandRegs
<1>2. CASE i \in BinOps(Virtual) BY <1>2 DEF BinOps, InRegisters, Immediates, Concerns, UsedVregs, DefinedVreg, OperandRegs
<1>3. CASE i \in Cmps(Virtual) BY <1>3 DEF Cmps, InRegisters, Immediates, Concerns, UsedVregs, DefinedVreg, OperandRegs
<1>4. CASE i \in Ldrs(Virtual) BY <1>0, <1>4 DEF Ldrs, OffBase, AtSymbol, Concerns, UsedVregs, DefinedVreg, AddrRegs
<1>5. CASE i \in Strs(Virtual, Virtual \cup {SCRATCH0})
  BY <1>0, <1>5 DEF Strs, OffBase, AtSymbol, Concerns, UsedVregs, DefinedVreg, AddrRegs
<1>6. CASE i \in Leas(Virtual, D) BY <1>0, <1>6 DEF Leas, OffBase, AtSymbol, Concerns, UsedVregs, DefinedVreg, AddrRegs
<1>7. CASE i \in Geps(Virtual) BY <1>7 DEF Geps, InRegisters, Immediates, Concerns, UsedVregs, DefinedVreg, OperandRegs
<1>8. CASE i \in SpMoves \cup Branches
 <2>1. i.op \in {"SubSp", "AddSp", "BCond", "B", "Ret"} BY <1>8 DEF SpMoves, Branches
 <2> QED BY <2>1 DEF Concerns, UsedVregs, DefinedVreg
<1> QED BY <1>1, <1>2, <1>3, <1>4, <1>5, <1>6, <1>7, <1>8 DEF VInsts, Insts

LEMMA VregsVirtual == ASSUME Allocated PROVE Vregs \subseteq Virtual /\ \A v \in Vregs : Located(v)
<1>1. ASSUME NEW v \in Vregs PROVE v \in Virtual
 <2>1. PICK k \in DOMAIN code : v \in UsedVregs(code[k]) \cup DefinedVreg(code[k]) BY <1>1 DEF Vregs
 <2>2. code[k] \in VInsts BY <2>1, VregsPlaced
 <2> QED BY <2>1, <2>2, ConcernsVirtual DEF Concerns
<1>2. ASSUME NEW v \in Vregs PROVE Located(v)
 <2>1. place[v] \in Registers \cup Frame BY CurrentPlace
 <2> QED BY <1>1, <2>1 DEF Located, PlacedRegs
<1> QED BY <1>1, <1>2

(* A current register with another place than d outlives a write to d. *)
LEMMA OutlivesWrite ==
  ASSUME Allocated, NEW s, NEW t, NEW d \in Vregs \cup {REG_X0, SCRATCH0},
         Kept(s, t, Scratches \cup HomeRegs(d), Below \cup HomeCells(d)),
         NEW v \in Vregs, d \in Vregs => place[d] # place[v]
  PROVE  Found(t, v) = Found(s, v)
<1>1. v \in Virtual /\ Located(v) BY VregsVirtual
<1>2. ~Spilled(v) => MapReg(v) \notin Scratches \cup HomeRegs(d)
 <2>1. SUFFICES ASSUME ~Spilled(v) PROVE MapReg(v) \notin Scratches \cup HomeRegs(d) OBVIOUS
 <2>2. MapReg(v) = place[v] /\ place[v] \in Registers BY <2>1, CurrentPlace
 <2>3. MapReg(v) \notin Scratches /\ MapReg(v) # REG_X0 BY <2>2, NumbersOfRegisters DEF Scratches
 <2>4. CASE d \in Vregs
  <3>1. ~Spilled(d) => MapReg(d) = place[d] BY <2>4, CurrentPlace
  <3> QED BY <2>2, <2>3, <2>4, <3>1 DEF HomeRegs
 <2>5. CASE d \in {REG_X0, SCRATCH0}
  <3>1. MapReg(d) = d BY <2>5, NumbersOfRegisters DEF MapReg
  <3>2. d # MapReg(v) BY <2>3, <2>5 DEF Scratches
  <3> QED BY <2>3, <3>1, <3>2 DEF HomeRegs
 <2> QED BY <2>4, <2>5
<1>3. Spilled(v) => FpValue + place[v] \notin Below \cup HomeCells(d)
 <2>1. SUFFICES ASSUME Spilled(v) PROVE FpValue + place[v] \notin Below \cup HomeCells(d) OBVIOUS
 <2>2. place[v] \in Frame BY <2>1, CurrentPlace
 <2>3. FpValue + place[v] \notin Below BY <2>2, SlotPlace
 <2>4. ASSUME Spilled(d) PROVE FpValue + place[d] # FpValue + place[v]
  <3>1. d \in Vregs BY <2>4, NumbersOfRegisters DEF Spilled
  <3>2. place[d] \in Frame BY <2>4, <3>1, CurrentPlace
  <3>3. place[d] # place[v] BY <3>1
  <3> DEFINE a == place[d]
             b == place[v]
  <3>4. a \in Int /\ b \in Int /\ a # b BY <2>2, <3>2, <3>3, FrameAssumption DEF Frame
  <3>5. FpValue \in Int BY FrameAssumption
  <3> HIDE DEF a, b
  <3>6. FpValue + a # FpValue + b BY <3>4, <3>5
  <3> QED BY <3>6 DEF a, b
 <2> QED BY <2>3, <2>4 DEF HomeCells
<1> QED BY <1>1, <1>2, <1>3, FoundAlike
-----------------------------------------------------------------------------
(* One assigning instruction: the place of d receives the value. *)
LEMMA SimAssign ==
  ASSUME Allocated, NEW p \in Nat, p + 1 \in DOMAIN code, NEW s, NEW r, Sim(p, s, r), r.at = Here,
         NEW d \in Virtual \cup {REG_X0, SCRATCH0}, d = code[p + 1].dst,
         code[p + 1].op \in {"Mov", "BinOp", "Ldr", "Lea", "Gep"},
         NEW O, NEW x \in Word, NEW t, Delivers(s, O, d, x, t)
  PROVE  Sim(p + 1, t, Write(r, d, x))
<1> DEFINE R == PhysicalRegs \cup Vregs
           u == Write(r, d, x)
           i == code[p + 1]
           Q == Scratches \cup HomeRegs(d)
           X == Below \cup HomeCells(d)
<1>1. Kept(s, t, Q, X) /\ Found(t, d) = x BY DEF Delivers, Acts
<1>2. DefinedVreg(i) = {v \in {d} : IsVReg(v)} BY DEF DefinedVreg
<1>3. d \in R /\ (d \in Virtual => d \in Vregs) /\ d \in Vregs \cup {REG_X0, SCRATCH0}
      /\ (d \notin Vregs => MapReg(d) = d /\ ~Spilled(d))
 <2>1. ASSUME d \in Virtual PROVE d \in Vregs
  <3>1. d \in DefinedVreg(i) BY <1>2, <2>1 DEF Virtual
  <3> QED BY <3>1, VregsPlaced
 <2>2. {REG_X0, SCRATCH0} \subseteq PhysicalRegs BY PhysicalNumbers
 <2>3. ~IsVReg(REG_X0) /\ ~IsVReg(SCRATCH0) BY NumbersOfRegisters
 <2> QED BY <2>1, <2>2, <2>3 DEF MapReg, Spilled
<1>4. Machine(r, R) /\ Machine(t, PhysicalRegs) BY <1>1 DEF Sim, Kept
<1> HIDE DEF R
<1>5. /\ Machine(u, R) /\ u.regs[d] = x /\ \A e \in R : e # d => u.regs[e] = r.regs[e]
      /\ u.flags = r.flags /\ u.at = r.at /\ \A a : Cell(u, a) = Cell(r, a) BY <1>3, <1>4, Written
<1> HIDE DEF u, i
<1>6. {FP, SP, REG_X0, SCRATCH0} \subseteq PhysicalRegs /\ {FP, SP, REG_X0, SCRATCH0} \subseteq R BY PhysicalNumbers DEF R
<1>7. FP \notin Q /\ SP \notin Q /\ FP # d /\ SP # d
 <2>1. FP \notin General /\ SP \notin General /\ ~IsVReg(FP) /\ ~IsVReg(SP) BY NumbersOfRegisters
 <2>2. Scratches \subseteq General BY NumbersOfRegisters DEF Scratches
 <2>3. {REG_X0, SCRATCH0} \subseteq General BY NumbersOfRegisters
 <2>4. ~Spilled(d) => MapReg(d) \in General
  <3>1. CASE d \in Vregs
   <4>1. Located(d) BY <3>1, VregsVirtual
   <4> QED BY <4>1, HomeOf
  <3>2. CASE d \notin Vregs BY <1>3, <2>3, <3>2
  <3> QED BY <3>1, <3>2
 <2> QED BY <2>1, <2>2, <2>3, <2>4 DEF HomeRegs, Virtual
<1>8. t.regs[FP] = s.regs[FP] /\ t.regs[SP] = s.regs[SP] BY <1>1, <1>6, <1>7 DEF Kept
<1>9. u.regs[FP] = r.regs[FP] /\ u.regs[SP] = r.regs[SP] BY <1>5, <1>6, <1>7
<1>10. t.regs[REG_X0] = u.regs[REG_X0]
 <2>1. CASE d = REG_X0
  <3>1. ~Spilled(d) /\ MapReg(d) = d BY <2>1, NumbersOfRegisters DEF Spilled, MapReg
  <3> QED BY <1>1, <1>5, <2>1, <3>1 DEF Found
 <2>2. CASE d # REG_X0
  <3>1. REG_X0 \notin Scratches BY DEF Scratches, REG_X0, SCRATCH0, SCRATCH1
  <3>2. ~Spilled(d) => MapReg(d) # REG_X0
   <4>1. CASE d \in Vregs
    <5>1. ~Spilled(d) => MapReg(d) \in Registers BY <4>1, CurrentPlace
    <5> QED BY <5>1, NumbersOfRegisters
   <4>2. CASE d \notin Vregs BY <1>3, <2>2, <4>2
   <4> QED BY <4>1, <4>2
  <3>3. REG_X0 \notin Q BY <3>1, <3>2 DEF HomeRegs
  <3>4. t.regs[REG_X0] = s.regs[REG_X0] BY <1>1, <1>6, <3>3 DEF Kept
  <3>5. u.regs[REG_X0] = r.regs[REG_X0] BY <1>5, <1>6, <2>2
  <3> QED BY <3>4, <3>5 DEF Sim
 <2> QED BY <2>1, <2>2
<1>11. FillsScratch(i) => t.regs[SCRATCH0] = u.regs[SCRATCH0]
 <2>1. SUFFICES ASSUME d = SCRATCH0 PROVE t.regs[SCRATCH0] = u.regs[SCRATCH0] BY DEF FillsScratch, i
 <2>2. ~Spilled(d) /\ MapReg(d) = d BY <2>1, NumbersOfRegisters DEF Spilled, MapReg
 <2> QED BY <1>1, <1>5, <2>1, <2>2 DEF Found
<1>12. ASSUME NEW v, Current(p + 1, v) PROVE Found(t, v) = u.regs[v]
 <2>1. v \in Vregs BY <1>12 DEF Current
 <2>2. CASE v = d BY <1>1, <1>5, <2>2
 <2>3. CASE v # d
  <3>1. v \notin DefinedVreg(i) BY <1>2, <2>3
  <3>2. Current(p, v) /\ \A e \in DefinedVreg(i) : place[e] # place[v] BY <1>12, <3>1, CurrentBefore DEF i
  <3>3. d \in Vregs => place[d] # place[v]
   <4>1. ASSUME d \in Vregs PROVE d \in DefinedVreg(i)
    <5>1. IsVReg(d) BY <4>1, VregNumbers DEF Allocated
    <5> QED BY <1>2, <5>1
   <4> QED BY <3>2, <4>1
  <3>4. Found(t, v) = Found(s, v) BY <1>1, <1>3, <2>1, <3>3, OutlivesWrite
  <3>5. u.regs[v] = r.regs[v] BY <1>5, <2>1, <2>3 DEF R
  <3> QED BY <3>2, <3>4, <3>5 DEF Sim
 <2> QED BY <2>2, <2>3
<1>13. ASSUME NEW a, a >= SpValue, a \notin Slots PROVE Cell(t, a) = Cell(u, a)
 <2>1. a \notin Below
  <3>1. SpValue \in Nat BY FrameAssumption
  <3> QED BY <1>13, <3>1 DEF Below
 <2>2. a \notin HomeCells(d)
  <3>1. Spilled(d) => FpValue + place[d] \in Slots BY <1>3, CurrentPlace
  <3> QED BY <1>13, <3>1 DEF HomeCells
 <2>3. Cell(t, a) = Cell(s, a) BY <1>1, <2>1, <2>2 DEF Kept
 <2> QED BY <1>5, <1>13, <2>3 DEF Sim
<1>14. t.at = u.at /\ t.flags = u.flags /\ u.at = Here BY <1>1, <1>5 DEF Kept, Sim
<1>15. Machine(u, PhysicalRegs \cup Vregs) BY <1>5 DEF R
<1>16. StackFree(t) /\ t.regs[SP] = u.regs[SP] /\ t.regs[FP] = FpValue /\ u.regs[FP] = FpValue BY <1>8, <1>9 DEF StackFree, Sim
<1>17. Sim(p + 1, t, u) BY <1>4, <1>10, <1>11, <1>12, <1>13, <1>14, <1>15, <1>16 DEF Sim, i
<1> QED BY <1>17 DEF u
-----------------------------------------------------------------------------
(* An instruction that assigns no virtual register. *)
Aside(s, r, t, u) ==
  /\ Machine(t, PhysicalRegs) /\ Machine(u, PhysicalRegs \cup Vregs)
  /\ t.at = u.at /\ t.flags = u.flags
  /\ \A e \in PhysicalRegs \ (Scratches \cup {SP}) : t.regs[e] = s.regs[e]
  /\ \A e \in (PhysicalRegs \cup Vregs) \ {SP} : u.regs[e] = r.regs[e]
  /\ t.regs[SP] = u.regs[SP] /\ StackFree(t)
  /\ \A a \in Slots : Cell(t, a) = Cell(s, a)
  /\ \A a : a >= SpValue /\ a \notin Slots => Cell(t, a) = Cell(u, a)

LEMMA SimAside ==
  ASSUME Allocated, NEW p \in Nat, NEW s, NEW r, Sim(p, s, r), NEW t, NEW u, Aside(s, r, t, u),
         DefinedVreg(code[p + 1]) = {}, ~FillsScratch(code[p + 1]),
         u.at # Here => IsBranch(code[p + 1])
  PROVE  Sim(p + 1, t, u)
<1>1. {FP, SP, REG_X0, SCRATCH0} \subseteq PhysicalRegs BY PhysicalNumbers
<1>2. FP \notin Scratches \cup {SP} /\ REG_X0 \notin Scratches \cup {SP} BY DEF Scratches, FP, SP, REG_X0, SCRATCH0, SCRATCH1
<1>3. t.regs[FP] = FpValue /\ u.regs[FP] = FpValue BY <1>1, <1>2 DEF Aside, Sim
<1>4. t.regs[REG_X0] = u.regs[REG_X0] BY <1>1, <1>2 DEF Aside, Sim
<1>5. ASSUME NEW v, Current(p + 1, v) PROVE Found(t, v) = u.regs[v]
 <2>1. v \in Vregs BY <1>5 DEF Current
 <2>2. Current(p, v)
  <3>1. v \notin DefinedVreg(code[p + 1]) OBVIOUS
  <3> QED BY <1>5, <3>1, CurrentBefore
 <2>3. v \in Virtual /\ Located(v) BY <2>1, VregsVirtual
 <2>4. u.regs[v] = r.regs[v]
  <3>1. v # SP BY <2>3, NumbersOfRegisters DEF Virtual
  <3> QED BY <2>1, <3>1 DEF Aside
 <2>5. Found(t, v) = Found(s, v)
  <3>1. CASE Spilled(v)
   <4>1. FpValue + place[v] \in Slots BY <2>1, <3>1, CurrentPlace
   <4> QED BY <3>1, <4>1 DEF Found, Aside
  <3>2. CASE ~Spilled(v)
   <4>1. MapReg(v) \in Registers BY <2>1, <3>2, CurrentPlace
   <4>2. MapReg(v) \in General /\ MapReg(v) \notin Scratches BY <4>1, NumbersOfRegisters DEF General, Scratches
   <4>3. MapReg(v) # SP BY <4>2, NumbersOfRegisters
   <4>4. MapReg(v) \in PhysicalRegs BY <4>2, PhysicalNumbers
   <4> QED BY <3>2, <4>2, <4>3, <4>4 DEF Found, Aside
  <3> QED BY <3>1, <3>2
 <2> QED BY <2>2, <2>4, <2>5 DEF Sim
<1>6. \A v : Current(p + 1, v) => Found(t, v) = u.regs[v] BY <1>5
<1> QED BY <1>3, <1>4, <1>6 DEF Aside, Sim

(* What has to follow: the rewritten instruction, printed and run, keeps the
   two machines together. *)
Follows(p, s, r) ==
  \E t : Computes(s, RewriteInst(code[p + 1]), t) /\ Sim(p + 1, t, Meaning(r, code[p + 1]))

LEMMA AssignStep ==
  ASSUME Allocated, NEW p \in Nat, p + 1 \in DOMAIN code, NEW s, NEW r, Sim(p, s, r), r.at = Here,
         NEW i, i = code[p + 1], i.dst \in Virtual \cup {REG_X0, SCRATCH0},
         i.op \in {"Mov", "BinOp", "Ldr", "Lea", "Gep"},
         NEW x \in Word, Effect(r, i) = Write(r, i.dst, x),
         NEW t, Delivers(s, RewriteInst(i), i.dst, x, t)
  PROVE  Follows(p, s, r)
<1>1. Sim(p + 1, t, Write(r, i.dst, x)) BY SimAssign
<1>2. Meaning(r, i) = Write(r, i.dst, x) BY DEF Meaning
<1>3. Computes(s, RewriteInst(i), t) BY DEF Delivers, Acts
<1> QED BY <1>1, <1>2, <1>3 DEF Follows

LEMMA MovStep ==
  ASSUME Allocated, NEW p \in Nat, p + 1 \in DOMAIN code, NEW s, NEW r, Sim(p, s, r), r.at = Here,
         code[p + 1] \in Movs(Virtual \cup {REG_X0, SCRATCH0}, Virtual \cup {REG_X0})
  PROVE  Follows(p, s, r)
<1> DEFINE i == code[p + 1]
           D == Virtual \cup {REG_X0, SCRATCH0}
           R == Virtual \cup {REG_X0}
           x == ValueOf(r, i.src) % Modulus(i.size)
<1>1. D \subseteq Virtual \cup General /\ R \subseteq Virtual \cup General BY NumbersOfRegisters
<1>2. /\ i \in Movs(D, R) /\ i.op = "Mov" /\ i.dst \in D /\ i.size \in Sizes
      /\ i.src \in Immediates(Int) \cup InRegisters(R)
      /\ (i.src.kind = "reg" => i.src.val \in R) BY DEF Movs, Immediates, InRegisters
<1>3. RewriteInst(i) = RewriteMov(i) /\ Effect(r, i) = Write(r, i.dst, x) BY <1>2 DEF RewriteInst, Effect
<1>4. i.src.kind = "reg" => i.src.val = REG_X0 \/ Current(p, i.src.val)
 <2>1. ASSUME i.src.kind = "reg", i.src.val # REG_X0 PROVE i.src.val \in UsedVregs(i)
  <3>1. i.src.val \in Virtual BY <1>2, <2>1
  <3>2. IsVReg(i.src.val) BY <3>1 DEF Virtual
  <3> QED BY <1>2, <2>1, <3>2 DEF UsedVregs, OperandRegs
 <2> QED BY <2>1, UsedIsCurrent
<1>5. FoundOperand(s, i.src) = ValueOf(r, i.src) BY <1>4, SameOperand
<1>6. Located(i.dst) /\ (i.src.kind = "reg" => Located(i.src.val))
 <2>1. i.dst \in Virtual => i.dst \in Vregs
  <3>1. i.dst \in Virtual => i.dst \in DefinedVreg(i) BY <1>2 DEF DefinedVreg, Virtual
  <3> QED BY <3>1, VregsPlaced
 <2>2. i.src.kind = "reg" => i.src.val \in Vregs \/ i.src.val = REG_X0 BY <1>4 DEF Current
 <2>3. {REG_X0, SCRATCH0} \subseteq General BY NumbersOfRegisters
 <2> QED BY <1>2, <2>1, <2>2, <2>3, VregsVirtual DEF Located
<1>7. Steady(s) /\ Machine(s, PhysicalRegs) BY SimSteady DEF Sim
<1>8. x \in Word
 <2>1. FoundOperand(s, i.src) \in Int
  <3>1. ASSUME i.src.kind = "reg" PROVE FoundOperand(s, i.src) \in Int
   <4>1. Found(s, i.src.val) \in Int BY <1>6, <1>7, <3>1, FoundWord
   <4> QED BY <3>1, <4>1 DEF FoundOperand
  <3>2. ASSUME i.src.kind # "reg" PROVE FoundOperand(s, i.src) \in Int BY <1>2, <3>2 DEF FoundOperand, Immediates, InRegisters
  <3> QED BY <3>1, <3>2
 <2> QED BY <1>2, <1>5, <2>1, WordFacts
<1> HIDE DEF i, D, R
<1>9. PICK t : Delivers(s, RewriteMov(i), i.dst, FoundOperand(s, i.src) % Modulus(i.size), t) BY <1>1, <1>2, <1>6, <1>7, MovRuns
<1>10. Delivers(s, RewriteInst(i), i.dst, x, t) BY <1>3, <1>5, <1>9
<1> HIDE DEF x
<1>11. i = code[p + 1] /\ i.dst \in Virtual \cup {REG_X0, SCRATCH0} BY <1>2 DEF i, D
<1> QED BY <1>2, <1>3, <1>8, <1>10, <1>11, AssignStep
-----------------------------------------------------------------------------
LEMMA WordOfSize == ASSUME NEW n \in Sizes, NEW x \in 0 .. Modulus(n) - 1 PROVE x \in Word
BY WordFacts

LEMMA CurrentFound ==
  ASSUME Allocated, NEW p, NEW s, NEW r, Sim(p, s, r), NEW v, Current(p, v)
  PROVE  Found(s, v) = r.regs[v] /\ Found(s, v) \in Int /\ Found(s, v) \in Word
<1>1. v \in Vregs BY DEF Current
<1>2. Located(v) BY <1>1, VregsVirtual
<1>3. Machine(s, PhysicalRegs) BY DEF Sim
<1>4. Found(s, v) \in Word /\ Found(s, v) \in Int BY <1>2, <1>3, FoundWord
<1>5. Found(s, v) = r.regs[v] BY DEF Sim
<1> QED BY <1>4, <1>5

LEMMA CurrentOperand ==
  ASSUME Allocated, NEW p, NEW s, NEW r, Sim(p, s, r), NEW I, I \subseteq Int,
         NEW o \in Immediates(I) \cup InRegisters(Virtual), o.kind = "reg" => Current(p, o.val)
  PROVE  FoundOperand(s, o) = ValueOf(r, o) /\ FoundOperand(s, o) \in Int
<1>1. FoundOperand(s, o) = ValueOf(r, o) BY SameOperand
<1>2. CASE o.kind = "reg"
 <2>1. Found(s, o.val) \in Int BY <1>2, CurrentFound
 <2> QED BY <1>1, <1>2, <2>1 DEF FoundOperand
<1>3. CASE o.kind # "reg" BY <1>1, <1>3 DEF FoundOperand, Immediates, InRegisters
<1> QED BY <1>2, <1>3

LEMMA BinOpStep ==
  ASSUME Allocated, NEW p \in Nat, p + 1 \in DOMAIN code, NEW s, NEW r, Sim(p, s, r), r.at = Here,
         code[p + 1] \in BinOps(Virtual)
  PROVE  Follows(p, s, r)
<1> DEFINE i == code[p + 1]
           x == Arith(i.binop, r.regs[i.lhs], ValueOf(r, i.rhs), i.size)
<1>1. /\ i \in BinOps(Virtual) /\ i.op = "BinOp" /\ i.dst \in Virtual /\ i.lhs \in Virtual /\ i.size \in Sizes
      /\ i.rhs \in Immediates(Int) \cup InRegisters(Virtual) /\ i.binop \in ArithOps
      /\ (i.rhs.kind = "reg" => i.rhs.val \in Virtual) BY DEF BinOps, Immediates, InRegisters
<1>2. RewriteInst(i) = RewriteBinop(i) /\ Effect(r, i) = Write(r, i.dst, x) BY <1>1 DEF RewriteInst, Effect
<1>3. UsedVregs(i) = {v \in {i.lhs} \cup OperandRegs(i.rhs) : IsVReg(v)} BY <1>1 DEF UsedVregs
<1>4. Current(p, i.lhs) /\ (i.rhs.kind = "reg" => Current(p, i.rhs.val))
 <2>1. i.lhs \in UsedVregs(i) BY <1>1, <1>3 DEF Virtual
 <2>2. i.rhs.kind = "reg" => i.rhs.val \in UsedVregs(i) BY <1>1, <1>3 DEF Virtual, OperandRegs
 <2> QED BY <2>1, <2>2, UsedIsCurrent
<1>5. PlacedRegs(Concerns(i)) BY VregsPlaced
<1>6. Steady(s) BY SimSteady
<1> HIDE DEF i
<1>7. Found(s, i.lhs) = r.regs[i.lhs] /\ Found(s, i.lhs) \in Int BY <1>4, CurrentFound
<1>8. Int \subseteq Int OBVIOUS
<1>9. FoundOperand(s, i.rhs) = ValueOf(r, i.rhs) /\ FoundOperand(s, i.rhs) \in Int BY <1>1, <1>4, <1>8, CurrentOperand
<1>10. x \in Word
 <2>1. x \in 0 .. Modulus(i.size) - 1 BY <1>1, <1>7, <1>9, ArithFacts
 <2> HIDE DEF x
 <2> QED BY <1>1, <2>1, WordOfSize
<1>11. PICK t : Delivers(s, RewriteBinop(i), i.dst,
                         Arith(i.binop, Found(s, i.lhs), FoundOperand(s, i.rhs), i.size), t) BY <1>1, <1>5, <1>6, BinOpRuns
<1>12. Delivers(s, RewriteInst(i), i.dst, x, t) BY <1>2, <1>7, <1>9, <1>11
<1> HIDE DEF x
<1>13. i = code[p + 1] /\ i.dst \in Virtual \cup {REG_X0, SCRATCH0} BY <1>1 DEF i
<1> QED BY <1>1, <1>2, <1>10, <1>12, <1>13, AssignStep

LEMMA GepStep ==
  ASSUME Allocated, NEW p \in Nat, p + 1 \in DOMAIN code, NEW s, NEW r, Sim(p, s, r), r.at = Here,
         code[p + 1] \in Geps(Virtual)
  PROVE  Follows(p, s, r)
<1> DEFINE i == code[p + 1]
           y == Signed(ValueOf(r, i.index), W32)
           x == (r.regs[i.base] + Signed(ValueOf(r, i.index), W32) * i.scale) % Modulus(X64)
<1>1. /\ i \in Geps(Virtual) /\ i.op = "Gep" /\ i.dst \in Virtual /\ i.base \in Virtual /\ i.scale \in Nat
      /\ i.index \in Immediates(I32Values) \cup InRegisters(Virtual)
      /\ (i.index.kind = "reg" => i.index.val \in Virtual) BY DEF Geps, Immediates, InRegisters
<1>2. RewriteInst(i) = RewriteGep(i) /\ Effect(r, i) = Write(r, i.dst, x) BY <1>1 DEF RewriteInst, Effect
<1>3. UsedVregs(i) = {v \in {i.base} \cup OperandRegs(i.index) : IsVReg(v)} BY <1>1 DEF UsedVregs
<1>4. Current(p, i.base) /\ (i.index.kind = "reg" => Current(p, i.index.val))
 <2>1. i.base \in UsedVregs(i) BY <1>1, <1>3 DEF Virtual
 <2>2. i.index.kind = "reg" => i.index.val \in UsedVregs(i) BY <1>1, <1>3 DEF Virtual, OperandRegs
 <2> QED BY <2>1, <2>2, UsedIsCurrent
<1>5. PlacedRegs(Concerns(i)) BY VregsPlaced
<1>6. Steady(s) /\ StackFree(s) BY SimSteady
<1> HIDE DEF i
<1>7. Found(s, i.base) = r.regs[i.base] /\ Found(s, i.base) \in Int BY <1>4, CurrentFound
<1>8. I32Values \subseteq Int /\ W32 \in Sizes /\ X64 \in Sizes BY DEF I32Values, Sizes
<1>9. FoundOperand(s, i.index) = ValueOf(r, i.index) /\ FoundOperand(s, i.index) \in Int BY <1>1, <1>4, <1>8, CurrentOperand
<1>10. x \in Word
 <2>1. y \in Int BY <1>8, <1>9, SignedFacts
 <2>2. x = (r.regs[i.base] + y * i.scale) % Modulus(X64) OBVIOUS
 <2> HIDE DEF x, y
 <2> DEFINE z == r.regs[i.base] + y * i.scale
 <2>3. z \in Int BY <1>1, <1>7, <2>1
 <2> HIDE DEF z
 <2>4. z % Modulus(X64) \in Word BY <1>8, <2>3, WordFacts
 <2> QED BY <2>2, <2>4 DEF z
<1>11. PICK t : Delivers(s, RewriteGep(i), i.dst,
                  (Found(s, i.base) + Signed(FoundOperand(s, i.index), W32) * i.scale) % Modulus(X64), t)
  BY <1>1, <1>5, <1>6, GepRuns
<1>12. Delivers(s, RewriteInst(i), i.dst, x, t) BY <1>2, <1>7, <1>9, <1>11
<1> HIDE DEF x
<1>13. i = code[p + 1] /\ i.dst \in Virtual \cup {REG_X0, SCRATCH0} BY <1>1 DEF i
<1> QED BY <1>1, <1>2, <1>10, <1>12, <1>13, AssignStep
-----------------------------------------------------------------------------
LEMMA CurrentAddress ==
  ASSUME Allocated, NEW p, NEW s, NEW r, Sim(p, s, r), NEW a \in VAddress,
         a.kind # "global" /\ a.base \in Virtual => Current(p, a.base)
  PROVE  FoundAddress(s, a) = AddressOf(r, a) /\ AddressOf(r, a) \in Word
<1>1. a.kind # "global" => a.base \in {FP, SP} \cup Virtual /\ a.offset \in Int BY DEF VAddress, OffBase, AtSymbol
<1>2. a.kind = "global" => a.offset \in Word BY DEF VAddress, OffBase, AtSymbol, Word
<1>3. a.kind # "global" => a.base \in {FP, SP} \/ Current(p, a.base) BY <1>1
<1>4. FoundAddress(s, a) = AddressOf(r, a) BY <1>3, SameAddress
<1> DEFINE R == PhysicalRegs \cup Vregs
<1>5. Machine(r, R) BY DEF Sim
<1>6. a.kind # "global" => a.base \in R
 <2>1. {FP, SP} \subseteq PhysicalRegs BY PhysicalNumbers
 <2> QED BY <1>3, <2>1 DEF Current
<1> HIDE DEF R
<1>7. AddressOf(r, a) \in Word BY <1>1, <1>2, <1>5, <1>6, AddressPlain
<1> QED BY <1>4, <1>7

LEMMA LdrStep ==
  ASSUME Allocated, NEW p \in Nat, p + 1 \in DOMAIN code, NEW s, NEW r, Sim(p, s, r), r.at = Here,
         code[p + 1] \in Ldrs(Virtual), OwnAccess(r, code[p + 1])
  PROVE  Follows(p, s, r)
<1> DEFINE i == code[p + 1]
           x == Fetch(r, AddressOf(r, i.addr), i.size)
<1>1. /\ i \in Ldrs(Virtual) /\ i.op = "Ldr" /\ i.dst \in Virtual /\ i.size \in Sizes
      /\ i.addr \in VAddress BY DEF Ldrs, VAddress, OffBase
<1>2. RewriteInst(i) = RewriteLdr(i) /\ Effect(r, i) = Write(r, i.dst, x) BY <1>1 DEF RewriteInst, Effect
<1>3. i.addr.kind # "global" /\ i.addr.base \in Virtual => Current(p, i.addr.base)
 <2>1. i.addr.kind # "global" /\ i.addr.base \in Virtual => i.addr.base \in UsedVregs(i)
   BY <1>1 DEF UsedVregs, AddrRegs, Virtual
 <2> QED BY <2>1, UsedIsCurrent
<1>4. PlacedRegs(Concerns(i)) BY VregsPlaced
<1>5. Steady(s) BY SimSteady
<1>6. AddressOf(r, i.addr) >= SpValue /\ AddressOf(r, i.addr) \notin Slots BY <1>1 DEF OwnAccess
<1> HIDE DEF i
<1>7. FoundAddress(s, i.addr) = AddressOf(r, i.addr) /\ AddressOf(r, i.addr) \in Word BY <1>1, <1>3, CurrentAddress
<1>8. Fetch(s, AddressOf(r, i.addr), i.size) = x
 <2>1. Cell(s, AddressOf(r, i.addr)) = Cell(r, AddressOf(r, i.addr)) BY <1>6 DEF Sim
 <2> QED BY <2>1, FetchAlike
<1>9. x \in Word
 <2> DEFINE a == AddressOf(r, i.addr)
            n == i.size
            R == PhysicalRegs \cup Vregs
 <2>1. Machine(r, R) /\ a \in Word /\ n \in Sizes BY <1>1, <1>7 DEF Sim
 <2> HIDE DEF a, n, R
 <2>2. Fetch(r, a, n) \in Word BY <2>1, FetchWords
 <2> QED BY <2>2 DEF a, n
<1>10. PICK t : Delivers(s, RewriteLdr(i), i.dst, Fetch(s, FoundAddress(s, i.addr), i.size), t) BY <1>1, <1>4, <1>5, LdrRuns
<1>11. Delivers(s, RewriteInst(i), i.dst, x, t) BY <1>2, <1>7, <1>8, <1>10
<1> HIDE DEF x
<1>12. i = code[p + 1] /\ i.dst \in Virtual \cup {REG_X0, SCRATCH0} BY <1>1 DEF i
<1> QED BY <1>1, <1>2, <1>9, <1>11, <1>12, AssignStep

LEMMA LeaStep ==
  ASSUME Allocated, NEW p \in Nat, p + 1 \in DOMAIN code, NEW s, NEW r, Sim(p, s, r), r.at = Here,
         code[p + 1] \in Leas(Virtual, Virtual \cup {REG_X0, SCRATCH0})
  PROVE  Follows(p, s, r)
<1> DEFINE i == code[p + 1]
           D == Virtual \cup {REG_X0, SCRATCH0}
           x == AddressOf(r, i.addr)
<1>1. /\ i \in Leas(Virtual, D) /\ i.op = "Lea" /\ i.dst \in D /\ i.addr \in VAddress
      /\ D \subseteq Virtual \cup General /\ Virtual \subseteq Virtual BY NumbersOfRegisters DEF Leas, VAddress, OffBase
<1>2. RewriteInst(i) = RewriteLea(i) /\ Effect(r, i) = Write(r, i.dst, x) BY <1>1 DEF RewriteInst, Effect
<1>3. i.addr.kind # "global" /\ i.addr.base \in Virtual => Current(p, i.addr.base)
 <2>1. i.addr.kind # "global" /\ i.addr.base \in Virtual => i.addr.base \in UsedVregs(i)
   BY <1>1 DEF UsedVregs, AddrRegs, Virtual
 <2> QED BY <2>1, UsedIsCurrent
<1>4. Located(i.dst)
 <2>1. i.dst \in Virtual => i.dst \in DefinedVreg(i) BY <1>1 DEF DefinedVreg, Virtual
 <2>2. i.dst \in Virtual => i.dst \in Vregs BY <2>1, VregsPlaced
 <2>3. {REG_X0, SCRATCH0} \subseteq General BY NumbersOfRegisters
 <2> QED BY <1>1, <2>2, <2>3, VregsVirtual DEF Located
<1>5. i.addr.kind # "global" /\ i.addr.base \in Virtual => Located(i.addr.base) BY <1>3, VregsVirtual DEF Current
<1>6. Steady(s) BY SimSteady
<1> HIDE DEF i, D
<1>7. FoundAddress(s, i.addr) = x /\ x \in Word BY <1>1, <1>3, CurrentAddress
<1>8. PICK t : Delivers(s, RewriteLea(i), i.dst, FoundAddress(s, i.addr), t) BY <1>1, <1>4, <1>5, <1>6, LeaRuns
<1>9. Delivers(s, RewriteInst(i), i.dst, x, t) BY <1>2, <1>7, <1>8
<1> HIDE DEF x
<1>10. i = code[p + 1] /\ i.dst \in Virtual \cup {REG_X0, SCRATCH0} BY <1>1 DEF i, D
<1> QED BY <1>1, <1>2, <1>7, <1>9, <1>10, AssignStep
-----------------------------------------------------------------------------
LEMMA AsideStep ==
  ASSUME Allocated, NEW p \in Nat, NEW s, NEW r, Sim(p, s, r), r.at = Here,
         NEW i, i = code[p + 1], i.op \in {"Cmp", "Str", "SubSp", "AddSp", "BCond", "B", "Ret"},
         NEW t, Computes(s, RewriteInst(i), t), Aside(s, r, t, Effect(r, i)),
         Effect(r, i).at # Here => IsBranch(i)
  PROVE  Follows(p, s, r)
<1> DEFINE u == Effect(r, i)
<1>1. Meaning(r, i) = u BY DEF Meaning
<1>2. DefinedVreg(i) = {} /\ ~FillsScratch(i) BY DEF DefinedVreg, FillsScratch
<1>3. Aside(s, r, t, u) /\ (u.at # Here => IsBranch(i)) OBVIOUS
<1> HIDE DEF u
<1>4. Sim(p + 1, t, u) BY <1>2, <1>3, SimAside
<1> QED BY <1>1, <1>4 DEF Follows

LEMMA StackKept ==
  ASSUME NEW p, NEW s, NEW r, Sim(p, s, r), NEW t, NEW u, t.regs[SP] = s.regs[SP], u.regs[SP] = r.regs[SP]
  PROVE  t.regs[SP] = u.regs[SP] /\ StackFree(t)
BY DEF Sim, StackFree

LEMMA CmpStep ==
  ASSUME Allocated, NEW p \in Nat, p + 1 \in DOMAIN code, NEW s, NEW r, Sim(p, s, r), r.at = Here,
         code[p + 1] \in Cmps(Virtual)
  PROVE  Follows(p, s, r)
<1> DEFINE i == code[p + 1]
           f == Flags(r.regs[i.lhs], ValueOf(r, i.rhs), i.size)
           u == Effect(r, i)
           R == PhysicalRegs \cup Vregs
<1>1. /\ i \in Cmps(Virtual) /\ i.op = "Cmp" /\ i.lhs \in Virtual /\ i.size \in Sizes
      /\ i.rhs \in Immediates(Int) \cup InRegisters(Virtual)
      /\ (i.rhs.kind = "reg" => i.rhs.val \in Virtual) BY DEF Cmps, Immediates, InRegisters
<1>2. RewriteInst(i) = RewriteCmp(i) /\ u = [r EXCEPT !.flags = f] BY <1>1 DEF RewriteInst, Effect
<1>3. UsedVregs(i) = {v \in {i.lhs} \cup OperandRegs(i.rhs) : IsVReg(v)} BY <1>1 DEF UsedVregs
<1>4. Current(p, i.lhs) /\ (i.rhs.kind = "reg" => Current(p, i.rhs.val))
 <2>1. i.lhs \in UsedVregs(i) BY <1>1, <1>3 DEF Virtual
 <2>2. i.rhs.kind = "reg" => i.rhs.val \in UsedVregs(i) BY <1>1, <1>3 DEF Virtual, OperandRegs
 <2> QED BY <2>1, <2>2, UsedIsCurrent
<1>5. PlacedRegs(Concerns(i)) BY VregsPlaced
<1>6. Steady(s) BY SimSteady
<1> HIDE DEF i
<1>7. Found(s, i.lhs) = r.regs[i.lhs] BY <1>4, CurrentFound
<1>8. Int \subseteq Int OBVIOUS
<1>9. FoundOperand(s, i.rhs) = ValueOf(r, i.rhs) BY <1>1, <1>4, <1>8, CurrentOperand
<1>10. PICK t : Judges(s, RewriteCmp(i), Flags(Found(s, i.lhs), FoundOperand(s, i.rhs), i.size), t) BY <1>1, <1>5, <1>6, CmpRuns
<1>11. Judges(s, RewriteInst(i), f, t) BY <1>2, <1>7, <1>9, <1>10
<1>12. Machine(r, R) BY DEF Sim
<1> HIDE DEF f, R
<1> DEFINE w == [r EXCEPT !.flags = f]
<1>13. Machine(w, R) /\ w.regs = r.regs /\ w.at = r.at /\ w.flags = f /\ \A y : Cell(w, y) = Cell(r, y)
 <2>1. Machine(w, R) BY <1>12, Compared
 <2>2. w.regs = r.regs /\ w.at = r.at BY <1>12, Compared
 <2>3. w.flags = f BY <1>12, Compared
 <2>4. \A y : Cell(w, y) = Cell(r, y) BY <1>12, Compared
 <2> QED BY <2>1, <2>2, <2>3, <2>4
<1>14. u = w BY <1>2
<1> HIDE DEF u, w
<1>15. Machine(u, R) /\ u.regs = r.regs /\ u.at = r.at /\ u.flags = f /\ \A y : Cell(u, y) = Cell(r, y) BY <1>13, <1>14
<1>16. SP \in PhysicalRegs \ Scratches BY PhysicalNumbers DEF Scratches, SP, SCRATCH0, SCRATCH1
<1>17. t.regs[SP] = s.regs[SP] /\ u.regs[SP] = r.regs[SP] BY <1>11, <1>15, <1>16 DEF Judges
<1>18. t.regs[SP] = u.regs[SP] /\ StackFree(t) BY <1>17, StackKept
<1>19. t.at = u.at /\ u.at = Here /\ t.flags = u.flags BY <1>11, <1>15 DEF Judges, Sim
<1>20. \A a : a >= SpValue /\ a \notin Slots => Cell(t, a) = Cell(u, a) BY <1>11, <1>15 DEF Judges, Sim
<1>21. Aside(s, r, t, u) BY <1>11, <1>15, <1>18, <1>19, <1>20 DEF Aside, Judges, R
<1>22. Computes(s, RewriteInst(i), t) BY <1>11 DEF Judges
<1>23. i = code[p + 1] BY DEF i
<1>24. Aside(s, r, t, Effect(r, i)) /\ Effect(r, i).at = Here BY <1>19, <1>21 DEF u
<1> QED BY <1>1, <1>22, <1>23, <1>24, AsideStep

LEMMA StrStep ==
  ASSUME Allocated, NEW p \in Nat, p + 1 \in DOMAIN code, NEW s, NEW r, Sim(p, s, r), r.at = Here,
         code[p + 1] \in Strs(Virtual, Virtual \cup {SCRATCH0}), OwnAccess(r, code[p + 1])
  PROVE  Follows(p, s, r)
<1> DEFINE i == code[p + 1]
           x == AddressOf(r, i.addr)
           v == Read(r, i.src, i.size)
           u == Effect(r, i)
           R == PhysicalRegs \cup Vregs
           X == {x}
<1>1. /\ i \in Strs(Virtual, Virtual \cup {SCRATCH0}) /\ i.op = "Str" /\ i.src \in Virtual \cup {SCRATCH0}
      /\ i.size \in Sizes /\ i.addr \in VAddress BY DEF Strs, VAddress, OffBase
<1>2. RewriteInst(i) = RewriteStr(i) /\ u = StoreCell(r, x, v) BY <1>1 DEF RewriteInst, Effect
<1>3. i.addr.kind # "global" /\ i.addr.base \in Virtual => Current(p, i.addr.base)
 <2>1. i.addr.kind # "global" /\ i.addr.base \in Virtual => i.addr.base \in UsedVregs(i)
   BY <1>1 DEF UsedVregs, AddrRegs, Virtual
 <2> QED BY <2>1, UsedIsCurrent
<1>4. PlacedRegs(Concerns(i)) /\ i \in VInsts BY VregsPlaced
<1>5. ReadsScratch(i) => i.addr \in OffBase({SP}, Int) BY <1>4 DEF VInsts
<1>6. Steady(s) BY SimSteady
<1>7. x \notin Slots BY <1>1 DEF OwnAccess
<1>8. Found(s, i.src) = r.regs[i.src] /\ r.regs[i.src] \in Int
 <2>1. CASE i.src \in Virtual
  <3>1. i.src \in UsedVregs(i) BY <1>1, <2>1 DEF UsedVregs, Virtual
  <3>2. Current(p, i.src) BY <3>1, UsedIsCurrent
  <3> QED BY <3>2, CurrentFound
 <2>2. CASE i.src = SCRATCH0
  <3>1. ReadsScratch(i) BY <1>1, <2>2 DEF ReadsScratch
  <3>2. p > 0 /\ FillsScratch(code[(p + 1) - 1]) BY <3>1 DEF Allocated, Piece, ScratchReady
  <3>3. (p + 1) - 1 = p OBVIOUS
  <3>4. s.regs[SCRATCH0] = r.regs[SCRATCH0] BY <3>2, <3>3 DEF Sim
  <3>5. Found(s, SCRATCH0) = s.regs[SCRATCH0] BY NumbersOfRegisters DEF Found, Spilled, MapReg
  <3>6. SCRATCH0 \in R BY PhysicalNumbers
  <3>7. Machine(r, R) BY DEF Sim
  <3> HIDE DEF R
  <3>8. r.regs[SCRATCH0] \in Int BY <3>6, <3>7, RegisterWords
  <3> QED BY <2>2, <3>4, <3>5, <3>8
 <2> QED BY <1>1, <2>1, <2>2
<1> HIDE DEF i
<1>9. FoundAddress(s, i.addr) = x /\ x \in Word BY <1>1, <1>3, CurrentAddress
<1>10. Found(s, i.src) % Modulus(i.size) = v /\ v \in Word
 <2>1. v = r.regs[i.src] % Modulus(i.size) BY DEF Read
 <2> HIDE DEF v
 <2>2. v \in Word BY <1>1, <1>8, <2>1, WordFacts
 <2> QED BY <1>8, <2>1, <2>2
<1>11. PICK t : Deposits(s, RewriteStr(i), FoundAddress(s, i.addr), Found(s, i.src) % Modulus(i.size), t)
  BY <1>1, <1>4, <1>5, <1>6, StrRuns
<1>12. Deposits(s, RewriteInst(i), x, v, t) BY <1>2, <1>9, <1>10, <1>11
<1>13. Acts(s, RewriteInst(i), Scratches, X, t) /\ Cell(t, x) = v BY <1>12 DEF Deposits
<1>14. Machine(r, R) BY DEF Sim
<1> HIDE DEF v, x, R
<1> DEFINE w == StoreCell(r, x, v)
<1>15. /\ Machine(w, R) /\ w.regs = r.regs /\ w.flags = r.flags /\ w.at = r.at /\ Cell(w, x) = v
       /\ \A y : y # x => Cell(w, y) = Cell(r, y) BY <1>9, <1>10, <1>14, Stored
<1>16. u = w BY <1>2
<1> HIDE DEF u, w
<1>17. /\ Machine(u, R) /\ u.regs = r.regs /\ u.flags = r.flags /\ u.at = r.at /\ Cell(u, x) = v
       /\ \A y : y # x => Cell(u, y) = Cell(r, y) BY <1>15, <1>16
<1>18. /\ Computes(s, RewriteInst(i), t) /\ Machine(t, PhysicalRegs) /\ t.flags = s.flags /\ t.at = s.at
       /\ \A e \in PhysicalRegs \ Scratches : t.regs[e] = s.regs[e]
       /\ \A a : a # x => Cell(t, a) = Cell(s, a) BY <1>13 DEF Acts, Kept
<1>19. SP \in PhysicalRegs \ Scratches BY PhysicalNumbers DEF Scratches, SP, SCRATCH0, SCRATCH1
<1>20. t.regs[SP] = s.regs[SP] /\ u.regs[SP] = r.regs[SP] BY <1>17, <1>18, <1>19
<1>21. t.regs[SP] = u.regs[SP] /\ StackFree(t) BY <1>20, StackKept
<1>22. t.at = u.at /\ u.at = Here /\ t.flags = u.flags BY <1>17, <1>18 DEF Sim
<1>23. \A a \in Slots : Cell(t, a) = Cell(s, a) BY <1>7, <1>18
<1>24. ASSUME NEW a, a >= SpValue, a \notin Slots PROVE Cell(t, a) = Cell(u, a)
 <2>1. CASE a = x BY <1>13, <1>17, <2>1
 <2>2. CASE a # x
  <3>1. Cell(s, a) = Cell(r, a) BY <1>24 DEF Sim
  <3> QED BY <1>17, <1>18, <2>2, <3>1
 <2> QED BY <2>1, <2>2
<1>25. Aside(s, r, t, u) BY <1>17, <1>18, <1>21, <1>22, <1>23, <1>24 DEF Aside, R
<1>26. i = code[p + 1] BY DEF i
<1>27. Aside(s, r, t, Effect(r, i)) /\ Effect(r, i).at = Here BY <1>22, <1>25 DEF u
<1> QED BY <1>1, <1>18, <1>26, <1>27, AsideStep
-----------------------------------------------------------------------------
LEMMA SlotsNotBelow == ASSUME Allocated PROVE \A a \in Slots : a \notin Below
<1>1. ASSUME NEW a \in Slots PROVE a \notin Below
 <2>1. PICK v \in Vregs : place[v] < 0 /\ a = FpValue + place[v] BY <1>1 DEF Slots
 <2>2. Spilled(v) BY <2>1, CurrentPlace
 <2>3. place[v] \in Frame BY <2>1, <2>2, CurrentPlace
 <2> QED BY <2>1, <2>3, SlotPlace
<1> QED BY <1>1

LEMMA SpStep ==
  ASSUME Allocated, NEW p \in Nat, p + 1 \in DOMAIN code, NEW s, NEW r, Sim(p, s, r), r.at = Here,
         code[p + 1] \in SpMoves, OwnAccess(r, code[p + 1])
  PROVE  Follows(p, s, r)
<1> DEFINE i == code[p + 1]
           z == r.regs[SP]
           k == i.imm
           v == IF i.op = "SubSp" THEN z - k ELSE z + k
           u == Effect(r, i)
           R == PhysicalRegs \cup Vregs
           Q == Scratches \cup {SP}
<1>1. i \in SpMoves /\ i.op \in {"SubSp", "AddSp"} /\ k \in Nat BY DEF SpMoves
<1>2. RewriteInst(i) = <<i>> BY <1>1 DEF RewriteInst
<1>3. z = s.regs[SP] /\ z \in ScratchSpillSlot .. SpValue BY DEF Sim, StackFree
<1>4. /\ ScratchSpillSlot \in Nat \ {0} /\ SpValue \in Nat /\ FpValue \in Nat
      /\ SpValue <= FpValue /\ FpValue < Modulus(X64) /\ Modulus(X64) \in Nat
  BY SpillSlotAssumption, FrameAssumption, ModulusFacts
<1>5. (i.op = "SubSp" => ScratchSpillSlot <= z - k) /\ (i.op = "AddSp" => z + k <= SpValue) BY DEF OwnAccess
<1>6. (i.op = "SubSp" => v = z - k /\ u = Write(r, SP, v)) /\ (i.op = "AddSp" => v = z + k /\ u = Write(r, SP, v))
 <2>1. i.op = "SubSp" => u = Write(r, SP, z - k) BY DEF Effect
 <2>2. i.op = "AddSp" => u = Write(r, SP, z + k) BY DEF Effect
 <2>3. (i.op = "SubSp" => v = z - k) /\ (i.op = "AddSp" => v = z + k) OBVIOUS
 <2> HIDE DEF v, u
 <2> QED BY <2>1, <2>2, <2>3
<1>7. i \in PInsts BY <1>1 DEF PInsts, Insts, SpMoves
<1> HIDE DEF u, v
<1>8. u = Write(r, SP, v) BY <1>1, <1>6
<1> HIDE DEF i, k
<1>9. v \in ScratchSpillSlot .. SpValue
 <2>1. CASE i.op = "SubSp" BY <1>1, <1>3, <1>4, <1>5, <1>6, <2>1
 <2>2. CASE i.op = "AddSp" BY <1>1, <1>3, <1>4, <1>5, <1>6, <2>2
 <2> QED BY <1>1, <2>1, <2>2
<1>10. v \in Word BY <1>4, <1>9 DEF Word
<1>11. Ready(s) BY SimSteady
<1>12. (i.op = "SubSp" => v = s.regs[SP] - i.imm) /\ (i.op = "AddSp" => v = s.regs[SP] + i.imm) BY <1>3, <1>6 DEF k
<1>13. PICK t : Makes(s, EmitInst(i), SP, v, t) BY <1>1, <1>10, <1>11, <1>12, PrintSpMove
<1>14. Does(s, EmitInst(i), Q, Below, t) /\ t.regs[SP] = v BY <1>13 DEF Makes
<1>15. SP \in R /\ Machine(r, R) BY PhysicalNumbers DEF Sim
<1> HIDE DEF Q, R
<1>16. Acts(s, <<i>>, Q, Below, t) BY <1>7, <1>14, ActsOne
<1>17. /\ Computes(s, RewriteInst(i), t) /\ Machine(t, PhysicalRegs) /\ t.flags = s.flags /\ t.at = s.at
       /\ \A e \in PhysicalRegs \ Q : t.regs[e] = s.regs[e]
       /\ \A a : a \notin Below => Cell(t, a) = Cell(s, a) BY <1>2, <1>16 DEF Acts, Kept
<1>18. /\ Machine(u, R) /\ u.regs[SP] = v /\ \A e \in R : e # SP => u.regs[e] = r.regs[e]
       /\ u.flags = r.flags /\ u.at = r.at /\ \A a : Cell(u, a) = Cell(r, a) BY <1>8, <1>10, <1>15, Written
<1>19. t.at = u.at /\ u.at = Here /\ t.flags = u.flags BY <1>17, <1>18 DEF Sim
<1>20. t.regs[SP] = u.regs[SP] /\ StackFree(t) BY <1>9, <1>14, <1>18 DEF StackFree
<1>21. \A a \in Slots : Cell(t, a) = Cell(s, a) BY <1>17, SlotsNotBelow
<1>22. ASSUME NEW a, a >= SpValue, a \notin Slots PROVE Cell(t, a) = Cell(u, a)
 <2>1. a \notin Below BY <1>4, <1>22 DEF Below
 <2> QED BY <1>17, <1>18, <1>22, <2>1 DEF Sim
<1>23. Aside(s, r, t, u) BY <1>17, <1>18, <1>19, <1>20, <1>21, <1>22 DEF Aside, R, Q
<1>24. i = code[p + 1] BY DEF i
<1>25. Aside(s, r, t, Effect(r, i)) /\ Effect(r, i).at = Here BY <1>19, <1>23 DEF u
<1> QED BY <1>1, <1>17, <1>24, <1>25, AsideStep

LEMMA BranchStep ==
  ASSUME Allocated, NEW p \in Nat, p + 1 \in DOMAIN code, NEW s, NEW r, Sim(p, s, r), r.at = Here,
         code[p + 1] \in Branches
  PROVE  Follows(p, s, r)
<1> DEFINE i == code[p + 1]
           t == Effect(s, i)
           u == Effect(r, i)
           R == PhysicalRegs \cup Vregs
<1>1. i \in Branches /\ i.op \in {"BCond", "B", "Ret"} BY DEF Branches
<1>2. RewriteInst(i) = <<i>> BY <1>1 DEF RewriteInst
<1>3. i \in PInsts BY <1>1 DEF PInsts, Insts, Branches
<1>4. (\E x : t = [s EXCEPT !.at = x] /\ u = [r EXCEPT !.at = x]) \/ (t = s /\ u = r)
 <2>1. CASE i.op = "BCond"
  <3>1. s.flags = r.flags BY DEF Sim
  <3> DEFINE b == CondHolds(i.cond, s.flags)
  <3>2. t = IF b THEN [s EXCEPT !.at = i.label] ELSE s BY <2>1 DEF Effect
  <3>3. u = IF b THEN [r EXCEPT !.at = i.label] ELSE r BY <2>1, <3>1 DEF Effect
  <3> HIDE DEF b, t, u
  <3> QED BY <3>2, <3>3
 <2>2. CASE i.op = "B"
  <3>1. t = [s EXCEPT !.at = i.label] /\ u = [r EXCEPT !.at = i.label] BY <2>2 DEF Effect
  <3> QED BY <3>1
 <2>3. CASE i.op = "Ret"
  <3>1. t = [s EXCEPT !.at = Returned] /\ u = [r EXCEPT !.at = Returned] BY <2>3 DEF Effect
  <3> QED BY <3>1
 <2> QED BY <1>1, <2>1, <2>2, <2>3
<1>5. Computes(s, <<i>>, t)
 <2>1. PICK l \in Lines : EmitInst(i) = <<l>> /\ \A e : Execute(e, l) = Effect(e, i) BY <1>1, BranchLine
 <2>2. s.at = Here BY SimSteady
 <2>3. AfterLine(s, l) = t BY <2>1, <2>2 DEF AfterLine
 <2> HIDE DEF t
 <2>4. Runs(s, <<l>>, t) BY <2>3, RunsOne
 <2>5. Runs(s, EmitInst(i), t) BY <2>1, <2>4
 <2> QED BY <1>3, <2>5, ComputesOne
<1>6. Machine(s, PhysicalRegs) /\ Machine(r, R) BY DEF Sim
<1> HIDE DEF t, u, R
<1>7. /\ Machine(t, PhysicalRegs) /\ t.regs = s.regs /\ t.flags = s.flags /\ \A a : Cell(t, a) = Cell(s, a)
      /\ Machine(u, R) /\ u.regs = r.regs /\ u.flags = r.flags /\ \A a : Cell(u, a) = Cell(r, a)
      /\ t.at = u.at
 <2>1. CASE t = s /\ u = r BY <1>6, <2>1 DEF Sim
 <2>2. CASE \E x : t = [s EXCEPT !.at = x] /\ u = [r EXCEPT !.at = x]
  <3>1. PICK x : t = [s EXCEPT !.at = x] /\ u = [r EXCEPT !.at = x] BY <2>2
  <3> DEFINE w == [s EXCEPT !.at = x]
             y == [r EXCEPT !.at = x]
  <3>2. Machine(w, PhysicalRegs) /\ Machine(y, R) BY <1>6, Branched
  <3>3. w.regs = s.regs /\ w.flags = s.flags BY <1>6, Branched
  <3>4. y.regs = r.regs /\ y.flags = r.flags BY <1>6, Branched
  <3>5. w.at = x BY <1>6, Branched
  <3>6. y.at = x BY <1>6, Branched
  <3>7. \A a : Cell(w, a) = Cell(s, a) BY <1>6, Branched
  <3>8. \A a : Cell(y, a) = Cell(r, a) BY <1>6, Branched
  <3>9. t = w /\ u = y BY <3>1
  <3> HIDE DEF w, y
  <3> QED BY <3>2, <3>3, <3>4, <3>5, <3>6, <3>7, <3>8, <3>9
 <2> QED BY <1>4, <2>1, <2>2
<1>8. t.regs[SP] = u.regs[SP] /\ StackFree(t) BY <1>7, StackKept
<1>9. t.flags = u.flags BY <1>7 DEF Sim
<1>10. \A a : a >= SpValue /\ a \notin Slots => Cell(t, a) = Cell(u, a) BY <1>7 DEF Sim
<1>11. Aside(s, r, t, u) BY <1>7, <1>8, <1>9, <1>10 DEF Aside, R
<1>12. IsBranch(i) BY <1>1 DEF IsBranch
<1>13. Computes(s, RewriteInst(i), t) BY <1>2, <1>5
<1>14. Aside(s, r, t, Effect(r, i)) BY <1>11 DEF u
<1> HIDE DEF i
<1>15. i = code[p + 1] BY DEF i
<1> QED BY <1>1, <1>12, <1>13, <1>14, <1>15, AsideStep

(* Behind a branch that was taken there are only branches, and none runs. *)
LEMMA StoppedStep ==
  ASSUME Allocated, NEW p \in Nat, p + 1 \in DOMAIN code, NEW s, NEW r, Sim(p, s, r), r.at # Here
  PROVE  Follows(p, s, r)
<1> DEFINE i == code[p + 1]
<1>1. p > 0 /\ IsBranch(code[p]) BY DEF Sim
<1>2. IsBranch(i) /\ i \in VInsts
 <2>1. BranchesLast(code) /\ code \in Seq(VInsts) BY DEF Allocated, Piece
 <2>2. p \in DOMAIN code /\ p < p + 1 BY <1>1, <2>1
 <2>3. IsBranch(i) BY <1>1, <2>1, <2>2 DEF BranchesLast
 <2> QED BY <2>3, VregsPlaced
<1>3. i \in Branches
 <2>1. i.op \in {"B", "BCond", "Ret"} BY <1>2 DEF IsBranch
 <2> QED BY <1>2, <2>1 DEF VInsts, Insts, Movs, BinOps, Cmps, Ldrs, Strs, Leas, Geps, SpMoves
<1>4. i.op \in {"B", "BCond", "Ret"} BY <1>2 DEF IsBranch
<1>5. RewriteInst(i) = <<i>> BY <1>4 DEF RewriteInst
<1>6. i \in PInsts BY <1>3, <1>4 DEF PInsts, Insts
<1>7. Computes(s, <<i>>, s)
 <2>1. PICK l \in Lines : EmitInst(i) = <<l>> BY <1>3, BranchLine
 <2>2. s.at # Here BY DEF Sim
 <2>3. AfterLine(s, l) = s BY <2>2 DEF AfterLine
 <2>4. Runs(s, <<l>>, s) BY <2>3, RunsOne
 <2>5. Runs(s, EmitInst(i), s) BY <2>1, <2>4
 <2> QED BY <1>6, <2>5, ComputesOne
<1>8. Meaning(r, i) = r BY DEF Meaning
<1>9. DefinedVreg(i) = {} /\ ~FillsScratch(i) BY <1>4 DEF DefinedVreg, FillsScratch
<1>10. Aside(s, r, s, r) BY DEF Aside, Sim
<1>11. Sim(p + 1, s, r) BY <1>2, <1>9, <1>10, SimAside
<1> QED BY <1>5, <1>7, <1>8, <1>11 DEF Follows

LEMMA SimStep ==
  ASSUME Allocated, NEW p \in Nat, p + 1 \in DOMAIN code, NEW s, NEW r, Sim(p, s, r),
         r.at = Here => OwnAccess(r, code[p + 1])
  PROVE  Follows(p, s, r)
<1>1. CASE r.at # Here BY <1>1, StoppedStep
<1>2. CASE r.at = Here
 <2> DEFINE i == code[p + 1]
            D == Virtual \cup {REG_X0, SCRATCH0}
            R == Virtual \cup {REG_X0}
 <2>1. i \in VInsts BY VregsPlaced
 <2>2. CASE i \in Movs(D, R) BY <1>2, <2>2, MovStep
 <2>3. CASE i \in BinOps(Virtual) BY <1>2, <2>3, BinOpStep
 <2>4. CASE i \in Cmps(Virtual) BY <1>2, <2>4, CmpStep
 <2>5. CASE i \in Ldrs(Virtual) BY <1>2, <2>5, LdrStep
 <2>6. CASE i \in Strs(Virtual, Virtual \cup {SCRATCH0}) BY <1>2, <2>6, StrStep
 <2>7. CASE i \in Leas(Virtual, D) BY <1>2, <2>7, LeaStep
 <2>8. CASE i \in Geps(Virtual) BY <1>2, <2>8, GepStep
 <2>9. CASE i \in SpMoves BY <1>2, <2>9, SpStep
 <2>10. CASE i \in Branches BY <1>2, <2>10, BranchStep
 <2> QED BY <2>1, <2>2, <2>3, <2>4, <2>5, <2>6, <2>7, <2>8, <2>9, <2>10 DEF VInsts, Insts
<1> QED BY <1>1, <1>2
-----------------------------------------------------------------------------
(* The start: the processor holds in their places the values the code is given,
   the machine with virtual registers holds them as they are. *)
ValuesFit == \A v \in DOMAIN vals : vals[v] \in Word

LEMMA OnlyChoice == ASSUME NEW S, NEW x, S = {x} PROVE (CHOOSE v \in S : TRUE) = x
<1>1. \E v \in S : TRUE OBVIOUS
<1>2. (CHOOSE v \in S : TRUE) \in S BY <1>1
<1> QED BY <1>2

LEMMA StartRegs ==
  ASSUME NEW f, NEW r \in PhysicalRegs
  PROVE  /\ Residents(f, r) = {} => StartMachine(f).regs[r] = InitialReg(r)
         /\ \A v : Residents(f, r) = {v} => StartMachine(f).regs[r] = vals[v]
<1> DEFINE g == [e \in PhysicalRegs |-> IF Residents(f, e) = {} THEN InitialReg(e)
                                        ELSE vals[CHOOSE v \in Residents(f, e) : TRUE]]
           S == Residents(f, r)
<1>1. StartMachine(f).regs = g BY DEF StartMachine
<1>2. g[r] = IF S = {} THEN InitialReg(r) ELSE vals[CHOOSE v \in S : TRUE] OBVIOUS
<1> HIDE DEF g, S
<1>3. S = {} => g[r] = InitialReg(r) BY <1>2
<1>4. ASSUME NEW v, S = {v} PROVE g[r] = vals[v]
 <2>1. (CHOOSE x \in S : TRUE) = v BY <1>4, OnlyChoice
 <2>2. g[r] = vals[CHOOSE x \in S : TRUE] BY <1>2, <1>4
 <2> QED BY <2>1, <2>2
<1> QED BY <1>1, <1>3, <1>4 DEF S

LEMMA StartCells ==
  ASSUME Allocated
  PROVE  /\ \A v \in Given : place[v] < 0 => Cell(StartMachine(place), FpValue + place[v]) = vals[v]
         /\ \A a : a \notin Slots => Cell(StartMachine(place), a) = a
         /\ \A a : \/ Cell(StartMachine(place), a) = a
                   \/ \E v \in Given : Cell(StartMachine(place), a) = vals[v]
<1> DEFINE C == {FpValue + place[v] : v \in {w \in Given : place[w] < 0}}
           h == [a \in C |-> vals[CHOOSE v \in Given : FpValue + place[v] = a]]
<1>1. StartMachine(place).mem = h BY DEF StartMachine
<1>2. DOMAIN h = C OBVIOUS
<1>3. Given \subseteq Vregs BY DEF Given
<1>4. \A v \in Vregs : place[v] \in Registers \cup Frame BY CurrentPlace
<1>5. (\A r \in Registers : r \in 0 .. 99) /\ (\A r \in Frame : r < 0 /\ r \in Int) /\ FpValue \in Nat
  BY NumbersOfRegisters, FrameAssumption DEF Frame
<1>6. ASSUME NEW v \in Given, place[v] < 0 PROVE h[FpValue + place[v]] = vals[v] /\ FpValue + place[v] \in C
 <2> DEFINE a == FpValue + place[v]
            w == CHOOSE x \in Given : FpValue + place[x] = a
 <2>1. a \in C BY <1>6
 <2>2. w \in Given /\ FpValue + place[w] = a OBVIOUS
 <2>3. h[a] = vals[w] BY <2>1
 <2>4. w = v
  <3> HIDE DEF w
  <3>1. place[v] \in Int /\ place[w] \in Int BY <1>3, <1>4, <1>5, <2>2
  <3>2. place[w] = place[v] BY <1>5, <2>2, <3>1
  <3> QED BY <1>3, <1>6, <2>2, <3>2 DEF Allocated, Legal
 <2> QED BY <2>1, <2>3, <2>4
<1>7. C \subseteq Slots BY <1>3 DEF Slots
<1>8. \A a \in C : \E v \in Given : a = FpValue + place[v] /\ place[v] < 0 OBVIOUS
<1> DEFINE s == StartMachine(place)
<1>9. s.mem = h BY <1>1
<1> HIDE DEF h, C, s
<1>10. \A a : Cell(s, a) = IF a \in C THEN h[a] ELSE a BY <1>2, <1>9 DEF Cell
<1>11. \A v \in Given : place[v] < 0 => Cell(s, FpValue + place[v]) = vals[v] BY <1>6, <1>10
<1>12. \A a : a \notin Slots => Cell(s, a) = a BY <1>7, <1>10
<1>13. ASSUME NEW a PROVE Cell(s, a) = a \/ \E v \in Given : Cell(s, a) = vals[v]
 <2>1. CASE a \notin C BY <1>10, <2>1
 <2>2. CASE a \in C BY <1>8, <1>11, <2>2
 <2> QED BY <2>1, <2>2
<1> QED BY <1>11, <1>12, <1>13 DEF s

(* A register is the place of at most one value that is given. *)
LEMMA OneResident ==
  ASSUME Allocated, NEW r \in PhysicalRegs
  PROVE  /\ Residents(place, r) = {} \/ \E v \in Given : Residents(place, r) = {v}
         /\ r \notin Registers => Residents(place, r) = {}
         /\ \A v \in Given : place[v] = r => Residents(place, r) = {v}
<1>1. Given \subseteq Vregs BY DEF Given
<1>2. \A v \in Given : place[v] = r => Residents(place, r) = {v}
 <2>1. \A v, w \in Given : place[v] = place[w] => v = w BY DEF Allocated, Legal
 <2> QED BY <2>1 DEF Residents
<1>3. r \notin Registers => Residents(place, r) = {}
 <2>1. r >= 0
  <3>1. \A e \in Registers : e \in 0 .. 99 BY NumbersOfRegisters
  <3>2. r \in Registers \/ r \in {REG_X0, SCRATCH0, SCRATCH1, FP, LR, SP} BY DEF PhysicalRegs
  <3> QED BY <3>1, <3>2 DEF REG_X0, SCRATCH0, SCRATCH1, FP, LR, SP
 <2>2. \A v \in Given : place[v] \in Registers \cup Frame BY <1>1, CurrentPlace
 <2>3. r \in Int /\ \A e \in Frame : e < 0 BY FrameAssumption, PhysicalNumbers DEF Frame
 <2> QED BY <2>1, <2>2, <2>3 DEF Residents
<1>4. Residents(place, r) # {} => \E v \in Given : place[v] = r BY DEF Residents
<1> QED BY <1>2, <1>3, <1>4

LEMMA InitialWords == \A r \in PhysicalRegs : InitialReg(r) \in Word
<1>1. /\ FpValue \in Nat /\ SpValue \in Nat /\ SpValue <= FpValue /\ FpValue < Modulus(X64)
      /\ Modulus(X64) \in Nat /\ Modulus(W32) \in Nat \ {0} /\ Modulus(W32) <= Modulus(X64) BY FrameAssumption, ModulusFacts
<1>2. FpValue \in Word /\ SpValue \in Word BY <1>1 DEF Word
<1>3. ASSUME NEW r \in PhysicalRegs PROVE (r * 7) % Modulus(W32) \in Word
 <2> DEFINE n == Modulus(W32)
            x == r * 7
 <2>1. x \in Int /\ n \in Nat \ {0} BY <1>1, PhysicalNumbers
 <2> HIDE DEF x, n
 <2>2. x % n \in 0 .. n - 1 BY <2>1, ModInRange
 <2>3. n <= Modulus(X64) BY <1>1 DEF n
 <2>4. x % n \in 0 .. Modulus(X64) - 1 BY <1>1, <2>1, <2>2, <2>3
 <2> QED BY <2>4 DEF Word, x, n
<1>4. \A r \in PhysicalRegs : InitialReg(r) \in {FpValue, SpValue, (r * 7) % Modulus(W32)} BY DEF InitialReg
<1> QED BY <1>2, <1>3, <1>4

LEMMA StartProcessor ==
  ASSUME Allocated, ValuesFit, NEW s, s = StartMachine(place)
  PROVE  /\ Machine(s, PhysicalRegs)
         /\ s.flags = "none" /\ s.at = Here
         /\ \A r \in PhysicalRegs \ Registers : s.regs[r] = InitialReg(r)
         /\ \A v \in Given : Found(s, v) = vals[v]
<1>1. Given \subseteq DOMAIN vals /\ Given \subseteq Vregs BY DEF Given
<1>2. \A v \in Given : vals[v] \in Word BY <1>1 DEF ValuesFit
<1>3. s.flags = "none" /\ s.at = Here BY DEF StartMachine
<1>4. \A r \in PhysicalRegs : s.regs[r] \in Word BY <1>2, InitialWords, StartRegs, OneResident
<1>5. \A a \in Word : Cell(s, a) \in Word BY <1>2, StartCells
<1>6. Machine(s, PhysicalRegs)
 <2>1. Formed(s) BY StartFormed
 <2> QED BY <1>4, <1>5, <2>1 DEF Formed, Machine
<1>7. \A r \in PhysicalRegs \ Registers : s.regs[r] = InitialReg(r) BY StartRegs, OneResident
<1>8. ASSUME NEW v \in Given PROVE Found(s, v) = vals[v]
 <2>1. v \in Vregs BY <1>1
 <2>2. CASE Spilled(v)
  <3>1. place[v] < 0 BY <2>1, <2>2, CurrentPlace
  <3>2. Found(s, v) = Cell(s, FpValue + place[v]) BY <2>2 DEF Found
  <3> QED BY <3>1, <3>2, StartCells
 <2>3. CASE ~Spilled(v)
  <3>1. MapReg(v) = place[v] /\ place[v] \in Registers BY <2>1, <2>3, CurrentPlace
  <3>2. place[v] \in PhysicalRegs BY <3>1 DEF PhysicalRegs
  <3>3. Residents(place, place[v]) = {v} BY <3>2, OneResident
  <3>4. s.regs[place[v]] = vals[v] BY <3>2, <3>3, StartRegs
  <3> QED BY <2>3, <3>1, <3>4 DEF Found
 <2> QED BY <2>2, <2>3
<1> QED BY <1>3, <1>6, <1>7, <1>8

LEMMA StartReference ==
  ASSUME Allocated, ValuesFit, NEW r, r = StartRef
  PROVE  /\ Machine(r, PhysicalRegs \cup Vregs)
         /\ r.flags = "none" /\ r.at = Here
         /\ \A e \in PhysicalRegs : r.regs[e] = InitialReg(e)
         /\ \A v \in Given : r.regs[v] = vals[v]
         /\ \A a : Cell(r, a) = a
<1> DEFINE R == PhysicalRegs \cup Vregs
           g == [e \in R |-> IF e \in Given THEN vals[e] ELSE IF IsVReg(e) THEN 0 ELSE InitialReg(e)]
<1>1. Given \subseteq DOMAIN vals /\ Given \subseteq Vregs BY DEF Given
<1>2. r = [regs |-> g, mem |-> <<>>, flags |-> "none", at |-> Here] BY DEF StartRef
<1>3. \A v \in Vregs : IsVReg(v) BY VregNumbers DEF Allocated
<1>4. \A e \in PhysicalRegs : ~IsVReg(e) BY PhysicalNumbers
<1>5. \A v \in Given : g[v] = vals[v] BY <1>1
<1>6. \A e \in PhysicalRegs : g[e] = InitialReg(e) BY <1>1, <1>3, <1>4
<1>7. 0 \in Word
 <2>1. Modulus(X64) \in Nat \ {0} BY ModulusFacts
 <2> QED BY <2>1 DEF Word
<1>8. \A e \in R : g[e] \in Word
 <2>1. \A e \in PhysicalRegs : g[e] \in Word BY <1>6, InitialWords
 <2>2. ASSUME NEW e \in Vregs PROVE g[e] \in Word
  <3>1. CASE e \in Given BY <1>1, <1>5, <3>1 DEF ValuesFit
  <3>2. CASE e \notin Given
   <4>1. g[e] = 0 BY <1>3, <3>2
   <4> QED BY <1>7, <4>1
  <3> QED BY <3>1, <3>2
 <2> QED BY <2>1, <2>2
<1>9. g = [e \in R |-> g[e]] OBVIOUS
<1> HIDE DEF g, R
<1>10. r.regs = g /\ r.flags = "none" /\ r.at = Here /\ r.mem = <<>> BY <1>2
<1>11. DOMAIN <<>> = {} OBVIOUS
<1>12. \A a : Cell(r, a) = a BY <1>10, <1>11 DEF Cell
<1>13. Machine(r, R) BY <1>2, <1>8, <1>9, <1>10, <1>12 DEF Machine
<1> QED BY <1>5, <1>6, <1>10, <1>12, <1>13 DEF R

LEMMA StartSim == Allocated /\ ValuesFit => Sim(0, StartMachine(place), StartRef)
<1> SUFFICES ASSUME Allocated, ValuesFit PROVE Sim(0, StartMachine(place), StartRef) OBVIOUS
<1> DEFINE s == StartMachine(place)
           r == StartRef
<1> HIDE DEF s, r
<1>1. /\ Machine(s, PhysicalRegs) /\ s.flags = "none" /\ s.at = Here
      /\ \A e \in PhysicalRegs \ Registers : s.regs[e] = InitialReg(e)
      /\ \A v \in Given : Found(s, v) = vals[v] BY StartProcessor DEF s
<1>2. /\ Machine(r, PhysicalRegs \cup Vregs) /\ r.flags = "none" /\ r.at = Here
      /\ \A e \in PhysicalRegs : r.regs[e] = InitialReg(e)
      /\ \A v \in Given : r.regs[v] = vals[v]
      /\ \A a : Cell(r, a) = a BY StartReference DEF r
<1>3. \A e \in {FP, SP, REG_X0} : e \in PhysicalRegs \ Registers BY RegistersAssumption DEF PhysicalRegs
<1>4. InitialReg(FP) = FpValue /\ InitialReg(SP) = SpValue BY DEF InitialReg, FP, SP
<1>5. s.regs[FP] = FpValue /\ r.regs[FP] = FpValue /\ s.regs[SP] = r.regs[SP] /\ s.regs[REG_X0] = r.regs[REG_X0]
  BY <1>1, <1>2, <1>3, <1>4
<1>6. StackFree(s)
 <2>1. s.regs[SP] = SpValue BY <1>1, <1>3, <1>4
 <2>2. SpValue \in ScratchSpillSlot .. SpValue BY FrameAssumption, SpillSlotAssumption
 <2> QED BY <2>1, <2>2 DEF StackFree
<1>7. ASSUME NEW v, Current(0, v) PROVE Found(s, v) = r.regs[v]
 <2>1. 1 .. (0 + 1) - 1 = {} OBVIOUS
 <2>2. DefinedBefore(code, 0 + 1) = {} BY <2>1 DEF DefinedBefore
 <2>3. v \in Given BY <1>7, <2>2 DEF Current
 <2> QED BY <1>1, <1>2, <2>3
<1>8. \A a : a \notin Slots => Cell(s, a) = Cell(r, a)
 <2>1. \A a : a \notin Slots => Cell(s, a) = a BY StartCells DEF s
 <2> QED BY <1>2, <2>1
<1>9. Sim(0, s, r) BY <1>1, <1>2, <1>5, <1>6, <1>7, <1>8 DEF Sim
<1> QED BY <1>9 DEF s, r
-----------------------------------------------------------------------------
(* Along the pipeline: when the processor has run the text that waits, and what
   is printed for the rewritten instructions that wait, it stands beside the
   machine with virtual registers behind the p instructions that have been
   rewritten.  A processor that has branched has nothing left to run. *)
Rest(c, p, q) ==
  q \in Seq(VInsts) /\ Len(c) = p + Len(q) /\ \A j \in 1 .. Len(q) : q[j] = c[p + j]
Pipeline(p, q, T, O, s, r) ==
  Rest(code, p, q) /\ \E u, t : Runs(s, T, u) /\ Computes(u, O, t) /\ Sim(p, t, r)
SimInv ==
  located =>
    /\ m.at # Here => insts = <<>> /\ output = <<>> /\ text = <<>>
    /\ \E p \in Nat : Pipeline(p, insts, text, output, m, ref)

LEMMA RestHead ==
  ASSUME NEW c \in Seq(VInsts), NEW p \in Nat, NEW q, Rest(c, p, q), q # <<>>
  PROVE  p + 1 \in DOMAIN c /\ Head(q) = c[p + 1] /\ Rest(c, p + 1, Tail(q))
<1> DEFINE n == Len(q)
           u == Tail(q)
<1>1. q \in Seq(VInsts) /\ Len(c) = p + n /\ \A j \in 1 .. n : q[j] = c[p + j] BY DEF Rest
<1>2. /\ n \in Nat /\ n >= 1 /\ u \in Seq(VInsts) /\ Len(u) = n - 1 /\ Head(q) = q[1]
      /\ \A j \in 1 .. n - 1 : u[j] = q[j + 1] BY <1>1
<1> HIDE DEF n, u
<1>3. DOMAIN c = 1 .. p + n BY <1>1
<1>4. 1 \in 1 .. n /\ p + 1 \in 1 .. p + n BY <1>2
<1>5. Head(q) = c[p + 1] BY <1>1, <1>2, <1>4
<1>6. Len(c) = (p + 1) + Len(u) BY <1>1, <1>2
<1>7. ASSUME NEW j \in 1 .. Len(u) PROVE u[j] = c[(p + 1) + j]
 <2>1. j \in 1 .. n - 1 /\ j + 1 \in 1 .. n /\ p + (j + 1) = (p + 1) + j BY <1>2
 <2>2. u[j] = q[j + 1] /\ q[j + 1] = c[p + (j + 1)] BY <1>1, <1>2, <2>1
 <2> QED BY <2>1, <2>2
<1>8. Rest(c, p + 1, u) BY <1>2, <1>6, <1>7 DEF Rest
<1> QED BY <1>3, <1>4, <1>5, <1>8 DEF u

(* Nothing the simulation speaks of is changed behind the allocation. *)
LEMMA SimUnchanged == ASSUME UNCHANGED <<code, vals, place>> PROVE \A p, s, r : Sim(p, s, r)' <=> Sim(p, s, r)
<1>1. Vregs' = Vregs BY DEF Vregs
<1>2. Given' = Given BY <1>1 DEF Given
<1>3. Slots' = Slots BY <1>1 DEF Slots
<1>4. \A v : Spilled(v)' <=> Spilled(v) BY DEF Spilled
<1>5. \A v : MapReg(v)' = MapReg(v) BY DEF MapReg
<1>6. \A s, v : Found(s, v)' = Found(s, v) BY <1>4, <1>5 DEF Found
<1>7. \A p, v : Current(p, v)' <=> Current(p, v) BY <1>1, <1>2 DEF Current
<1> QED BY <1>1, <1>3, <1>6, <1>7 DEF Sim

LEMMA PipelineUnchanged ==
  ASSUME UNCHANGED <<code, vals, place>>
  PROVE  \A p, q, T, O, s, r : Pipeline(p, q, T, O, s, r)' <=> Pipeline(p, q, T, O, s, r)
BY SimUnchanged DEF Pipeline

LEMMA StartSimNext == (Allocated /\ ValuesFit => Sim(0, StartMachine(place), StartRef))'
BY StartSim, PTL

(* One step of each stage. *)
LEMMA RewriteSim ==
  ASSUME Allocated, NEW p \in Nat, NEW q, NEW T, NEW O, NEW s, NEW r, Pipeline(p, q, T, O, s, r),
         q # <<>>, r.at = Here => OwnAccess(r, Head(q))
  PROVE  Pipeline(p + 1, Tail(q), T, O \o RewriteInst(Head(q)), s, Meaning(r, Head(q)))
<1>1. Rest(code, p, q) /\ code \in Seq(VInsts) BY DEF Pipeline, Allocated
<1>2. PICK u : \E t : Runs(s, T, u) /\ Computes(u, O, t) /\ Sim(p, t, r) BY DEF Pipeline
<1>3. PICK t : Runs(s, T, u) /\ Computes(u, O, t) /\ Sim(p, t, r) BY <1>2
<1>4. p + 1 \in DOMAIN code /\ Head(q) = code[p + 1] /\ Rest(code, p + 1, Tail(q)) BY <1>1, RestHead
<1>5. Follows(p, t, r) BY <1>3, <1>4, SimStep
<1>6. PICK w : Computes(t, RewriteInst(code[p + 1]), w) /\ Sim(p + 1, w, Meaning(r, code[p + 1])) BY <1>5 DEF Follows
<1> DEFINE E == RewriteInst(Head(q))
           z == Meaning(r, Head(q))
<1>7. Computes(t, E, w) /\ Sim(p + 1, w, z) BY <1>4, <1>6
<1> HIDE DEF E, z
<1>8. Computes(u, O \o E, w) BY <1>3, <1>7, ComputesJoin
<1>9. Pipeline(p + 1, Tail(q), T, O \o E, s, z) BY <1>3, <1>4, <1>7, <1>8 DEF Pipeline
<1> QED BY <1>9 DEF E, z

LEMMA PrintSim ==
  ASSUME NEW p, NEW q, NEW T, NEW O, NEW s, NEW r, Pipeline(p, q, T, O, s, r), O # <<>>
  PROVE  Pipeline(p, q, T \o EmitInst(Head(O)), Tail(O), s, r)
<1>1. Rest(code, p, q) BY DEF Pipeline
<1>2. PICK u : \E t : Runs(s, T, u) /\ Computes(u, O, t) /\ Sim(p, t, r) BY DEF Pipeline
<1>3. PICK t : Runs(s, T, u) /\ Computes(u, O, t) /\ Sim(p, t, r) BY <1>2
<1>4. PICK w : Runs(u, EmitInst(Head(O)), w) /\ Computes(w, Tail(O), t) BY <1>3, ComputesHead
<1> DEFINE E == EmitInst(Head(O))
           Q == Tail(O)
<1>5. Runs(u, E, w) /\ Computes(w, Q, t) BY <1>4
<1> HIDE DEF E, Q
<1>6. Runs(s, T \o E, w) BY <1>3, <1>5, RunsJoin
<1>7. Pipeline(p, q, T \o E, Q, s, r) BY <1>1, <1>3, <1>5, <1>6 DEF Pipeline
<1> QED BY <1>7 DEF E, Q

LEMMA RunSim ==
  ASSUME NEW p, NEW q, NEW T, NEW O, NEW s, NEW r, Pipeline(p, q, T, O, s, r), T # <<>>, s.at = Here,
         NEW w, w = Execute(s, Head(T)), NEW U, U = IF w.at = Here THEN Tail(T) ELSE <<>>
  PROVE  Pipeline(p, q, U, O, w, r)
<1>1. Rest(code, p, q) BY DEF Pipeline
<1>2. PICK u : \E t : Runs(s, T, u) /\ Computes(u, O, t) /\ Sim(p, t, r) BY DEF Pipeline
<1>3. PICK t : Runs(s, T, u) /\ Computes(u, O, t) /\ Sim(p, t, r) BY <1>2
<1>4. AfterLine(s, Head(T)) = w BY DEF AfterLine
<1>5. Runs(w, Tail(T), u) BY <1>3, <1>4, RunsHead
<1>6. Runs(w, U, u)
 <2>1. CASE w.at = Here BY <1>5, <2>1
 <2>2. CASE w.at # Here
  <3>1. Tail(T) \in Seq(Lines) BY <1>5 DEF Runs
  <3>2. w = u BY <1>5, <2>2, <3>1, RunsStopped
  <3>3. Runs(w, <<>>, u) BY <3>2, RunsNothing
  <3> QED BY <2>2, <3>3
 <2> QED BY <2>1, <2>2
<1> QED BY <1>1, <1>3, <1>6 DEF Pipeline

LEMMA AllocateSim ==
  ASSUME NEW c \in Seq(VInsts), NEW s, NEW r PROVE Rest(c, 0, c) /\ Runs(s, <<>>, s) /\ Computes(s, <<>>, s)
<1>1. Rest(c, 0, c)
 <2>1. Len(c) \in Nat OBVIOUS
 <2>2. Len(c) = 0 + Len(c) /\ \A j \in 1 .. Len(c) : c[j] = c[0 + j] BY <2>1
 <2> QED BY <2>2 DEF Rest
<1> QED BY <1>1, RunsNothing, ComputesNothing

LEMMA SimInvStep ==
  CodeInv /\ LinesInv /\ CodeInv' /\ LinesInv' /\ SimInv /\ KeepsToItsMemory /\ [Next]_vars => SimInv'
<1>1. SUFFICES ASSUME CodeInv, LinesInv, CodeInv', LinesInv', SimInv, KeepsToItsMemory, [Next]_vars,
                      located'
               PROVE  SimInv' BY DEF SimInv
<1> DEFINE SimNext == /\ m'.at # Here => insts' = <<>> /\ output' = <<>> /\ text' = <<>>
                      /\ \E p \in Nat : Pipeline(p, insts', text', output', m', ref')
<1>2. ASSUME UNCHANGED <<code, vals, place>>, SimNext PROVE SimInv'
 <2>1. \A p, q, T, O, s, r : Pipeline(p, q, T, O, s, r)' <=> Pipeline(p, q, T, O, s, r) BY <1>2, PipelineUnchanged
 <2>2. PICK p \in Nat : Pipeline(p, insts', text', output', m', ref') BY <1>2
 <2>3. Pipeline(p, insts, text, output, m, ref)' BY <2>1, <2>2
 <2>4. m'.at # Here => insts' = <<>> /\ output' = <<>> /\ text' = <<>> BY <1>2
 <2> HIDE DEF SimNext
 <2> QED BY <2>3, <2>4 DEF SimInv
<1>3. CASE Select
 <2>1. stmts # <<>> /\ UNCHANGED located BY <1>3 DEF Select
 <2> QED BY <1>1, <2>1 DEF CodeInv
<1>4. CASE Allocate
 <2>1. /\ ~located /\ UNCHANGED <<code, vals, output, text>> /\ insts' = code
       /\ m' = StartMachine(place') /\ ref' = StartRef BY <1>4 DEF Allocate
 <2>2. output' = <<>> /\ text' = <<>> BY <1>1, <2>1 DEF LinesInv
 <2>3. m' = StartMachine(place)' BY <2>1 DEF StartMachine, Residents, Given, Vregs
 <2>4. ref' = StartRef' BY <2>1 DEF StartRef, Given, Vregs
 <2>5. Allocated' BY <1>1 DEF Allocated, LinesInv, CodeInv, Piece
 <2>6. ValuesFit' BY <1>1 DEF ValuesFit, CodeInv, Word
 <2>7. Sim(0, m, ref)'
  <3>1. Sim(0, StartMachine(place), StartRef)' BY <2>5, <2>6, StartSimNext
  <3> QED BY <2>3, <2>4, <3>1
 <2>8. code \in Seq(VInsts) BY <1>1 DEF CodeInv, Piece
 <2>9. Rest(code, 0, insts') BY <2>1, <2>8, AllocateSim
 <2>10. Runs(m', text', m') /\ Computes(m', output', m') BY <2>2, <2>8, AllocateSim
 <2>11. m'.at = Here BY <2>1 DEF StartMachine
 <2>12. Pipeline(0, insts, text, output, m, ref)' BY <2>1, <2>7, <2>9, <2>10 DEF Pipeline
 <2>13. 0 \in Nat OBVIOUS
 <2> QED BY <2>11, <2>12, <2>13 DEF SimInv
<1>5. CASE BackendNext
 <2>1. UNCHANGED <<code, vals, located, place>> BY <1>5 DEF BackendNext, Rewrite, Print1, Run
 <2>2. located BY <1>1, <2>1
 <2>3. m.at # Here => insts = <<>> /\ output = <<>> /\ text = <<>> BY <1>1, <2>2 DEF SimInv
 <2>4. PICK p \in Nat : Pipeline(p, insts, text, output, m, ref) BY <1>1, <2>2 DEF SimInv
 <2>5. Allocated BY <1>1, <2>2 DEF Allocated, LinesInv, CodeInv, Piece
 <2>6. m.at = Here
  <3>1. insts # <<>> \/ output # <<>> \/ text # <<>> BY <1>5 DEF BackendNext, Rewrite, Print1, Run
  <3> QED BY <2>3, <3>1
 <2>7. CASE Rewrite
  <3>1. /\ insts # <<>> /\ insts' = Tail(insts) /\ output' = output \o RewriteInst(Head(insts))
        /\ ref' = Meaning(ref, Head(insts)) /\ text' = text /\ m' = m BY <2>7 DEF Rewrite
  <3>2. ref.at = Here => OwnAccess(ref, Head(insts)) BY <1>1, <3>1 DEF KeepsToItsMemory
  <3>3. Pipeline(p + 1, Tail(insts), text, output \o RewriteInst(Head(insts)), m, Meaning(ref, Head(insts)))
    BY <2>4, <2>5, <3>1, <3>2, RewriteSim
  <3>4. Pipeline(p + 1, insts', text', output', m', ref') BY <3>1, <3>3
  <3>5. p + 1 \in Nat OBVIOUS
  <3>6. m'.at = Here BY <2>6, <3>1
  <3>7. SimNext BY <3>4, <3>5, <3>6
  <3> HIDE DEF SimNext
  <3> QED BY <1>2, <2>1, <3>7
 <2>8. CASE Print1
  <3>1. /\ output # <<>> /\ text' = text \o EmitInst(Head(output)) /\ output' = Tail(output)
        /\ insts' = insts /\ m' = m /\ ref' = ref BY <2>8 DEF Print1
  <3>2. Pipeline(p, insts, text \o EmitInst(Head(output)), Tail(output), m, ref) BY <2>4, <3>1, PrintSim
  <3>3. Pipeline(p, insts', text', output', m', ref') BY <3>1, <3>2
  <3>4. m'.at = Here BY <2>6, <3>1
  <3>5. SimNext BY <3>3, <3>4
  <3> HIDE DEF SimNext
  <3> QED BY <1>2, <2>1, <3>5
 <2>9. CASE Run
  <3>1. /\ insts = <<>> /\ output = <<>> /\ text # <<>> /\ m' = Execute(m, Head(text))
        /\ text' = (IF m'.at = Here THEN Tail(text) ELSE <<>>)
        /\ insts' = insts /\ output' = output /\ ref' = ref BY <2>9 DEF Run
  <3>2. Pipeline(p, insts, text', output, m', ref) BY <2>4, <2>6, <3>1, RunSim
  <3>3. Pipeline(p, insts', text', output', m', ref') BY <3>1, <3>2
  <3>4. m'.at # Here => insts' = <<>> /\ output' = <<>> /\ text' = <<>> BY <3>1
  <3>5. SimNext BY <3>3, <3>4
  <3> HIDE DEF SimNext
  <3> QED BY <1>2, <2>1, <3>5
 <2> QED BY <1>5, <2>7, <2>8, <2>9 DEF BackendNext
<1>6. CASE UNCHANGED vars
 <2>1. UNCHANGED backendVars BY <1>6 DEF vars
 <2>2. /\ UNCHANGED <<code, vals, place>>
       /\ located' = located /\ insts' = insts /\ output' = output /\ text' = text /\ m' = m /\ ref' = ref
   BY <2>1 DEF backendVars
 <2>3. /\ m.at # Here => insts = <<>> /\ output = <<>> /\ text = <<>>
       /\ \E p \in Nat : Pipeline(p, insts, text, output, m, ref) BY <1>1, <2>2 DEF SimInv
 <2>4. SimNext BY <2>2, <2>3
 <2> HIDE DEF SimNext
 <2> QED BY <1>2, <2>2, <2>4
<1> QED BY <1>1, <1>3, <1>4, <1>5, <1>6 DEF Next

LEMMA SimInvHolds == Spec /\ []KeepsToItsMemory => []SimInv
<1>1. Init => SimInv BY DEF Init, BackendInit, SimInv
<1> QED BY <1>1, SimInvStep, CodeInvHolds, LinesInvHolds, PTL DEF Spec

(* When everything has run, the two machines stand side by side. *)
LEMMA DoneSim == ASSUME CodeInv, LinesInv, SimInv, Done PROVE Allocated /\ Len(code) \in Nat /\ Sim(Len(code), m, ref)
<1>1. located /\ insts = <<>> /\ output = <<>> /\ text = <<>> BY DEF Done, Rewritten
<1>2. Allocated BY <1>1 DEF Allocated, LinesInv, CodeInv, Piece
<1>3. PICK p \in Nat : Pipeline(p, <<>>, <<>>, <<>>, m, ref) BY <1>1 DEF SimInv
<1>4. PICK u : \E t : Runs(m, <<>>, u) /\ Computes(u, <<>>, t) /\ Sim(p, t, ref) BY <1>3 DEF Pipeline
<1>5. PICK t : Runs(m, <<>>, u) /\ Computes(u, <<>>, t) /\ Sim(p, t, ref) BY <1>4
<1>6. m = u /\ u = t BY <1>5, RunsNothing, ComputesNothing
<1>7. Sim(p, m, ref) BY <1>5, <1>6
<1>8. Len(code) = p + Len(<<>>) /\ Len(<<>>) = 0 BY <1>3 DEF Pipeline, Rest
<1>9. Len(code) = p BY <1>8
<1> QED BY <1>2, <1>7, <1>9

LEMMA SurvivorsCurrent ==
  ASSUME Allocated, NEW v \in Surviving PROVE Current(Len(code), v)
<1> DEFINE n == Len(code)
<1>1. code \in Seq(VInsts) /\ ReadsOnly(code, DOMAIN vals) BY DEF Allocated, Piece
<1>2. n \in Nat /\ DOMAIN code = 1 .. n BY <1>1
<1> HIDE DEF n
<1>3. v \in Vregs BY DEF Surviving
<1>4. v \in Given \/ v \in DefinedBefore(code, n + 1)
 <2>1. PICK k \in DOMAIN code : v \in UsedVregs(code[k]) \cup DefinedVreg(code[k]) BY <1>3 DEF Vregs
 <2>2. ASSUME NEW j \in DOMAIN code, v \in DefinedVreg(code[j]) PROVE v \in DefinedBefore(code, n + 1)
  <3>1. j \in 1 .. (n + 1) - 1 BY <1>2
  <3> QED BY <2>2, <3>1 DEF DefinedBefore
 <2>3. CASE v \in DefinedVreg(code[k]) BY <2>2, <2>3
 <2>4. CASE v \in UsedVregs(code[k])
  <3>1. v \in DOMAIN vals \/ v \in DefinedBefore(code, k) BY <1>1, <2>4 DEF ReadsOnly
  <3>2. CASE v \in DOMAIN vals BY <1>3, <3>2 DEF Given
  <3>3. CASE v \in DefinedBefore(code, k)
   <4>1. PICK j \in 1 .. k - 1 : v \in DefinedVreg(code[j]) BY <3>3 DEF DefinedBefore
   <4>2. j \in DOMAIN code BY <1>2
   <4> QED BY <2>2, <4>1, <4>2
  <3> QED BY <3>1, <3>2, <3>3
 <2> QED BY <2>1, <2>3, <2>4
<1>5. \A k \in 1 .. n : \A w \in DefinedVreg(code[k]) \ {v} :
        place[w] = place[v] => \E j \in k + 1 .. n : v \in DefinedVreg(code[j]) BY <1>2 DEF Surviving, n
<1> QED BY <1>3, <1>4, <1>5 DEF Current, n

LEMMA NamedRegister == ASSUME code \in Seq(VInsts), NEW r \in Named, ~IsVReg(r) PROVE r = REG_X0
<1>1. PICK k \in DOMAIN code : code[k].op \in {"Mov", "Ldr", "Lea"} /\ r = code[k].dst BY DEF Named
<1>2. code[k] \in VInsts BY ElementType
<1>3. code[k].dst \in Virtual \cup {REG_X0, SCRATCH0}
  BY <1>1, <1>2 DEF VInsts, Insts, Movs, BinOps, Cmps, Ldrs, Strs, Leas, Geps, SpMoves, Branches
<1>4. r # SCRATCH0 BY DEF Named
<1> QED BY <1>1, <1>3, <1>4 DEF Virtual

(* A program that keeps to its own memory is carried out: with virtual
   registers in registers and slots, reloads and stores around them, and
   everything an instruction cannot carry computed in the scratch registers,
   the printed lines leave the processor with the values the instructions mean,
   in the same memory, on the same way out. *)
THEOREM CodeKeepsItsMeaning == Spec /\ []KeepsToItsMemory => []SameEffect
<1>1. CodeInv /\ LinesInv /\ SimInv => SameEffect
 <2>1. SUFFICES ASSUME CodeInv, LinesInv, SimInv, Done
                PROVE  /\ \A v \in Surviving : Held(v) = ref.regs[v]
                       /\ \A a \in (DOMAIN m.mem \cup DOMAIN ref.mem) \ Slots :
                            a >= SpValue => Cell(m, a) = Cell(ref, a)
                       /\ m.flags = ref.flags /\ m.at = ref.at
                       /\ \A r \in Named : ~IsVReg(r) => m.regs[r] = ref.regs[r] BY DEF SameEffect
 <2>2. Allocated /\ Len(code) \in Nat /\ Sim(Len(code), m, ref) BY <2>1, DoneSim
 <2>3. ASSUME NEW v \in Surviving PROVE Held(v) = ref.regs[v]
  <3>1. Current(Len(code), v) /\ v \in Vregs BY <2>2, SurvivorsCurrent DEF Surviving
  <3>2. Found(m, v) = ref.regs[v] BY <2>2, <3>1 DEF Sim
  <3>3. CASE Spilled(v)
   <4>1. ~(place[v] >= 0)
    <5>1. place[v] \in Frame BY <2>2, <3>1, <3>3, CurrentPlace
    <5> QED BY <5>1, FrameAssumption DEF Frame
   <4> QED BY <3>2, <3>3, <4>1 DEF Held, Found
  <3>4. CASE ~Spilled(v)
   <4>1. MapReg(v) = place[v] /\ place[v] \in Registers BY <2>2, <3>1, <3>4, CurrentPlace
   <4>2. place[v] >= 0
    <5>1. place[v] \in 0 .. 99 BY <4>1, NumbersOfRegisters
    <5> QED BY <5>1
   <4> QED BY <3>2, <3>4, <4>1, <4>2 DEF Held, Found
  <3> QED BY <3>3, <3>4
 <2>4. \A a \in (DOMAIN m.mem \cup DOMAIN ref.mem) \ Slots : a >= SpValue => Cell(m, a) = Cell(ref, a) BY <2>2 DEF Sim
 <2>5. m.flags = ref.flags /\ m.at = ref.at BY <2>2 DEF Sim
 <2>6. \A r \in Named : ~IsVReg(r) => m.regs[r] = ref.regs[r] BY <2>2, NamedRegister DEF Sim, Allocated
 <2> QED BY <2>3, <2>4, <2>5, <2>6
<1> QED BY <1>1, CodeInvHolds, LinesInvHolds, SimInvHolds, PTL

(* And nothing else is disturbed: whatever has been run so far, a register that
   is neither a scratch register nor named by the program nor given to a
   virtual register it writes still holds what it held; and when everything has
   run the stack pointer is where the program wants it. *)
THEOREM CodeDisturbsNothingElse == Spec /\ []KeepsToItsMemory => []OthersUntouched
<1>1. CodeInv /\ LinesInv /\ SimInv => OthersUntouched
 <2>1. SUFFICES ASSUME CodeInv, LinesInv, SimInv PROVE OthersUntouched OBVIOUS
 <2>2. ASSUME located, NEW r \in PhysicalRegs \ ({SCRATCH0, SCRATCH1, SP} \cup Named),
              \A v \in Defined : place[v] # r
       PROVE  m.regs[r] = StartMachine(place).regs[r]
  <3>1. r \in PhysicalRegs \ (Owned \cup {SP}) BY <2>2 DEF Owned
  <3> QED BY <2>1, <2>2, <3>1 DEF LinesInv
 <2>3. ASSUME Done PROVE m.regs[SP] = ref.regs[SP] BY <2>1, <2>3, DoneSim DEF Sim
 <2> QED BY <2>2, <2>3 DEF OthersUntouched
<1> QED BY <1>1, CodeInvHolds, LinesInvHolds, SimInvHolds, PTL
-----------------------------------------------------------------------------
(* What a stretch of code on virtual registers means: some sequence of
   machines, each what one instruction makes of the one before, leads from a to
   b. *)
IsCourse(tr, c) == \A k \in 1 .. Len(c) : tr[k] = Meaning(tr[k - 1], c[k])
Means(a, c, b) == c \in Seq(VInsts) /\ \E tr : tr[0] = a /\ tr[Len(c)] = b /\ IsCourse(tr, c)

LEMMA MeansNothing == ASSUME NEW a, NEW b PROVE Means(a, <<>>, b) <=> a = b
<1>1. <<>> \in Seq(VInsts) /\ Len(<<>>) = 0 /\ 1 .. 0 = {} OBVIOUS
<1>2. ASSUME a = b PROVE Means(a, <<>>, b)
 <2> DEFINE tr == [k \in {0} |-> a]
 <2>1. tr[0] = a /\ IsCourse(tr, <<>>) BY <1>1 DEF IsCourse
 <2> HIDE DEF tr
 <2> QED BY <1>1, <1>2, <2>1 DEF Means
<1> QED BY <1>1, <1>2 DEF Means

LEMMA MeansOne == ASSUME NEW i \in VInsts, NEW a PROVE Means(a, <<i>>, Meaning(a, i))
<1> DEFINE b == Meaning(a, i)
           tr == [k \in {0, 1} |-> IF k = 0 THEN a ELSE b]
           c == <<i>>
<1>1. c \in Seq(VInsts) /\ Len(c) = 1 /\ c[1] = i /\ tr[0] = a /\ tr[1] = b OBVIOUS
<1> HIDE DEF tr, c
<1>2. IsCourse(tr, c)
 <2>1. ASSUME NEW k \in 1 .. Len(c) PROVE tr[k] = Meaning(tr[k - 1], c[k])
  <3>1. k = 1 /\ k - 1 = 0 BY <1>1
  <3> QED BY <1>1, <3>1
 <2> QED BY <2>1 DEF IsCourse
<1>3. Means(a, c, b) BY <1>1, <1>2 DEF Means
<1> QED BY <1>3 DEF c

LEMMA MeansJoin == ASSUME NEW a, NEW b, NEW d, NEW c, NEW e, Means(a, c, b), Means(b, e, d) PROVE Means(a, c \o e, d)
<1>1. c \in Seq(VInsts) /\ e \in Seq(VInsts) BY DEF Means
<1>2. PICK f : f[0] = a /\ f[Len(c)] = b /\ IsCourse(f, c) BY DEF Means
<1>3. PICK g : g[0] = b /\ g[Len(e)] = d /\ IsCourse(g, e) BY DEF Means
<1> DEFINE n == Len(c)
           l == Len(e)
           J == c \o e
           h == [k \in 0 .. n + l |-> IF k <= n THEN f[k] ELSE g[k - n]]
<1>4. /\ n \in Nat /\ l \in Nat /\ J \in Seq(VInsts) /\ Len(J) = n + l
      /\ \A k \in 1 .. n : J[k] = c[k]
      /\ \A k \in 1 .. l : J[n + k] = e[k] BY <1>1
<1>5. \A k \in 0 .. n : h[k] = f[k] BY <1>4
<1>6. \A k \in 0 .. l : h[n + k] = g[k]
 <2>1. SUFFICES ASSUME NEW k \in 0 .. l PROVE h[n + k] = g[k] OBVIOUS
 <2>2. CASE k = 0 BY <1>2, <1>3, <1>4, <2>2
 <2>3. CASE k # 0
  <3>1. n + k \in 0 .. n + l /\ ~(n + k <= n) /\ (n + k) - n = k BY <1>4, <2>3
  <3> QED BY <3>1
 <2> QED BY <2>2, <2>3
<1> HIDE DEF h, J
<1>7. IsCourse(h, J)
 <2>1. SUFFICES ASSUME NEW k \in 1 .. Len(J) PROVE h[k] = Meaning(h[k - 1], J[k]) BY DEF IsCourse
 <2>2. CASE k <= n
  <3>1. k \in 1 .. n /\ k \in 0 .. n /\ k - 1 \in 0 .. n BY <1>4, <2>1, <2>2
  <3>2. f[k] = Meaning(f[k - 1], c[k]) BY <1>2, <3>1 DEF IsCourse
  <3> QED BY <1>4, <1>5, <3>1, <3>2
 <2>3. CASE ~(k <= n)
  <3> DEFINE i == k - n
  <3>1. i \in 1 .. l /\ i \in 0 .. l /\ i - 1 \in 0 .. l /\ n + i = k /\ n + (i - 1) = k - 1 BY <1>4, <2>1, <2>3
  <3> HIDE DEF i
  <3>2. g[i] = Meaning(g[i - 1], e[i]) BY <1>3, <3>1 DEF IsCourse
  <3>3. h[n + i] = g[i] /\ h[n + (i - 1)] = g[i - 1] /\ J[n + i] = e[i] BY <1>4, <1>6, <3>1
  <3> QED BY <3>1, <3>2, <3>3
 <2> QED BY <2>2, <2>3
<1>8. h[0] = a /\ h[Len(J)] = d
 <2>1. 0 \in 0 .. n /\ l \in 0 .. l BY <1>4
 <2> QED BY <1>2, <1>3, <1>4, <1>5, <1>6, <2>1
<1>9. Means(a, J, d) BY <1>4, <1>7, <1>8 DEF Means
<1> QED BY <1>9 DEF J

LEMMA MeansHead ==
  ASSUME NEW a, NEW b, NEW c, Means(a, c, b), c # <<>> PROVE Means(Meaning(a, Head(c)), Tail(c), b)
<1>1. c \in Seq(VInsts) BY DEF Means
<1>2. PICK f : f[0] = a /\ f[Len(c)] = b /\ IsCourse(f, c) BY DEF Means
<1> DEFINE n == Len(c)
           e == Tail(c)
           h == [k \in 0 .. n - 1 |-> f[k + 1]]
<1>3. /\ n \in Nat \ {0} /\ e \in Seq(VInsts) /\ Len(e) = n - 1 /\ Head(c) = c[1]
      /\ \A k \in 1 .. n - 1 : e[k] = c[k + 1] BY <1>1
<1>4. \A k \in 0 .. n - 1 : h[k] = f[k + 1] OBVIOUS
<1> HIDE DEF h, e
<1>5. \A k \in 1 .. n : f[k] = Meaning(f[k - 1], c[k]) BY <1>2 DEF IsCourse
<1>6. IsCourse(h, e)
 <2>1. SUFFICES ASSUME NEW k \in 1 .. Len(e) PROVE h[k] = Meaning(h[k - 1], e[k]) BY DEF IsCourse
 <2>2. k \in 0 .. n - 1 /\ k - 1 \in 0 .. n - 1 /\ (k - 1) + 1 = k /\ k + 1 \in 1 .. n
       /\ (k + 1) - 1 = k /\ k \in 1 .. n - 1 BY <1>3, <2>1
 <2>3. f[k + 1] = Meaning(f[(k + 1) - 1], c[k + 1]) BY <1>5, <2>2
 <2> QED BY <1>3, <1>4, <2>2, <2>3
<1>7. h[0] = Meaning(a, Head(c)) /\ h[Len(e)] = b
 <2>1. 0 \in 0 .. n - 1 /\ 0 + 1 = 1 /\ n - 1 \in 0 .. n - 1 /\ (n - 1) + 1 = n /\ 1 \in 1 .. n /\ 1 - 1 = 0 BY <1>3
 <2>2. f[1] = Meaning(f[1 - 1], c[1]) BY <1>5, <2>1
 <2> QED BY <1>2, <1>3, <1>4, <2>1, <2>2
<1> QED BY <1>3, <1>6, <1>7 DEF Means, e

LEMMA MeansTwo ==
  ASSUME NEW i \in VInsts, NEW j \in VInsts, NEW a PROVE Means(a, <<i, j>>, Meaning(Meaning(a, i), j))
<1>1. Means(a, <<i>>, Meaning(a, i)) BY MeansOne
<1> DEFINE b == Meaning(a, i)
<1>2. Means(a, <<i>>, b) BY <1>1
<1> HIDE DEF b
<1>3. Means(b, <<j>>, Meaning(b, j)) BY MeansOne
<1>4. Means(a, <<i>> \o <<j>>, Meaning(b, j)) BY <1>2, <1>3, MeansJoin
<1> QED BY <1>4, PairJoined DEF b

(* What one instruction makes of a machine that has not left the block. *)
LEMMA MeansMov ==
  ASSUME NEW t, t.at = Here, NEW n, NEW d, NEW o
  PROVE  Meaning(t, Mov(n, d, o)) = Write(t, d, ValueOf(t, o) % Modulus(n))
BY DEF Meaning, Mov, Effect

LEMMA MeansBinOp ==
  ASSUME NEW t, t.at = Here, NEW op, NEW n, NEW d, NEW l, NEW o
  PROVE  Meaning(t, BinOp(op, n, d, l, o)) = Write(t, d, Arith(op, t.regs[l], ValueOf(t, o), n))
BY DEF Meaning, BinOp, Effect

LEMMA MeansCmp ==
  ASSUME NEW t, t.at = Here, NEW l, NEW o
  PROVE  Meaning(t, Cmp(l, o)) = [t EXCEPT !.flags = Flags(t.regs[l], ValueOf(t, o), W32)]
BY DEF Meaning, Cmp, Effect

LEMMA MeansLdr ==
  ASSUME NEW t, t.at = Here, NEW n, NEW d, NEW a
  PROVE  Meaning(t, Ldr(n, d, a)) = Write(t, d, Fetch(t, AddressOf(t, a), n))
BY DEF Meaning, Ldr, Effect

LEMMA MeansStr ==
  ASSUME NEW t, t.at = Here, NEW n, NEW r, NEW a
  PROVE  Meaning(t, Str(n, r, a)) = StoreCell(t, AddressOf(t, a), t.regs[r] % Modulus(n))
BY DEF Meaning, Str, Effect, Read

LEMMA MeansLea == ASSUME NEW t, t.at = Here, NEW d, NEW a PROVE Meaning(t, Lea(d, a)) = Write(t, d, AddressOf(t, a))
BY DEF Meaning, Lea, Effect

LEMMA MeansGep ==
  ASSUME NEW t, t.at = Here, NEW d, NEW l, NEW o, NEW n
  PROVE  Meaning(t, Gep(d, l, o, n)) = Write(t, d, (t.regs[l] + Signed(ValueOf(t, o), W32) * n) % Modulus(X64))
BY DEF Meaning, Gep, Effect

LEMMA MeansBCond ==
  ASSUME NEW t, t.at = Here, NEW c, NEW l
  PROVE  Meaning(t, BCond(c, l)) = IF CondHolds(c, t.flags) THEN [t EXCEPT !.at = l] ELSE t
BY DEF Meaning, BCond, Effect

LEMMA MeansB == ASSUME NEW t, t.at = Here, NEW l PROVE Meaning(t, B(l)) = [t EXCEPT !.at = l]
BY DEF Meaning, B, Effect

LEMMA MeansRet == ASSUME NEW t, t.at = Here PROVE Meaning(t, [op |-> "Ret"]) = [t EXCEPT !.at = Returned]
BY DEF Meaning, Effect

(* Selection: the machine of the IR and the one with virtual registers R side
   by side, before and behind one statement.  A local holds the same in both,
   unless it is only a condition or has come in unread; and every local holds
   what its one size has room for. *)
Order(p) == EmissionOrder(p.body, p.copies)
CondsOf(p) == {Order(p)[k].dst.id : k \in {j \in DOMAIN Order(p) : Order(p)[j].op = "cmp"}}
Types(p) == SizesIn(Order(p))
Shaped(t, R) == {"regs", "mem", "flags", "at"} \subseteq DOMAIN t /\ DOMAIN t.regs = R
IrShaped(u) == {"env", "mem", "x0", "sp", "at"} \subseteq DOMAIN u
Common(p, u) == DOMAIN u.env \ CondsOf(p)
Alongside(p, t, u, R) ==
  /\ Shaped(t, R) /\ IrShaped(u) /\ PhysicalRegs \subseteq R
  /\ t.mem = u.mem /\ t.at = u.at
  /\ t.regs[SP] = u.sp /\ t.regs[REG_X0] = u.x0 /\ t.regs[FP] = FpValue
  /\ u.sp \in Int /\ u.x0 \in Int /\ \A a \in Int : Cell(u, a) \in Int
  /\ Common(p, u) \subseteq Locals
  /\ \A v \in Common(p, u) : v \in R \/ v \in DOMAIN p.vals
  /\ \A v \in Common(p, u) \cap R : t.regs[v] = u.env[v]
  /\ \A w \in Types(p) : w.id \in Common(p, u) => u.env[w.id] \in 0 .. Modulus(w.size) - 1

LEMMA LocalNumbers ==
  \A v \in Locals : v \in Virtual /\ IsVReg(v) /\ v \notin PhysicalRegs /\ v # SP /\ v # FP /\ v # REG_X0
<1>1. \A v \in Locals : v \in Virtual /\ IsVReg(v) BY LocalsVirtual DEF Virtual
<1> QED BY <1>1, PhysicalNumbers

LEMMA CellsAfter ==
  ASSUME NEW u, NEW s, NEW a \in Int, NEW x \in Int, \A y \in Int : Cell(u, y) \in Int,
         s.mem = Assigned(u.mem, a, x)
  PROVE  \A y \in Int : Cell(s, y) \in Int
BY DEF Cell, Assigned

(* What both machines can do without falling apart. *)
LEMMA AfterBind ==
  ASSUME NEW p, NEW t, NEW u, NEW R, Alongside(p, t, u, R), NEW d \in Locals \ CondsOf(p), d \in R,
         NEW x, \A w \in Types(p) : w.id = d => x \in 0 .. Modulus(w.size) - 1,
         NEW b, b = Write(t, d, x), NEW s, s = [u EXCEPT !.env = Assigned(u.env, d, x)]
  PROVE  Alongside(p, b, s, R) /\ b.flags = t.flags
<1>1. /\ Shaped(b, R) /\ b.mem = t.mem /\ b.flags = t.flags /\ b.at = t.at /\ b.regs[d] = x
      /\ \A r \in R : r # d => b.regs[r] = t.regs[r] BY DEF Alongside, Shaped, Write, StoreCell
<1>2. /\ IrShaped(s) /\ s.mem = u.mem /\ s.x0 = u.x0 /\ s.sp = u.sp /\ s.at = u.at
      /\ DOMAIN s.env = DOMAIN u.env \cup {d} /\ s.env[d] = x
      /\ \A y \in DOMAIN u.env : y # d => s.env[y] = u.env[y] BY DEF Alongside, IrShaped, StoreCell, Assigned
<1>3. d # SP /\ d # FP /\ d # REG_X0 BY LocalNumbers
<1>4. Common(p, s) = Common(p, u) \cup {d} /\ Common(p, u) \subseteq DOMAIN u.env BY <1>2 DEF Common
<1>5. SP \in R /\ FP \in R /\ REG_X0 \in R BY PhysicalNumbers DEF Alongside
<1>6. \A a \in Int : Cell(s, a) \in Int BY <1>2 DEF Alongside, Cell
<1> QED BY <1>1, <1>2, <1>3, <1>4, <1>5, <1>6 DEF Alongside

Flagged(t, f) == [t EXCEPT !.flags = f]
Noted(u, c, x) == [u EXCEPT !.env = Assigned(u.env, c, x)]
LEMMA AfterCond ==
  ASSUME NEW p, NEW t, NEW u, NEW R, Alongside(p, t, u, R), NEW c \in CondsOf(p), NEW x, NEW f
  PROVE  /\ Alongside(p, Flagged(t, f), Noted(u, c, x), R)
         /\ Flagged(t, f).flags = f /\ c \in DOMAIN Noted(u, c, x).env /\ Noted(u, c, x).env[c] = x
<1> DEFINE b == Flagged(t, f)
           s == Noted(u, c, x)
<1>1. Shaped(b, R) /\ b.regs = t.regs /\ b.mem = t.mem /\ b.flags = f /\ b.at = t.at BY DEF Alongside, Shaped, Flagged
<1>2. /\ IrShaped(s) /\ s.mem = u.mem /\ s.x0 = u.x0 /\ s.sp = u.sp /\ s.at = u.at
      /\ DOMAIN s.env = DOMAIN u.env \cup {c} /\ s.env[c] = x
      /\ \A y \in DOMAIN u.env : y # c => s.env[y] = u.env[y] BY DEF Alongside, IrShaped, Noted, Assigned
<1> HIDE DEF b, s
<1>3. Common(p, s) = Common(p, u) /\ c \notin Common(p, u) BY <1>2 DEF Common
<1>4. \A v \in Common(p, u) : s.env[v] = u.env[v] BY <1>2, <1>3 DEF Common
<1>5. \A a \in Int : Cell(s, a) \in Int BY <1>2 DEF Alongside, Cell
<1> QED BY <1>1, <1>2, <1>3, <1>4, <1>5 DEF Alongside, b, s

LEMMA AfterFresh ==
  ASSUME NEW p, NEW t, NEW u, NEW R, Alongside(p, t, u, R), NEW r \in R, r \notin Locals \cup {SP, FP, REG_X0},
         NEW x, NEW b, b = Write(t, r, x)
  PROVE  Alongside(p, b, u, R) /\ b.flags = t.flags /\ b.at = t.at /\ b.regs[r] = x
<1>1. /\ Shaped(b, R) /\ b.mem = t.mem /\ b.flags = t.flags /\ b.at = t.at /\ b.regs[r] = x
      /\ \A y \in R : y # r => b.regs[y] = t.regs[y] BY DEF Alongside, Shaped, Write, StoreCell
<1>2. SP \in R /\ FP \in R /\ REG_X0 \in R BY PhysicalNumbers DEF Alongside
<1> QED BY <1>1, <1>2 DEF Alongside

LEMMA AfterStore ==
  ASSUME NEW p, NEW t, NEW u, NEW R, Alongside(p, t, u, R), NEW a \in Int, NEW x \in Int,
         NEW b, b = StoreCell(t, a, x), NEW s, s = StoreCell(u, a, x)
  PROVE  Alongside(p, b, s, R) /\ b.flags = t.flags /\ s.env = u.env
<1>1. Shaped(b, R) /\ b.regs = t.regs /\ b.flags = t.flags /\ b.at = t.at /\ b.mem = Assigned(t.mem, a, x)
  BY DEF Alongside, Shaped, Write, StoreCell
<1>2. IrShaped(s) /\ s.env = u.env /\ s.x0 = u.x0 /\ s.sp = u.sp /\ s.at = u.at /\ s.mem = Assigned(u.mem, a, x)
  BY DEF Alongside, IrShaped, StoreCell, Assigned
<1>3. \A y \in Int : Cell(s, y) \in Int BY <1>2, CellsAfter DEF Alongside
<1>4. Common(p, s) = Common(p, u) BY <1>2 DEF Common
<1> QED BY <1>1, <1>2, <1>3, <1>4 DEF Alongside

LEMMA AfterMove ==
  ASSUME NEW p, NEW t, NEW u, NEW R, Alongside(p, t, u, R), NEW x, NEW b, NEW s,
         \/ b = Write(t, REG_X0, x) /\ s = [u EXCEPT !.x0 = x] /\ x \in Int
         \/ b = Write(t, SP, x) /\ s = [u EXCEPT !.sp = x] /\ x \in Int
         \/ b = [t EXCEPT !.at = x] /\ s = [u EXCEPT !.at = x]
  PROVE  Alongside(p, b, s, R) /\ b.flags = t.flags /\ s.env = u.env
<1>1. SP \in R /\ FP \in R /\ REG_X0 \in R /\ SP # FP /\ SP # REG_X0 /\ FP # REG_X0
  BY PhysicalNumbers DEF Alongside, SP, FP, REG_X0
<1>2. Shaped(b, R) /\ b.flags = t.flags /\ b.mem = t.mem BY DEF Alongside, Shaped, Write
<1>3. IrShaped(s) /\ s.env = u.env /\ s.mem = u.mem BY DEF Alongside, IrShaped, StoreCell, Assigned
<1>4. b.at = s.at /\ b.regs[FP] = FpValue /\ b.regs[SP] = s.sp /\ b.regs[REG_X0] = s.x0 /\ s.sp \in Int /\ s.x0 \in Int
  BY <1>1 DEF Alongside, Shaped, IrShaped, Write
<1>5. \A v \in Common(p, u) \cap R : b.regs[v] = t.regs[v]
 <2>1. \A v \in Common(p, u) : v # SP /\ v # REG_X0 BY LocalNumbers DEF Alongside
 <2> QED BY <2>1 DEF Alongside, Shaped, Write
<1>6. \A y \in Int : Cell(s, y) \in Int BY <1>3 DEF Alongside, Cell
<1>7. Common(p, s) = Common(p, u) BY <1>3 DEF Common
<1> QED BY <1>2, <1>3, <1>4, <1>5, <1>6, <1>7 DEF Alongside

(* Operands of statements are what the operands of instructions hold. *)
Plain(o) == o.kind # "global" /\ ~HasAlloca(o)
Known(p, o, u) ==
  /\ IsOperand(o) /\ RegsOf(o) \subseteq Common(p, u)
  /\ \A v \in RegsOf(o) : Sized(v, RegisterSize(o.dtype)) \in Types(p)
Denotes(t, o, n, v) ==
  /\ v \in 0 .. Modulus(n) - 1 /\ v \in Int
  /\ ValueOf(t, o) \in Int /\ ValueOf(t, o) % Modulus(n) = v

LEMMA PlainOperand ==
  ASSUME NEW o, IsOperand(o), LowersInt(o) \/ LowersValue(o) PROVE Plain(o)
BY DEF IsOperand, LowersInt, LowersValue, IsInt, HasAlloca, Plain

LEMMA OperandValue ==
  ASSUME NEW p, NEW t, NEW u, NEW R, Alongside(p, t, u, R), NEW o, Known(p, o, u), Plain(o),
         OperandRegs(LowerValue(o)) \subseteq R
  PROVE  Denotes(t, LowerValue(o), RegisterSize(o.dtype), Env(u, o))
<1> DEFINE n == RegisterSize(o.dtype)
           M == Modulus(n)
<1>1. M \in Nat \ {0} BY ModulusFacts DEF RegisterSize
<1>2. CASE o.kind = "const"
 <2>0. o.val \in Int /\ o.dtype.kind = "i32" BY <1>2 DEF Known, IsOperand
 <2>1. n = W32 /\ LowerValue(o) = Imm(o.val) BY <1>2, <2>0 DEF RegisterSize, IsInt, LowerValue
 <2>4. Env(u, o) = o.val % Modulus(W32) BY <1>2, Zenon DEF Env, HasAlloca
 <2>2. ValueOf(t, Imm(o.val)) = o.val BY DEF ValueOf, Imm
 <2>3. o.val % M \in 0 .. M - 1 /\ o.val % M \in Int BY <1>1, <2>0, ModInRange
 <2> QED BY <2>0, <2>1, <2>2, <2>3, <2>4 DEF Denotes
<1>3. CASE o.kind # "const"
 <2> DEFINE d == o.id
 <2>1. o.kind = "local" /\ RegsOf(o) = {d} /\ Env(u, o) = u.env[d] /\ LowerValue(o) = Reg(d)
   BY <1>3 DEF Known, IsOperand, Plain, RegsOf, Env, LowerValue
 <2>2. ValueOf(t, Reg(d)) = t.regs[d] /\ OperandRegs(Reg(d)) = {d} BY DEF ValueOf, Reg, OperandRegs
 <2>3. d \in Common(p, u) \cap R /\ Sized(d, n) \in Types(p) BY <2>1, <2>2 DEF Known
 <2>4. Sized(d, n).id = d /\ Sized(d, n).size = n BY DEF Sized
 <2>5. t.regs[d] = u.env[d] /\ u.env[d] \in 0 .. M - 1 BY <2>3, <2>4 DEF Alongside
 <2>6. u.env[d] % M = u.env[d] /\ u.env[d] \in Int BY <1>1, <2>5, ModSmall
 <2> QED BY <2>1, <2>2, <2>5, <2>6 DEF Denotes
<1> QED BY <1>2, <1>3

LEMMA AddressValue ==
  ASSUME NEW p, NEW t, NEW u, NEW R, Alongside(p, t, u, R), NEW o, Known(p, o, u), LowersPtr(o),
         AddrRegs(LowerPtrAsAddr(o)) \subseteq R
  PROVE  AddressOf(t, LowerPtrAsAddr(o)) = Env(u, o) /\ Env(u, o) \in 0 .. Modulus(X64) - 1
<1> DEFINE M == Modulus(X64)
<1>1. M \in Nat \ {0} BY ModulusFacts
<1>2. CASE HasAlloca(o)
 <2> DEFINE k == Allocas[o.id]
 <2>1. k \in Int BY <1>2, ProgramsAssumption DEF HasAlloca
 <2>2. LowerPtrAsAddr(o) = BaseOff(FP, k) /\ Env(u, o) = (FpValue + k) % M BY <1>2 DEF LowerPtrAsAddr, LocalAddr, HasAlloca, Env
 <2>3. AddressOf(t, BaseOff(FP, k)) = (t.regs[FP] + k) % M BY DEF AddressOf, BaseOff
 <2>4. t.regs[FP] = FpValue /\ FpValue + k \in Int BY <2>1, FrameAssumption DEF Alongside
 <2> HIDE DEF k, M
 <2> QED BY <1>1, <2>2, <2>3, <2>4, ModInRange DEF M
<1>3. CASE ~HasAlloca(o) /\ o.kind = "global" BY <1>3 DEF LowerPtrAsAddr, Env, AddressOf, Global, Known, IsOperand
<1>4. CASE ~HasAlloca(o) /\ o.kind # "global"
 <2> DEFINE d == o.id
 <2>1. o.kind = "local" /\ RegsOf(o) = {d} /\ Env(u, o) = u.env[d] /\ RegisterSize(o.dtype) = X64
   BY <1>4 DEF Known, IsOperand, LowersPtr, RegsOf, Env, RegisterSize, IsInt
 <2>2. LowerPtrAsAddr(o) = BaseOff(d, 0) BY <1>4, <2>1 DEF LowerPtrAsAddr
 <2>3. AddressOf(t, BaseOff(d, 0)) = (t.regs[d] + 0) % M /\ AddrRegs(BaseOff(d, 0)) = {d} BY DEF AddressOf, BaseOff, AddrRegs
 <2>4. d \in Common(p, u) \cap R /\ Sized(d, X64) \in Types(p) BY <2>1, <2>2, <2>3 DEF Known
 <2>5. Sized(d, X64).id = d /\ Sized(d, X64).size = X64 BY DEF Sized
 <2>6. t.regs[d] = u.env[d] /\ u.env[d] \in 0 .. M - 1 BY <2>4, <2>5 DEF Alongside
 <2>7. (u.env[d] + 0) % M = u.env[d]
  <3> DEFINE x == u.env[d]
  <3>1. x \in 0 .. M - 1 /\ M \in Nat \ {0} BY <1>1, <2>6
  <3> HIDE DEF x, M
  <3>2. x % M = x /\ x + 0 = x BY <3>1, ModSmall
  <3> QED BY <3>2 DEF x, M
 <2> QED BY <2>1, <2>2, <2>3, <2>6, <2>7
<1> QED BY <1>2, <1>3, <1>4

(* The registers of an instruction, where all it concerns are among R. *)
LEMMA RegistersIn ==
  ASSUME NEW i \in VInsts, NEW R, Concerns(i) \subseteq R, PhysicalRegs \subseteq R
  PROVE  /\ i.op = "Mov" => i.dst \in R /\ OperandRegs(i.src) \subseteq R
         /\ i.op = "BinOp" => i.dst \in R /\ i.lhs \in R /\ OperandRegs(i.rhs) \subseteq R
         /\ i.op = "Cmp" => i.lhs \in R /\ OperandRegs(i.rhs) \subseteq R
         /\ i.op \in {"Ldr", "Lea"} => i.dst \in R /\ AddrRegs(i.addr) \subseteq R
         /\ i.op = "Str" => i.src \in R /\ AddrRegs(i.addr) \subseteq R
         /\ i.op = "Gep" => i.dst \in R /\ i.base \in R /\ OperandRegs(i.index) \subseteq R
<1>1. \A r \in Virtual : IsVReg(r) BY DEF Virtual
<1>2. REG_X0 \in R /\ SCRATCH0 \in R /\ FP \in R /\ SP \in R BY PhysicalNumbers
<1>3. UsedVregs(i) \subseteq R /\ DefinedVreg(i) \subseteq R BY DEF Concerns
<1> USE <1>1, <1>2, <1>3 DEF VInsts, Insts, Movs, BinOps, Cmps, Ldrs, Strs, Leas, Geps, SpMoves, Branches,
                            UsedVregs, DefinedVreg
<1>4. i.op = "Mov" => i.dst \in R /\ OperandRegs(i.src) \subseteq R BY DEF OperandRegs, InRegisters, Immediates
<1>5. i.op = "BinOp" => i.dst \in R /\ i.lhs \in R /\ OperandRegs(i.rhs) \subseteq R BY DEF OperandRegs, InRegisters, Immediates
<1>6. i.op = "Cmp" => i.lhs \in R /\ OperandRegs(i.rhs) \subseteq R BY DEF OperandRegs, InRegisters, Immediates
<1>7. i.op \in {"Ldr", "Lea"} => i.dst \in R /\ AddrRegs(i.addr) \subseteq R BY DEF AddrRegs, OffBase, AtSymbol
<1>8. i.op = "Str" => i.src \in R /\ AddrRegs(i.addr) \subseteq R BY DEF AddrRegs, OffBase, AtSymbol
<1>9. i.op = "Gep" => i.dst \in R /\ i.base \in R /\ OperandRegs(i.index) \subseteq R BY DEF OperandRegs, InRegisters, Immediates
<1> QED BY <1>4, <1>5, <1>6, <1>7, <1>8, <1>9

(* A statement about to be selected where control is, with registers R for all
   it touches; and that its code carries it out. *)
Touched(c) == UNION {Concerns(c[k]) : k \in DOMAIN c}
OneSize(T) == \A v, w \in T : v.id = w.id => v.size = w.size
Going(p, s, t, u, R) ==
  /\ Alongside(p, t, u, R) /\ t.at = Here
  /\ IsStatement(s) /\ Accepts(s) /\ IsTypedStatement(s) /\ Emits(s) /\ Touched(Emitted(s)) \subseteq R
  /\ \A o \in Operands(s) : Known(p, o, u)
  /\ DefinedLocals(s) \cap CondsOf(p) = {} /\ SizesDefined(s) \subseteq Types(p) /\ OneSize(Types(p))
  /\ next_vreg \in Virtual \ Locals /\ CondsKnown
  /\ s.op = "cmp" => s.dst.id \in CondsOf(p)
  /\ s.op = "cjump" =>
       s.cond.id \notin DOMAIN Allocas /\ (CondHolds(cond_map[s.cond.id], t.flags) <=> u.env[s.cond.id] = 1)
Judged(s, b, t, v) ==
  IF s.op = "cmp"
  THEN s.dst.id \in DOMAIN v.env /\ (CondHolds(CmpOpToCond(s.kind), b.flags) <=> v.env[s.dst.id] = 1)
  ELSE b.flags = t.flags
Carried(p, s, t, u, R) ==
  \E b : /\ Means(t, Emitted(s), b) /\ Alongside(p, b, Interpret(u, s), R)
         /\ Judged(s, b, t, Interpret(u, s))

LEMMA TouchedParts ==
  /\ \A i : Touched(<<i>>) = Concerns(i)
  /\ \A i, j : Touched(<<i, j>>) = Concerns(i) \cup Concerns(j)
BY DEF Touched

LEMMA OneInst ==
  ASSUME NEW p, NEW s, NEW t, NEW u, NEW R, Going(p, s, t, u, R), NEW i, Emitted(s) = <<i>>
  PROVE  i \in VInsts /\ Concerns(i) \subseteq R /\ PhysicalRegs \subseteq R /\ Means(t, Emitted(s), Meaning(t, i))
<1>1. Emitted(s) \in Seq(VInsts) /\ Touched(Emitted(s)) \subseteq R /\ PhysicalRegs \subseteq R
  BY DEF Going, Emits, Piece, Alongside
<1>2. i \in VInsts /\ Concerns(i) \subseteq R
 <2> DEFINE c == <<i>>
 <2>1. c \in Seq(VInsts) BY <1>1
 <2>2. Len(c) = 1 /\ c[1] = i OBVIOUS
 <2> HIDE DEF c
 <2>3. i \in VInsts BY <2>1, <2>2
 <2> QED BY <1>1, <2>3, TouchedParts
<1> QED BY <1>1, <1>2, MeansOne

LEMMA TwoInst ==
  ASSUME NEW p, NEW s, NEW t, NEW u, NEW R, Going(p, s, t, u, R), NEW i, NEW j, Emitted(s) = <<i, j>>
  PROVE  /\ i \in VInsts /\ j \in VInsts /\ Concerns(i) \subseteq R /\ Concerns(j) \subseteq R
         /\ PhysicalRegs \subseteq R /\ Means(t, Emitted(s), Meaning(Meaning(t, i), j))
<1>1. Emitted(s) \in Seq(VInsts) /\ Touched(Emitted(s)) \subseteq R /\ PhysicalRegs \subseteq R
  BY DEF Going, Emits, Piece, Alongside
<1>2. i \in VInsts /\ j \in VInsts
 <2> DEFINE c == <<i, j>>
 <2>1. \A k \in 1 .. Len(c) : c[k] \in VInsts BY <1>1
 <2>2. Len(c) = 2 /\ c[1] = i /\ c[2] = j OBVIOUS
 <2> HIDE DEF c
 <2> QED BY <2>1, <2>2
<1>3. Concerns(i) \subseteq R /\ Concerns(j) \subseteq R BY <1>1, TouchedParts
<1> QED BY <1>1, <1>2, <1>3, MeansTwo

LEMMA BindCarried ==
  ASSUME NEW p, NEW s, NEW t, NEW u, NEW R, Going(p, s, t, u, R), s.op # "cmp",
         NEW a, Alongside(p, a, u, R), a.flags = t.flags,
         NEW d \in R, DefinedLocals(s) = {d}, NEW n, Sized(d, n) \in SizesDefined(s),
         NEW x \in 0 .. Modulus(n) - 1, Means(t, Emitted(s), Write(a, d, x)),
         Interpret(u, s) = [u EXCEPT !.env = Assigned(u.env, d, x)]
  PROVE  Carried(p, s, t, u, R)
<1> DEFINE b == Write(a, d, x)
           v == [u EXCEPT !.env = Assigned(u.env, d, x)]
<1>1. d \in Locals \ CondsOf(p) BY DEF Going, IsStatement
<1>2. \A w \in Types(p) : w.id = d => x \in 0 .. Modulus(w.size) - 1
 <2>1. Sized(d, n) \in Types(p) /\ Sized(d, n).id = d /\ Sized(d, n).size = n BY DEF Going, Sized
 <2> QED BY <2>1 DEF Going, OneSize
<1>3. Alongside(p, b, v, R) /\ b.flags = a.flags BY <1>1, <1>2, AfterBind
<1> HIDE DEF b, v
<1> QED BY <1>3 DEF Carried, Judged, b, v

LEMMA StoreCarried ==
  ASSUME NEW p, NEW s, NEW t, NEW u, NEW R, Going(p, s, t, u, R), s.op # "cmp",
         NEW a, Alongside(p, a, u, R), a.flags = t.flags, NEW x \in Int, NEW y \in Int,
         Means(t, Emitted(s), StoreCell(a, x, y)), Interpret(u, s) = StoreCell(u, x, y)
  PROVE  Carried(p, s, t, u, R)
<1> DEFINE b == StoreCell(a, x, y)
           v == StoreCell(u, x, y)
<1>1. Alongside(p, b, v, R) /\ b.flags = a.flags BY AfterStore
<1> HIDE DEF b, v
<1> QED BY <1>1 DEF Carried, Judged, b, v

LEMMA MoveCarried ==
  ASSUME NEW p, NEW s, NEW t, NEW u, NEW R, Going(p, s, t, u, R), s.op # "cmp",
         NEW a, NEW v, Alongside(p, a, v, R), a.flags = t.flags, NEW x, NEW b, Means(t, Emitted(s), b),
         \/ b = Write(a, REG_X0, x) /\ Interpret(u, s) = [v EXCEPT !.x0 = x] /\ x \in Int
         \/ b = Write(a, SP, x) /\ Interpret(u, s) = [v EXCEPT !.sp = x] /\ x \in Int
         \/ b = [a EXCEPT !.at = x] /\ Interpret(u, s) = [v EXCEPT !.at = x]
  PROVE  Carried(p, s, t, u, R)
<1> DEFINE w == Interpret(u, s)
<1> HIDE DEF w
<1>1. Alongside(p, b, w, R) /\ b.flags = a.flags BY AfterMove DEF w
<1> QED BY <1>1 DEF Carried, Judged, w

(* A constant left of an operation or stored is in its register first. *)
Moved(p, o, t, u, R, a) ==
  /\ Alongside(p, a, u, R) /\ a.flags = t.flags /\ a.at = Here /\ a.regs[InRegister(o)] = Env(u, o)
  /\ Denotes(a, Reg(InRegister(o)), RegisterSize(o.dtype), Env(u, o))

LEMMA FreshMoved ==
  ASSUME NEW p, NEW s, NEW t, NEW u, NEW R, Going(p, s, t, u, R), NEW o \in Operands(s), Plain(o),
         NEW j, Emitted(s) = MoveFresh(o) \o <<j>>, InRegister(o) \in UsedVregs(j)
  PROVE  /\ j \in VInsts /\ Concerns(j) \subseteq R /\ PhysicalRegs \subseteq R
         /\ \E a : Moved(p, o, t, u, R, a) /\ Means(t, Emitted(s), Meaning(a, j))
<1> DEFINE n == RegisterSize(o.dtype)
           r == InRegister(o)
           x == Env(u, o)
<1>0. Alongside(p, t, u, R) /\ Known(p, o, u) /\ t.at = Here /\ next_vreg \in Virtual \ Locals BY DEF Going
<1>1. CASE NeedsFresh(o)
 <2> DEFINE i == Mov(n, r, Imm(o.val))
            a == Meaning(t, i)
            c == <<i>>
            e == <<j>>
 <2>1. MoveFresh(o) = c BY <1>1 DEF MoveFresh, InRegister
 <2>2. c \o e = <<i, j>> BY PairJoined
 <2>3. Emitted(s) = <<i, j>> BY <2>1, <2>2
 <2> HIDE DEF i, c, e
 <2>4. /\ i \in VInsts /\ j \in VInsts /\ Concerns(i) \subseteq R /\ Concerns(j) \subseteq R
       /\ PhysicalRegs \subseteq R /\ Means(t, Emitted(s), Meaning(Meaning(t, i), j)) BY <2>3, TwoInst
 <2>5. LowerValue(o) = Imm(o.val) BY <1>1 DEF NeedsFresh, LowerValue
 <2>6. Denotes(t, Imm(o.val), n, x)
  <3>1. OperandRegs(Imm(o.val)) = {} BY DEF OperandRegs, Imm
  <3> QED BY <1>0, <2>5, <3>1, OperandValue
 <2>7. ValueOf(t, Imm(o.val)) % Modulus(n) = x /\ x \in 0 .. Modulus(n) - 1 /\ x \in Int BY <2>6 DEF Denotes
 <2>8. a = Write(t, r, x) BY <1>0, <2>7, MeansMov DEF i
 <2>9. r \notin Locals \cup {SP, FP, REG_X0} /\ r \in R
  <3>1. r = next_vreg BY <1>1 DEF InRegister
  <3>2. r \in R BY <2>4 DEF Concerns
  <3>3. IsVReg(r) BY <1>0, <3>1 DEF Virtual
  <3> QED BY <1>0, <3>1, <3>2, <3>3, PhysicalNumbers DEF PhysicalRegs
 <2> HIDE DEF a, r, x, n
 <2>10. Alongside(p, a, u, R) /\ a.flags = t.flags /\ a.at = t.at /\ a.regs[r] = x BY <1>0, <2>8, <2>9, AfterFresh
 <2>11. x % Modulus(n) = x
  <3>1. Modulus(n) \in Nat \ {0} BY ModulusFacts DEF n, RegisterSize, W32, X64, Sizes
  <3> QED BY <2>7, <3>1, ModSmall
 <2>12. ValueOf(a, Reg(r)) = x BY <2>10 DEF ValueOf, Reg
 <2>13. Denotes(a, Reg(r), n, x) BY <2>7, <2>11, <2>12 DEF Denotes
 <2>14. Moved(p, o, t, u, R, a) BY <1>0, <2>10, <2>13 DEF Moved, r, x, n
 <2> QED BY <2>4, <2>14 DEF a
<1>2. CASE ~NeedsFresh(o)
 <2>1. MoveFresh(o) \o <<j>> = <<j>> BY <1>2 DEF MoveFresh
 <2>2. j \in VInsts /\ Concerns(j) \subseteq R /\ PhysicalRegs \subseteq R /\ Means(t, Emitted(s), Meaning(t, j))
   BY <2>1, OneInst
 <2>3. LowerValue(o) = Reg(r) /\ OperandRegs(Reg(r)) = {r} /\ r \in R
   BY <1>2, <2>2 DEF NeedsFresh, LowerValue, InRegister, OperandRegs, Reg, Concerns
 <2>4. Denotes(t, Reg(r), n, x) BY <1>0, <2>3, OperandValue
 <2>5. t.regs[r] = x
  <3>1. o.kind = "local" /\ o.id = r /\ RegsOf(o) = {r} /\ Env(u, o) = u.env[r]
    BY <1>0, <1>2 DEF NeedsFresh, InRegister, Known, IsOperand, Plain, RegsOf, Env
  <3> QED BY <1>0, <2>3, <3>1 DEF Known, Alongside
 <2>6. Moved(p, o, t, u, R, t) BY <1>0, <2>4, <2>5 DEF Moved
 <2> QED BY <2>2, <2>6
<1> QED BY <1>1, <1>2

LEMMA FreshUsed ==
  ASSUME NEW o, IsOperand(o), Plain(o), next_vreg \in Virtual PROVE IsVReg(InRegister(o)) /\ InRegister(o) \in Virtual
BY LocalsVirtual DEF InRegister, NeedsFresh, IsOperand, Plain, Virtual

LEMMA StoreMeant ==
  ASSUME NEW p, NEW s, NEW t, NEW u, NEW R, Going(p, s, t, u, R), s.op = "store" PROVE Carried(p, s, t, u, R)
<1> DEFINE o == s.src
           q == s.ptr
           n == RegisterSize(o.dtype)
           a == LowerPtrAsAddr(q)
           j == Str(n, InRegister(o), a)
<1>1. /\ o \in Operands(s) /\ Known(p, o, u) /\ Known(p, q, u) /\ LowersValue(o) /\ LowersPtr(q)
      /\ next_vreg \in Virtual BY DEF Going, Operands, Accepts
<1>2. IsOperand(o) /\ Plain(o) /\ InRegister(o) \in UsedVregs(j)
 <2>1. IsOperand(o) BY <1>1 DEF Known
 <2>2. Plain(o) BY <1>1, <2>1, PlainOperand
 <2>3. IsVReg(InRegister(o)) BY <1>1, <2>1, <2>2, FreshUsed
 <2> QED BY <2>1, <2>2, <2>3 DEF UsedVregs, Str
<1>3. Emitted(s) = MoveFresh(o) \o <<j>> BY DEF Emitted
<1>4. Interpret(u, s) = StoreCell(u, Env(u, q), Env(u, o) % Modulus(n)) BY DEF Interpret
<1> HIDE DEF o, q, a
<1>5. j \in VInsts /\ Concerns(j) \subseteq R /\ PhysicalRegs \subseteq R
      /\ \E b : Moved(p, o, t, u, R, b) /\ Means(t, Emitted(s), Meaning(b, j)) BY <1>1, <1>2, <1>3, FreshMoved
<1>6. PICK b : Moved(p, o, t, u, R, b) /\ Means(t, Emitted(s), Meaning(b, j)) BY <1>5
<1>7. AddrRegs(a) \subseteq R BY <1>5, RegistersIn DEF Str
<1>8. Alongside(p, b, u, R) /\ b.at = Here /\ b.flags = t.flags /\ b.regs[InRegister(o)] = Env(u, o) /\ Env(u, o) \in Int
  BY <1>6 DEF Moved, Denotes
<1>9. AddressOf(b, a) = Env(u, q) /\ Env(u, q) \in 0 .. Modulus(X64) - 1 BY <1>1, <1>7, <1>8, AddressValue DEF a
<1>10. Meaning(b, j) = StoreCell(b, Env(u, q), Env(u, o) % Modulus(n)) BY <1>8, <1>9, MeansStr
<1> DEFINE x == Env(u, q)
           y == Env(u, o) % Modulus(n)
<1>11. x \in Int /\ y \in Int
 <2>1. Modulus(n) \in Nat \ {0} BY ModulusFacts DEF RegisterSize
 <2>2. y \in Int BY <1>8, <2>1, ModInRange
 <2>3. x \in Int BY <1>9, ModulusFacts
 <2> QED BY <2>2, <2>3
<1>12. Means(t, Emitted(s), StoreCell(b, x, y)) BY <1>6, <1>10
<1>13. Interpret(u, s) = StoreCell(u, x, y) BY <1>4
<1> HIDE DEF x, y
<1> QED BY <1>8, <1>11, <1>12, <1>13, StoreCarried

LEMMA LoadMeant ==
  ASSUME NEW p, NEW s, NEW t, NEW u, NEW R, Going(p, s, t, u, R), s.op = "load" PROVE Carried(p, s, t, u, R)
<1> DEFINE q == s.ptr
           n == RegisterSize(s.dst.dtype)
           a == LowerPtrAsAddr(q)
           d == s.dst.id
           i == Ldr(n, d, a)
           x == Fetch(u, Env(u, q), n)
<1>1. Alongside(p, t, u, R) /\ t.at = Here /\ Known(p, q, u) /\ LowersPtr(q) BY DEF Going, Operands, Accepts
<1>2. DefinedLocals(s) = {d} /\ Sized(d, n) \in SizesDefined(s) BY DEF DefinedLocals, SizesDefined
<1>3. Interpret(u, s) = [u EXCEPT !.env = Assigned(u.env, d, x)] BY DEF Interpret, Bind
<1>4. Emitted(s) = <<i>> BY DEF Emitted
<1>5. Modulus(n) \in Nat \ {0} BY ModulusFacts DEF RegisterSize
<1> HIDE DEF q, n, a, d
<1>6. i \in VInsts /\ Concerns(i) \subseteq R /\ PhysicalRegs \subseteq R /\ Means(t, Emitted(s), Meaning(t, i))
  BY <1>4, OneInst
<1>7. d \in R /\ AddrRegs(a) \subseteq R BY <1>6, RegistersIn DEF Ldr
<1>8. AddressOf(t, a) = Env(u, q) /\ Env(u, q) \in 0 .. Modulus(X64) - 1 BY <1>1, <1>7, AddressValue DEF a
<1>9. Fetch(t, Env(u, q), n) = x /\ Cell(u, Env(u, q)) \in Int BY <1>1, <1>8, ModulusFacts DEF Alongside, Fetch, Cell
<1>10. x \in 0 .. Modulus(n) - 1 BY <1>5, <1>9, ModInRange DEF Fetch
<1>11. Meaning(t, i) = Write(t, d, x) BY <1>1, <1>8, <1>9, MeansLdr
<1> HIDE DEF x
<1> QED BY <1>1, <1>2, <1>3, <1>6, <1>7, <1>10, <1>11, BindCarried

LEMMA BiopMeant ==
  ASSUME NEW p, NEW s, NEW t, NEW u, NEW R, Going(p, s, t, u, R), s.op = "biop" PROVE Carried(p, s, t, u, R)
<1> DEFINE o == s.left
           q == s.right
           n == RegisterSize(s.dst.dtype)
           d == s.dst.id
           j == BinOp(s.kind, W32, d, InRegister(o), LowerValue(q))
           x == Arith(s.kind, Env(u, o), Env(u, q), W32)
<1>1. /\ o \in Operands(s) /\ Known(p, o, u) /\ Known(p, q, u) /\ LowersInt(o) /\ LowersInt(q)
      /\ next_vreg \in Virtual /\ s.kind \in ArithOps BY DEF Going, Operands, Accepts, IsStatement, ArithOps
<1>2. DefinedLocals(s) = {d} /\ Sized(d, n) \in SizesDefined(s) BY DEF DefinedLocals, SizesDefined
<1>3. Interpret(u, s) = [u EXCEPT !.env = Assigned(u.env, d, x)] BY DEF Interpret, Bind
<1>4. Emitted(s) = MoveFresh(o) \o <<j>> BY DEF Emitted
<1>5. n \in Sizes /\ W32 \in Sizes BY DEF RegisterSize, Sizes
<1> HIDE DEF o, q, n, d
<1>6. IsOperand(o) /\ IsOperand(q) /\ RegisterSize(o.dtype) = W32 /\ RegisterSize(q.dtype) = W32
  BY <1>1 DEF Known, IsOperand, LowersInt, RegisterSize, IsInt
<1>7. Plain(o) /\ Plain(q) BY <1>1, <1>6, PlainOperand
<1>8. InRegister(o) \in UsedVregs(j) BY <1>1, <1>6, <1>7, FreshUsed DEF UsedVregs, BinOp
<1>9. j \in VInsts /\ Concerns(j) \subseteq R /\ PhysicalRegs \subseteq R
      /\ \E b : Moved(p, o, t, u, R, b) /\ Means(t, Emitted(s), Meaning(b, j)) BY <1>1, <1>4, <1>7, <1>8, FreshMoved
<1>10. PICK b : Moved(p, o, t, u, R, b) /\ Means(t, Emitted(s), Meaning(b, j)) BY <1>9
<1>11. d \in R /\ OperandRegs(LowerValue(q)) \subseteq R BY <1>9, RegistersIn DEF BinOp
<1>12. Alongside(p, b, u, R) /\ b.at = Here /\ b.flags = t.flags /\ b.regs[InRegister(o)] = Env(u, o) /\ Env(u, o) \in Int
  BY <1>10 DEF Moved, Denotes
<1>13. Denotes(b, LowerValue(q), W32, Env(u, q)) BY <1>1, <1>6, <1>7, <1>11, <1>12, OperandValue
<1>14. x = Arith(s.kind, Env(u, o), ValueOf(b, LowerValue(q)), W32) /\ x \in 0 .. Modulus(W32) - 1
 <2> DEFINE y == ValueOf(b, LowerValue(q))
            z == Env(u, q)
 <2>1. y \in Int /\ z \in Int /\ y % Modulus(W32) = z /\ z \in 0 .. Modulus(W32) - 1 BY <1>13 DEF Denotes
 <2> HIDE DEF y, z
 <2>2. z % Modulus(W32) = z BY <2>1, ModulusFacts, ModSmall
 <2>3. Arith(s.kind, Env(u, o), y, W32) = Arith(s.kind, Env(u, o), z, W32) BY <1>1, <1>5, <1>12, <2>1, <2>2, ArithAlike
 <2>4. Arith(s.kind, Env(u, o), z, W32) \in 0 .. Modulus(W32) - 1 BY <1>1, <1>5, <1>12, <2>1, ArithFacts
 <2> QED BY <2>3, <2>4 DEF y, z
<1>15. x \in 0 .. Modulus(n) - 1 BY <1>5, <1>14, ModulusFacts DEF Sizes
<1>16. Meaning(b, j) = Write(b, d, x) BY <1>12, <1>14, MeansBinOp
<1> HIDE DEF x, j
<1>17. Means(t, Emitted(s), Write(b, d, x)) BY <1>10, <1>16
<1> QED BY <1>2, <1>3, <1>11, <1>12, <1>15, <1>17, BindCarried

LEMMA FlagsCompare ==
  ASSUME NEW k \in {"Eq", "Ne", "Slt", "Sle", "Sgt", "Sge"}, NEW a \in Int, NEW b \in Int
  PROVE  CondHolds(CmpOpToCond(k), Flags(a, b, W32)) <=> Compares(k, Signed(a, W32), Signed(b, W32))
<1> DEFINE x == Signed(a, W32)
           y == Signed(b, W32)
           f == Flags(a, b, W32)
<1>1. x \in Int /\ y \in Int BY SignedFacts DEF Sizes
<1>2. f = CASE x < y -> "lt" [] x = y -> "eq" [] OTHER -> "gt" BY DEF Flags
<1> HIDE DEF x, y, f
<1>3. (f = "lt" <=> x < y) /\ (f = "eq" <=> x = y) /\ (f = "gt" <=> x > y) BY <1>1, <1>2
<1>4. /\ CondHolds("eq", f) <=> f = "eq"
      /\ CondHolds("ne", f) <=> f # "eq"
      /\ CondHolds("lt", f) <=> f = "lt"
      /\ CondHolds("le", f) <=> f # "gt"
      /\ CondHolds("gt", f) <=> f = "gt"
      /\ CondHolds("ge", f) <=> f # "lt" BY Zenon DEF CondHolds
<1>5. /\ Compares("Eq", x, y) <=> x = y
      /\ Compares("Ne", x, y) <=> x # y
      /\ Compares("Slt", x, y) <=> x < y
      /\ Compares("Sle", x, y) <=> x <= y
      /\ Compares("Sgt", x, y) <=> x > y
      /\ Compares("Sge", x, y) <=> x >= y BY Zenon DEF Compares
<1>6. /\ CmpOpToCond("Eq") = "eq" /\ CmpOpToCond("Ne") = "ne" /\ CmpOpToCond("Slt") = "lt"
      /\ CmpOpToCond("Sle") = "le" /\ CmpOpToCond("Sgt") = "gt" /\ CmpOpToCond("Sge") = "ge" BY DEF CmpOpToCond
<1>7. CondHolds(CmpOpToCond(k), f) <=> Compares(k, x, y) BY <1>1, <1>3, <1>4, <1>5, <1>6
<1> QED BY <1>7 DEF x, y, f

LEMMA CmpMeant ==
  ASSUME NEW p, NEW s, NEW t, NEW u, NEW R, Going(p, s, t, u, R), s.op = "cmp" PROVE Carried(p, s, t, u, R)
<1> DEFINE o == s.left
           q == s.right
           c == s.dst.id
           j == Cmp(InRegister(o), LowerValue(q))
           x == IF Compares(s.kind, Signed(Env(u, o), W32), Signed(Env(u, q), W32)) THEN 1 ELSE 0
<1>1. /\ o \in Operands(s) /\ Known(p, o, u) /\ Known(p, q, u) /\ LowersInt(o) /\ LowersInt(q)
      /\ next_vreg \in Virtual /\ s.kind \in {"Eq", "Ne", "Slt", "Sle", "Sgt", "Sge"} /\ c \in CondsOf(p)
  BY DEF Going, Operands, Accepts, IsStatement
<1>2. Interpret(u, s) = [u EXCEPT !.env = Assigned(u.env, c, x)] BY DEF Interpret, Bind
<1>3. Emitted(s) = MoveFresh(o) \o <<j>> BY DEF Emitted
<1> HIDE DEF o, q, c
<1>4. IsOperand(o) /\ IsOperand(q) /\ RegisterSize(q.dtype) = W32 BY <1>1 DEF Known, IsOperand, LowersInt, RegisterSize, IsInt
<1>5. Plain(o) /\ Plain(q) BY <1>1, <1>4, PlainOperand
<1>6. InRegister(o) \in UsedVregs(j) BY <1>1, <1>4, <1>5, FreshUsed DEF UsedVregs, Cmp
<1>7. j \in VInsts /\ Concerns(j) \subseteq R /\ PhysicalRegs \subseteq R
      /\ \E b : Moved(p, o, t, u, R, b) /\ Means(t, Emitted(s), Meaning(b, j)) BY <1>1, <1>3, <1>5, <1>6, FreshMoved
<1>8. PICK b : Moved(p, o, t, u, R, b) /\ Means(t, Emitted(s), Meaning(b, j)) BY <1>7
<1>9. OperandRegs(LowerValue(q)) \subseteq R BY <1>7, RegistersIn DEF Cmp
<1>10. Alongside(p, b, u, R) /\ b.at = Here /\ b.flags = t.flags /\ b.regs[InRegister(o)] = Env(u, o) /\ Env(u, o) \in Int
  BY <1>8 DEF Moved, Denotes
<1>11. Denotes(b, LowerValue(q), W32, Env(u, q)) BY <1>1, <1>4, <1>5, <1>9, <1>10, OperandValue
<1> DEFINE f == Flags(Env(u, o), ValueOf(b, LowerValue(q)), W32)
           e == Meaning(b, j)
           v == Interpret(u, s)
<1>12. CondHolds(CmpOpToCond(s.kind), f) <=> x = 1
 <2> DEFINE y == ValueOf(b, LowerValue(q))
            z == Env(u, q)
            w == Env(u, o)
 <2>1. y \in Int /\ z \in Int /\ w \in Int /\ y % Modulus(W32) = z /\ z \in 0 .. Modulus(W32) - 1 BY <1>10, <1>11 DEF Denotes
 <2> HIDE DEF y, z, w
 <2>2. z % Modulus(W32) = z BY <2>1, ModulusFacts, ModSmall
 <2>3. Flags(w, y, W32) = Flags(w, z, W32) BY <2>1, <2>2, FlagsAlike DEF Sizes
 <2>4. CondHolds(CmpOpToCond(s.kind), Flags(w, z, W32)) <=> Compares(s.kind, Signed(w, W32), Signed(z, W32))
   BY <1>1, <2>1, FlagsCompare
 <2> QED BY <2>3, <2>4 DEF y, z, w
<1>13. e = Flagged(b, f) BY <1>10, MeansCmp DEF Flagged
<1>14. v = Noted(u, c, x) BY <1>2 DEF Noted
<1> HIDE DEF x, j, f, e, v
<1>15. Alongside(p, e, v, R) /\ e.flags = f /\ c \in DOMAIN v.env /\ v.env[c] = x BY <1>1, <1>10, <1>13, <1>14, AfterCond
<1>16. Judged(s, e, t, v) BY <1>12, <1>15 DEF Judged, c
<1> QED BY <1>8, <1>15, <1>16 DEF Carried, e, v

LEMMA LeaveMeant ==
  ASSUME NEW p, NEW s, NEW t, NEW u, NEW R, Going(p, s, t, u, R), s.op \in {"cjump", "jump", "return_void", "alloca"}
  PROVE  Carried(p, s, t, u, R)
<1>1. Alongside(p, t, u, R) /\ t.at = Here BY DEF Going
<1>2. CASE s.op = "jump"
 <2>1. Emitted(s) = <<B(s.target)>> /\ Interpret(u, s) = [u EXCEPT !.at = s.target] BY <1>2 DEF Emitted, Interpret
 <2>2. Means(t, Emitted(s), [t EXCEPT !.at = s.target]) BY <1>1, <2>1, OneInst, MeansB
 <2> QED BY <1>1, <1>2, <2>1, <2>2, MoveCarried
<1>3. CASE s.op = "return_void"
 <2> DEFINE i == [op |-> "Ret"]
 <2>1. Emitted(s) = <<i>> /\ Interpret(u, s) = [u EXCEPT !.at = Returned] BY <1>3 DEF Emitted, Interpret
 <2>2. Meaning(t, i) = [t EXCEPT !.at = Returned] BY <1>1, MeansRet
 <2> HIDE DEF i
 <2>3. Means(t, Emitted(s), [t EXCEPT !.at = Returned]) BY <2>1, <2>2, OneInst
 <2> QED BY <1>1, <1>3, <2>1, <2>3, MoveCarried
<1>4. CASE s.op = "alloca"
 <2>1. Emitted(s) = <<>> /\ Interpret(u, s) = u BY <1>4 DEF Emitted, Interpret
 <2> QED BY <1>1, <1>4, <2>1, MeansNothing DEF Carried, Judged
<1>5. CASE s.op = "cjump"
 <2> DEFINE i == BCond(cond_map[s.cond.id], s.true)
            j == B(s.false)
            c == s.cond.id
 <2>1. /\ s.cond.kind = "local" /\ ~HasAlloca(s.cond) /\ s.true # Here
       /\ (CondHolds(cond_map[c], t.flags) <=> u.env[c] = 1) BY <1>5 DEF Going, Accepts, IsStatement, HasAlloca
 <2>2. Env(u, s.cond) = u.env[c] BY <2>1 DEF Env
 <2>3. Interpret(u, s) = [u EXCEPT !.at = IF u.env[c] = 1 THEN s.true ELSE s.false] BY <1>5, <2>2 DEF Interpret
 <2>4. Emitted(s) = <<i, j>> BY <1>5 DEF Emitted
 <2>5. Meaning(t, i) = IF u.env[c] = 1 THEN [t EXCEPT !.at = s.true] ELSE t BY <1>1, <2>1, MeansBCond
 <2>6. Means(t, Emitted(s), Meaning(Meaning(t, i), j)) BY <2>4, TwoInst
 <2> DEFINE l == IF u.env[c] = 1 THEN s.true ELSE s.false
 <2>7. Meaning(Meaning(t, i), j) = [t EXCEPT !.at = l]
  <3>1. CASE u.env[c] = 1
   <4>1. Meaning(t, i) = [t EXCEPT !.at = s.true] BY <2>5, <3>1
   <4>2. Meaning(t, i).at # Here BY <1>1, <2>1, <4>1 DEF Alongside, Shaped
   <4> QED BY <3>1, <4>1, <4>2 DEF Meaning
  <3>2. CASE u.env[c] # 1 BY <1>1, <2>5, <3>2, MeansB
  <3> QED BY <3>1, <3>2
 <2> HIDE DEF l, i, j
 <2>8. Means(t, Emitted(s), [t EXCEPT !.at = l]) BY <2>6, <2>7
 <2>9. Interpret(u, s) = [u EXCEPT !.at = l] BY <2>3 DEF l
 <2> QED BY <1>1, <1>5, <2>8, <2>9, MoveCarried
<1> QED BY <1>2, <1>3, <1>4, <1>5

LEMMA PlainMeant ==
  ASSUME NEW p, NEW t, NEW u, NEW R, Alongside(p, t, u, R), t.at = Here, NEW o, Known(p, o, u), LowersValue(o) \/ Plain(o),
         NEW n, n = RegisterSize(o.dtype), NEW d, NEW i \in VInsts, i = Mov(n, d, LowerValue(o)),
         Concerns(i) \subseteq R, PhysicalRegs \subseteq R
  PROVE  Meaning(t, i) = Write(t, d, Env(u, o)) /\ d \in R /\ Env(u, o) \in 0 .. Modulus(n) - 1 /\ Env(u, o) \in Int
<1> DEFINE l == LowerValue(o)
<1>1. Plain(o) BY PlainOperand DEF Known
<1>2. OperandRegs(l) \subseteq R /\ d \in R BY RegistersIn DEF Mov
<1>3. Denotes(t, l, n, Env(u, o)) BY <1>1, <1>2, OperandValue
<1> HIDE DEF l
<1>4. Meaning(t, Mov(n, d, l)) = Write(t, d, ValueOf(t, l) % Modulus(n)) BY MeansMov
<1> QED BY <1>2, <1>3, <1>4 DEF Denotes, l

LEMMA CopyMeant ==
  ASSUME NEW p, NEW s, NEW t, NEW u, NEW R, Going(p, s, t, u, R), s.op \in {"copy", "call_result"}
  PROVE  Carried(p, s, t, u, R)
<1> DEFINE n == RegisterSize(s.dst.dtype)
           d == s.dst.id
           M == Modulus(n)
<1>1. Alongside(p, t, u, R) /\ t.at = Here BY DEF Going
<1>2. DefinedLocals(s) = {d} /\ Sized(d, n) \in SizesDefined(s) BY DEF DefinedLocals, SizesDefined
<1>3. CASE s.op = "copy"
 <2> DEFINE o == s.src
            i == Mov(n, d, LowerValue(o))
            x == Env(u, o)
 <2>1. Known(p, o, u) /\ Plain(o) /\ n = RegisterSize(o.dtype)
   BY <1>3 DEF Going, Operands, Accepts, IsStatement, IsTypedStatement, Plain
 <2>2. Emitted(s) = <<i>> BY <1>3 DEF Emitted
 <2>3. Interpret(u, s) = [u EXCEPT !.env = Assigned(u.env, d, x)] BY <1>3 DEF Interpret, Bind
 <2> HIDE DEF n, d
 <2>4. i \in VInsts /\ Concerns(i) \subseteq R /\ PhysicalRegs \subseteq R /\ Means(t, Emitted(s), Meaning(t, i))
   BY <2>2, OneInst
 <2>5. i = Mov(n, d, LowerValue(o)) OBVIOUS
 <2> HIDE DEF i, o
 <2>6. Meaning(t, i) = Write(t, d, x) BY <1>1, <2>1, <2>4, <2>5, PlainMeant
 <2>7. x \in 0 .. Modulus(n) - 1 BY <1>1, <2>1, <2>4, <2>5, PlainMeant
 <2>8. d \in R BY <2>4, <2>5, RegistersIn DEF Mov
 <2> HIDE DEF x
 <2> QED BY <1>1, <1>2, <1>3, <2>3, <2>4, <2>6, <2>7, <2>8, BindCarried
<1>4. CASE s.op = "call_result"
 <2> DEFINE o == Reg(REG_X0)
            i == Mov(n, d, o)
            x == u.x0 % M
 <2>1. Emitted(s) = <<i>> BY <1>4 DEF Emitted
 <2>2. Interpret(u, s) = [u EXCEPT !.env = Assigned(u.env, d, x)] BY <1>4 DEF Interpret, Bind
 <2>3. ValueOf(t, o) = u.x0 /\ u.x0 \in Int BY <1>1 DEF ValueOf, Reg, Alongside
 <2>4. x \in 0 .. M - 1
  <3>1. M \in Nat \ {0} BY ModulusFacts DEF RegisterSize
  <3> HIDE DEF M
  <3> QED BY <2>3, <3>1, ModInRange
 <2> HIDE DEF n, d, o
 <2>5. i \in VInsts /\ Concerns(i) \subseteq R /\ PhysicalRegs \subseteq R /\ Means(t, Emitted(s), Meaning(t, i))
   BY <2>1, OneInst
 <2>6. d \in R BY <2>5, RegistersIn DEF Mov
 <2>7. Meaning(t, i) = Write(t, d, x) BY <1>1, <2>3, MeansMov
 <2> HIDE DEF x, i
 <2> QED BY <1>1, <1>2, <1>4, <2>2, <2>4, <2>5, <2>6, <2>7, BindCarried
<1> QED BY <1>3, <1>4

(* A value or an address comes into a register of its own. *)
Into(o, d) ==
  IF o.dtype.kind \in {"ptr", "array"}
  THEN IF HasAlloca(o) \/ o.kind = "global" THEN Lea(d, LowerPtrAsAddr(o)) ELSE Mov(X64, d, Reg(o.id))
  ELSE Mov(RegisterSize(o.dtype), d, LowerValue(o))

LEMMA IntoMeant ==
  ASSUME NEW p, NEW t, NEW u, NEW R, Alongside(p, t, u, R), t.at = Here, NEW o, Known(p, o, u),
         IF o.dtype.kind \in {"ptr", "array"} THEN LowersPtr(o) ELSE LowersValue(o), NEW d,
         Into(o, d) \in VInsts, Concerns(Into(o, d)) \subseteq R
  PROVE  /\ Meaning(t, Into(o, d)) = Write(t, d, Env(u, o))
         /\ Env(u, o) \in 0 .. Modulus(RegisterSize(o.dtype)) - 1 /\ Env(u, o) \in Int
<1> DEFINE n == RegisterSize(o.dtype)
           i == Into(o, d)
           a == LowerPtrAsAddr(o)
           x == Env(u, o)
<1>1. PhysicalRegs \subseteq R BY DEF Alongside
<1>2. CASE o.dtype.kind \in {"ptr", "array"} /\ (HasAlloca(o) \/ o.kind = "global")
 <2>1. LowersPtr(o) /\ n = X64 /\ i = Lea(d, a) BY <1>2 DEF RegisterSize, IsInt, Into
 <2> HIDE DEF i, a, x, n
 <2>2. AddrRegs(a) \subseteq R BY <1>1, <2>1, RegistersIn DEF Lea, i
 <2>3. AddressOf(t, a) = x /\ x \in 0 .. Modulus(X64) - 1 BY <2>1, <2>2, AddressValue DEF a, x
 <2>4. Meaning(t, Lea(d, a)) = Write(t, d, AddressOf(t, a)) BY MeansLea
 <2>5. x \in Int BY <2>3, ModulusFacts
 <2> QED BY <2>1, <2>3, <2>4, <2>5 DEF i, x, n
<1>3. CASE ~(o.dtype.kind \in {"ptr", "array"} /\ (HasAlloca(o) \/ o.kind = "global"))
 <2>1. i = Mov(n, d, LowerValue(o)) /\ (LowersValue(o) \/ Plain(o))
   BY <1>3 DEF Known, IsOperand, LowersPtr, RegisterSize, IsInt, Into, LowerValue, Plain
 <2> HIDE DEF i, x, n
 <2>2. i \in VInsts /\ Concerns(i) \subseteq R /\ n = RegisterSize(o.dtype) BY DEF i, n
 <2>3. Meaning(t, i) = Write(t, d, Env(u, o)) BY <1>1, <2>1, <2>2, PlainMeant
 <2>4. Env(u, o) \in 0 .. Modulus(n) - 1 BY <1>1, <2>1, <2>2, PlainMeant
 <2>5. Env(u, o) \in Int BY <1>1, <2>1, <2>2, PlainMeant
 <2> QED BY <2>3, <2>4, <2>5 DEF i, n
<1> QED BY <1>2, <1>3

LEMMA GprArgMeant ==
  ASSUME NEW p, NEW s, NEW t, NEW u, NEW R, Going(p, s, t, u, R), s.op = "gpr_arg" PROVE Carried(p, s, t, u, R)
<1> DEFINE o == s.src
           i == Into(o, REG_X0)
           x == Env(u, o)
<1>1. /\ Alongside(p, t, u, R) /\ t.at = Here /\ Known(p, o, u) /\ s.at = REG_X0
      /\ IF o.dtype.kind \in {"ptr", "array"} THEN LowersPtr(o) ELSE LowersValue(o) BY DEF Going, Operands, Accepts, IsStatement
<1>2. Emitted(s) = <<i>> BY <1>1 DEF Emitted, EmitGprArg, PtrToReg, Into
<1>3. Interpret(u, s) = [u EXCEPT !.x0 = x] BY DEF Interpret
<1> HIDE DEF i, o
<1>4. i \in VInsts /\ Concerns(i) \subseteq R /\ Means(t, Emitted(s), Meaning(t, i)) BY <1>2, OneInst
<1>5. Meaning(t, i) = Write(t, REG_X0, x) /\ x \in Int BY <1>1, <1>4, IntoMeant DEF i
<1> HIDE DEF x
<1> QED BY <1>1, <1>3, <1>4, <1>5, MoveCarried

LEMMA ReturnMeant ==
  ASSUME NEW p, NEW s, NEW t, NEW u, NEW R, Going(p, s, t, u, R), s.op = "return" PROVE Carried(p, s, t, u, R)
<1> DEFINE o == s.val
           n == RegisterSize(o.dtype)
           i == Mov(n, REG_X0, LowerValue(o))
           j == [op |-> "Ret"]
           x == Env(u, o)
           b == Write(t, REG_X0, x)
           v == [u EXCEPT !.x0 = x]
<1>1. Alongside(p, t, u, R) /\ t.at = Here /\ Known(p, o, u) /\ LowersValue(o) BY DEF Going, Operands, Accepts
<1>2. Emitted(s) = <<i, j>> BY DEF Emitted
<1>3. Interpret(u, s) = [v EXCEPT !.at = Returned] BY <1>1 DEF Interpret, Alongside, IrShaped
<1> HIDE DEF o, n
<1>4. i = Mov(n, REG_X0, LowerValue(o)) /\ n = RegisterSize(o.dtype) BY DEF n
<1> HIDE DEF i, j
<1>5. i \in VInsts /\ Concerns(i) \subseteq R /\ PhysicalRegs \subseteq R /\ Means(t, Emitted(s), Meaning(Meaning(t, i), j))
  BY <1>2, TwoInst
<1>6. Meaning(t, i) = b BY <1>1, <1>4, <1>5, PlainMeant
<1>7. x \in Int BY <1>1, <1>4, <1>5, PlainMeant
<1> HIDE DEF x
<1>8. Alongside(p, b, v, R) /\ b.flags = t.flags BY <1>1, <1>7, AfterMove
<1>9. b.at = Here BY <1>1 DEF Write, Alongside, Shaped
<1> HIDE DEF b, v
<1>10. Means(t, Emitted(s), [b EXCEPT !.at = Returned]) BY <1>5, <1>6, <1>9, MeansRet DEF j
<1> QED BY <1>3, <1>8, <1>10, MoveCarried

LEMMA StackArgMeant ==
  ASSUME NEW p, NEW s, NEW t, NEW u, NEW R, Going(p, s, t, u, R), s.op = "stack_arg" PROVE Carried(p, s, t, u, R)
<1> DEFINE o == s.src
           n == RegisterSize(o.dtype)
           r == IF o.kind = "local" /\ IsInt(o.dtype) THEN o.id ELSE SCRATCH0
           i == Into(o, SCRATCH0)
           a == BaseOff(SP, s.at)
           j == Str(n, r, a)
           x == Env(u, o)
           y == (u.sp + s.at) % Modulus(X64)
<1>1. /\ Alongside(p, t, u, R) /\ t.at = Here /\ Known(p, o, u) /\ s.at \in Nat
      /\ IF o.dtype.kind \in {"ptr", "array"} THEN LowersPtr(o) ELSE LowersValue(o) BY DEF Going, Operands, Accepts, IsStatement
<1>2. Emitted(s) = IF o.kind = "local" /\ IsInt(o.dtype) THEN <<j>> ELSE <<i, j>>
 <2>1. CASE o.dtype.kind \in {"ptr", "array"}
  <3>1. n = X64 /\ r = SCRATCH0 BY <2>1 DEF RegisterSize, IsInt
  <3>2. PtrToReg(o, SCRATCH0) = <<i>> BY <2>1 DEF PtrToReg, Into
  <3>3. j = Str(X64, SCRATCH0, a) /\ Emitted(s) = EmitStackArg(s) BY <3>1 DEF Emitted
  <3>0. o.kind # "const" BY <1>1, <2>1 DEF Known, IsOperand
  <3>4. EmitStackArg(s) = PtrToReg(o, SCRATCH0) \o <<Str(X64, SCRATCH0, a)>> BY <2>1, <3>0 DEF EmitStackArg
  <3> HIDE DEF i, j
  <3>5. Emitted(s) = <<i, j>> BY <3>2, <3>3, <3>4, PairJoined
  <3> QED BY <2>1, <3>5 DEF IsInt
 <2>2. CASE o.dtype.kind \notin {"ptr", "array"} /\ o.kind = "const" BY <1>1, <2>2 DEF Emitted, EmitStackArg, Into, LowerValue
 <2>3. CASE o.dtype.kind \notin {"ptr", "array"} /\ o.kind # "const" BY <1>1, <2>3 DEF Emitted, EmitStackArg, LowersValue
 <2> QED BY <2>1, <2>2, <2>3
<1>3. Interpret(u, s) = StoreCell(u, y, x) BY DEF Interpret
<1>4. Modulus(X64) \in Nat \ {0} /\ Modulus(n) \in Nat \ {0} BY ModulusFacts DEF RegisterSize
<1>5. y \in Int /\ u.sp \in Int
 <2> DEFINE M == Modulus(X64)
 <2>1. u.sp + s.at \in Int /\ M \in Nat \ {0} /\ u.sp \in Int BY <1>1, <1>4 DEF Alongside
 <2> HIDE DEF M
 <2> QED BY <2>1, ModInRange DEF M
<1>6. ASSUME NEW b, Alongside(p, b, u, R), b.at = Here, b.regs[r] = x, x \in 0 .. Modulus(n) - 1
      PROVE  Meaning(b, j) = StoreCell(b, y, x) /\ x \in Int
 <2>1. x % Modulus(n) = x /\ x \in Int BY <1>4, <1>6, ModSmall
 <2>2. AddressOf(b, a) = y BY <1>6 DEF AddressOf, BaseOff, Alongside
 <2> HIDE DEF a, x, y, n, r
 <2>3. Meaning(b, j) = StoreCell(b, AddressOf(b, a), b.regs[r] % Modulus(n)) BY <1>6, MeansStr
 <2> QED BY <1>6, <2>1, <2>2, <2>3
<1>7. CASE o.kind = "local" /\ IsInt(o.dtype)
 <2>1. Emitted(s) = <<j>> /\ r = o.id /\ Plain(o) /\ LowerValue(o) = Reg(r)
   BY <1>1, <1>2, <1>7 DEF Known, IsOperand, IsInt, HasAlloca, Plain, LowerValue
 <2> HIDE DEF j, x, y, o, n, r
 <2>2. j \in VInsts /\ Concerns(j) \subseteq R /\ PhysicalRegs \subseteq R /\ Means(t, Emitted(s), Meaning(t, j))
   BY <2>1, OneInst
 <2>3. r \in R BY <2>2, RegistersIn DEF j, Str
 <2>4. RegsOf(o) = {r} /\ x = u.env[r] BY <1>7, <2>1 DEF RegsOf, Env, x, Plain, r
 <2>5. t.regs[r] = x /\ x \in 0 .. Modulus(n) - 1
  <3>1. r \in Common(p, u) \cap R /\ Sized(r, n) \in Types(p) BY <1>1, <2>3, <2>4 DEF Known, n
  <3>2. Sized(r, n).id = r /\ Sized(r, n).size = n BY DEF Sized
  <3> QED BY <1>1, <2>4, <3>1, <3>2 DEF Alongside
 <2>6. Means(t, Emitted(s), StoreCell(t, y, x)) /\ x \in Int BY <1>1, <1>6, <2>2, <2>5
 <2> QED BY <1>1, <1>3, <1>5, <2>6, StoreCarried
<1>8. CASE ~(o.kind = "local" /\ IsInt(o.dtype))
 <2>1. Emitted(s) = <<i, j>> /\ r = SCRATCH0 BY <1>2, <1>8
 <2> HIDE DEF i, j, x, y, o, n, r
 <2>2. /\ i \in VInsts /\ Concerns(i) \subseteq R /\ PhysicalRegs \subseteq R
       /\ Means(t, Emitted(s), Meaning(Meaning(t, i), j)) BY <2>1, TwoInst
 <2> DEFINE b == Write(t, r, x)
 <2>3. Meaning(t, i) = b /\ x \in 0 .. Modulus(n) - 1 BY <1>1, <2>1, <2>2, IntoMeant DEF i, n, x
 <2>4. r \in R /\ r \notin Locals \cup {SP, FP, REG_X0}
   BY <2>1, <2>2, PhysicalNumbers, LocalNumbers DEF SCRATCH0, SP, FP, REG_X0
 <2> HIDE DEF b
 <2>5. Alongside(p, b, u, R) /\ b.flags = t.flags /\ b.at = t.at /\ b.regs[r] = x BY <1>1, <2>4, AfterFresh DEF b
 <2>6. Means(t, Emitted(s), StoreCell(b, y, x)) /\ x \in Int BY <1>1, <1>6, <2>2, <2>3, <2>5
 <2> QED BY <1>3, <1>5, <2>5, <2>6, StoreCarried
<1> QED BY <1>7, <1>8

LEMMA PieceMeant ==
  ASSUME NEW p, NEW s, NEW t, NEW u, NEW R, Going(p, s, t, u, R), s.op = "as_is" PROVE Carried(p, s, t, u, R)
<1> DEFINE i == s.inst
<1>1. Alongside(p, t, u, R) /\ t.at = Here /\ i \in PiecesOfCalls BY DEF Going, IsStatement
<1>2. Emitted(s) = <<i>> /\ Interpret(u, s) = InterpretPiece(u, i) BY DEF Emitted, Interpret
<1>3. i \in VInsts /\ Concerns(i) \subseteq R /\ PhysicalRegs \subseteq R /\ Means(t, Emitted(s), Meaning(t, i))
  BY <1>2, OneInst
<1>4. CASE i.op \in {"SubSp", "AddSp"}
 <2> DEFINE x == IF i.op = "SubSp" THEN u.sp - i.imm ELSE u.sp + i.imm
 <2>1. i.imm \in Int /\ u.sp \in Int /\ t.regs[SP] = u.sp BY <1>1, <1>4 DEF PiecesOfCalls, Alongside
 <2>2. Meaning(t, i) = Write(t, SP, x) /\ Interpret(u, s) = [u EXCEPT !.sp = x] /\ x \in Int
   BY <1>1, <1>2, <1>4, <2>1 DEF Meaning, Effect, InterpretPiece
 <2> HIDE DEF x, i
 <2> QED BY <1>1, <1>3, <2>2, MoveCarried
<1>5. CASE i.op = "Ldr"
 <2> DEFINE n == i.size
            d == i.dst
            k == i.addr.offset
            a == BaseOff(FP, k)
            y == (FpValue + k) % Modulus(X64)
            x == Fetch(u, y, n)
 <2>1. /\ i = Ldr(n, d, a) /\ n \in Sizes /\ d \in Locals /\ k \in Int
       /\ DefinedLocals(s) = {d} /\ Sized(d, n) \in SizesDefined(s)
       /\ Interpret(u, s) = [u EXCEPT !.env = Assigned(u.env, d, x)]
   BY <1>1, <1>2, <1>5 DEF PiecesOfCalls, Ldr, BaseOff, Sizes, DefinedLocals, SizesDefined, InterpretPiece
 <2>2. AddressOf(t, a) = y BY <1>1 DEF AddressOf, BaseOff, Alongside
 <2>3. y \in Int
  <3> DEFINE M == Modulus(X64)
  <3>1. FpValue + k \in Int /\ M \in Nat \ {0} BY <2>1, FrameAssumption, ModulusFacts
  <3> HIDE DEF M
  <3> QED BY <3>1, ModInRange DEF M
 <2> HIDE DEF i, n, d, a, y
 <2>4. Fetch(t, y, n) = x /\ Cell(u, y) \in Int BY <1>1, <2>3 DEF Alongside, Fetch, Cell
 <2>5. x \in 0 .. Modulus(n) - 1 BY <2>1, <2>4, ModulusFacts, ModInRange DEF Fetch
 <2>6. d \in R BY <1>3, <2>1, RegistersIn DEF Ldr
 <2>7. Meaning(t, i) = Write(t, d, x) BY <1>1, <2>1, <2>2, <2>4, MeansLdr
 <2> HIDE DEF x
 <2> QED BY <1>1, <1>3, <2>1, <2>5, <2>6, <2>7, BindCarried
<1> QED BY <1>1, <1>4, <1>5 DEF PiecesOfCalls

LEMMA RegisterHolds ==
  ASSUME NEW p, NEW t, NEW u, NEW R, Alongside(p, t, u, R), NEW o, Known(p, o, u), LowersPtr(o),
         ~HasAlloca(o), o.kind # "global", o.id \in R
  PROVE  t.regs[o.id] = Env(u, o) /\ Env(u, o) \in 0 .. Modulus(X64) - 1
<1> DEFINE d == o.id
<1>1. o.kind = "local" /\ RegsOf(o) = {d} /\ Env(u, o) = u.env[d] /\ RegisterSize(o.dtype) = X64
  BY DEF Known, IsOperand, LowersPtr, RegsOf, Env, RegisterSize, IsInt
<1>2. d \in Common(p, u) \cap R /\ Sized(d, X64) \in Types(p) BY <1>1 DEF Known
<1>3. Sized(d, X64).id = d /\ Sized(d, X64).size = X64 BY DEF Sized
<1> QED BY <1>1, <1>2, <1>3 DEF Alongside

LEMMA Overwritten ==
  ASSUME NEW t, NEW R, Shaped(t, R), NEW d \in R, NEW x, NEW y PROVE Write(Write(t, d, y), d, x) = Write(t, d, x)
BY DEF Write, Shaped

LEMMA FieldMeant ==
  ASSUME NEW p, NEW s, NEW t, NEW u, NEW R, Going(p, s, t, u, R), s.op = "gep", IsStructFieldAccess(s)
  PROVE  Means(t, Emitted(s), Write(t, s.dst.id, (Env(u, s.base) + GepOffset(u, s)) % Modulus(X64))) /\ s.dst.id \in R
         /\ GepOffset(u, s) \in Int /\ Env(u, s.base) \in Int
<1> DEFINE o == s.base
           q == s.index
           d == s.dst.id
           k == FieldOffset(s)
           M == Modulus(X64)
           y == Env(u, o)
           x == (y + k) % M
<1>1. /\ Alongside(p, t, u, R) /\ t.at = Here /\ Known(p, o, u) /\ LowersPtr(o) /\ IsOperand(q)
      /\ q.kind = "const" /\ k \in Nat /\ o.dtype.kind = "ptr" /\ o.dtype.to.kind = "struct"
  BY DEF Going, Operands, Accepts, IsStatement, IsStructFieldAccess, GepStructAccepts
<1>2. Emitted(s) = EmitPtrOffset(d, o, k) BY DEF Emitted
<1>3. M \in Nat \ {0} BY ModulusFacts
<1>4. GepOffset(u, s) = k
 <2>1. Signed(Env(u, q), W32) = q.val
  <3>1. q.val \in I32Values BY <1>1 DEF IsOperand, I32Values
  <3>2. Env(u, q) = q.val % Modulus(W32) BY <1>1, Zenon DEF Env, HasAlloca
  <3>3. Signed(q.val, W32) = q.val /\ q.val \in Int BY <3>1, SignedI32
  <3> QED BY <3>2, <3>3, SignedFacts DEF Sizes
 <2> QED BY <1>1, <2>1 DEF GepOffset, FieldOffset
<1>5. CASE HasAlloca(o)
 <2> DEFINE z == Allocas[o.id]
            a == LocalAddr(z + k)
 <2>1. Emitted(s) = <<Lea(d, a)>> BY <1>2, <1>5 DEF EmitPtrOffset, HasAlloca
 <2>2. y = (FpValue + z) % M BY <1>5 DEF HasAlloca, Env
 <2>3. z \in Int /\ FpValue \in Int /\ t.regs[FP] = FpValue
   BY <1>1, <1>5, ProgramsAssumption, FrameAssumption DEF HasAlloca, Alongside
 <2>4. AddressOf(t, a) = (FpValue + (z + k)) % M BY <2>3 DEF AddressOf, LocalAddr, BaseOff
 <2> HIDE DEF a, z, M, k, y, o, q, d
 <2>5. FpValue + z \in Int /\ (FpValue + z) + k = FpValue + (z + k) /\ k \in Int BY <1>1, <2>3
 <2>6. y \in Int /\ x = (FpValue + (z + k)) % M
  <3> DEFINE v == FpValue + z
  <3>1. v \in Int /\ y = v % M /\ k \in Int /\ v + k = FpValue + (z + k) BY <2>2, <2>5
  <3> HIDE DEF v
  <3>2. ((v % M) + k) % M = (v + k) % M BY <1>3, <3>1, ModOfSum
  <3> QED BY <1>3, <3>1, <3>2, ModInRange
 <2>7. Lea(d, a) \in VInsts /\ Concerns(Lea(d, a)) \subseteq R /\ PhysicalRegs \subseteq R
       /\ Means(t, Emitted(s), Meaning(t, Lea(d, a))) BY <2>1, OneInst
 <2>8. d \in R BY <2>7, RegistersIn DEF Lea
 <2>9. Meaning(t, Lea(d, a)) = Write(t, d, x) BY <1>1, <2>4, <2>6, MeansLea
 <2> QED BY <1>1, <1>4, <2>5, <2>6, <2>7, <2>8, <2>9 DEF o, d, y, M
<1>6. CASE ~HasAlloca(o) /\ o.kind = "global"
 <2> DEFINE a == Global(o.sym)
            i == Lea(d, a)
            j == BinOp("add", X64, d, d, Imm(k))
 <2>1. y = o.sym /\ y \in 0 .. M - 1 /\ AddressOf(t, a) = y BY <1>1, <1>6 DEF Known, IsOperand, Env, AddressOf, Global
 <2>2. Emitted(s) = IF k = 0 THEN <<i>> \o <<>> ELSE <<i>> \o <<j>> BY <1>2, <1>6 DEF EmitPtrOffset
 <2> HIDE DEF k, y, o, q, d
 <2>3. Emitted(s) = IF k = 0 THEN <<i>> ELSE <<i, j>>
  <3> HIDE DEF i, j
  <3>1. <<i>> \o <<>> = <<i>> OBVIOUS
  <3> QED BY <2>2, <3>1, PairJoined
 <2>4. Meaning(t, i) = Write(t, d, y) BY <1>1, <2>1, MeansLea
 <2> HIDE DEF M
 <2>5. CASE k = 0
  <3>1. x = y /\ y \in Int /\ k \in Int BY <1>3, <2>1, <2>5, ModSmall
  <3> HIDE DEF i
  <3>2. i \in VInsts /\ Concerns(i) \subseteq R /\ PhysicalRegs \subseteq R /\ Means(t, Emitted(s), Meaning(t, i))
    BY <2>3, <2>5, OneInst
  <3>3. d \in R BY <3>2, RegistersIn DEF i, Lea
  <3> QED BY <1>4, <2>4, <3>1, <3>2, <3>3 DEF o, d, y, M
 <2>6. CASE k # 0
  <3> HIDE DEF i
  <3>1. i \in VInsts /\ Concerns(i) \subseteq R /\ PhysicalRegs \subseteq R /\ Means(t, Emitted(s), Meaning(Meaning(t, i), j))
    BY <2>3, <2>6, TwoInst
  <3>2. d \in R BY <3>1, RegistersIn DEF i, Lea
  <3> DEFINE b == Write(t, d, y)
  <3>3. b.at = Here /\ b.regs[d] = y BY <1>1, <3>2 DEF Alongside, Shaped, Write
  <3> HIDE DEF b
  <3>4. Arith("add", y, k, X64) = x BY DEF Arith, M
  <3>5. ValueOf(b, Imm(k)) = k BY DEF ValueOf, Imm
  <3> HIDE DEF x
  <3>6. Meaning(b, j) = Write(b, d, x) BY <3>3, <3>4, <3>5, MeansBinOp
  <3>7. Write(b, d, x) = Write(t, d, x) BY <1>1, <3>2, Overwritten DEF b, Alongside
  <3>8. Means(t, Emitted(s), Write(t, d, x)) BY <2>4, <3>1, <3>6, <3>7 DEF b
  <3>9. y \in Int /\ k \in Int BY <1>1, <1>3, <2>1
  <3> QED BY <1>4, <3>2, <3>8, <3>9 DEF o, d, y, M, x
 <2> QED BY <2>5, <2>6
<1>7. CASE ~HasAlloca(o) /\ o.kind # "global"
 <2> DEFINE a == BaseOff(o.id, k)
            i == Lea(d, a)
 <2>1. Emitted(s) = <<i>> BY <1>2, <1>7 DEF EmitPtrOffset
 <2> HIDE DEF i
 <2>2. i \in VInsts /\ Concerns(i) \subseteq R /\ PhysicalRegs \subseteq R /\ Means(t, Emitted(s), Meaning(t, i))
   BY <2>1, OneInst
 <2>3. d \in R /\ AddrRegs(a) \subseteq R BY <2>2, RegistersIn DEF i, Lea
 <2>4. o.id \in R BY <2>3 DEF AddrRegs, BaseOff
 <2>5. t.regs[o.id] = y /\ y \in 0 .. M - 1 BY <1>1, <1>7, <2>4, RegisterHolds
 <2>6. AddressOf(t, a) = x BY <2>5 DEF AddressOf, BaseOff
 <2> HIDE DEF a, x, M
 <2>7. Meaning(t, i) = Write(t, d, x) BY <1>1, <2>6, MeansLea DEF i
 <2>8. y \in Int /\ k \in Int BY <1>1, <1>3, <2>5
 <2> QED BY <1>4, <2>2, <2>3, <2>7, <2>8 DEF x, M
<1> QED BY <1>5, <1>6, <1>7

LEMMA ElementMeant ==
  ASSUME NEW p, NEW s, NEW t, NEW u, NEW R, Going(p, s, t, u, R), s.op = "gep", ~IsStructFieldAccess(s)
  PROVE  Means(t, Emitted(s), Write(t, s.dst.id, (Env(u, s.base) + GepOffset(u, s)) % Modulus(X64))) /\ s.dst.id \in R
         /\ GepOffset(u, s) \in Int /\ Env(u, s.base) \in Int
<1> DEFINE o == s.base
           q == s.index
           d == s.dst.id
           n == SizeOf(Stepped(o.dtype))
           l == LowerValue(q)
           M == Modulus(X64)
           y == Env(u, o)
           z == Signed(Env(u, q), W32)
           x == (y + z * n) % M
<1>1. /\ Alongside(p, t, u, R) /\ t.at = Here /\ Known(p, o, u) /\ LowersPtr(o) /\ Known(p, q, u) /\ LowersInt(q)
      /\ n \in Nat /\ d \notin ReadLocals(s) BY DEF Going, Operands, Accepts, IsStatement, IsTypedStatement
<1>2. Emitted(s) = EmitGepArray(s) BY DEF Emitted
<1>3. GepOffset(u, s) = z * n
 <2> DEFINE g == IF o.dtype.kind = "ptr" THEN o.dtype.to ELSE o.dtype
 <2>1. g.kind # "struct" BY DEF Going, Accepts, IsTypedStatement
 <2>2. Stepped(o.dtype) = IF g.kind = "array" THEN g.of ELSE g BY DEF Stepped
 <2>3. GepOffset(u, s) = CASE g.kind = "struct" -> Layouts[g.name].offsets[z + 1]
                           [] g.kind = "array" -> z * SizeOf(g.of)
                           [] OTHER -> z * SizeOf(g) BY DEF GepOffset
 <2> HIDE DEF g, z
 <2> QED BY <2>1, <2>2, <2>3
<1>4. IsOperand(q) /\ RegisterSize(q.dtype) = W32 /\ Plain(q)
  BY <1>1, PlainOperand DEF Known, IsOperand, LowersInt, RegisterSize, IsInt
<1>5. ASSUME NEW b, OperandRegs(l) \subseteq R, \A r \in OperandRegs(l) : b.regs[r] = t.regs[r]
      PROVE  Signed(ValueOf(b, l), W32) = z /\ z \in Int
 <2>1. Denotes(t, l, W32, Env(u, q)) BY <1>1, <1>4, <1>5, OperandValue
 <2>2. ValueOf(b, l) = ValueOf(t, l) BY <1>4, <1>5 DEF IsOperand, Plain, LowerValue, ValueOf, OperandRegs, Reg, Imm
 <2> DEFINE v == ValueOf(t, l)
            w == Env(u, q)
 <2>3. v \in Int /\ w \in Int /\ v % Modulus(W32) = w /\ w \in 0 .. Modulus(W32) - 1 BY <2>1 DEF Denotes
 <2> HIDE DEF v, w
 <2>4. w % Modulus(W32) = w BY <2>3, ModulusFacts, ModSmall
 <2>5. Signed(v, W32) = Signed(w, W32) BY <2>3, <2>4, SignedAlike DEF Sizes
 <2>6. Signed(w, W32) \in Int BY <2>3, SignedFacts DEF Sizes
 <2> QED BY <2>2, <2>5, <2>6 DEF v, w
<1>6. y \in 0 .. M - 1 => y \in Int BY ModulusFacts
<1>7. CASE HasAlloca(o) \/ o.kind = "global"
 <2> DEFINE a == LowerPtrAsAddr(o)
            i == Lea(d, a)
            j == Gep(d, d, l, n)
            b == Write(t, d, y)
 <2>1. Emitted(s) = <<i, j>> BY <1>2, <1>7 DEF EmitGepArray
 <2> HIDE DEF i, j
 <2>2. /\ i \in VInsts /\ j \in VInsts /\ Concerns(i) \subseteq R /\ Concerns(j) \subseteq R
       /\ PhysicalRegs \subseteq R /\ Means(t, Emitted(s), Meaning(Meaning(t, i), j)) BY <2>1, TwoInst
 <2>3. d \in R /\ AddrRegs(a) \subseteq R BY <2>2, RegistersIn DEF i, Lea
 <2>4. OperandRegs(l) \subseteq R BY <2>2, RegistersIn DEF j, Gep
 <2>5. AddressOf(t, a) = y /\ y \in Int BY <1>1, <1>6, <2>3, AddressValue
 <2>6. d \notin OperandRegs(l) BY <1>1, <1>4 DEF ReadLocals, Operands, IsOperand, Plain, LowerValue, OperandRegs, Reg, Imm
 <2> HIDE DEF a, l, y, z, d, n
 <2>7. b.at = Here /\ b.regs[d] = y /\ \A r \in OperandRegs(l) : b.regs[r] = t.regs[r]
   BY <1>1, <2>3, <2>4, <2>6 DEF Alongside, Shaped, Write
 <2>8. Meaning(t, i) = b BY <1>1, <2>5, MeansLea DEF i
 <2> HIDE DEF b
 <2>9. Signed(ValueOf(b, l), W32) = z /\ z \in Int BY <1>5, <2>4, <2>7
 <2>10. Meaning(b, j) = Write(b, d, x) BY <2>7, <2>9, MeansGep DEF j
 <2>11. Write(b, d, x) = Write(t, d, x) BY <1>1, <2>3, Overwritten DEF b, Alongside
 <2>12. z * n \in Int BY <1>1, <2>9 DEF n
 <2> QED BY <1>3, <2>2, <2>3, <2>5, <2>8, <2>10, <2>11, <2>12 DEF d, y, z, n
<1>8. CASE ~(HasAlloca(o) \/ o.kind = "global")
 <2> DEFINE i == Gep(d, o.id, l, n)
 <2>1. Emitted(s) = <<i>> BY <1>2, <1>8 DEF EmitGepArray
 <2> HIDE DEF i
 <2>2. i \in VInsts /\ Concerns(i) \subseteq R /\ PhysicalRegs \subseteq R /\ Means(t, Emitted(s), Meaning(t, i))
   BY <2>1, OneInst
 <2>3. d \in R /\ o.id \in R /\ OperandRegs(l) \subseteq R BY <2>2, RegistersIn DEF i, Gep
 <2>4. t.regs[o.id] = y /\ y \in Int BY <1>1, <1>6, <1>8, <2>3, RegisterHolds
 <2>5. Signed(ValueOf(t, l), W32) = z /\ z \in Int BY <1>5, <2>3
 <2> HIDE DEF l, y, z, n
 <2>6. Meaning(t, i) = Write(t, d, x) BY <1>1, <2>4, <2>5, MeansGep DEF i
 <2>7. z * n \in Int BY <1>1, <2>5 DEF n
 <2> QED BY <1>3, <2>2, <2>3, <2>4, <2>6, <2>7 DEF y, z, n
<1> QED BY <1>7, <1>8

LEMMA GepMeant ==
  ASSUME NEW p, NEW s, NEW t, NEW u, NEW R, Going(p, s, t, u, R), s.op = "gep" PROVE Carried(p, s, t, u, R)
<1> DEFINE d == s.dst.id
           w == Env(u, s.base) + GepOffset(u, s)
           M == Modulus(X64)
           x == w % M
<1>1. Means(t, Emitted(s), Write(t, d, x)) /\ d \in R /\ w \in Int BY FieldMeant, ElementMeant
<1>2. DefinedLocals(s) = {d} /\ Sized(d, X64) \in SizesDefined(s) /\ Alongside(p, t, u, R)
  BY DEF Going, DefinedLocals, SizesDefined
<1>3. Interpret(u, s) = [u EXCEPT !.env = Assigned(u.env, d, x)] BY DEF Interpret, Bind
<1> HIDE DEF w, d
<1>4. x \in 0 .. M - 1
 <2>1. M \in Nat \ {0} BY ModulusFacts
 <2> HIDE DEF M
 <2> QED BY <1>1, <2>1, ModInRange
<1> HIDE DEF x
<1> QED BY <1>1, <1>2, <1>3, <1>4, BindCarried

(* Whatever the statement, its code does what it says. *)
LEMMA StatementMeant ==
  ASSUME NEW p, NEW s, NEW t, NEW u, NEW R, Going(p, s, t, u, R) PROVE Carried(p, s, t, u, R)
<1>1. s.op # "phi" BY DEF Going, Accepts
<1>2. s.op \in {"store", "load", "biop", "cmp", "cjump", "jump", "return_void", "alloca", "copy", "call_result", "gpr_arg",
                "return", "stack_arg", "as_is", "gep"} BY <1>1 DEF Going, IsStatement
<1> QED BY <1>2, StoreMeant, LoadMeant, BiopMeant, CmpMeant, LeaveMeant, CopyMeant, GprArgMeant, ReturnMeant,
           StackArgMeant, PieceMeant, GepMeant

(* What a statement binds, and all else it leaves alone. *)
Bound(s) == DefinedLocals(s) \cup (IF s.op = "cmp" THEN {s.dst.id} ELSE {})
LEMMA InterpretFacts ==
  ASSUME NEW s, IsStatement(s), NEW u, IrShaped(u), NEW v, v = Interpret(u, s)
  PROVE  /\ IrShaped(v) /\ DOMAIN v.env = DOMAIN u.env \cup Bound(s)
         /\ \A c \in DOMAIN u.env \ Bound(s) : v.env[c] = u.env[c]
         /\ ~IsTerminator(s) => v.at = u.at
<1>1. ASSUME NEW c, Bound(s) = {c}, NEW x, v = Noted(u, c, x)
      PROVE  /\ IrShaped(v) /\ DOMAIN v.env = DOMAIN u.env \cup Bound(s)
             /\ \A e \in DOMAIN u.env \ Bound(s) : v.env[e] = u.env[e]
             /\ v.at = u.at BY <1>1 DEF Noted, IrShaped, Assigned
<1>2. ASSUME IrShaped(v), v.env = u.env, Bound(s) = {}, ~IsTerminator(s) => v.at = u.at
      PROVE  /\ DOMAIN v.env = DOMAIN u.env \cup Bound(s)
             /\ \A e \in DOMAIN u.env \ Bound(s) : v.env[e] = u.env[e] BY <1>2
<1>3. CASE s.op \in {"load", "biop", "cmp", "gep", "call_result", "copy"}
 <2> DEFINE c == s.dst.id
 <2>1. Bound(s) = {c} BY <1>3 DEF Bound, DefinedLocals
 <2>2. \E x : v = Noted(u, c, x) BY <1>3 DEF Interpret, Bind, Noted
 <2> HIDE DEF c
 <2> QED BY <1>1, <2>1, <2>2
<1>4. CASE s.op \in {"store", "stack_arg", "gpr_arg", "cjump", "jump", "return", "return_void", "alloca", "phi"}
 <2>1. Bound(s) = {} BY <1>4 DEF Bound, DefinedLocals
 <2>2. IrShaped(v) /\ v.env = u.env /\ (~IsTerminator(s) => v.at = u.at)
   BY <1>4 DEF Interpret, IrShaped, StoreCell, IsTerminator
 <2> QED BY <1>2, <2>1, <2>2
<1>5. CASE s.op = "as_is"
 <2> DEFINE i == s.inst
            c == i.dst
 <2>1. v = InterpretPiece(u, i) /\ i \in PiecesOfCalls /\ ~IsTerminator(s) BY <1>5 DEF Interpret, IsStatement, IsTerminator
 <2>2. CASE i.op = "Ldr"
  <3>1. Bound(s) = {c} BY <1>5, <2>2 DEF Bound, DefinedLocals
  <3>2. \E x : v = Noted(u, c, x) BY <2>1, <2>2 DEF InterpretPiece, Noted
  <3> HIDE DEF c
  <3> QED BY <1>1, <3>1, <3>2
 <2>3. CASE i.op \in {"SubSp", "AddSp"}
  <3>1. Bound(s) = {} BY <1>5, <2>3 DEF Bound, DefinedLocals
  <3>2. IrShaped(v) /\ v.env = u.env /\ v.at = u.at BY <2>1, <2>3 DEF InterpretPiece, IrShaped
  <3> QED BY <1>2, <3>1, <3>2
 <2> QED BY <2>1, <2>2, <2>3 DEF PiecesOfCalls
<1> QED BY <1>3, <1>4, <1>5 DEF IsStatement

(* The order of emission is the order of the IR. *)
LEMMA MeantOrder == ASSUME NEW p, IsBlock(p) PROVE AsMeant(p) = Order(p)
<1> DEFINE b == p.body
           c == p.copies
           n == Len(b)
<1>1. b \in Seq(ToSet(b)) /\ Terminators(b) \subseteq {n} BY DEF IsBlock
<1>2. Order(p) = IF Terminators(b) = {} THEN b \o c
                 ELSE LET pos == CHOOSE k \in Terminators(b) : \A j \in Terminators(b) : j <= k
                      IN  SubSeq(b, 1, pos - 1) \o c \o SubSeq(b, pos, n) BY DEF Order, EmissionOrder
<1>3. AsMeant(p) = IF b # <<>> /\ IsTerminator(Last(b)) THEN Front(b) \o c \o <<Last(b)>> ELSE b \o c BY DEF AsMeant
<1> HIDE DEF b, c
<1>4. n \in Nat /\ DOMAIN b = 1 .. n /\ (b # <<>> => n \in DOMAIN b) BY <1>1
<1>5. b # <<>> /\ IsTerminator(Last(b)) <=> Terminators(b) = {n}
 <2>1. Last(b) = b[n] BY DEF Last
 <2>2. n \in Terminators(b) <=> n \in DOMAIN b /\ IsTerminator(b[n]) BY DEF Terminators
 <2>3. b = <<>> => n \notin DOMAIN b OBVIOUS
 <2> QED BY <1>1, <1>4, <2>1, <2>2, <2>3
<1>6. CASE Terminators(b) = {n}
 <2>1. (CHOOSE k \in Terminators(b) : \A j \in Terminators(b) : j <= k) = n BY <1>4, <1>6
 <2>2. SubSeq(b, n, n) = <<Last(b)>>
  <3>1. b \in Seq(ToSet(b)) /\ n \in 1 .. n /\ Last(b) \in ToSet(b) /\ Last(b) = b[n] BY <1>1, <1>4, <1>5, <1>6 DEF Last, ToSet
  <3> DEFINE f == SubSeq(b, n, n)
             g == <<Last(b)>>
             S == ToSet(b)
  <3>2. f \in Seq(S) /\ g \in Seq(S) /\ Len(f) = 1 /\ Len(g) = 1 /\ f[1] = b[n] /\ g[1] = Last(b) BY <1>4, <3>1
  <3> HIDE DEF f, g, S
  <3>3. f = g BY <3>1, <3>2, SameSequence
  <3> QED BY <3>3 DEF f, g
 <2>3. Front(b) = SubSeq(b, 1, n - 1) BY DEF Front
 <2> QED BY <1>2, <1>3, <1>5, <1>6, <2>1, <2>2, <2>3
<1>7. CASE Terminators(b) # {n} BY <1>1, <1>2, <1>3, <1>5, <1>7
<1> QED BY <1>6, <1>7

LEMMA InterpretedFacts ==
  ASSUME NEW p, IsBlock(p)
  PROVE  /\ Len(Order(p)) \in Nat /\ Interpreted(p)[0] = Entered(p)
         /\ \A k \in 1 .. Len(Order(p)) : Interpreted(p)[k] = Interpret(Interpreted(p)[k - 1], Order(p)[k])
<1> DEFINE o == Order(p)
           n == Len(o)
           Runs0(k, f) == f[0] = Entered(p) /\ \A j \in 1 .. k : f[j] = Interpret(f[j - 1], o[j])
           S == {k \in Nat : \E f : Runs0(k, f)}
           G(f) == [k \in 0 .. n |-> IF k = 0 THEN Entered(p) ELSE Interpret(f[k - 1], o[k])]
<1>1. n \in Nat
 <2>1. o \in Seq(StatementsOf(p)) BY OrderOfBlock DEF Order
 <2> QED BY <2>1
<1>2. Interpreted(p) = CHOOSE f : f = G(f)
 <2>1. AsMeant(p) = o BY MeantOrder
 <2> QED BY <2>1 DEF Interpreted
<1> HIDE DEF o, n
<1>3. 0 \in S
 <2> DEFINE f == [k \in {0} |-> Entered(p)]
 <2>1. Runs0(0, f) OBVIOUS
 <2> HIDE DEF f
 <2> QED BY <2>1
<1>4. ASSUME NEW k \in Nat, k \in S PROVE k + 1 \in S
 <2>1. PICK f : Runs0(k, f) BY <1>4
 <2> DEFINE g == [j \in 0 .. k + 1 |-> IF j <= k THEN f[j] ELSE Interpret(f[k], o[k + 1])]
 <2>2. \A j \in 0 .. k : g[j] = f[j] OBVIOUS
 <2>3. g[k + 1] = Interpret(f[k], o[k + 1]) OBVIOUS
 <2> HIDE DEF g
 <2>4. ASSUME NEW j \in 1 .. k + 1 PROVE g[j] = Interpret(g[j - 1], o[j])
  <3>1. j - 1 \in 0 .. k /\ ((j \in 1 .. k /\ j \in 0 .. k) \/ (j = k + 1 /\ j - 1 = k)) OBVIOUS
  <3> QED BY <2>1, <2>2, <2>3, <3>1
 <2>5. Runs0(k + 1, g) BY <2>1, <2>2, <2>4
 <2> QED BY <2>5
<1>5. n \in S
 <2> HIDE DEF S
 <2> QED BY <1>1, <1>3, <1>4, SetInduction
<1>6. PICK f : Runs0(n, f) BY <1>5
<1> DEFINE g == [k \in 0 .. n |-> f[k]]
<1>7. \A k \in 0 .. n : g[k] = f[k] OBVIOUS
<1>8. g = G(g)
 <2>1. ASSUME NEW k \in 0 .. n PROVE f[k] = IF k = 0 THEN Entered(p) ELSE Interpret(g[k - 1], o[k])
  <3>1. k # 0 => k \in 1 .. n /\ k - 1 \in 0 .. n BY <1>1
  <3> HIDE DEF g
  <3> QED BY <1>6, <1>7, <3>1
 <2> HIDE DEF G
 <2>2. g = [k \in 0 .. n |-> IF k = 0 THEN Entered(p) ELSE Interpret(g[k - 1], o[k])]
  <3> DEFINE h == [k \in 0 .. n |-> IF k = 0 THEN Entered(p) ELSE Interpret(g[k - 1], o[k])]
  <3>1. \A k \in 0 .. n : g[k] = h[k] BY <1>7, <2>1
  <3>2. DOMAIN g = 0 .. n /\ DOMAIN h = 0 .. n /\ g = [k \in 0 .. n |-> g[k]] /\ h = [k \in 0 .. n |-> h[k]] OBVIOUS
  <3> HIDE DEF g, h
  <3>3. g = h BY <3>1, <3>2
  <3> QED BY <3>3 DEF h
 <2> QED BY <2>2 DEF G
<1> DEFINE r == Interpreted(p)
<1>9. r = G(r)
 <2> HIDE DEF G, g, r
 <2> QED BY <1>2, <1>8 DEF r
<1> HIDE DEF r
<1>10. \A k \in 0 .. n : r[k] = IF k = 0 THEN Entered(p) ELSE Interpret(r[k - 1], o[k])
 <2> DEFINE h == G(r)
 <2>1. \A k \in 0 .. n : h[k] = IF k = 0 THEN Entered(p) ELSE Interpret(r[k - 1], o[k]) OBVIOUS
 <2>2. r = h BY <1>9
 <2> HIDE DEF h
 <2> QED BY <2>1, <2>2
<1>11. 0 \in 0 .. n /\ \A k \in 1 .. n : k \in 0 .. n /\ k # 0 BY <1>1
<1> QED BY <1>1, <1>10, <1>11 DEF r, n, o

(* Along selection: with the first k statements selected, the code there is
   takes every machine beside the IR's at the entry to one beside it behind
   them, whatever registers there are as long as the code has all it touches;
   and the flags are those of the last comparison. *)
ComparedIn(o, k) == {o[j].dst.id : j \in {i \in 1 .. k : o[i].op = "cmp"}}
Decided(o, k, cm, t, u) ==
  DOMAIN cm = {} \/ \E c \in DOMAIN cm :
    LastCompared(o, k, c) /\ c \in DOMAIN u.env /\ (CondHolds(cm[c], t.flags) <=> u.env[c] = 1)
Led(p, k, c, cm, R, a) ==
  \E t : /\ Means(a, c, t) /\ Alongside(p, t, Interpreted(p)[k], R)
         /\ Decided(Order(p), k, cm, t, Interpreted(p)[k])
Entering(p, c, R, a) == Alongside(p, a, Entered(p), R) /\ a.at = Here /\ Touched(c) \subseteq R
Selected(p, k, c, cm) ==
  /\ DOMAIN cm = ComparedIn(Order(p), k)
  /\ \A R, a : Entering(p, c, R, a) => Led(p, k, c, cm, R, a)

BoundBy(p, k) == DOMAIN p.vals \cup UNION {DefinedLocals(Order(p)[j]) : j \in 1 .. k}
LEMMA BlockFacts ==
  ASSUME NEW p \in Programs, NEW k \in 1 .. Len(Order(p)), NEW s, s = Order(p)[k]
  PROVE  /\ IsStatement(s) /\ IsTypedStatement(s) /\ OneSize(Types(p))
         /\ ReadLocals(s) \subseteq BoundBy(p, k - 1)
         /\ SizesRead(s) \subseteq Types(p) /\ SizesDefined(s) \subseteq Types(p)
         /\ DefinedLocals(s) \cap CondsOf(p) = {} /\ CondsOf(p) \cap DOMAIN p.vals = {}
         /\ s.op = "cmp" => s.dst.id \in CondsOf(p)
         /\ s.op = "cjump" => \A c : LastCompared(Order(p), k - 1, c) => s.cond.id = c /\ c \notin DOMAIN Allocas
<1> DEFINE o == Order(p)
<1>1. IsBlock(p) /\ IsTyped(p) BY ProgramsAssumption, TypesAssumption
<1>2. o = EmissionOrder(p.body, p.copies) BY DEF Order
<1>3. o \in Seq(StatementsOf(p)) BY <1>1, <1>2, OrderOfBlock
<1>4. \A j \in DOMAIN o :
        /\ IsStatement(o[j])
        /\ ReadLocals(o[j]) \subseteq DOMAIN p.vals \cup UNION {DefinedLocals(o[i]) : i \in 1 .. j - 1}
  BY <1>1, <1>2 DEF IsBlock
<1>5. \A v, w \in SizesIn(o) : v.id = w.id => v.size = w.size BY <1>1, <1>2 DEF IsTyped
<1>6. \A j \in DOMAIN o :
        /\ IsTypedStatement(o[j])
        /\ o[j].op = "cmp" =>
             o[j].dst.id \notin DOMAIN Allocas \cup DOMAIN p.vals \cup UNION {DefinedLocals(o[i]) : i \in DOMAIN o}
        /\ o[j].op = "cjump" =>
             \A c \in {o[i].dst.id : i \in {h \in 1 .. j - 1 : o[h].op = "cmp"}} :
               LastCompared(o, j - 1, c) => o[j].cond.id = c BY <1>1, <1>2 DEF IsTyped
<1> HIDE DEF o
<1>7. DOMAIN o = 1 .. Len(o) /\ k \in DOMAIN o /\ s = o[k] /\ \A i \in 1 .. k - 1 : i \in DOMAIN o BY <1>3 DEF o
<1>8. IsStatement(s) /\ IsTypedStatement(s) /\ OneSize(Types(p)) BY <1>4, <1>5, <1>6, <1>7 DEF OneSize, Types, o
<1>9. ReadLocals(s) \subseteq BoundBy(p, k - 1) BY <1>4, <1>7 DEF BoundBy, o
<1>10. SizesRead(s) \subseteq Types(p) /\ SizesDefined(s) \subseteq Types(p) BY <1>7 DEF Types, SizesIn, o
<1>11. CondsOf(p) = {o[j].dst.id : j \in {i \in DOMAIN o : o[i].op = "cmp"}} BY DEF CondsOf, o
<1>12. DefinedLocals(s) \cap CondsOf(p) = {} /\ CondsOf(p) \cap DOMAIN p.vals = {} BY <1>6, <1>7, <1>11
<1>13. s.op = "cmp" => s.dst.id \in CondsOf(p) BY <1>7, <1>11
<1>14. ASSUME s.op = "cjump", NEW c, LastCompared(o, k - 1, c) PROVE s.cond.id = c /\ c \notin DOMAIN Allocas
 <2>1. PICK j \in 1 .. k - 1 : o[j].op = "cmp" /\ o[j].dst.id = c BY <1>14 DEF LastCompared
 <2> QED BY <1>6, <1>7, <1>14, <2>1
<1> QED BY <1>8, <1>9, <1>10, <1>12, <1>13, <1>14 DEF o

(* What the IR's machine has bound behind the first k statements. *)
Ahead(p, k, u) == IrShaped(u) /\ BoundBy(p, k) \subseteq DOMAIN u.env /\ (k < Len(Order(p)) => u.at = Here)

LEMMA AheadStep ==
  ASSUME NEW p \in Programs, NEW k \in 0 .. Len(Order(p)) - 1, Ahead(p, k, Interpreted(p)[k])
  PROVE  Ahead(p, k + 1, Interpreted(p)[k + 1])
<1> DEFINE o == Order(p)
           s == o[k + 1]
           u == Interpreted(p)[k]
           v == Interpreted(p)[k + 1]
<1>1. IsBlock(p) BY ProgramsAssumption
<1>2. Len(o) \in Nat /\ k + 1 \in 1 .. Len(o) /\ (k + 1) - 1 = k /\ k < Len(o) BY <1>1, InterpretedFacts
<1>3. v = Interpret(u, s) BY <1>1, <1>2, InterpretedFacts
<1>4. IsStatement(s) BY <1>2, BlockFacts
<1>5. IsTerminator(s) => k + 1 = Len(o)
 <2>1. Readable(o, DOMAIN p.vals) /\ o \in Seq(StatementsOf(p)) BY <1>1, OrderOfBlock DEF Order
 <2>2. k + 1 \in DOMAIN o BY <1>2, <2>1
 <2> QED BY <2>1, <2>2 DEF Readable
<1> HIDE DEF o, s, u, v
<1>6. IrShaped(u) /\ BoundBy(p, k) \subseteq DOMAIN u.env /\ u.at = Here BY <1>2 DEF Ahead, u, o
<1>7. IrShaped(v) /\ DOMAIN v.env = DOMAIN u.env \cup Bound(s) /\ (~IsTerminator(s) => v.at = u.at)
  BY <1>3, <1>4, <1>6, InterpretFacts
<1>8. BoundBy(p, k + 1) \subseteq DOMAIN v.env
 <2>1. \A j \in 1 .. k + 1 : j \in 1 .. k \/ j = k + 1 BY <1>2
 <2>2. BoundBy(p, k + 1) \subseteq BoundBy(p, k) \cup DefinedLocals(s) BY <2>1 DEF BoundBy, s, o
 <2> QED BY <1>6, <1>7, <2>2 DEF Bound
<1> QED BY <1>2, <1>5, <1>6, <1>7, <1>8 DEF Ahead, v, o

LEMMA GoesOn ==
  ASSUME NEW p \in Programs, NEW k \in 0 .. Len(Order(p)) - 1, Ahead(p, k, Interpreted(p)[k]),
         NEW s, s = Order(p)[k + 1], Accepts(s), next_vreg \in Virtual \ Locals, CondsKnown,
         DOMAIN cond_map = ComparedIn(Order(p), k), NEW t, NEW R, Alongside(p, t, Interpreted(p)[k], R),
         Decided(Order(p), k, cond_map, t, Interpreted(p)[k]), Touched(Emitted(s)) \subseteq R
  PROVE  Going(p, s, t, Interpreted(p)[k], R) /\ Emits(s)
<1> DEFINE u == Interpreted(p)[k]
           o == Order(p)
<1>1. Len(o) \in Nat /\ k + 1 \in 1 .. Len(o) /\ (k + 1) - 1 = k /\ k < Len(o) BY ProgramsAssumption, InterpretedFacts
<1>2. /\ IsStatement(s) /\ IsTypedStatement(s) /\ OneSize(Types(p))
      /\ SizesRead(s) \subseteq Types(p) /\ SizesDefined(s) \subseteq Types(p)
      /\ DefinedLocals(s) \cap CondsOf(p) = {} /\ CondsOf(p) \cap DOMAIN p.vals = {}
      /\ s.op = "cmp" => s.dst.id \in CondsOf(p) BY <1>1, BlockFacts
<1>3. ReadLocals(s) \subseteq BoundBy(p, k) BY <1>1, BlockFacts
<1>4. ASSUME s.op = "cjump", NEW c, LastCompared(o, k, c) PROVE s.cond.id = c /\ c \notin DOMAIN Allocas
 <2> DEFINE j == k + 1
 <2>1. j \in 1 .. Len(o) /\ LastCompared(o, j - 1, c) /\ s = o[j] BY <1>1, <1>4
 <2> HIDE DEF j
 <2> QED BY <1>4, <2>1, BlockFacts
<1>5. Emits(s) BY <1>2, EmittedPiece
<1>6. BoundBy(p, k) \cap CondsOf(p) = {}
 <2>1. ASSUME NEW j \in 1 .. k PROVE DefinedLocals(o[j]) \cap CondsOf(p) = {}
  <3>1. j \in 1 .. Len(o) BY <1>1
  <3> QED BY <3>1, BlockFacts
 <2> QED BY <1>2, <2>1 DEF BoundBy
<1> HIDE DEF u, o
<1>7. BoundBy(p, k) \subseteq DOMAIN u.env /\ u.at = Here BY <1>1 DEF Ahead, u, o
<1>8. ASSUME NEW e \in Operands(s) PROVE Known(p, e, u)
 <2>1. IsOperand(e) BY <1>2 DEF IsStatement
 <2>2. ASSUME NEW v \in RegsOf(e) PROVE v \in ReadLocals(s) /\ Sized(v, RegisterSize(e.dtype)) \in SizesRead(s)
   BY <1>8, <2>2 DEF RegsOf, ReadLocals, SizesRead
 <2> QED BY <1>2, <1>3, <1>6, <1>7, <2>1, <2>2 DEF Known, Common
<1>9. ASSUME s.op = "cjump"
      PROVE  s.cond.id \notin DOMAIN Allocas /\ (CondHolds(cond_map[s.cond.id], t.flags) <=> u.env[s.cond.id] = 1)
 <2>1. s.cond.id \in DOMAIN cond_map BY <1>9 DEF Accepts
 <2>2. PICK c \in DOMAIN cond_map :
         LastCompared(o, k, c) /\ c \in DOMAIN u.env /\ (CondHolds(cond_map[c], t.flags) <=> u.env[c] = 1)
   BY <2>1 DEF Decided, u, o
 <2>3. s.cond.id = c /\ c \notin DOMAIN Allocas BY <1>4, <1>9, <2>2
 <2> QED BY <2>2, <2>3
<1>10. t.at = Here BY <1>7 DEF Alongside, u
<1> QED BY <1>2, <1>5, <1>8, <1>9, <1>10 DEF Going, u

(* One call of emit_stmt. *)
LEMMA SelectedStep ==
  ASSUME NEW p \in Programs, NEW k \in 0 .. Len(Order(p)) - 1, Ahead(p, k, Interpreted(p)[k]),
         NEW s, s = Order(p)[k + 1], Accepts(s), next_vreg \in Virtual \ Locals, CondsKnown,
         NEW c \in Seq(VInsts), Selected(p, k, c, cond_map), Emitted(s) \in Seq(VInsts),
         NEW cm, cm = IF s.op = "cmp" THEN Assigned(cond_map, s.dst.id, CmpOpToCond(s.kind)) ELSE cond_map
  PROVE  Selected(p, k + 1, c \o Emitted(s), cm)
<1> DEFINE o == Order(p)
           u == Interpreted(p)[k]
           v == Interpreted(p)[k + 1]
           e == Emitted(s)
<1>1. Len(o) \in Nat /\ k + 1 \in 1 .. Len(o) /\ (k + 1) - 1 = k BY ProgramsAssumption, InterpretedFacts
<1>2. v = Interpret(u, s) BY <1>1, ProgramsAssumption, InterpretedFacts
<1>3. IsStatement(s) /\ DefinedLocals(s) \cap CondsOf(p) = {} BY <1>1, BlockFacts
<1>4. DOMAIN cond_map = ComparedIn(o, k) /\ k + 1 \in Nat /\ k \in Nat BY DEF Selected
<1>5. DOMAIN cm = ComparedIn(o, k + 1)
 <2>1. \A j : j \in 1 .. k + 1 <=> j \in 1 .. k \/ j = k + 1 BY <1>4
 <2>2. ComparedIn(o, k + 1) = IF s.op = "cmp" THEN ComparedIn(o, k) \cup {s.dst.id} ELSE ComparedIn(o, k) BY <2>1 DEF ComparedIn
 <2> QED BY <1>4, <2>2 DEF Assigned
<1>6. ASSUME NEW R, NEW a, Entering(p, c \o e, R, a) PROVE Led(p, k + 1, c \o e, cm, R, a)
 <2>1. Touched(c) \subseteq R /\ Touched(e) \subseteq R
  <3> HIDE DEF e
  <3>1. e \in Seq(VInsts) BY DEF e
  <3> DEFINE f == c \o e
  <3>2. /\ DOMAIN c = 1 .. Len(c) /\ DOMAIN e = 1 .. Len(e) /\ DOMAIN f = 1 .. Len(c) + Len(e)
        /\ Len(c) \in Nat /\ Len(e) \in Nat
        /\ \A j \in 1 .. Len(c) : f[j] = c[j]
        /\ \A j \in 1 .. Len(e) : f[Len(c) + j] = e[j] BY <3>1, ConcatFacts
  <3>3. Touched(f) \subseteq R BY <1>6 DEF Entering
  <3> HIDE DEF f
  <3>4. \A j \in DOMAIN f : Concerns(f[j]) \subseteq R BY <3>3 DEF Touched
  <3>5. ASSUME NEW j \in DOMAIN c PROVE Concerns(c[j]) \subseteq R
   <4>1. j \in DOMAIN f /\ f[j] = c[j] BY <3>2
   <4> QED BY <3>4, <4>1
  <3>6. ASSUME NEW j \in DOMAIN e PROVE Concerns(e[j]) \subseteq R
   <4>1. Len(c) + j \in DOMAIN f /\ f[Len(c) + j] = e[j] BY <3>2
   <4> QED BY <3>4, <4>1
  <3> QED BY <3>5, <3>6 DEF Touched
 <2>2. Led(p, k, c, cond_map, R, a) BY <1>6, <2>1 DEF Selected, Entering
 <2>3. PICK t : Means(a, c, t) /\ Alongside(p, t, u, R) /\ Decided(o, k, cond_map, t, u) BY <2>2 DEF Led
 <2>4. Going(p, s, t, u, R) BY <1>4, <2>1, <2>3, GoesOn
 <2> HIDE DEF u, v, o, e
 <2>5. Carried(p, s, t, u, R) BY <2>4, StatementMeant
 <2>6. PICK b : Means(t, e, b) /\ Alongside(p, b, v, R) /\ Judged(s, b, t, v) BY <1>2, <2>5 DEF Carried, e
 <2>7. Means(a, c \o e, b) BY <2>3, <2>6, MeansJoin
 <2>8. Decided(o, k + 1, cm, b, v)
  <3>1. CASE s.op = "cmp"
   <4> DEFINE d == s.dst.id
              y == CmpOpToCond(s.kind)
   <4>1. d \in DOMAIN v.env /\ (CondHolds(y, b.flags) <=> v.env[d] = 1) BY <2>6, <3>1 DEF Judged
   <4>2. cm = Assigned(cond_map, d, y) BY <3>1
   <4>3. LastCompared(o, k + 1, d)
    <5>1. k + 1 \in 1 .. k + 1 /\ (k + 1) + 1 .. k + 1 = {} /\ o[k + 1].op = "cmp" /\ o[k + 1].dst.id = d BY <1>4, <3>1 DEF o
    <5> QED BY <5>1 DEF LastCompared
   <4> HIDE DEF d, y
   <4>4. d \in DOMAIN cm /\ cm[d] = y BY <4>2 DEF Assigned
   <4> QED BY <4>1, <4>3, <4>4 DEF Decided
  <3>2. CASE s.op # "cmp"
   <4>1. b.flags = t.flags /\ cm = cond_map BY <2>6, <3>2 DEF Judged
   <4>2. ASSUME NEW d \in DOMAIN cond_map, LastCompared(o, k, d), d \in DOMAIN u.env,
                CondHolds(cond_map[d], t.flags) <=> u.env[d] = 1
         PROVE  Decided(o, k + 1, cm, b, v)
    <5>1. PICK j \in 1 .. k : o[j].op = "cmp" /\ o[j].dst.id = d /\ \A i \in j + 1 .. k : o[i].op # "cmp"
      BY <4>2 DEF LastCompared
    <5>2. LastCompared(o, k + 1, d)
     <6>1. j \in 1 .. k + 1 /\ \A i \in j + 1 .. k + 1 : i \in j + 1 .. k \/ i = k + 1 BY <1>4
     <6>2. o[k + 1].op # "cmp" BY <3>2 DEF o
     <6> QED BY <5>1, <6>1, <6>2 DEF LastCompared
    <5>3. d \in CondsOf(p)
     <6>1. j \in 1 .. Len(o) /\ j \in DOMAIN o
      <7>1. o \in Seq(StatementsOf(p)) BY ProgramsAssumption, OrderOfBlock DEF o, Order
      <7> QED BY <1>1, <7>1
     <6> QED BY <5>1, <6>1, BlockFacts DEF o
    <5>4. d \notin Bound(s) BY <1>3, <3>2, <5>3 DEF Bound
    <5>5. d \in DOMAIN v.env /\ v.env[d] = u.env[d]
     <6>1. IrShaped(u) BY <2>3 DEF Alongside
     <6> QED BY <1>2, <1>3, <4>2, <5>4, <6>1, InterpretFacts
    <5> QED BY <4>1, <4>2, <5>2, <5>5 DEF Decided
   <4> QED BY <2>3, <4>1, <4>2 DEF Decided
  <3> QED BY <3>1, <3>2
 <2> QED BY <2>6, <2>7, <2>8 DEF Led, v, o
<1> QED BY <1>5, <1>6 DEF Selected

(* What selection keeps: behind the statements that have been selected the code
   there is takes machines beside the IR's along; and once registers are
   allocated, the machine that runs the code is on its way to one beside the
   IR's behind the whole block. *)
Passed == Len(Order(block)) - Len(stmts)
SelectInv ==
  /\ Passed \in Nat /\ \A j \in 1 .. Len(stmts) : stmts[j] = Order(block)[Passed + j]
  /\ next_vreg \notin Locals
  /\ Ahead(block, Passed, Interpreted(block)[Passed])
  /\ ~located => Selected(block, Passed, code, cond_map)
  /\ located => \E t : Means(ref, insts, t) /\ Alongside(block, t, Meant, PhysicalRegs \cup Vregs)

LEMMA MeantAtTheEnd == ASSUME NEW p \in Programs PROVE Interpreted(p)[Len(AsMeant(p))] = Interpreted(p)[Len(Order(p))]
BY ProgramsAssumption, MeantOrder

LEMMA AtTheEntry ==
  ASSUME block \in Programs, vals = block.vals, Allocated, ValuesFit, NEW a, a = StartRef
  PROVE  Entering(block, code, PhysicalRegs \cup Vregs, a)
<1> DEFINE R == PhysicalRegs \cup Vregs
           p == block
           u == Entered(p)
<1>1. /\ Machine(a, R) /\ a.at = Here
      /\ \A e \in PhysicalRegs : a.regs[e] = InitialReg(e)
      /\ \A v \in Given : a.regs[v] = vals[v] BY StartReference
<1>2. a.mem = <<>> BY DEF StartRef
<1>3. u.env = vals /\ u.mem = <<>> /\ u.x0 = InitialReg(REG_X0) /\ u.sp = SpValue /\ u.at = Here /\ IrShaped(u)
  BY DEF Entered, IrShaped
<1>4. IsBlock(p) /\ IsTyped(p) BY ProgramsAssumption, TypesAssumption
<1> HIDE DEF u
<1>5. Shaped(a, R)
 <2> HIDE DEF R
 <2> QED BY <1>1 DEF Machine, Shaped
<1>6. a.regs[SP] = SpValue /\ a.regs[FP] = FpValue /\ a.regs[REG_X0] = u.x0
  BY <1>1, <1>3, PhysicalNumbers DEF InitialReg, SP, FP
<1>7. SpValue \in Int /\ u.x0 \in Int
 <2>1. u.x0 \in Word BY <1>3, InitialWords, PhysicalNumbers
 <2> QED BY <2>1, FrameAssumption, ModulusFacts DEF Word
<1>8. \A x \in Int : Cell(u, x) \in Int BY <1>3 DEF Cell
<1>9. Common(p, u) \subseteq DOMAIN vals /\ DOMAIN vals \subseteq Locals BY <1>3, <1>4 DEF Common, IsBlock
<1>10. \A v \in Common(p, u) \cap R : a.regs[v] = u.env[v]
 <2>1. \A v \in Common(p, u) \cap R : v \in Given BY <1>9, LocalNumbers DEF Given
 <2> QED BY <1>1, <1>3, <2>1
<1>11. ASSUME NEW w \in Types(p), w.id \in Common(p, u) PROVE u.env[w.id] \in 0 .. Modulus(w.size) - 1
 <2>1. w.id \in DOMAIN vals /\ vals[w.id] \in 0 .. Modulus(X64) - 1 BY <1>4, <1>9, <1>11 DEF IsBlock
 <2>2. vals[w.id] < Modulus(w.size) BY <1>4, <1>11, <2>1 DEF IsTyped, Types, Order
 <2>3. Modulus(w.size) \in Int BY MachineAssumption DEF Modulus
 <2> QED BY <1>3, <2>1, <2>2, <2>3
<1>12. Touched(code) \subseteq R
 <2>1. ASSUME NEW k \in DOMAIN code PROVE Concerns(code[k]) \subseteq R BY DEF Concerns, Vregs
 <2> QED BY <2>1 DEF Touched
<1>13. Alongside(p, a, u, R)
 <2> HIDE DEF p
 <2>1. PhysicalRegs \subseteq R OBVIOUS
 <2> HIDE DEF R
 <2>2. \A v \in Common(p, u) : v \in R \/ v \in DOMAIN p.vals BY <1>9 DEF p
 <2> QED BY <1>1, <1>2, <1>3, <1>5, <1>6, <1>7, <1>8, <1>9, <1>10, <1>11, <2>1, <2>2 DEF Alongside
<1> QED BY <1>1, <1>12, <1>13 DEF Entering, u

LEMMA EntersAtStart ==
  block \in Programs /\ vals = block.vals /\ Allocated /\ ValuesFit => Entering(block, code, PhysicalRegs \cup Vregs, StartRef)
<1> DEFINE a == StartRef
<1> HIDE DEF a
<1>1. block \in Programs /\ vals = block.vals /\ Allocated /\ ValuesFit => Entering(block, code, PhysicalRegs \cup Vregs, a)
 BY AtTheEntry DEF a
<1> QED BY <1>1 DEF a

LEMMA AtTheEntryNext ==
  (block \in Programs /\ vals = block.vals /\ Allocated /\ ValuesFit => Entering(block, code, PhysicalRegs \cup Vregs, StartRef))'
BY EntersAtStart, PTL

LEMMA SelectInvStart == Init => SelectInv
<1> SUFFICES ASSUME Init PROVE SelectInv OBVIOUS
<1> DEFINE p == block
           o == Order(p)
<1>1. /\ p \in Programs /\ stmts = o /\ code = <<>> /\ cond_map = <<>> /\ next_vreg = NextVReg /\ ~located
  BY DEF Init, BackendInit, Order
<1>2. Len(o) \in Nat /\ Interpreted(p)[0] = Entered(p) BY <1>1, ProgramsAssumption, InterpretedFacts
<1> HIDE DEF p, o
<1>3. Passed = 0 /\ \A j \in 1 .. Len(o) : o[j] = o[0 + j] BY <1>1, <1>2 DEF Passed, p, o
<1>4. next_vreg \notin Locals BY <1>1, ProgramsAssumption DEF Locals
<1>5. Ahead(p, 0, Entered(p)) BY DEF Ahead, IrShaped, Entered, BoundBy
<1>6. Selected(p, 0, code, cond_map)
 <2>1. DOMAIN cond_map = {} BY <1>1
 <2>2. ComparedIn(o, 0) = {} BY DEF ComparedIn
 <2>3. ASSUME NEW R, NEW a, Entering(p, code, R, a) PROVE Led(p, 0, code, cond_map, R, a)
  <3>1. Means(a, code, a) BY <1>1, MeansNothing
  <3>2. Decided(Order(p), 0, cond_map, a, Interpreted(p)[0]) BY <2>1 DEF Decided
  <3> QED BY <1>2, <2>3, <3>1, <3>2 DEF Led, Entering
 <2> QED BY <2>1, <2>2, <2>3 DEF Selected, o
<1> QED BY <1>1, <1>2, <1>3, <1>4, <1>5, <1>6 DEF SelectInv, p, o

LEMMA SelectInvStep == CodeInv /\ LinesInv /\ CodeInv' /\ LinesInv' /\ SelectInv /\ [Next]_vars => SelectInv'
<1> SUFFICES ASSUME CodeInv, LinesInv, CodeInv', LinesInv', SelectInv, [Next]_vars PROVE SelectInv' OBVIOUS
<1> DEFINE p == block
           o == Order(p)
           k == Passed
<1>1. /\ p \in Programs /\ k \in Nat /\ \A j \in 1 .. Len(stmts) : stmts[j] = o[k + j]
      /\ stmts \in Seq(StatementsOf(p)) /\ code \in Seq(VInsts) /\ next_vreg \in Virtual \ Locals /\ CondsKnown
      /\ (located => stmts = <<>>) /\ Ahead(p, k, Interpreted(p)[k]) BY DEF CodeInv, Piece, SelectInv
<1>2. Len(o) \in Nat /\ Len(stmts) \in Nat /\ k = Len(o) - Len(stmts) BY <1>1, ProgramsAssumption, InterpretedFacts DEF Passed
<1>3. CASE UNCHANGED <<code, block, stmts, cond_map, next_vreg>> /\ located' = located
           /\ (located => \E t : Means(ref', insts', t) /\ Alongside(p, t, Meant, PhysicalRegs \cup Vregs))
 <2>1. Passed' = Passed /\ Vregs' = Vregs /\ Meant' = Meant BY <1>3 DEF Passed, Vregs, Meant
 <2>2. Selected(block, Passed, code, cond_map)' <=> Selected(block, Passed, code, cond_map) BY <1>3, <2>1
 <2> QED BY <1>3, <2>1, <2>2 DEF SelectInv
<1>4. CASE Select
 <2> DEFINE s == Head(stmts)
 <2>1. stmts # <<>> /\ UNCHANGED <<block, located, ref, insts>> BY <1>4 DEF Select
 <2>2. CASE ~Accepts(s)
  <3>1. UNCHANGED <<code, block, stmts, cond_map, next_vreg>> BY <1>4, <2>2 DEF Select
  <3> QED BY <1>3, <2>1, <3>1 DEF SelectInv
 <2>3. CASE Accepts(s)
  <3>1. /\ code' = code \o Emitted(s) /\ stmts' = Tail(stmts)
        /\ next_vreg' = next_vreg + (IF TakesFresh(s) THEN 1 ELSE 0)
        /\ cond_map' = IF s.op = "cmp" THEN Assigned(cond_map, s.dst.id, CmpOpToCond(s.kind)) ELSE cond_map
    BY <1>4, <2>3 DEF Select
  <3>2. /\ Len(stmts) > 0 /\ s = stmts[1] /\ Len(stmts') = Len(stmts) - 1
        /\ \A j \in 1 .. Len(stmts) - 1 : stmts'[j] = stmts[j + 1]
   <4> DEFINE S == StatementsOf(p)
   <4>1. stmts \in Seq(S) BY <1>1
   <4> HIDE DEF S
   <4> QED BY <2>1, <3>1, <4>1
  <3>3. Passed' = k + 1 /\ k \in 0 .. Len(o) - 1 BY <1>1, <1>2, <2>1, <3>2 DEF Passed
  <3>4. s = o[k + 1] BY <1>1, <1>2, <3>2
  <3>5. \A j \in 1 .. Len(stmts') : stmts'[j] = o[(k + 1) + j]
   <4>1. ASSUME NEW j \in 1 .. Len(stmts) - 1 PROVE stmts'[j] = o[(k + 1) + j]
    <5>1. j + 1 \in 1 .. Len(stmts) /\ k + (j + 1) = (k + 1) + j BY <1>1, <1>2
    <5> QED BY <1>1, <3>2, <5>1
   <4> QED BY <3>2, <4>1
  <3> HIDE DEF s, k, p, o
  <3>6. ~located BY <1>1, <2>1
  <3>7. Selected(p, k, code, cond_map) BY <3>6 DEF SelectInv, k, p
  <3>8. Ahead(p, k, Interpreted(p)[k]) /\ Ahead(p, k + 1, Interpreted(p)[k + 1]) BY <1>1, <3>3, AheadStep DEF o
  <3>9. Emitted(s) \in Seq(VInsts)
   <4>1. k + 1 \in 1 .. Len(Order(p)) /\ s = Order(p)[k + 1] BY <1>2, <3>3, <3>4 DEF o
   <4>2. IsStatement(s) BY <1>1, <4>1, BlockFacts
   <4> QED BY <1>1, <2>3, <4>2, EmittedPiece DEF Emits, Piece
  <3>10. Selected(p, k + 1, code', cond_map') BY <1>1, <2>3, <3>1, <3>3, <3>4, <3>7, <3>8, <3>9, SelectedStep DEF o
  <3>11. next_vreg' \notin Locals BY <1>1, <3>1, ProgramsAssumption DEF Locals, Virtual, IsVReg, FirstVReg
  <3>12. p' = p /\ Passed' = k + 1 /\ k + 1 \in Nat /\ ~located' BY <1>1, <2>1, <3>3, <3>6 DEF p
  <3>13. Ahead(p, Passed', Interpreted(p)[Passed']) BY <3>8, <3>12
  <3>14. Selected(p, Passed', code', cond_map') BY <3>10, <3>12
  <3>15. \A j \in 1 .. Len(stmts') : stmts'[j] = Order(p)[Passed' + j] BY <3>5, <3>12 DEF o
  <3> QED BY <3>11, <3>12, <3>13, <3>14, <3>15 DEF SelectInv, p
 <2> QED BY <2>2, <2>3
<1>5. CASE stmts = <<>> /\ Allocate /\ UNCHANGED selectionVars
 <2>1. /\ ~located /\ located' /\ UNCHANGED <<code, vals, block, stmts, cond_map, next_vreg>> /\ insts' = code /\ ref' = StartRef
   BY <1>5 DEF Allocate, selectionVars
 <2>2. ref' = StartRef' BY <2>1 DEF StartRef, Given, Vregs
 <2>3. Allocated' BY <2>1 DEF Allocated, LinesInv, CodeInv, Piece
 <2>4. ValuesFit' BY <2>1 DEF ValuesFit, CodeInv, Word
 <2>5. block' \in Programs /\ vals' = block'.vals BY DEF CodeInv
 <2>6. Entering(block, code, PhysicalRegs \cup Vregs, StartRef)' BY <2>3, <2>4, <2>5, AtTheEntryNext
 <2>7. Vregs' = Vregs /\ Passed' = Passed /\ Meant' = Meant BY <2>1 DEF Vregs, Passed, Meant
 <2> DEFINE R == PhysicalRegs \cup Vregs
 <2>8. Entering(p, code, R, ref') BY <2>1, <2>2, <2>6, <2>7
 <2> HIDE DEF R
 <2>9. Selected(p, k, code, cond_map) BY <2>1 DEF SelectInv
 <2>10. Led(p, k, code, cond_map, R, ref') BY <2>8, <2>9 DEF Selected
 <2>11. Meant = Interpreted(p)[k]
  <3>1. k = Len(o) BY <1>2, <1>5
  <3> QED BY <1>1, <3>1, MeantAtTheEnd DEF Meant
 <2>12. \E t : Means(ref', code, t) /\ Alongside(p, t, Meant, R) BY <2>10, <2>11 DEF Led
 <2>13. located' => \E t : Means(ref', insts', t) /\ Alongside(block', t, Meant', PhysicalRegs \cup Vregs')
   BY <2>1, <2>7, <2>12 DEF R
 <2>14. Ahead(block', Passed', Interpreted(block')[Passed']) BY <1>1, <2>1, <2>7
 <2> QED BY <1>1, <2>1, <2>7, <2>13, <2>14 DEF SelectInv
<1>6. CASE stmts = <<>> /\ BackendNext /\ UNCHANGED selectionVars
 <2>1. UNCHANGED <<code, block, stmts, cond_map, next_vreg, located>>
   BY <1>6 DEF BackendNext, Rewrite, Print1, Run, selectionVars
 <2>2. ASSUME located PROVE \E t : Means(ref', insts', t) /\ Alongside(p, t, Meant, PhysicalRegs \cup Vregs)
  <3>1. PICK t : Means(ref, insts, t) /\ Alongside(p, t, Meant, PhysicalRegs \cup Vregs) BY <2>2 DEF SelectInv
  <3>2. Means(ref', insts', t)
   <4>1. CASE Rewrite
    <5>1. insts # <<>> /\ ref' = Meaning(ref, Head(insts)) /\ insts' = Tail(insts) BY <4>1 DEF Rewrite
    <5> QED BY <3>1, <5>1, MeansHead
   <4>2. CASE Print1 \/ Run
    <5>1. ref' = ref /\ insts' = insts BY <4>2 DEF Print1, Run
    <5> QED BY <3>1, <5>1
   <4> QED BY <1>6, <4>1, <4>2 DEF BackendNext
  <3> QED BY <3>1, <3>2
 <2> QED BY <1>3, <2>1, <2>2
<1>7. CASE UNCHANGED vars
 <2>1. UNCHANGED <<code, block, stmts, cond_map, next_vreg, located, ref, insts>> BY <1>7 DEF vars, backendVars, selectionVars
 <2> QED BY <1>3, <2>1 DEF SelectInv
<1> QED BY <1>4, <1>5, <1>6, <1>7 DEF Next

(* What was selected does what the block says: the same values in every local,
   the same memory, the same register passed on and the same way out, although
   conditions are nowhere but in the flags, constants and addresses come and go
   in registers of their own, and the copies of a phi go before the branch that
   reads the flags. *)
THEOREM SelectedAsMeant == Spec => []SelectionFaithful
<1>1. CodeInv /\ SelectInv => SelectionFaithful
 <2> SUFFICES ASSUME CodeInv, SelectInv, Rewritten
              PROVE  /\ \A v \in DOMAIN Meant.env \ (Conditions \cup (DOMAIN vals \ Vregs)) : ref.regs[v] = Meant.env[v]
                     /\ \A a \in DOMAIN ref.mem \cup DOMAIN Meant.mem : Cell(ref, a) = Cell(Meant, a)
                     /\ ref.regs[REG_X0] = Meant.x0 /\ ref.at = Meant.at BY DEF SelectionFaithful
 <2> DEFINE R == PhysicalRegs \cup Vregs
 <2>1. block \in Programs /\ vals = block.vals BY DEF CodeInv
 <2>2. Alongside(block, ref, Meant, R)
  <3>1. PICK t : Means(ref, <<>>, t) /\ Alongside(block, t, Meant, R) BY DEF SelectInv, Rewritten
  <3> QED BY <3>1, MeansNothing
 <2>3. CondsOf(block) \subseteq Conditions
  <3> DEFINE o == Order(block)
  <3>1. IsBlock(block) /\ IsTyped(block) BY <2>1, ProgramsAssumption, TypesAssumption
  <3>2. o \in Seq(StatementsOf(block)) BY <3>1, OrderOfBlock DEF Order
  <3>3. \A s \in ToSet(block.copies) : s.op = "copy" BY <3>1 DEF IsTyped
  <3> HIDE DEF o
  <3>4. \A j \in DOMAIN o : o[j] \in StatementsOf(block) BY <3>2
  <3>5. \A j \in DOMAIN o : o[j].op = "cmp" => o[j] \in ToSet(block.body) BY <3>3, <3>4 DEF StatementsOf
  <3> QED BY <3>5 DEF CondsOf, Conditions, o
 <2>4. ASSUME NEW v \in DOMAIN Meant.env \ (Conditions \cup (DOMAIN vals \ Vregs)) PROVE ref.regs[v] = Meant.env[v]
  <3>1. v \in Common(block, Meant) BY <2>3, <2>4 DEF Common
  <3>2. v \in R BY <2>1, <2>2, <2>4, <3>1 DEF Alongside
  <3> HIDE DEF R
  <3> QED BY <2>2, <3>1, <3>2 DEF Alongside
 <2>5. ref.mem = Meant.mem /\ ref.regs[REG_X0] = Meant.x0 /\ ref.at = Meant.at
  <3> HIDE DEF R
  <3> QED BY <2>2 DEF Alongside
 <2> QED BY <2>4, <2>5 DEF Cell
<1> QED BY <1>1, SelectInvStart, SelectInvStep, CodeInvHolds, LinesInvHolds, PTL DEF Spec
=============================================================================
