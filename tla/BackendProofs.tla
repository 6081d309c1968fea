---------------------------- MODULE BackendProofs ----------------------------
(* The back end: registers are allocated, every instruction is rewritten to the
   places chosen, and printed as instructions the processor has. First the
   allocator, over its own machine of places; then the code selection emits,
   and what the rewriter and the printer make of each of its instructions; and
   last what the processor makes of single lines and of literals built from
   chunks, which PrintedCodeProofs goes on from. *)
EXTENDS RegisterAllocation, InstructionSelection, BasicLemmas, TLAPS

(* A slot is given out once, and only slots the frame has. *)
SlotsApart ==
  /\ {to_spill[k] : k \in DOMAIN to_spill} \cap DOMAIN locations = {}
  /\ \A j, k \in DOMAIN to_spill : to_spill[j] = to_spill[k] => j = k
  /\ DOMAIN locations \cup {to_spill[k] : k \in DOMAIN to_spill} = Present(uses, def)
  /\ pc = "run" => to_spill = <<>>

Equations ==
  Solves([succs |-> succs, uses |-> uses, def |-> def,
          live_in |-> live_in, live_out |-> live_out])

AllocationInv ==
  /\ TypeOK
  /\ Equations
  /\ SlotsApart
  /\ InterferenceRespected
  /\ LiveValuesIntact
-----------------------------------------------------------------------------
LEMMA InitCorrect == AllocInit => AllocationInv
<1> SUFFICES ASSUME AllocInit PROVE AllocationInv OBVIOUS
<1>1. PICK x \in Inputs :
        /\ succs = x.succs /\ uses = x.uses /\ def = x.def
        /\ live_in = x.live_in /\ live_out = x.live_out
        /\ coloring = x.coloring /\ to_spill = x.spilled
        /\ regs = x.regs
        /\ slots = <<>> BY DEF AllocInit
<1>2. Stream(x) /\ Solves(x) /\ Colors(x) /\ x.regs \in [Palette -> Val] BY InputsAssumption
<1>3. /\ pc = "allocate" /\ at = 0 /\ env = [v \in Vreg |-> regs[0]]
      /\ locations = [v \in DOMAIN coloring |-> Register(coloring[v])] BY DEF AllocInit
<1>4. /\ to_spill \in Seq(Vreg)
      /\ DOMAIN coloring \subseteq Present(uses, def)
      /\ \A v \in DOMAIN coloring : coloring[v] \in Palette
      /\ \A u, v \in DOMAIN coloring :
           Interferes(def, live_out, u, v) => coloring[u] # coloring[v]
      /\ {to_spill[k] : k \in DOMAIN to_spill} = Present(uses, def) \ DOMAIN coloring
      /\ \A j, k \in DOMAIN to_spill : to_spill[j] = to_spill[k] => j = k BY <1>1, <1>2 DEF Colors
<1>5. TypeOK
 <2>1. 0 \in Palette /\ 0 \in Node BY ConstantsAssumption DEF Palette, Node
 <2>2. slots \in Seq(Val) BY <1>1
 <2>3. \A v \in DOMAIN locations : \E c \in Palette : locations[v] = Register(c) BY <1>3, <1>4
 <2>4. Stream([succs |-> succs, uses |-> uses, def |-> def,
               live_in |-> live_in, live_out |-> live_out]) BY <1>1, <1>2 DEF Stream
 <2>5. env \in [Vreg -> Val] /\ regs \in [Palette -> Val] BY <1>1, <1>2, <1>3, <2>1
 <2>6. DOMAIN locations \subseteq Present(uses, def) BY <1>3, <1>4
 <2> QED BY <1>3, <1>4, <2>1, <2>2, <2>3, <2>4, <2>5, <2>6 DEF TypeOK
<1>6. Equations BY <1>1, <1>2 DEF Equations, Solves
<1>7. SlotsApart BY <1>3, <1>4 DEF SlotsApart
<1>8. InterferenceRespected BY <1>3, <1>4 DEF InterferenceRespected, Register
<1>9. LiveValuesIntact BY <1>3 DEF LiveValuesIntact
<1> QED BY <1>5, <1>6, <1>7, <1>8, <1>9 DEF AllocationInv

LEMMA ReserveSlotStep == AllocationInv /\ ReserveSlot => AllocationInv'
<1> SUFFICES ASSUME AllocationInv, ReserveSlot PROVE AllocationInv' OBVIOUS
<1> DEFINE h == Head(to_spill)
           n == Len(slots) + 1
<1>1. TypeOK /\ Equations /\ SlotsApart /\ InterferenceRespected BY DEF AllocationInv
<1>2. /\ pc = "allocate"
      /\ to_spill # <<>>
      /\ to_spill' = Tail(to_spill)
      /\ locations' = [v \in DOMAIN locations \cup {h} |->
                         IF v = h THEN Spill(n) ELSE locations[v]]
      /\ UNCHANGED <<stream, pc, at, env, regs>> BY DEF ReserveSlot, NewSlot
<1>3. PICK w \in Val : slots' = Append(slots, w) BY DEF ReserveSlot
<1>4. slots \in Seq(Val) /\ to_spill \in Seq(Vreg) BY <1>1 DEF TypeOK
<1>5. /\ slots' \in Seq(Val)
      /\ Len(slots) \in Nat
      /\ DOMAIN slots = 1 .. Len(slots)
      /\ DOMAIN slots' = 1 .. Len(slots) + 1 BY <1>3, <1>4, AppendFacts
<1>6. /\ to_spill' \in Seq(Vreg)
      /\ h = to_spill[1]
      /\ Len(to_spill) \in Nat \ {0}
      /\ DOMAIN to_spill = 1 .. Len(to_spill)
      /\ DOMAIN to_spill' = 1 .. Len(to_spill) - 1
      /\ \A k \in DOMAIN to_spill' : to_spill'[k] = to_spill[k + 1] BY <1>2, <1>4, TailFacts
<1>7. /\ {to_spill[k] : k \in DOMAIN to_spill} \cap DOMAIN locations = {}
      /\ \A j, k \in DOMAIN to_spill : to_spill[j] = to_spill[k] => j = k
      /\ DOMAIN locations \cup {to_spill[k] : k \in DOMAIN to_spill} = Present(uses, def) BY <1>1 DEF SlotsApart
<1>8. {to_spill[k] : k \in DOMAIN to_spill} =
        {h} \cup {to_spill'[k] : k \in DOMAIN to_spill'}
 <2>1. ASSUME NEW k \in DOMAIN to_spill
       PROVE  to_spill[k] = h \/ \E j \in DOMAIN to_spill' : to_spill'[j] = to_spill[k]
  <3>1. CASE k = 1 BY <3>1, <1>6
  <3>2. CASE k # 1
   <4>1. k - 1 \in DOMAIN to_spill' /\ to_spill'[k - 1] = to_spill[k] BY <3>2, <1>6
   <4> QED BY <4>1
  <3> QED BY <3>1, <3>2
 <2>2. \A k \in DOMAIN to_spill' : k + 1 \in DOMAIN to_spill /\ to_spill'[k] = to_spill[k + 1] BY <1>6
 <2>3. 1 \in DOMAIN to_spill /\ h = to_spill[1] BY <1>6
 <2> QED BY <2>1, <2>2, <2>3
<1>9. h \notin {to_spill'[k] : k \in DOMAIN to_spill'}
 <2>1. \A k \in DOMAIN to_spill' : k + 1 \in DOMAIN to_spill /\ k + 1 # 1 BY <1>6
 <2>2. 1 \in DOMAIN to_spill BY <1>6
 <2> QED BY <2>1, <2>2, <1>6, <1>7
<1>10. /\ h \notin DOMAIN locations
       /\ DOMAIN locations' = DOMAIN locations \cup {h}
       /\ locations'[h] = Spill(n)
       /\ \A v \in DOMAIN locations : locations'[v] = locations[v]
 <2>1. h \notin DOMAIN locations BY <1>7, <1>8
 <2> QED BY <1>2, <2>1
<1>11. SlotsApart'
 <2>1. {to_spill'[k] : k \in DOMAIN to_spill'} \cap DOMAIN locations' = {} BY <1>7, <1>8, <1>9, <1>10
 <2>2. ASSUME NEW j \in DOMAIN to_spill', NEW k \in DOMAIN to_spill',
              to_spill'[j] = to_spill'[k]
       PROVE  j = k
  <3>1. /\ j + 1 \in DOMAIN to_spill /\ k + 1 \in DOMAIN to_spill
        /\ j \in Int /\ k \in Int BY <1>6
  <3>2. to_spill[j + 1] = to_spill[k + 1] BY <2>2, <1>6
  <3>3. j + 1 = k + 1 BY <3>1, <3>2, <1>7
  <3> QED BY <3>1, <3>3
 <2>3. DOMAIN locations' \cup {to_spill'[k] : k \in DOMAIN to_spill'} = Present(uses, def) BY <1>7, <1>8, <1>10
 <2>4. uses' = uses /\ def' = def /\ pc' = "allocate" BY <1>2 DEF stream
 <2> QED BY <2>1, <2>2, <2>3, <2>4 DEF SlotsApart
<1>12. TypeOK'
 <2>1. \A v \in DOMAIN locations' :
         \/ \E c \in Palette : locations'[v] = Register(c)
         \/ \E s \in DOMAIN slots' : locations'[v] = Spill(s)
  <3>1. ASSUME NEW v \in DOMAIN locations
        PROVE  \/ \E c \in Palette : locations'[v] = Register(c)
               \/ \E s \in DOMAIN slots' : locations'[v] = Spill(s)
   <4>1. \A s \in DOMAIN slots : s \in DOMAIN slots' BY <1>5
   <4> QED BY <4>1, <1>1, <1>10 DEF TypeOK
  <3>2. n \in DOMAIN slots' /\ locations'[h] = Spill(n) BY <1>5, <1>10
  <3> QED BY <3>1, <3>2, <1>10
 <2>2. DOMAIN locations' \subseteq Present(uses, def) BY <1>7, <1>8, <1>10
 <2> QED BY <1>1, <1>2, <1>5, <1>6, <2>1, <2>2 DEF TypeOK, stream
<1>13. InterferenceRespected'
 <2>1. ASSUME NEW u \in DOMAIN locations, NEW v \in {h}
       PROVE  locations'[u] # locations'[v] BY <1>1, <1>5, <1>10 DEF TypeOK, Register, Spill
 <2>2. \A u : ~ Interferes(def, live_out, u, u) BY DEF Interferes, Clashes
 <2> QED BY <1>1, <1>2, <1>10, <2>1, <2>2 DEF InterferenceRespected, stream
<1>14. Equations' /\ LiveValuesIntact' BY <1>1, <1>2 DEF Equations, stream, LiveValuesIntact
<1> QED BY <1>11, <1>12, <1>13, <1>14 DEF AllocationInv

LEMMA EnterStep == AllocationInv /\ Enter => AllocationInv'
<1> SUFFICES ASSUME AllocationInv, Enter PROVE AllocationInv' OBVIOUS
<1>1. TypeOK /\ Equations /\ SlotsApart /\ InterferenceRespected BY DEF AllocationInv
<1>2. /\ to_spill = <<>> /\ pc' = "run"
      /\ env' = [v \in Vreg |-> IF v \in DOMAIN locations THEN Content(locations[v]) ELSE env[v]]
      /\ UNCHANGED <<stream, to_spill, locations, at, regs, slots>> BY DEF Enter
<1>3. \A v \in DOMAIN locations : Content(locations[v]) \in Val
 <2>1. ASSUME NEW s \in DOMAIN slots PROVE slots[s] \in Val BY <1>1, ElementType DEF TypeOK
 <2> QED BY <1>1, <2>1 DEF TypeOK, Content, Register, Spill
<1>4. env' \in [Vreg -> Val] BY <1>1, <1>2, <1>3 DEF TypeOK
<1>5. TypeOK' /\ Equations' /\ SlotsApart' /\ InterferenceRespected'
  BY <1>1, <1>2, <1>4 DEF TypeOK, Equations, SlotsApart, InterferenceRespected, stream
<1>6. LiveValuesIntact'
 <2>1. at \in Node /\ live_in \in [Node -> SUBSET Vreg] BY <1>1 DEF TypeOK, Stream
 <2>2. \A v \in live_in[at] \cap DOMAIN locations : env'[v] = Content(locations[v]) BY <1>2, <2>1
 <2> QED BY <1>2, <2>2 DEF LiveValuesIntact, Content, stream
<1> QED BY <1>5, <1>6 DEF AllocationInv

(* Writing a place changes that place and no other. *)
LEMMA WriteFacts ==
  ASSUME TypeOK, UNCHANGED locations,
         NEW u \in DOMAIN locations, NEW w \in Val, SetPlace(locations[u], w)
  PROVE  /\ regs' \in [Palette -> Val]
         /\ slots' \in Seq(Val)
         /\ DOMAIN slots' = DOMAIN slots
         /\ Content(locations[u])' = w
         /\ \A v \in DOMAIN locations :
              locations[v] # locations[u] => Content(locations[v])' = Content(locations[v])
<1>1. /\ regs \in [Palette -> Val]
      /\ slots \in Seq(Val)
      /\ \A v \in DOMAIN locations : \/ \E c \in Palette : locations[v] = Register(c)
                                     \/ \E s \in DOMAIN slots : locations[v] = Spill(s) BY DEF TypeOK
<1>2. CASE \E c \in Palette : locations[u] = Register(c)
 <2>1. PICK c \in Palette : locations[u] = Register(c) BY <1>2
 <2>2. regs' = [regs EXCEPT ![c] = w] /\ slots' = slots BY <2>1 DEF SetPlace, Register
 <2>3. regs' \in [Palette -> Val] /\ regs'[c] = w BY <1>1, <2>2
 <2>4. Content(locations[u])' = w BY <2>1, <2>3 DEF Content, Register
 <2>5. ASSUME NEW v \in DOMAIN locations, locations[v] # locations[u]
       PROVE  Content(locations[v])' = Content(locations[v])
  <3>1. CASE \E d \in Palette : locations[v] = Register(d)
   <4>1. PICK d \in Palette : locations[v] = Register(d) BY <3>1
   <4>2. d # c BY <2>1, <2>5, <4>1
   <4>3. regs'[d] = regs[d] BY <1>1, <2>2, <4>2
   <4> QED BY <4>1, <4>3 DEF Content, Register
  <3>2. CASE \E s \in DOMAIN slots : locations[v] = Spill(s) BY <3>2, <2>2 DEF Content, Spill
  <3> QED BY <3>1, <3>2, <1>1
 <2> QED BY <1>1, <2>2, <2>3, <2>4, <2>5
<1>3. CASE \E s \in DOMAIN slots : locations[u] = Spill(s)
 <2>1. PICK s \in DOMAIN slots : locations[u] = Spill(s) BY <1>3
 <2>2. slots' = [slots EXCEPT ![s] = w] /\ regs' = regs BY <2>1 DEF SetPlace, Spill
 <2>3. /\ slots' \in Seq(Val) /\ DOMAIN slots' = DOMAIN slots
       /\ slots'[s] = w
       /\ \A t \in DOMAIN slots : t # s => slots'[t] = slots[t] BY <1>1, <2>2
 <2>4. Content(locations[u])' = w BY <2>1, <2>3 DEF Content, Spill
 <2>5. ASSUME NEW v \in DOMAIN locations, locations[v] # locations[u]
       PROVE  Content(locations[v])' = Content(locations[v])
  <3>1. CASE \E t \in DOMAIN slots : locations[v] = Spill(t)
   <4>1. PICK t \in DOMAIN slots : locations[v] = Spill(t) BY <3>1
   <4>2. t # s BY <2>1, <2>5, <4>1
   <4>3. slots'[t] = slots[t] BY <2>3, <4>2
   <4> QED BY <4>1, <4>3 DEF Content, Spill
  <3>2. CASE \E c \in Palette : locations[v] = Register(c) BY <3>2, <2>2 DEF Content, Register
  <3> QED BY <3>1, <3>2, <1>1
 <2> QED BY <1>1, <2>2, <2>3, <2>4, <2>5
<1> QED BY <1>1, <1>2, <1>3

(* Operands are live where they are read, so both machines read the same. *)
LEMMA OperandsFromLive ==
  ASSUME AllocationInv, pc = "run"
  PROVE  /\ \A v \in uses[at] : v \in DOMAIN locations /\ Content(locations[v]) = env[v]
         /\ PhysicalResult(at) = VirtualResult(at)
         /\ VirtualResult(at) \in Val
<1>1. TypeOK /\ Equations /\ SlotsApart /\ LiveValuesIntact BY DEF AllocationInv
<1>2. /\ at \in Node
      /\ uses \in [Node -> SUBSET Vreg]
      /\ env \in [Vreg -> Val] BY <1>1 DEF TypeOK, Stream
<1>3. uses[at] \subseteq live_in[at] BY <1>1, <1>2 DEF Equations, Solves
<1>4. DOMAIN locations = Present(uses, def)
 <2>1. to_spill = <<>> /\ DOMAIN to_spill = {} BY <1>1 DEF SlotsApart
 <2> QED BY <1>1, <2>1 DEF SlotsApart
<1>5. uses[at] \subseteq Vreg /\ NoVreg \notin uses[at] BY <1>2, ConstantsAssumption
<1>6. uses[at] \subseteq DOMAIN locations BY <1>2, <1>4, <1>5 DEF Present
<1>7. \A v \in uses[at] : Content(locations[v]) = env[v] BY <1>1, <1>3, <1>6 DEF LiveValuesIntact
<1>8. [v \in uses[at] |-> env[v]] = [v \in uses[at] |-> Content(locations[v])] BY <1>7
<1>9. [v \in uses[at] |-> env[v]] \in [uses[at] -> Val] BY <1>2, <1>5
<1>10. VirtualResult(at) \in Val BY <1>2, <1>5, <1>9, ConstantsAssumption DEF VirtualResult
<1>11. PhysicalResult(at) = VirtualResult(at) BY <1>8 DEF PhysicalResult, VirtualResult
<1> QED BY <1>6, <1>7, <1>10, <1>11

LEMMA ExecuteStep == AllocationInv /\ Step => AllocationInv'
<1> SUFFICES ASSUME AllocationInv, Step PROVE AllocationInv' OBVIOUS
<1> DEFINE d == def[at]
<1>1. TypeOK /\ Equations /\ SlotsApart /\ InterferenceRespected /\ LiveValuesIntact BY DEF AllocationInv
<1>2. /\ pc = "run" /\ pc' = pc
      /\ at' \in succs[at]
      /\ UNCHANGED <<stream, to_spill, locations>> BY DEF Step
<1>3. /\ at \in Node
      /\ succs \in [Node -> SUBSET Node]
      /\ def \in [Node -> Vreg \cup {NoVreg}]
      /\ live_in \in [Node -> SUBSET Vreg]
      /\ live_out \in [Node -> SUBSET Vreg]
      /\ env \in [Vreg -> Val] BY <1>1 DEF TypeOK, Stream
<1>4. at' \in Node BY <1>2, <1>3
<1>5. DOMAIN locations = Present(uses, def)
 <2>1. to_spill = <<>> /\ DOMAIN to_spill = {} BY <1>1, <1>2 DEF SlotsApart
 <2> QED BY <1>1, <2>1 DEF SlotsApart
<1>6. live_in[at'] \subseteq live_out[at] /\ live_out[at] \ {d} \subseteq live_in[at] BY <1>1, <1>2, <1>3 DEF Equations, Solves
<1>7. Equations' /\ SlotsApart' /\ InterferenceRespected' BY <1>1, <1>2 DEF Equations, SlotsApart, InterferenceRespected, stream
<1>8. CASE d = NoVreg
 <2>1. UNCHANGED <<env, regs, slots>> BY <1>8 DEF Step
 <2>2. TypeOK' BY <1>1, <1>2, <1>4, <2>1 DEF TypeOK, stream
 <2>3. NoVreg \notin live_out[at] BY <1>3, ConstantsAssumption
 <2>4. live_in[at'] \subseteq live_in[at] BY <1>6, <1>8, <2>3
 <2>5. LiveValuesIntact' BY <1>1, <1>2, <2>1, <2>4 DEF LiveValuesIntact, Content, stream
 <2> QED BY <1>7, <2>2, <2>5 DEF AllocationInv
<1>9. CASE d # NoVreg
 <2>1. PICK e \in Vreg : e = def[at] BY <1>3, <1>9
 <2>2. e \in DOMAIN locations BY <1>3, <1>5, <1>9, <2>1 DEF Present
 <2>3. PhysicalResult(at) = VirtualResult(at) /\ VirtualResult(at) \in Val BY <1>2, OperandsFromLive
 <2>4. PICK w \in Val : w = VirtualResult(at) BY <2>3
 <2>5. env' = [env EXCEPT ![e] = w] /\ SetPlace(locations[e], w) BY <1>9, <2>1, <2>3, <2>4 DEF Step
 <2>6. /\ regs' \in [Palette -> Val]
       /\ slots' \in Seq(Val)
       /\ DOMAIN slots' = DOMAIN slots
       /\ Content(locations[e])' = w
       /\ \A v \in DOMAIN locations :
            locations[v] # locations[e] => Content(locations[v])' = Content(locations[v])
  <3>1. UNCHANGED locations BY <1>2
  <3> QED BY ONLY <1>1, <2>2, <2>4, <2>5, <3>1, WriteFacts
 <2>7. /\ env' \in [Vreg -> Val]
       /\ env'[e] = w
       /\ \A v \in Vreg : v # e => env'[v] = env[v] BY <1>3, <2>5
 <2>8. TypeOK' BY <1>1, <1>2, <1>4, <2>6, <2>7 DEF TypeOK, stream
 <2>9. ASSUME NEW v \in live_in[at'] \cap DOMAIN locations PROVE Content(locations[v])' = env'[v]
  <3>1. v \in Vreg /\ v \in live_out[at] BY <1>3, <1>4, <1>6
  <3>2. CASE v = e BY <2>6, <2>7, <3>2
  <3>3. CASE v # e
   <4>1. Interferes(def, live_out, e, v) BY <1>3, <2>1, <3>1, <3>3 DEF Interferes, Clashes
   <4>2. locations[v] # locations[e] BY <1>1, <2>2, <4>1 DEF InterferenceRespected
   <4>3. v \in live_in[at] /\ Content(locations[v]) = env[v] BY <1>1, <1>2, <1>6, <2>1, <3>1, <3>3 DEF LiveValuesIntact
   <4> QED BY <2>6, <2>7, <3>1, <3>3, <4>2, <4>3
  <3> QED BY <3>2, <3>3
 <2>10. LiveValuesIntact' BY <1>2, <2>9 DEF LiveValuesIntact, stream
 <2> QED BY <1>7, <2>8, <2>10 DEF AllocationInv
<1> QED BY <1>8, <1>9
-----------------------------------------------------------------------------
LEMMA StepCorrect == AllocationInv /\ [AllocNext]_allocVars => AllocationInv'
<1> SUFFICES ASSUME AllocationInv, [AllocNext]_allocVars PROVE AllocationInv' OBVIOUS
<1>1. CASE UNCHANGED allocVars
  BY <1>1 DEF allocVars, stream, AllocationInv, TypeOK, Equations, SlotsApart, InterferenceRespected,
              LiveValuesIntact, Content
<1>2. CASE AllocNext BY <1>2, ReserveSlotStep, EnterStep, ExecuteStep DEF AllocNext
<1> QED BY <1>1, <1>2

(* Every location is a register or a slot the frame has. *)
THEOREM TypeCorrect == AllocSpec => []TypeOK
<1>1. AllocationInv => TypeOK BY DEF AllocationInv
<1> QED BY <1>1, InitCorrect, StepCorrect, PTL DEF AllocSpec

(* Vregs that interfere are never given the same register or slot. *)
THEOREM PlacesDistinct == AllocSpec => []InterferenceRespected
<1>1. AllocationInv => InterferenceRespected BY DEF AllocationInv
<1> QED BY <1>1, InitCorrect, StepCorrect, PTL DEF AllocSpec

(* No live value is overwritten. *)
THEOREM LiveValuesSurvive == AllocSpec => []LiveValuesIntact
<1>1. AllocationInv => LiveValuesIntact BY DEF AllocationInv
<1> QED BY <1>1, InitCorrect, StepCorrect, PTL DEF AllocSpec

(* The allocated program reads what the program on virtual registers reads, at
   every instruction of every execution. *)
THEOREM AllocationCorrect == AllocSpec => []OperandsIntact
<1>1. AllocationInv => OperandsIntact BY OperandsFromLive DEF OperandsIntact
<1> QED BY <1>1, InitCorrect, StepCorrect, PTL DEF AllocSpec
-----------------------------------------------------------------------------
Sizes == {W32, X64}
Immediates(I) == [kind : {"imm"}, val : I]
InRegisters(R) == [kind : {"reg"}, val : R]
OffBase(R, O) == [kind : {"base_off"}, base : R, offset : O]
AtSymbol == [kind : {"global"}, base : {FP}, offset : 0 .. Modulus(X64) - 1]
I32Values == {c \in Int : 2 * c \in -Modulus(W32) .. Modulus(W32) - 1}
Comparisons == {"eq", "ne", "lt", "le", "gt", "ge"}
ArithOps == {"add", "sub", "mul", "sdiv"}

Movs(D, R) == [op : {"Mov"}, size : Sizes, dst : D, src : Immediates(Int) \cup InRegisters(R)]
BinOps(R) == [op : {"BinOp"}, binop : ArithOps, size : Sizes, dst : R, lhs : R,
              rhs : Immediates(Int) \cup InRegisters(R)]
Cmps(R) == [op : {"Cmp"}, size : Sizes, lhs : R, rhs : Immediates(Int) \cup InRegisters(R)]
Ldrs(R) == [op : {"Ldr"}, size : Sizes, dst : R,
            addr : OffBase({FP}, Int) \cup OffBase(R, {0}) \cup AtSymbol]
Strs(R, S) == [op : {"Str"}, size : Sizes, src : S,
               addr : OffBase({FP, SP}, Int) \cup OffBase(R, {0}) \cup AtSymbol]
Leas(R, D) == [op : {"Lea"}, dst : D, addr : OffBase({FP} \cup R, Int) \cup AtSymbol]
Geps(R) == [op : {"Gep"}, dst : R, base : R, index : Immediates(I32Values) \cup InRegisters(R),
            scale : Nat]
SpMoves == [op : {"SubSp", "AddSp"}, imm : Nat]
Branches == [op : {"BCond"}, cond : Comparisons, label : Nat \ {Here}]
              \cup [op : {"B"}, label : Nat \ {Here}] \cup [op : {"Ret"}]

Insts(R, D, M, S) ==
  Movs(D, M) \cup BinOps(R) \cup Cmps(R) \cup Ldrs(R) \cup Strs(R, S) \cup Leas(R, D)
    \cup Geps(R) \cup SpMoves \cup Branches

Virtual == {v \in Nat : IsVReg(v)}
ReadsScratch(i) == i.op = "Str" /\ i.src = SCRATCH0
VInsts == {i \in Insts(Virtual, Virtual \cup {REG_X0, SCRATCH0}, Virtual \cup {REG_X0}, Virtual \cup {SCRATCH0}) :
             ReadsScratch(i) => i.addr \in OffBase({SP}, Int)}
General == Registers \cup {REG_X0, SCRATCH0, SCRATCH1}
PInsts == {i \in Insts(General, General, General, General) :
             i.op = "Gep" /\ i.dst = i.base => i.dst \notin {SCRATCH0, SCRATCH1}}

LineOps ==
  {"mov", "mov_imm", "movz", "movk", "add", "sub", "mul", "sdiv", "add_imm", "sub_imm", "add_sxtw",
   "sxtw", "adr", "ldr", "ldur", "str", "stur", "cmp", "cmp_imm", "b_cond", "b", "ret"}
Lines ==
  [op : LineOps, size : Sizes, dst : Int, lhs : Int, rhs : Int \cup Comparisons, imm : Int]

-----------------------------------------------------------------------------
LEMMA DivMod ==
  ASSUME NEW a \in Int, NEW n \in Nat \ {0}
  PROVE  /\ a \div n \in Int /\ a % n \in 0 .. n - 1
         /\ a = (a \div n) * n + (a % n)
BY SMT

LEMMA ModUnique ==
  ASSUME NEW n \in Nat \ {0}, NEW q \in Int, NEW r \in 0 .. n - 1 PROVE (q * n + r) % n = r /\ (q * n + r) \div n = q
BY SMT

LEMMA ModulusFacts ==
  /\ Modulus(W32) \in Nat \ {0} /\ Modulus(X64) \in Nat \ {0}
  /\ Modulus(W32) = Chunk * Chunk
  /\ Modulus(X64) = Chunk * Chunk * Chunk * Chunk
  /\ Modulus(W32) <= Modulus(X64)
  /\ \A n \in Sizes : Modulus(n) \in Nat \ {0}
<1>1. Chunk \in Nat /\ Chunk > 0 BY MachineAssumption
<1>2. Chunk * Chunk \in Nat /\ Chunk * Chunk > 0 BY <1>1
<1>3. Chunk * Chunk * Chunk \in Nat /\ Chunk * Chunk * Chunk >= Chunk * Chunk
 <2> DEFINE c == Chunk * Chunk
 <2>1. c \in Nat /\ c > 0 BY <1>2
 <2> HIDE DEF c
 <2>2. c * Chunk \in Nat /\ c * Chunk >= c BY <1>1, <2>1
 <2> QED BY <2>2 DEF c
<1>4. Chunk * Chunk * Chunk * Chunk \in Nat
      /\ Chunk * Chunk * Chunk * Chunk >= Chunk * Chunk * Chunk
 <2> DEFINE c == Chunk * Chunk * Chunk
 <2>1. c \in Nat /\ c > 0 BY <1>2, <1>3
 <2> HIDE DEF c
 <2>2. c * Chunk \in Nat /\ c * Chunk >= c BY <1>1, <2>1
 <2> QED BY <2>2 DEF c
<1> QED BY <1>1, <1>2, <1>3, <1>4 DEF Modulus, W32, X64, Sizes

LEMMA MovChunkLines ==
  ASSUME NEW n \in Sizes, NEW r \in Int, NEW v \in Nat, NEW k \in {0, 1, 2, 3}, n = W32 => k \in {0, 1}
  PROVE  MovChunk(n, r, v, k) \in Seq({l \in Lines : Encodable(l) /\ l.dst = r /\ l.op \in {"movz", "movk"}})
<1>1. Chunk \in Nat \ {0} /\ Pow(Chunk, k) \in Nat \ {0}
 <2>1. Chunk \in Nat \ {0} BY MachineAssumption
 <2>2. Chunk * Chunk \in Nat \ {0} BY <2>1
 <2>3. Chunk * Chunk * Chunk \in Nat \ {0} BY <2>1, <2>2
 <2>4. k \in {0, 1, 2, 3} BY DEF W32, X64, Sizes
 <2> QED BY <2>1, <2>2, <2>3, <2>4 DEF Pow
<1>2. ChunkAt(v, k) \in 0 .. Chunk - 1
 <2> DEFINE p == Pow(Chunk, k)
 <2>1. p \in Nat \ {0} /\ v \in Int BY <1>1
 <2> HIDE DEF p
 <2>2. v \div p \in Int BY <2>1, DivMod
 <2>3. (v \div p) % Chunk \in 0 .. Chunk - 1 BY <1>1, <2>2, DivMod
 <2> QED BY <2>3 DEF ChunkAt, p
<1>3. ASSUME NEW name \in {"movz", "movk"}
      PROVE  Line(name, n, r, k, SP, ChunkAt(v, k))
               \in {l \in Lines : Encodable(l) /\ l.dst = r /\ l.op \in {"movz", "movk"}}
 <2> DEFINE c == ChunkAt(v, k)
            l == Line(name, n, r, k, SP, c)
 <2>1. c \in 0 .. Chunk - 1 /\ c \in Int BY <1>1, <1>2
 <2> HIDE DEF c
 <2>2. l \in Lines
  <3>1. SP \in Int BY DEF SP
  <3>2. k \in Int BY DEF W32, X64, Sizes
  <3>3. name \in LineOps BY DEF LineOps
  <3> QED BY <2>1, <3>1, <3>2, <3>3 DEF Line, Lines
 <2>3. l.op = name /\ l.dst = r /\ l.imm = c /\ l.lhs = k /\ l.size = n BY DEF Line
 <2> HIDE DEF l
 <2>4. Encodable(l) BY <2>1, <2>3 DEF Encodable
 <2>5. l \in {x \in Lines : Encodable(x) /\ x.dst = r /\ x.op \in {"movz", "movk"}} BY <2>2, <2>3, <2>4
 <2> QED BY <2>5 DEF l, c
<1> DEFINE op == IF v % Pow(Chunk, k) = 0 THEN "movz" ELSE "movk"
<1>4. op \in {"movz", "movk"} OBVIOUS
<1> HIDE DEF op
<1>5. Line(op, n, r, k, SP, ChunkAt(v, k))
        \in {l \in Lines : Encodable(l) /\ l.dst = r /\ l.op \in {"movz", "movk"}} BY <1>3, <1>4
<1> DEFINE ln == Line(op, n, r, k, SP, ChunkAt(v, k))
           S == {l \in Lines : Encodable(l) /\ l.dst = r /\ l.op \in {"movz", "movk"}}
<1>6. ln \in S BY <1>5
<1> HIDE DEF ln, S
<1>7. <<ln>> \in Seq(S) /\ <<>> \in Seq(S) BY <1>6
<1> QED BY <1>7 DEF MovChunk, ln, op, S
-----------------------------------------------------------------------------
DefinedIn(c) == UNION {DefinedVreg(c[k]) : k \in DOMAIN c}
DefinedBefore(c, k) == UNION {DefinedVreg(c[j]) : j \in 1 .. k - 1}
IsBranch(i) == i.op \in {"B", "BCond", "Ret"}
FillsScratch(i) == i.op \in {"Mov", "Lea"} /\ i.dst = SCRATCH0

ReadsOnly(c, R) == \A k \in DOMAIN c : UsedVregs(c[k]) \subseteq R \cup DefinedBefore(c, k)
ScratchReady(c) == \A k \in DOMAIN c : ReadsScratch(c[k]) => k > 1 /\ FillsScratch(c[k - 1])
BranchesLast(c) == \A j, k \in DOMAIN c : IsBranch(c[j]) /\ j < k => IsBranch(c[k])
HasBranch(c) == \E k \in DOMAIN c : IsBranch(c[k])

(* A stretch of code that reads R and defines at least D. *)
Piece(c, R, D) ==
  /\ c \in Seq(VInsts)
  /\ ReadsOnly(c, R)
  /\ D \subseteq DefinedIn(c)
  /\ ScratchReady(c)
  /\ BranchesLast(c)

LEMMA NoPiece == ASSUME NEW R PROVE Piece(<<>>, R, {})
BY DEF Piece, ReadsOnly, ScratchReady, BranchesLast

LEMMA OnePiece ==
  ASSUME NEW i \in VInsts, NEW R, NEW D, UsedVregs(i) \subseteq R, D \subseteq DefinedVreg(i),
         ~ReadsScratch(i)
  PROVE  Piece(<<i>>, R, D)
<1> DEFINE c == <<i>>
<1>1. c \in Seq(VInsts) /\ DOMAIN c = {1} /\ c[1] = i OBVIOUS
<1> HIDE DEF c
<1>2. DefinedIn(c) = DefinedVreg(i) BY <1>1 DEF DefinedIn
<1>3. ReadsOnly(c, R) BY <1>1 DEF ReadsOnly
<1>4. ScratchReady(c) /\ BranchesLast(c) BY <1>1 DEF ScratchReady, BranchesLast
<1>5. Piece(c, R, D) BY <1>1, <1>2, <1>3, <1>4 DEF Piece
<1> QED BY <1>5 DEF c

LEMMA TwoPieces ==
  ASSUME NEW i \in VInsts, NEW j \in VInsts, NEW R, NEW D,
         UsedVregs(i) \subseteq R, UsedVregs(j) \subseteq R \cup DefinedVreg(i),
         D \subseteq DefinedVreg(i) \cup DefinedVreg(j),
         ~ReadsScratch(i), ReadsScratch(j) => FillsScratch(i), IsBranch(i) => IsBranch(j)
  PROVE  Piece(<<i, j>>, R, D)
<1> DEFINE c == <<i, j>>
<1>1. c \in Seq(VInsts) /\ DOMAIN c = {1, 2} /\ c[1] = i /\ c[2] = j OBVIOUS
<1> HIDE DEF c
<1>2. DefinedIn(c) = DefinedVreg(i) \cup DefinedVreg(j) BY <1>1 DEF DefinedIn
<1>3. DefinedBefore(c, 2) = DefinedVreg(i)
 <2>1. 1 .. 2 - 1 = {1} OBVIOUS
 <2> QED BY <1>1, <2>1 DEF DefinedBefore
<1>4. ReadsOnly(c, R) BY <1>1, <1>3 DEF ReadsOnly
<1>5. ScratchReady(c)
 <2>1. ~ReadsScratch(c[1]) /\ (ReadsScratch(c[2]) => FillsScratch(c[2 - 1])) BY <1>1
 <2> QED BY <1>1, <2>1 DEF ScratchReady
<1>6. BranchesLast(c)
 <2>1. IsBranch(c[1]) => IsBranch(c[2]) BY <1>1
 <2> QED BY <1>1, <2>1 DEF BranchesLast
<1>7. Piece(c, R, D) BY <1>1, <1>2, <1>4, <1>5, <1>6 DEF Piece
<1> QED BY <1>7 DEF c

(* Pieces one after the other. *)
LEMMA PiecesJoin ==
  ASSUME NEW c, NEW e, NEW R, NEW Q, NEW D, NEW F, Piece(c, R, D), Piece(e, Q, F),
         Q \subseteq R \cup DefinedIn(c), ~HasBranch(c)
  PROVE  Piece(c \o e, R, D \cup F) /\ DefinedIn(c \o e) = DefinedIn(c) \cup DefinedIn(e)
<1> DEFINE b == c \o e
<1>1. c \in Seq(VInsts) /\ e \in Seq(VInsts) BY DEF Piece
<1>2. /\ b \in Seq(VInsts) /\ Len(b) = Len(c) + Len(e)
      /\ \A k \in 1 .. Len(c) : b[k] = c[k]
      /\ \A k \in 1 .. Len(e) : b[Len(c) + k] = e[k] BY <1>1
<1>3. /\ Len(c) \in Nat /\ Len(e) \in Nat /\ DOMAIN c = 1 .. Len(c) /\ DOMAIN e = 1 .. Len(e)
      /\ DOMAIN b = 1 .. Len(b) BY <1>1, <1>2
<1>4. \A k \in DOMAIN b : k \in DOMAIN c \/ (k - Len(c) \in DOMAIN e /\ b[k] = e[k - Len(c)] /\ k > Len(c))
 <2>1. SUFFICES ASSUME NEW k \in DOMAIN b, k \notin DOMAIN c
                PROVE  k - Len(c) \in DOMAIN e /\ b[k] = e[k - Len(c)] /\ k > Len(c) OBVIOUS
 <2>2. k \in Nat /\ k > Len(c) /\ k <= Len(c) + Len(e) BY <1>2, <1>3, <2>1
 <2>3. k - Len(c) \in 1 .. Len(e) /\ Len(c) + (k - Len(c)) = k BY <1>3, <2>2
 <2> QED BY <1>2, <1>3, <2>2, <2>3
<1> HIDE DEF b
<1>5. DefinedIn(b) = DefinedIn(c) \cup DefinedIn(e)
 <2>1. ASSUME NEW v \in DefinedIn(b) PROVE v \in DefinedIn(c) \cup DefinedIn(e)
  <3>1. PICK k \in DOMAIN b : v \in DefinedVreg(b[k]) BY <2>1 DEF DefinedIn
  <3> QED BY <1>2, <1>3, <1>4, <3>1 DEF DefinedIn
 <2>2. ASSUME NEW v \in DefinedIn(c) PROVE v \in DefinedIn(b)
  <3>1. PICK k \in DOMAIN c : v \in DefinedVreg(c[k]) BY <2>2 DEF DefinedIn
  <3>2. k \in DOMAIN b /\ b[k] = c[k] BY <1>2, <1>3
  <3> QED BY <3>1, <3>2 DEF DefinedIn
 <2>3. ASSUME NEW v \in DefinedIn(e) PROVE v \in DefinedIn(b)
  <3>1. PICK k \in DOMAIN e : v \in DefinedVreg(e[k]) BY <2>3 DEF DefinedIn
  <3>2. Len(c) + k \in DOMAIN b /\ b[Len(c) + k] = e[k] BY <1>2, <1>3
  <3> QED BY <3>1, <3>2 DEF DefinedIn
 <2> QED BY <2>1, <2>2, <2>3
<1>6. ReadsOnly(b, R)
 <2>1. SUFFICES ASSUME NEW k \in DOMAIN b, NEW v \in UsedVregs(b[k])
                PROVE  v \in R \cup DefinedBefore(b, k) BY DEF ReadsOnly
 <2>2. CASE k \in DOMAIN c
  <3>1. v \in R \cup DefinedBefore(c, k) BY <1>2, <1>3, <2>1, <2>2 DEF Piece, ReadsOnly
  <3>2. ASSUME v \in DefinedBefore(c, k) PROVE v \in DefinedBefore(b, k)
   <4>1. PICK j \in 1 .. k - 1 : v \in DefinedVreg(c[j]) BY <3>2 DEF DefinedBefore
   <4>2. b[j] = c[j] BY <1>2, <1>3, <2>2
   <4> QED BY <4>1, <4>2 DEF DefinedBefore
  <3> QED BY <3>1, <3>2
 <2>3. CASE k \notin DOMAIN c
  <3>1. k - Len(c) \in DOMAIN e /\ b[k] = e[k - Len(c)] /\ k > Len(c) BY <1>4, <2>3
  <3>2. v \in Q \cup DefinedBefore(e, k - Len(c)) BY <2>1, <3>1 DEF Piece, ReadsOnly
  <3>3. ASSUME v \in DefinedIn(c) PROVE v \in DefinedBefore(b, k)
   <4>1. PICK j \in DOMAIN c : v \in DefinedVreg(c[j]) BY <3>3 DEF DefinedIn
   <4>2. b[j] = c[j] /\ j \in 1 .. k - 1 BY <1>2, <1>3, <3>1
   <4> QED BY <4>1, <4>2 DEF DefinedBefore
  <3>4. ASSUME v \in DefinedBefore(e, k - Len(c)) PROVE v \in DefinedBefore(b, k)
   <4>1. PICK j \in 1 .. (k - Len(c)) - 1 : v \in DefinedVreg(e[j]) BY <3>4 DEF DefinedBefore
   <4>2. Len(c) + j \in 1 .. k - 1 /\ j \in 1 .. Len(e) BY <1>3, <3>1
   <4>3. b[Len(c) + j] = e[j] BY <1>2, <4>2
   <4>4. v \in DefinedVreg(b[Len(c) + j]) BY <4>1, <4>3
   <4> QED BY <4>2, <4>4 DEF DefinedBefore
  <3> QED BY <3>2, <3>3, <3>4
 <2> QED BY <2>2, <2>3
<1>7. ScratchReady(b)
 <2>1. SUFFICES ASSUME NEW k \in DOMAIN b, ReadsScratch(b[k])
                PROVE  k > 1 /\ FillsScratch(b[k - 1]) BY DEF ScratchReady
 <2>2. CASE k \in DOMAIN c
  <3>1. k > 1 /\ FillsScratch(c[k - 1]) BY <1>2, <1>3, <2>1, <2>2 DEF Piece, ScratchReady
  <3>2. k - 1 \in 1 .. Len(c) BY <1>3, <2>2, <3>1
  <3> QED BY <1>2, <3>1, <3>2
 <2>3. CASE k \notin DOMAIN c
  <3>1. k - Len(c) \in DOMAIN e /\ b[k] = e[k - Len(c)] /\ k > Len(c) BY <1>4, <2>3
  <3>2. k - Len(c) > 1 /\ FillsScratch(e[(k - Len(c)) - 1]) BY <2>1, <3>1 DEF Piece, ScratchReady
  <3>3. (k - Len(c)) - 1 \in 1 .. Len(e) /\ Len(c) + ((k - Len(c)) - 1) = k - 1 /\ k > 1 BY <1>3, <3>1, <3>2
  <3>4. b[k - 1] = e[(k - Len(c)) - 1] BY <1>2, <3>3
  <3> QED BY <3>2, <3>3, <3>4
 <2> QED BY <2>2, <2>3
<1>8. BranchesLast(b)
 <2>1. SUFFICES ASSUME NEW j \in DOMAIN b, NEW k \in DOMAIN b, IsBranch(b[j]), j < k
                PROVE  IsBranch(b[k]) BY DEF BranchesLast
 <2>2. j \notin DOMAIN c
  <3>1. j \in DOMAIN c => b[j] = c[j] BY <1>2, <1>3
  <3> QED BY <2>1, <3>1 DEF HasBranch
 <2>3. k \notin DOMAIN c BY <1>3, <2>1, <2>2
 <2>4. /\ j - Len(c) \in DOMAIN e /\ b[j] = e[j - Len(c)]
       /\ k - Len(c) \in DOMAIN e /\ b[k] = e[k - Len(c)] BY <1>4, <2>2, <2>3
 <2>5. j - Len(c) < k - Len(c) BY <1>3, <2>1
 <2> QED BY <2>1, <2>4, <2>5 DEF Piece, BranchesLast
<1>9. Piece(b, R, D \cup F)
 <2>1. D \subseteq DefinedIn(c) /\ F \subseteq DefinedIn(e) BY DEF Piece
 <2> QED BY <1>2, <1>5, <1>6, <1>7, <1>8, <2>1 DEF Piece
<1> QED BY <1>5, <1>9 DEF b
-----------------------------------------------------------------------------
CondsKnown == \A v \in DOMAIN cond_map : cond_map[v] \in Comparisons
Operand == Immediates(I32Values) \cup InRegisters(Virtual)
Value == Immediates(Int) \cup InRegisters(Virtual)
Address == OffBase({FP}, Int) \cup OffBase(Virtual, {0}) \cup AtSymbol

LEMMA LocalsVirtual == Locals \subseteq Virtual
BY DEF Locals, Virtual, IsVReg, FirstVReg

(* The shape of each instruction, and what it reads and defines. *)
LEMMA MovShape ==
  ASSUME NEW n \in Sizes, NEW d \in Virtual \cup {REG_X0, SCRATCH0},
         NEW o \in Immediates(Int) \cup InRegisters(Virtual \cup {REG_X0})
  PROVE  /\ Mov(n, d, o) \in VInsts
         /\ UsedVregs(Mov(n, d, o)) = {r \in OperandRegs(o) : IsVReg(r)}
         /\ DefinedVreg(Mov(n, d, o)) = {r \in {d} : IsVReg(r)}
         /\ ~ReadsScratch(Mov(n, d, o)) /\ ~IsBranch(Mov(n, d, o))
         /\ FillsScratch(Mov(n, d, o)) <=> d = SCRATCH0
BY DEF Mov, VInsts, Insts, Movs, UsedVregs, DefinedVreg, ReadsScratch, IsBranch, FillsScratch

LEMMA StrShape ==
  ASSUME NEW n \in Sizes, NEW r \in Virtual \cup {SCRATCH0},
         NEW a \in OffBase({FP, SP}, Int) \cup OffBase(Virtual, {0}) \cup AtSymbol,
         r = SCRATCH0 => a \in OffBase({SP}, Int)
  PROVE  /\ Str(n, r, a) \in VInsts
         /\ UsedVregs(Str(n, r, a)) = {x \in {r} \cup AddrRegs(a) : IsVReg(x)}
         /\ DefinedVreg(Str(n, r, a)) = {}
         /\ ReadsScratch(Str(n, r, a)) <=> r = SCRATCH0
         /\ ~IsBranch(Str(n, r, a))
BY DEF Str, VInsts, Insts, Strs, UsedVregs, DefinedVreg, ReadsScratch, IsBranch

LEMMA LdrShape ==
  ASSUME NEW n \in Sizes, NEW r \in Virtual, NEW a \in Address
  PROVE  /\ Ldr(n, r, a) \in VInsts
         /\ UsedVregs(Ldr(n, r, a)) = {x \in AddrRegs(a) : IsVReg(x)}
         /\ DefinedVreg(Ldr(n, r, a)) = {r}
         /\ ~ReadsScratch(Ldr(n, r, a)) /\ ~IsBranch(Ldr(n, r, a))
BY DEF Ldr, VInsts, Insts, Ldrs, Address, UsedVregs, DefinedVreg, ReadsScratch, IsBranch, Virtual

LEMMA LeaShape ==
  ASSUME NEW r \in Virtual \cup {REG_X0, SCRATCH0},
         NEW a \in OffBase({FP} \cup Virtual, Int) \cup AtSymbol
  PROVE  /\ Lea(r, a) \in VInsts
         /\ UsedVregs(Lea(r, a)) = {x \in AddrRegs(a) : IsVReg(x)}
         /\ DefinedVreg(Lea(r, a)) = {x \in {r} : IsVReg(x)}
         /\ ~ReadsScratch(Lea(r, a)) /\ ~IsBranch(Lea(r, a))
         /\ FillsScratch(Lea(r, a)) <=> r = SCRATCH0
BY DEF Lea, VInsts, Insts, Leas, UsedVregs, DefinedVreg, ReadsScratch, IsBranch, FillsScratch

LEMMA GepShape ==
  ASSUME NEW d \in Virtual, NEW b \in Virtual, NEW o \in Operand, NEW n \in Nat
  PROVE  /\ Gep(d, b, o, n) \in VInsts
         /\ UsedVregs(Gep(d, b, o, n)) = {x \in {b} \cup OperandRegs(o) : IsVReg(x)}
         /\ DefinedVreg(Gep(d, b, o, n)) = {d}
         /\ ~ReadsScratch(Gep(d, b, o, n)) /\ ~IsBranch(Gep(d, b, o, n))
BY DEF Gep, VInsts, Insts, Geps, Operand, UsedVregs, DefinedVreg, ReadsScratch, IsBranch, Virtual

LEMMA BinOpShape ==
  ASSUME NEW op \in ArithOps, NEW n \in Sizes, NEW d \in Virtual, NEW l \in Virtual,
         NEW o \in Value
  PROVE  /\ BinOp(op, n, d, l, o) \in VInsts
         /\ UsedVregs(BinOp(op, n, d, l, o)) = {x \in {l} \cup OperandRegs(o) : IsVReg(x)}
         /\ DefinedVreg(BinOp(op, n, d, l, o)) = {d}
         /\ ~ReadsScratch(BinOp(op, n, d, l, o)) /\ ~IsBranch(BinOp(op, n, d, l, o))
BY DEF BinOp, VInsts, Insts, BinOps, Value, UsedVregs, DefinedVreg, ReadsScratch, IsBranch, Virtual

LEMMA CmpShape ==
  ASSUME NEW l \in Virtual, NEW o \in Value
  PROVE  /\ Cmp(l, o) \in VInsts
         /\ UsedVregs(Cmp(l, o)) = {x \in {l} \cup OperandRegs(o) : IsVReg(x)}
         /\ DefinedVreg(Cmp(l, o)) = {}
         /\ ~ReadsScratch(Cmp(l, o)) /\ ~IsBranch(Cmp(l, o))
BY DEF Cmp, VInsts, Insts, Cmps, Value, UsedVregs, DefinedVreg, ReadsScratch, IsBranch, Sizes

LEMMA BranchShapes ==
  /\ \A c \in Comparisons, n \in Nat \ {Here} :
       /\ BCond(c, n) \in VInsts /\ UsedVregs(BCond(c, n)) = {} /\ DefinedVreg(BCond(c, n)) = {}
       /\ ~ReadsScratch(BCond(c, n)) /\ IsBranch(BCond(c, n))
  /\ \A n \in Nat \ {Here} :
       /\ B(n) \in VInsts /\ UsedVregs(B(n)) = {} /\ DefinedVreg(B(n)) = {}
       /\ ~ReadsScratch(B(n)) /\ IsBranch(B(n))
  /\ [op |-> "Ret"] \in VInsts /\ UsedVregs([op |-> "Ret"]) = {} /\ DefinedVreg([op |-> "Ret"]) = {}
  /\ ~ReadsScratch([op |-> "Ret"]) /\ IsBranch([op |-> "Ret"])
BY DEF BCond, B, VInsts, Insts, Branches, UsedVregs, DefinedVreg, ReadsScratch, IsBranch

LEMMA PieceOfCallShape ==
  ASSUME NEW i \in PiecesOfCalls
  PROVE  /\ i \in VInsts /\ UsedVregs(i) = {} /\ ~ReadsScratch(i) /\ ~IsBranch(i)
         /\ DefinedVreg(i) = IF i.op = "Ldr" THEN {i.dst} ELSE {}
<1>1. CASE i \in [op : {"SubSp", "AddSp"}, imm : Nat]
  BY <1>1 DEF VInsts, Insts, SpMoves, UsedVregs, DefinedVreg, ReadsScratch, IsBranch
<1>2. CASE i \in [op : {"Ldr"}, size : {W32, X64}, dst : Locals,
                  addr : [kind : {"base_off"}, base : {FP}, offset : Int]]
 <2> DEFINE a == i.addr
 <2>1. i = Ldr(i.size, i.dst, a) /\ i.size \in Sizes /\ i.dst \in Virtual /\ a \in Address
   BY <1>2, LocalsVirtual DEF Ldr, Sizes, Address, OffBase
 <2>2. AddrRegs(a) = {FP} /\ ~IsVReg(FP) BY <1>2 DEF AddrRegs, FP, IsVReg, FirstVReg
 <2> HIDE DEF a
 <2>3. i.op = "Ldr" BY <1>2
 <2> QED BY <2>1, <2>2, <2>3, LdrShape
<1> QED BY <1>1, <1>2 DEF PiecesOfCalls
-----------------------------------------------------------------------------
(* Operands of statements, as operands of instructions. *)
RegsOf(o) == IF o.kind = "local" /\ ~HasAlloca(o) THEN {o.id} ELSE {}

LEMMA LoweredValue ==
  ASSUME NEW o, IsOperand(o), LowersInt(o) \/ LowersValue(o)
  PROVE  /\ LowerValue(o) \in Operand /\ LowerValue(o) \in Value
         /\ OperandRegs(LowerValue(o)) = RegsOf(o)
         /\ RegisterSize(o.dtype) \in Sizes
<1>1. o.kind = "const" \/ (o.kind = "local" /\ o.id \in Virtual /\ ~HasAlloca(o))
  BY LocalsVirtual DEF IsOperand, LowersInt, LowersValue, IsInt, HasAlloca
<1>2. o.kind = "const" => o.val \in I32Values BY ModulusFacts DEF IsOperand, I32Values
<1>3. RegisterSize(o.dtype) \in Sizes BY DEF RegisterSize, Sizes
<1> QED BY <1>1, <1>2, <1>3 DEF LowerValue, Operand, Value, Immediates, InRegisters, Imm, Reg, OperandRegs, RegsOf, I32Values

LEMMA LoweredPtr ==
  ASSUME NEW o, IsOperand(o), LowersPtr(o)
  PROVE  /\ LowerPtrAsAddr(o) \in Address
         /\ {x \in AddrRegs(LowerPtrAsAddr(o)) : IsVReg(x)} = RegsOf(o)
<1>1. CASE HasAlloca(o)
 <2>1. Allocas[o.id] \in Int BY <1>1, ProgramsAssumption DEF HasAlloca
 <2>2. LowerPtrAsAddr(o) = BaseOff(FP, Allocas[o.id]) BY <1>1 DEF LowerPtrAsAddr, LocalAddr, HasAlloca
 <2>3. ~IsVReg(FP) BY DEF IsVReg, FirstVReg, FP
 <2> QED BY <1>1, <2>1, <2>2, <2>3 DEF Address, OffBase, BaseOff, AddrRegs, RegsOf
<1>2. CASE ~HasAlloca(o) /\ o.kind = "global" BY <1>2 DEF LowerPtrAsAddr, Address, AtSymbol, Global, AddrRegs, RegsOf, IsOperand
<1>3. CASE ~HasAlloca(o) /\ o.kind # "global"
 <2>1. o.kind = "local" /\ o.id \in Virtual BY <1>3, LocalsVirtual DEF IsOperand, LowersPtr
 <2>2. LowerPtrAsAddr(o) = BaseOff(o.id, 0) BY <1>3 DEF LowerPtrAsAddr
 <2>3. IsVReg(o.id) BY <2>1 DEF Virtual
 <2> QED BY <1>3, <2>1, <2>2, <2>3 DEF Address, OffBase, BaseOff, AddrRegs, RegsOf
<1> QED BY <1>1, <1>2, <1>3
-----------------------------------------------------------------------------
LEMMA PairJoined == ASSUME NEW x, NEW y PROVE <<x>> \o <<y>> = <<x, y>>
<1> DEFINE a == <<x>>
           b == <<y>>
           c == a \o b
           d == <<x, y>>
           S == {x, y}
<1>1. a \in Seq(S) /\ b \in Seq(S) /\ Len(a) = 1 /\ Len(b) = 1 /\ a[1] = x /\ b[1] = y OBVIOUS
<1> HIDE DEF a, b, S
<1>2. c \in Seq(S) /\ Len(c) = 2 /\ c[1] = x /\ c[2] = y
 <2>1. a \in Seq(S) BY <1>1
 <2>2. b \in Seq(S) BY <1>1
 <2>3. /\ c \in Seq(S) /\ Len(c) = Len(a) + Len(b)
       /\ \A k \in 1 .. Len(a) : c[k] = a[k]
       /\ \A k \in 1 .. Len(b) : c[Len(a) + k] = b[k] BY <2>1, <2>2
 <2>4. 1 \in 1 .. Len(a) /\ 1 \in 1 .. Len(b) BY <1>1
 <2>5. Len(a) + 1 = 2 /\ Len(a) + Len(b) = 2 BY <1>1
 <2> QED BY <1>1, <2>3, <2>4, <2>5
<1>3. d \in Seq(S) /\ Len(d) = 2 /\ d[1] = x /\ d[2] = y BY DEF S
<1> HIDE DEF c, d
<1>4. c = d BY <1>2, <1>3, SeqEqual
<1> QED BY <1>4 DEF c, d, a, b

LEMMA BranchlessShort ==
  ASSUME NEW i, ~IsBranch(i)
  PROVE  /\ ~HasBranch(<<>>) /\ ~HasBranch(<<i>>)
         /\ \A j : ~IsBranch(j) => ~HasBranch(<<i, j>>)
BY DEF HasBranch

(* The instruction behind a constant that first moves into a register. *)
LEMMA WithFresh ==
  ASSUME NEW o, IsOperand(o), LowersInt(o) \/ LowersValue(o), next_vreg \in Virtual,
         NEW j \in VInsts, NEW R, NEW D, RegsOf(o) \subseteq R,
         UsedVregs(j) \subseteq {InRegister(o)} \cup R, D \subseteq DefinedVreg(j),
         ~ReadsScratch(j), ~IsBranch(j)
  PROVE  Piece(MoveFresh(o) \o <<j>>, R, D) /\ ~HasBranch(MoveFresh(o) \o <<j>>)
<1>1. CASE ~NeedsFresh(o)
 <2>1. MoveFresh(o) \o <<j>> = <<j>> BY <1>1 DEF MoveFresh
 <2>2. InRegister(o) = o.id /\ o.kind = "local" /\ ~HasAlloca(o)
   BY <1>1 DEF NeedsFresh, InRegister, LowersInt, LowersValue, IsOperand, IsInt, HasAlloca
 <2>3. UsedVregs(j) \subseteq R BY <2>2 DEF RegsOf
 <2> QED BY <2>1, <2>3, OnePiece, BranchlessShort
<1>2. CASE NeedsFresh(o)
 <2> DEFINE i == Mov(RegisterSize(o.dtype), next_vreg, Imm(o.val))
 <2>1. MoveFresh(o) = <<i>> BY <1>2 DEF MoveFresh
 <2>2. RegisterSize(o.dtype) \in Sizes BY LoweredValue
 <2>3. Imm(o.val) \in Immediates(Int) /\ OperandRegs(Imm(o.val)) = {}
   BY <1>2 DEF NeedsFresh, IsOperand, Imm, Immediates, OperandRegs
 <2>4. /\ i \in VInsts /\ UsedVregs(i) = {} /\ DefinedVreg(i) = {next_vreg}
       /\ ~ReadsScratch(i) /\ ~IsBranch(i)
  <3>1. IsVReg(next_vreg) BY DEF Virtual
  <3> QED BY <2>2, <2>3, <3>1, MovShape
 <2> HIDE DEF i
 <2>5. UsedVregs(j) \subseteq R \cup DefinedVreg(i) BY <1>2, <2>4 DEF InRegister
 <2>6. Piece(<<i, j>>, R, D) /\ ~HasBranch(<<i, j>>) BY <2>4, <2>5, TwoPieces, BranchlessShort
 <2>7. <<i>> \o <<j>> = <<i, j>> BY PairJoined
 <2> QED BY <2>1, <2>6, <2>7
<1> QED BY <1>1, <1>2

LEMMA InRegisterVirtual ==
  ASSUME NEW o, IsOperand(o), LowersInt(o) \/ LowersValue(o), next_vreg \in Virtual PROVE InRegister(o) \in Virtual
BY LocalsVirtual DEF InRegister, NeedsFresh, IsOperand, LowersInt, LowersValue

LEMMA ReadOperands ==
  ASSUME NEW s PROVE \A o \in Operands(s) : RegsOf(o) \subseteq ReadLocals(s)
BY DEF RegsOf, ReadLocals

Emits(s) ==
  Piece(Emitted(s), ReadLocals(s), DefinedLocals(s)) /\ (HasBranch(Emitted(s)) => IsTerminator(s))

LEMMA StoreEmits ==
  ASSUME NEW s, s.op = "store", IsStatement(s), Accepts(s), next_vreg \in Virtual PROVE Emits(s)
<1> DEFINE n == RegisterSize(s.src.dtype)
           a == LowerPtrAsAddr(s.ptr)
           r == InRegister(s.src)
           j == Str(n, r, a)
<1>1. /\ IsOperand(s.src) /\ IsOperand(s.ptr) /\ LowersValue(s.src) /\ LowersPtr(s.ptr)
      /\ RegsOf(s.src) \subseteq ReadLocals(s) /\ RegsOf(s.ptr) \subseteq ReadLocals(s)
  BY ReadOperands DEF IsStatement, Accepts, Operands
<1>2. n \in Sizes /\ r \in Virtual /\ a \in Address
      /\ {x \in AddrRegs(a) : IsVReg(x)} = RegsOf(s.ptr) BY <1>1, LoweredValue, LoweredPtr, InRegisterVirtual
<1>3. DefinedLocals(s) = {} BY DEF DefinedLocals
<1>4. Emitted(s) = MoveFresh(s.src) \o <<j>> BY DEF Emitted
<1> HIDE DEF n, a, r
<1>5. a \in OffBase({FP, SP}, Int) \cup OffBase(Virtual, {0}) \cup AtSymbol BY <1>2 DEF Address, OffBase
<1>6. r # SCRATCH0 BY <1>2 DEF Virtual, IsVReg, FirstVReg, SCRATCH0
<1>7. j \in VInsts /\ UsedVregs(j) \subseteq {r} \cup RegsOf(s.ptr) /\ ~ReadsScratch(j) /\ ~IsBranch(j)
 <2>1. j \in VInsts /\ UsedVregs(j) = {x \in {r} \cup AddrRegs(a) : IsVReg(x)} BY <1>2, <1>5, <1>6, StrShape
 <2>2. ~ReadsScratch(j) /\ ~IsBranch(j) BY <1>2, <1>5, <1>6, StrShape
 <2> QED BY <1>2, <2>1, <2>2
<1> HIDE DEF j
<1>8. UsedVregs(j) \subseteq {InRegister(s.src)} \cup ReadLocals(s) BY <1>1, <1>7 DEF r
<1>9. Piece(MoveFresh(s.src) \o <<j>>, ReadLocals(s), {}) /\ ~HasBranch(MoveFresh(s.src) \o <<j>>)
  BY <1>1, <1>7, <1>8, WithFresh
<1> QED BY <1>3, <1>4, <1>9 DEF Emits

LEMMA LoadEmits ==
  ASSUME NEW s, s.op = "load", IsStatement(s), Accepts(s) PROVE Emits(s)
<1> DEFINE n == RegisterSize(s.dst.dtype)
           a == LowerPtrAsAddr(s.ptr)
           d == s.dst.id
           j == Ldr(n, d, a)
<1>1. /\ IsOperand(s.ptr) /\ LowersPtr(s.ptr) /\ RegsOf(s.ptr) \subseteq ReadLocals(s)
  BY ReadOperands DEF IsStatement, Accepts, Operands
<1>2. n \in Sizes /\ d \in Virtual /\ a \in Address
      /\ {x \in AddrRegs(a) : IsVReg(x)} = RegsOf(s.ptr)
 <2>1. n \in Sizes BY DEF RegisterSize, Sizes
 <2>2. d \in Virtual BY LocalsVirtual DEF IsStatement, DefinedLocals
 <2> QED BY <1>1, <2>1, <2>2, LoweredPtr
<1>3. DefinedLocals(s) = {d} BY DEF DefinedLocals
<1>4. Emitted(s) = <<j>> BY DEF Emitted
<1> HIDE DEF n, a, d
<1>5. /\ j \in VInsts /\ UsedVregs(j) = RegsOf(s.ptr) /\ DefinedVreg(j) = {d}
      /\ ~ReadsScratch(j) /\ ~IsBranch(j) BY <1>2, LdrShape
<1> HIDE DEF j
<1>6. Piece(<<j>>, ReadLocals(s), {d}) /\ ~HasBranch(<<j>>) BY <1>1, <1>5, OnePiece, BranchlessShort
<1> QED BY <1>3, <1>4, <1>6 DEF Emits

LEMMA BiopEmits ==
  ASSUME NEW s, s.op = "biop", IsStatement(s), Accepts(s), next_vreg \in Virtual PROVE Emits(s)
<1> DEFINE d == s.dst.id
           l == InRegister(s.left)
           o == LowerValue(s.right)
           j == BinOp(s.kind, W32, d, l, o)
<1>1. /\ IsOperand(s.left) /\ IsOperand(s.right) /\ LowersInt(s.left) /\ LowersInt(s.right)
      /\ RegsOf(s.left) \subseteq ReadLocals(s) /\ RegsOf(s.right) \subseteq ReadLocals(s)
  BY ReadOperands DEF IsStatement, Accepts, Operands
<1>2. l \in Virtual /\ o \in Value /\ OperandRegs(o) = RegsOf(s.right) /\ W32 \in Sizes
  BY <1>1, LoweredValue, InRegisterVirtual DEF Sizes
<1>3. d \in Virtual BY LocalsVirtual DEF IsStatement, DefinedLocals
<1>4. s.kind \in ArithOps BY DEF IsStatement, ArithOps
<1>5. DefinedLocals(s) = {d} BY DEF DefinedLocals
<1>6. Emitted(s) = MoveFresh(s.left) \o <<j>> BY DEF Emitted
<1> HIDE DEF d, l, o
<1>7. /\ j \in VInsts /\ UsedVregs(j) \subseteq {l} \cup RegsOf(s.right) /\ DefinedVreg(j) = {d}
      /\ ~ReadsScratch(j) /\ ~IsBranch(j) BY <1>2, <1>3, <1>4, BinOpShape
<1> HIDE DEF j
<1>8. UsedVregs(j) \subseteq {InRegister(s.left)} \cup ReadLocals(s) BY <1>1, <1>7 DEF l
<1>9. Piece(MoveFresh(s.left) \o <<j>>, ReadLocals(s), {d}) /\ ~HasBranch(MoveFresh(s.left) \o <<j>>)
  BY <1>1, <1>7, <1>8, WithFresh
<1> QED BY <1>5, <1>6, <1>9 DEF Emits

LEMMA CmpEmits ==
  ASSUME NEW s, s.op = "cmp", IsStatement(s), Accepts(s), next_vreg \in Virtual PROVE Emits(s)
<1> DEFINE l == InRegister(s.left)
           o == LowerValue(s.right)
           j == Cmp(l, o)
<1>1. /\ IsOperand(s.left) /\ IsOperand(s.right) /\ LowersInt(s.left) /\ LowersInt(s.right)
      /\ RegsOf(s.left) \subseteq ReadLocals(s) /\ RegsOf(s.right) \subseteq ReadLocals(s)
  BY ReadOperands DEF IsStatement, Accepts, Operands
<1>2. l \in Virtual /\ o \in Value /\ OperandRegs(o) = RegsOf(s.right) BY <1>1, LoweredValue, InRegisterVirtual
<1>5. DefinedLocals(s) = {} BY DEF DefinedLocals
<1>6. Emitted(s) = MoveFresh(s.left) \o <<j>> BY DEF Emitted
<1> HIDE DEF l, o
<1>7. /\ j \in VInsts /\ UsedVregs(j) \subseteq {l} \cup RegsOf(s.right)
      /\ ~ReadsScratch(j) /\ ~IsBranch(j) BY <1>2, CmpShape
<1> HIDE DEF j
<1>8. UsedVregs(j) \subseteq {InRegister(s.left)} \cup ReadLocals(s) BY <1>1, <1>7 DEF l
<1>9. Piece(MoveFresh(s.left) \o <<j>>, ReadLocals(s), {}) /\ ~HasBranch(MoveFresh(s.left) \o <<j>>)
  BY <1>1, <1>7, <1>8, WithFresh
<1> QED BY <1>5, <1>6, <1>9 DEF Emits

LEMMA JumpEmits ==
  ASSUME NEW s, s.op \in {"cjump", "jump", "return_void", "alloca"}, IsStatement(s), Accepts(s), CondsKnown
  PROVE Emits(s)
<1>1. CASE s.op = "cjump"
 <2> DEFINE i == BCond(cond_map[s.cond.id], s.true)
            j == B(s.false)
 <2>1. cond_map[s.cond.id] \in Comparisons /\ s.true \in Nat \ {Here} /\ s.false \in Nat \ {Here}
   BY <1>1 DEF Accepts, IsStatement, CondsKnown
 <2>2. i \in VInsts /\ UsedVregs(i) = {} /\ ~ReadsScratch(i) /\ j \in VInsts /\ UsedVregs(j) = {}
       /\ ~ReadsScratch(j) /\ IsBranch(j) BY <2>1, BranchShapes
 <2>3. Emitted(s) = <<i, j>> /\ DefinedLocals(s) = {} /\ IsTerminator(s) BY <1>1 DEF Emitted, DefinedLocals, IsTerminator
 <2> HIDE DEF i, j
 <2>4. Piece(<<i, j>>, ReadLocals(s), {}) BY <2>2, TwoPieces
 <2> QED BY <2>3, <2>4 DEF Emits
<1>2. CASE s.op = "jump"
 <2> DEFINE j == B(s.target)
 <2>1. s.target \in Nat \ {Here} BY <1>2 DEF IsStatement
 <2>2. j \in VInsts /\ UsedVregs(j) = {} /\ ~ReadsScratch(j) BY <2>1, BranchShapes
 <2>3. Emitted(s) = <<j>> /\ DefinedLocals(s) = {} /\ IsTerminator(s) BY <1>2 DEF Emitted, DefinedLocals, IsTerminator
 <2> HIDE DEF j
 <2>4. Piece(<<j>>, ReadLocals(s), {}) BY <2>2, OnePiece
 <2> QED BY <2>3, <2>4 DEF Emits
<1>3. CASE s.op = "return_void"
 <2> DEFINE j == [op |-> "Ret"]
 <2>2. j \in VInsts /\ UsedVregs(j) = {} /\ ~ReadsScratch(j) BY BranchShapes
 <2>3. Emitted(s) = <<j>> /\ DefinedLocals(s) = {} /\ IsTerminator(s) BY <1>3 DEF Emitted, DefinedLocals, IsTerminator
 <2> HIDE DEF j
 <2>4. Piece(<<j>>, ReadLocals(s), {}) BY <2>2, OnePiece
 <2> QED BY <2>3, <2>4 DEF Emits
<1>4. CASE s.op = "alloca"
 <2>1. Emitted(s) = <<>> /\ DefinedLocals(s) = {} BY <1>4 DEF Emitted, DefinedLocals
 <2>2. ~HasBranch(<<>>) BY DEF HasBranch
 <2> QED BY <2>1, <2>2, NoPiece DEF Emits
<1> QED BY <1>1, <1>2, <1>3, <1>4

LEMMA ReturnEmits ==
  ASSUME NEW s, s.op = "return", IsStatement(s), Accepts(s) PROVE Emits(s)
<1> DEFINE o == LowerValue(s.val)
           n == RegisterSize(s.val.dtype)
           i == Mov(n, REG_X0, o)
           j == [op |-> "Ret"]
<1>1. IsOperand(s.val) /\ LowersValue(s.val) /\ RegsOf(s.val) \subseteq ReadLocals(s)
  BY ReadOperands DEF IsStatement, Accepts, Operands
<1>2. o \in Value /\ OperandRegs(o) = RegsOf(s.val) /\ n \in Sizes BY <1>1, LoweredValue
<1>3. Emitted(s) = <<i, j>> /\ DefinedLocals(s) = {} /\ IsTerminator(s) BY DEF Emitted, DefinedLocals, IsTerminator
<1> HIDE DEF o, n
<1>4. i \in VInsts /\ UsedVregs(i) \subseteq RegsOf(s.val) /\ ~ReadsScratch(i) /\ ~IsBranch(i)
 <2>1. o \in Immediates(Int) \cup InRegisters(Virtual \cup {REG_X0}) BY <1>2 DEF Value, InRegisters
 <2>2. i \in VInsts /\ UsedVregs(i) = {r \in OperandRegs(o) : IsVReg(r)} BY <1>2, <2>1, MovShape
 <2>3. ~ReadsScratch(i) /\ ~IsBranch(i) BY <1>2, <2>1, MovShape
 <2> QED BY <1>2, <2>2, <2>3
<1>5. j \in VInsts /\ UsedVregs(j) = {} /\ ~ReadsScratch(j) BY BranchShapes
<1> HIDE DEF i, j
<1>6. Piece(<<i, j>>, ReadLocals(s), {}) BY <1>1, <1>4, <1>5, TwoPieces
<1> QED BY <1>3, <1>6 DEF Emits

LEMMA CopyEmits ==
  ASSUME NEW s, s.op \in {"call_result", "copy", "as_is"}, IsStatement(s), Accepts(s) PROVE Emits(s)
<1>1. CASE s.op = "call_result"
 <2> DEFINE n == RegisterSize(s.dst.dtype)
            j == Mov(n, s.dst.id, Reg(REG_X0))
 <2>1. n \in Sizes /\ s.dst.id \in Virtual /\ IsVReg(s.dst.id)
   BY <1>1, LocalsVirtual DEF RegisterSize, Sizes, IsStatement, DefinedLocals, Virtual
 <2>2. Reg(REG_X0) \in InRegisters(Virtual \cup {REG_X0}) /\ OperandRegs(Reg(REG_X0)) = {REG_X0}
       /\ ~IsVReg(REG_X0) BY DEF Reg, InRegisters, OperandRegs, IsVReg, FirstVReg, REG_X0
 <2>3. Emitted(s) = <<j>> /\ DefinedLocals(s) = {s.dst.id} BY <1>1 DEF Emitted, DefinedLocals
 <2> HIDE DEF n
 <2>4. j \in VInsts /\ UsedVregs(j) = {} /\ DefinedVreg(j) = {s.dst.id} /\ ~ReadsScratch(j) /\ ~IsBranch(j)
  <3> DEFINE o == Reg(REG_X0)
             d == s.dst.id
  <3>1. o \in Immediates(Int) \cup InRegisters(Virtual \cup {REG_X0})
        /\ d \in Virtual \cup {REG_X0, SCRATCH0} BY <2>1, <2>2
  <3> HIDE DEF o, d
  <3>2. Mov(n, d, o) \in VInsts /\ UsedVregs(Mov(n, d, o)) = {r \in OperandRegs(o) : IsVReg(r)} BY <2>1, <3>1, MovShape
  <3>3. DefinedVreg(Mov(n, d, o)) = {r \in {d} : IsVReg(r)} BY <2>1, <3>1, MovShape
  <3>4. ~ReadsScratch(Mov(n, d, o)) /\ ~IsBranch(Mov(n, d, o)) BY <2>1, <3>1, MovShape
  <3>5. OperandRegs(o) = {REG_X0} /\ IsVReg(d) BY <2>1, <2>2 DEF o, d
  <3>6. UsedVregs(Mov(n, d, o)) = {} BY <2>2, <3>2, <3>5
  <3>7. DefinedVreg(Mov(n, d, o)) = {d} BY <3>3, <3>5
  <3> QED BY <3>2, <3>4, <3>6, <3>7 DEF o, d
 <2> HIDE DEF j
 <2>5. Piece(<<j>>, ReadLocals(s), {s.dst.id}) /\ ~HasBranch(<<j>>) BY <2>4, OnePiece, BranchlessShort
 <2> QED BY <2>3, <2>5 DEF Emits
<1>2. CASE s.op = "copy"
 <2> DEFINE n == RegisterSize(s.dst.dtype)
            o == LowerValue(s.src)
            j == Mov(n, s.dst.id, o)
 <2>1. n \in Sizes /\ s.dst.id \in Virtual /\ IsVReg(s.dst.id)
   BY <1>2, LocalsVirtual DEF RegisterSize, Sizes, IsStatement, DefinedLocals, Virtual
 <2>2. IsOperand(s.src) /\ s.src.kind # "global" /\ ~HasAlloca(s.src) /\ RegsOf(s.src) \subseteq ReadLocals(s)
   BY <1>2, ReadOperands DEF IsStatement, Accepts, Operands
 <2>3. o \in Immediates(Int) \cup InRegisters(Virtual \cup {REG_X0}) /\ OperandRegs(o) = RegsOf(s.src)
  <3>1. CASE s.src.kind = "const" BY <2>2, <3>1 DEF LowerValue, IsOperand, Imm, Immediates, OperandRegs, RegsOf
  <3>2. CASE s.src.kind # "const"
   <4>1. s.src.kind = "local" /\ s.src.id \in Virtual BY <2>2, <3>2, LocalsVirtual DEF IsOperand
   <4> QED BY <2>2, <4>1 DEF LowerValue, Reg, InRegisters, OperandRegs, RegsOf
  <3> QED BY <3>1, <3>2
 <2>4. Emitted(s) = <<j>> /\ DefinedLocals(s) = {s.dst.id} BY <1>2 DEF Emitted, DefinedLocals
 <2> HIDE DEF n, o
 <2>5. j \in VInsts /\ UsedVregs(j) \subseteq RegsOf(s.src) /\ DefinedVreg(j) = {s.dst.id}
       /\ ~ReadsScratch(j) /\ ~IsBranch(j)
  <3> DEFINE d == s.dst.id
  <3>1. d \in Virtual \cup {REG_X0, SCRATCH0} BY <2>1
  <3> HIDE DEF d
  <3>2. /\ Mov(n, d, o) \in VInsts
        /\ UsedVregs(Mov(n, d, o)) = {r \in OperandRegs(o) : IsVReg(r)}
        /\ DefinedVreg(Mov(n, d, o)) = {r \in {d} : IsVReg(r)}
        /\ ~ReadsScratch(Mov(n, d, o)) /\ ~IsBranch(Mov(n, d, o))
   <4>1. n \in Sizes /\ o \in Immediates(Int) \cup InRegisters(Virtual \cup {REG_X0}) BY <2>1, <2>3
   <4> QED BY <3>1, <4>1, MovShape
  <3>3. DefinedVreg(Mov(n, d, o)) = {r \in {d} : IsVReg(r)} BY <3>2
  <3>4. ~ReadsScratch(Mov(n, d, o)) /\ ~IsBranch(Mov(n, d, o)) BY <3>2
  <3>5. IsVReg(d) BY <2>1 DEF d
  <3>6. DefinedVreg(Mov(n, d, o)) = {d} BY <3>3, <3>5
  <3>7. UsedVregs(Mov(n, d, o)) \subseteq RegsOf(s.src) BY <2>3, <3>2
  <3> QED BY <3>2, <3>4, <3>6, <3>7 DEF d
 <2> HIDE DEF j
 <2>6. Piece(<<j>>, ReadLocals(s), {s.dst.id}) /\ ~HasBranch(<<j>>) BY <2>2, <2>5, OnePiece, BranchlessShort
 <2> QED BY <2>4, <2>6 DEF Emits
<1>3. CASE s.op = "as_is"
 <2>1. s.inst \in PiecesOfCalls BY <1>3 DEF IsStatement
 <2>2. Emitted(s) = <<s.inst>> /\ DefinedLocals(s) \subseteq DefinedVreg(s.inst)
   BY <1>3, <2>1, PieceOfCallShape DEF Emitted, DefinedLocals
 <2>3. s.inst \in VInsts /\ UsedVregs(s.inst) = {} /\ ~ReadsScratch(s.inst) /\ ~IsBranch(s.inst) BY <2>1, PieceOfCallShape
 <2>4. Piece(<<s.inst>>, ReadLocals(s), DefinedLocals(s)) /\ ~HasBranch(<<s.inst>>) BY <2>2, <2>3, OnePiece, BranchlessShort
 <2> QED BY <2>2, <2>4 DEF Emits
<1> QED BY <1>1, <1>2, <1>3
-----------------------------------------------------------------------------
(* emit_ptr_to_reg. *)
LEMMA PtrToRegShape ==
  ASSUME NEW o, IsOperand(o), LowersPtr(o), NEW d \in {REG_X0, SCRATCH0}
  PROVE  \E i \in VInsts :
           /\ PtrToReg(o, d) = <<i>>
           /\ UsedVregs(i) = RegsOf(o) /\ ~ReadsScratch(i) /\ ~IsBranch(i)
           /\ FillsScratch(i) <=> d = SCRATCH0
<1> DEFINE a == LowerPtrAsAddr(o)
<1>1. CASE HasAlloca(o) \/ o.kind = "global"
 <2>1. a \in Address /\ {x \in AddrRegs(a) : IsVReg(x)} = RegsOf(o) BY LoweredPtr
 <2>2. PtrToReg(o, d) = <<Lea(d, a)>> BY <1>1 DEF PtrToReg
 <2>3. a \in OffBase({FP}, Int) \cup AtSymbol
  <3>1. CASE HasAlloca(o)
   <4>1. Allocas[o.id] \in Int BY <3>1, ProgramsAssumption DEF HasAlloca
   <4>2. a = BaseOff(FP, Allocas[o.id]) BY <3>1 DEF LowerPtrAsAddr, LocalAddr, HasAlloca
   <4> QED BY <4>1, <4>2 DEF OffBase, BaseOff
  <3>2. CASE ~HasAlloca(o)
   <4>1. a = Global(o.sym) BY <1>1, <3>2 DEF LowerPtrAsAddr
   <4> QED BY <1>1, <3>2, <4>1 DEF IsOperand, Global, AtSymbol
  <3> QED BY <3>1, <3>2
 <2> HIDE DEF a
 <2>4. a \in OffBase({FP} \cup Virtual, Int) \cup AtSymbol BY <2>3 DEF OffBase
 <2>5. d \in Virtual \cup {REG_X0, SCRATCH0} OBVIOUS
 <2>6. /\ Lea(d, a) \in VInsts /\ UsedVregs(Lea(d, a)) = RegsOf(o)
       /\ ~ReadsScratch(Lea(d, a)) /\ ~IsBranch(Lea(d, a))
       /\ FillsScratch(Lea(d, a)) <=> d = SCRATCH0 BY <2>1, <2>4, <2>5, LeaShape
 <2> QED BY <2>2, <2>6
<1>2. CASE ~(HasAlloca(o) \/ o.kind = "global")
 <2> DEFINE r == Reg(o.id)
 <2>1. o.kind = "local" /\ o.id \in Virtual /\ RegsOf(o) = {o.id} BY <1>2, LocalsVirtual DEF IsOperand, LowersPtr, RegsOf
 <2>2. PtrToReg(o, d) = <<Mov(X64, d, r)>> BY <1>2 DEF PtrToReg
 <2>3. r \in Immediates(Int) \cup InRegisters(Virtual \cup {REG_X0}) /\ OperandRegs(r) = {o.id}
   BY <2>1 DEF Reg, InRegisters, OperandRegs
 <2>4. IsVReg(o.id) BY <2>1 DEF Virtual
 <2>5. X64 \in Sizes /\ d \in Virtual \cup {REG_X0, SCRATCH0} BY DEF Sizes
 <2> HIDE DEF r
 <2>6. /\ Mov(X64, d, r) \in VInsts /\ UsedVregs(Mov(X64, d, r)) = {x \in OperandRegs(r) : IsVReg(x)}
       /\ ~ReadsScratch(Mov(X64, d, r)) /\ ~IsBranch(Mov(X64, d, r))
       /\ FillsScratch(Mov(X64, d, r)) <=> d = SCRATCH0 BY <2>3, <2>5, MovShape
 <2>7. UsedVregs(Mov(X64, d, r)) = RegsOf(o) BY <2>1, <2>3, <2>4, <2>6
 <2> QED BY <2>2, <2>6, <2>7
<1> QED BY <1>1, <1>2

LEMMA PassedValue ==
  ASSUME NEW o, IsOperand(o), LowersValue(o), NEW d \in {REG_X0, SCRATCH0}
  PROVE  LET i == Mov(RegisterSize(o.dtype), d, LowerValue(o))
         IN  /\ i \in VInsts /\ UsedVregs(i) \subseteq RegsOf(o) /\ ~ReadsScratch(i) /\ ~IsBranch(i)
             /\ FillsScratch(i) <=> d = SCRATCH0
<1> DEFINE n == RegisterSize(o.dtype)
           v == LowerValue(o)
<1>1. n \in Sizes /\ v \in Value /\ OperandRegs(v) = RegsOf(o) BY LoweredValue
<1>2. v \in Immediates(Int) \cup InRegisters(Virtual \cup {REG_X0}) BY <1>1 DEF Value, InRegisters
<1>3. d \in Virtual \cup {REG_X0, SCRATCH0} OBVIOUS
<1> HIDE DEF n, v
<1>4. /\ Mov(n, d, v) \in VInsts /\ UsedVregs(Mov(n, d, v)) = {r \in OperandRegs(v) : IsVReg(r)}
      /\ ~ReadsScratch(Mov(n, d, v)) /\ ~IsBranch(Mov(n, d, v))
      /\ FillsScratch(Mov(n, d, v)) <=> d = SCRATCH0 BY <1>1, <1>2, <1>3, MovShape
<1>5. UsedVregs(Mov(n, d, v)) \subseteq RegsOf(o) BY <1>1, <1>4
<1> QED BY <1>4, <1>5 DEF n, v

LEMMA GprArgEmits ==
  ASSUME NEW s, s.op = "gpr_arg", IsStatement(s), Accepts(s) PROVE Emits(s)
<1>1. IsOperand(s.src) /\ RegsOf(s.src) \subseteq ReadLocals(s) /\ s.at = REG_X0 BY ReadOperands DEF IsStatement, Operands
<1>2. Emitted(s) = EmitGprArg(s) /\ DefinedLocals(s) = {} BY DEF Emitted, DefinedLocals
<1>3. PICK i \in VInsts : /\ Emitted(s) = <<i>> /\ UsedVregs(i) \subseteq ReadLocals(s)
                          /\ ~ReadsScratch(i) /\ ~IsBranch(i)
 <2>1. CASE s.src.dtype.kind \in {"ptr", "array"}
  <3>1. LowersPtr(s.src) BY <2>1 DEF Accepts
  <3>2. Emitted(s) = PtrToReg(s.src, REG_X0) BY <1>1, <1>2, <2>1 DEF EmitGprArg
  <3>3. PICK i \in VInsts : /\ PtrToReg(s.src, REG_X0) = <<i>> /\ UsedVregs(i) = RegsOf(s.src)
                            /\ ~ReadsScratch(i) /\ ~IsBranch(i) BY <1>1, <3>1, PtrToRegShape
  <3> QED BY <1>1, <3>2, <3>3
 <2>2. CASE ~(s.src.dtype.kind \in {"ptr", "array"})
  <3> DEFINE i == Mov(RegisterSize(s.src.dtype), REG_X0, LowerValue(s.src))
  <3>1. LowersValue(s.src) BY <2>2 DEF Accepts
  <3>2. Emitted(s) = <<i>> BY <1>1, <1>2, <2>2 DEF EmitGprArg
  <3>3. i \in VInsts /\ UsedVregs(i) \subseteq RegsOf(s.src) /\ ~ReadsScratch(i) /\ ~IsBranch(i) BY <1>1, <3>1, PassedValue
  <3> HIDE DEF i
  <3> QED BY <1>1, <3>2, <3>3
 <2> QED BY <2>1, <2>2
<1>4. Piece(<<i>>, ReadLocals(s), {}) /\ ~HasBranch(<<i>>) BY <1>3, OnePiece, BranchlessShort
<1> QED BY <1>2, <1>3, <1>4 DEF Emits

LEMMA StackArgEmits ==
  ASSUME NEW s, s.op = "stack_arg", IsStatement(s), Accepts(s) PROVE Emits(s)
<1> DEFINE slot == BaseOff(SP, s.at)
           size == RegisterSize(s.src.dtype)
<1>1. IsOperand(s.src) /\ RegsOf(s.src) \subseteq ReadLocals(s) /\ s.at \in Nat BY ReadOperands DEF IsStatement, Operands
<1>2. Emitted(s) = EmitStackArg(s) /\ DefinedLocals(s) = {} BY DEF Emitted, DefinedLocals
<1>3. slot \in OffBase({FP, SP}, Int) \cup OffBase(Virtual, {0}) \cup AtSymbol
      /\ slot \in OffBase({SP}, Int) BY <1>1 DEF BaseOff, OffBase
<1>4. AddrRegs(slot) = {SP} /\ ~IsVReg(SP) BY DEF BaseOff, AddrRegs, SP, IsVReg, FirstVReg
<1>5. size \in Sizes BY DEF RegisterSize, Sizes
<1>6. EmitStackArg(s) =
        CASE s.src.dtype.kind \in {"ptr", "array"} ->
               PtrToReg(s.src, SCRATCH0) \o <<Str(X64, SCRATCH0, slot)>>
          [] s.src.kind = "const" ->
               <<Mov(size, SCRATCH0, Imm(s.src.val)), Str(size, SCRATCH0, slot)>>
          [] OTHER -> <<Str(size, s.src.id, slot)>> BY DEF EmitStackArg
<1> HIDE DEF slot, size
<1>7. ASSUME NEW n \in Sizes
      PROVE  /\ Str(n, SCRATCH0, slot) \in VInsts /\ UsedVregs(Str(n, SCRATCH0, slot)) = {}
             /\ ~IsBranch(Str(n, SCRATCH0, slot))
 <2>1. SCRATCH0 \in Virtual \cup {SCRATCH0} /\ ~IsVReg(SCRATCH0) BY DEF SCRATCH0, IsVReg, FirstVReg
 <2>2. /\ Str(n, SCRATCH0, slot) \in VInsts /\ ~IsBranch(Str(n, SCRATCH0, slot))
       /\ UsedVregs(Str(n, SCRATCH0, slot)) = {x \in {SCRATCH0} \cup AddrRegs(slot) : IsVReg(x)} BY <1>3, <2>1, StrShape
 <2> QED BY <1>4, <2>1, <2>2
<1>8. ASSUME NEW n \in Sizes, NEW i \in VInsts, UsedVregs(i) \subseteq ReadLocals(s),
             ~ReadsScratch(i), ~IsBranch(i), FillsScratch(i),
             Emitted(s) = <<i, Str(n, SCRATCH0, slot)>>
      PROVE  Emits(s)
 <2> DEFINE j == Str(n, SCRATCH0, slot)
 <2>1. j \in VInsts /\ UsedVregs(j) = {} /\ ~IsBranch(j) BY <1>7
 <2> HIDE DEF j
 <2>2. Piece(<<i, j>>, ReadLocals(s), {}) /\ ~HasBranch(<<i, j>>) BY <1>8, <2>1, TwoPieces, BranchlessShort
 <2> QED BY <1>2, <1>8, <2>2 DEF Emits, j
<1>9. CASE s.src.dtype.kind \in {"ptr", "array"}
 <2>1. LowersPtr(s.src) BY <1>9 DEF Accepts
 <2>2. PICK i \in VInsts : /\ PtrToReg(s.src, SCRATCH0) = <<i>> /\ UsedVregs(i) = RegsOf(s.src)
                           /\ ~ReadsScratch(i) /\ ~IsBranch(i) /\ FillsScratch(i) BY <1>1, <2>1, PtrToRegShape
 <2> DEFINE j == Str(X64, SCRATCH0, slot)
 <2>3. Emitted(s) = <<i>> \o <<j>>
  <3>1. s.src.kind # "const" BY <1>1, <1>9 DEF IsOperand
  <3>2. EmitStackArg(s) = PtrToReg(s.src, SCRATCH0) \o <<j>> BY <1>6, <1>9, <3>1
  <3> QED BY <1>2, <2>2, <3>2
 <2>4. <<i>> \o <<j>> = <<i, j>> BY PairJoined
 <2>5. Emitted(s) = <<i, j>> /\ X64 \in Sizes BY <2>3, <2>4 DEF Sizes
 <2> QED BY <1>1, <1>8, <2>2, <2>5
<1>10. CASE ~(s.src.dtype.kind \in {"ptr", "array"})
 <2>1. LowersValue(s.src) BY <1>10 DEF Accepts
 <2>2. CASE s.src.kind = "const"
  <3> DEFINE i == Mov(size, SCRATCH0, LowerValue(s.src))
  <3>1. LowerValue(s.src) = Imm(s.src.val) BY <2>2 DEF LowerValue
  <3>2. Emitted(s) = <<i, Str(size, SCRATCH0, slot)>> BY <1>2, <1>6, <1>10, <2>2, <3>1
  <3>3. /\ i \in VInsts /\ UsedVregs(i) \subseteq RegsOf(s.src) /\ ~ReadsScratch(i) /\ ~IsBranch(i)
        /\ FillsScratch(i) BY <1>1, <2>1, PassedValue DEF size
  <3> HIDE DEF i
  <3> QED BY <1>1, <1>5, <1>8, <3>2, <3>3
 <2>3. CASE s.src.kind # "const"
  <3> DEFINE r == s.src.id
             j == Str(size, r, slot)
  <3>1. s.src.kind = "local" /\ r \in Virtual /\ RegsOf(s.src) = {r}
    BY <1>1, <2>1, <2>3, LocalsVirtual DEF LowersValue, IsOperand, RegsOf, IsInt, HasAlloca
  <3>2. Emitted(s) = <<j>> BY <1>2, <1>6, <1>10, <2>3
  <3>3. r # SCRATCH0 BY <3>1 DEF Virtual, IsVReg, FirstVReg, SCRATCH0
  <3> HIDE DEF r
  <3>4. r \in Virtual \cup {SCRATCH0} BY <3>1
  <3>5. /\ j \in VInsts /\ ~IsBranch(j) /\ (ReadsScratch(j) <=> r = SCRATCH0)
        /\ UsedVregs(j) = {x \in {r} \cup AddrRegs(slot) : IsVReg(x)} BY <1>3, <1>5, <3>4, StrShape
  <3> HIDE DEF j
  <3>6. UsedVregs(j) \subseteq ReadLocals(s) /\ ~ReadsScratch(j) BY <1>1, <1>4, <3>1, <3>3, <3>5
  <3>7. Piece(<<j>>, ReadLocals(s), {}) /\ ~HasBranch(<<j>>) BY <3>5, <3>6, OnePiece, BranchlessShort
  <3> QED BY <1>2, <3>2, <3>7 DEF Emits
 <2> QED BY <2>2, <2>3
<1> QED BY <1>9, <1>10

LEMMA OneDefines ==
  ASSUME NEW s, NEW j \in VInsts, Emitted(s) = <<j>>, UsedVregs(j) \subseteq ReadLocals(s),
         DefinedLocals(s) \subseteq DefinedVreg(j), ~ReadsScratch(j), ~IsBranch(j)
  PROVE  Emits(s)
<1>1. Piece(<<j>>, ReadLocals(s), DefinedLocals(s)) /\ ~HasBranch(<<j>>) BY OnePiece, BranchlessShort
<1> QED BY <1>1 DEF Emits

LEMMA TwoDefine ==
  ASSUME NEW s, NEW i \in VInsts, NEW j \in VInsts, Emitted(s) = <<i, j>>,
         UsedVregs(i) \subseteq ReadLocals(s), UsedVregs(j) \subseteq ReadLocals(s) \cup DefinedVreg(i),
         DefinedLocals(s) \subseteq DefinedVreg(i) \cup DefinedVreg(j),
         ~ReadsScratch(i), ~ReadsScratch(j), ~IsBranch(i), ~IsBranch(j)
  PROVE  Emits(s)
<1>1. Piece(<<i, j>>, ReadLocals(s), DefinedLocals(s)) /\ ~HasBranch(<<i, j>>) BY TwoPieces, BranchlessShort
<1> QED BY <1>1 DEF Emits

LEMMA FieldEmits == ASSUME NEW s, s.op = "gep", IsStructFieldAccess(s), IsStatement(s), Accepts(s) PROVE Emits(s)
<1> DEFINE d == s.dst.id
           n == FieldOffset(s)
<1>1. /\ IsOperand(s.base) /\ LowersPtr(s.base) /\ RegsOf(s.base) \subseteq ReadLocals(s)
      /\ DefinedLocals(s) = {d} /\ n \in Nat BY ReadOperands DEF IsStatement, Accepts, Operands, DefinedLocals
<1>2. d \in Virtual /\ IsVReg(d) BY LocalsVirtual DEF IsStatement, DefinedLocals, Virtual
<1>3. Emitted(s) = EmitPtrOffset(d, s.base, n) BY DEF Emitted
<1> HIDE DEF d, n
<1>4. d \in Virtual \cup {REG_X0, SCRATCH0} BY <1>2
<1>5. CASE HasAlloca(s.base)
 <2> DEFINE k == Allocas[s.base.id] + n
            a == LocalAddr(k)
            j == Lea(d, a)
 <2>1. k \in Int BY <1>1, <1>5, ProgramsAssumption DEF HasAlloca
 <2>2. Emitted(s) = <<j>> BY <1>3, <1>5 DEF EmitPtrOffset, HasAlloca
 <2> HIDE DEF k
 <2>3. a \in OffBase({FP} \cup Virtual, Int) \cup AtSymbol BY <2>1 DEF LocalAddr, BaseOff, OffBase
 <2>4. AddrRegs(a) = {FP} /\ ~IsVReg(FP) BY DEF LocalAddr, BaseOff, AddrRegs, FP, IsVReg, FirstVReg
 <2> HIDE DEF a
 <2>5. /\ j \in VInsts /\ UsedVregs(j) = {x \in AddrRegs(a) : IsVReg(x)}
       /\ DefinedVreg(j) = {x \in {d} : IsVReg(x)} /\ ~ReadsScratch(j) /\ ~IsBranch(j) BY <1>4, <2>3, LeaShape
 <2> HIDE DEF j
 <2>6. UsedVregs(j) \subseteq ReadLocals(s) /\ DefinedLocals(s) \subseteq DefinedVreg(j) BY <1>1, <1>2, <2>4, <2>5
 <2> QED BY <2>2, <2>5, <2>6, OneDefines
<1>6. CASE ~HasAlloca(s.base) /\ s.base.kind # "global"
 <2> DEFINE b == s.base.id
            a == BaseOff(b, n)
            j == Lea(d, a)
 <2>1. b \in Virtual /\ RegsOf(s.base) = {b} BY <1>1, <1>6, LocalsVirtual DEF IsOperand, LowersPtr, RegsOf
 <2>2. Emitted(s) = <<j>> BY <1>3, <1>6 DEF EmitPtrOffset
 <2> HIDE DEF b
 <2>3. a \in OffBase({FP} \cup Virtual, Int) \cup AtSymbol BY <1>1, <2>1 DEF BaseOff, OffBase
 <2>4. AddrRegs(a) = {b} BY DEF BaseOff, AddrRegs
 <2> HIDE DEF a
 <2>5. /\ j \in VInsts /\ UsedVregs(j) = {x \in AddrRegs(a) : IsVReg(x)}
       /\ DefinedVreg(j) = {x \in {d} : IsVReg(x)} /\ ~ReadsScratch(j) /\ ~IsBranch(j) BY <1>4, <2>3, LeaShape
 <2> HIDE DEF j
 <2>6. UsedVregs(j) \subseteq ReadLocals(s) /\ DefinedLocals(s) \subseteq DefinedVreg(j) BY <1>1, <1>2, <2>1, <2>4, <2>5
 <2> QED BY <2>2, <2>5, <2>6, OneDefines
<1>7. CASE ~HasAlloca(s.base) /\ s.base.kind = "global"
 <2> DEFINE a == Global(s.base.sym)
            i == Lea(d, a)
            o == Imm(n)
            j == BinOp("add", X64, d, d, o)
 <2>1. s.base.sym \in 0 .. Modulus(X64) - 1 BY <1>1, <1>7 DEF IsOperand
 <2>2. Emitted(s) = <<i>> \o (IF n = 0 THEN <<>> ELSE <<j>>) BY <1>3, <1>7 DEF EmitPtrOffset
 <2>3. a \in OffBase({FP} \cup Virtual, Int) \cup AtSymbol BY <2>1 DEF Global, AtSymbol
 <2>4. AddrRegs(a) = {} BY DEF Global, AddrRegs
 <2> HIDE DEF a
 <2>5. /\ i \in VInsts /\ UsedVregs(i) = {x \in AddrRegs(a) : IsVReg(x)}
       /\ DefinedVreg(i) = {x \in {d} : IsVReg(x)} /\ ~ReadsScratch(i) /\ ~IsBranch(i) BY <1>4, <2>3, LeaShape
 <2> HIDE DEF i
 <2>6. UsedVregs(i) = {} /\ DefinedVreg(i) = {d} /\ DefinedLocals(s) \subseteq DefinedVreg(i) BY <1>1, <1>2, <2>4, <2>5
 <2>7. o \in Value /\ OperandRegs(o) = {} BY <1>1 DEF Imm, Value, Immediates, OperandRegs
 <2> HIDE DEF o
 <2>8. /\ j \in VInsts /\ UsedVregs(j) \subseteq {d} /\ DefinedVreg(j) = {d}
       /\ ~ReadsScratch(j) /\ ~IsBranch(j)
  <3>1. "add" \in ArithOps /\ X64 \in Sizes BY DEF ArithOps, Sizes
  <3>2. /\ j \in VInsts /\ UsedVregs(j) = {x \in {d} \cup OperandRegs(o) : IsVReg(x)}
        /\ DefinedVreg(j) = {d} /\ ~ReadsScratch(j) /\ ~IsBranch(j) BY <1>2, <2>7, <3>1, BinOpShape
  <3> QED BY <2>7, <3>2
 <2> HIDE DEF j
 <2>9. CASE n = 0
  <3>1. Emitted(s) = <<i>> BY <2>2, <2>9
  <3> QED BY <2>5, <2>6, <3>1, OneDefines
 <2>10. CASE n # 0
  <3>1. Emitted(s) = <<i>> \o <<j>> BY <2>2, <2>10
  <3>2. Emitted(s) = <<i, j>> BY <3>1, PairJoined
  <3>3. UsedVregs(i) \subseteq ReadLocals(s) /\ UsedVregs(j) \subseteq ReadLocals(s) \cup DefinedVreg(i)
        /\ DefinedLocals(s) \subseteq DefinedVreg(i) \cup DefinedVreg(j) BY <2>6, <2>8
  <3> QED BY <2>5, <2>8, <3>2, <3>3, TwoDefine
 <2> QED BY <2>9, <2>10
<1> QED BY <1>5, <1>6, <1>7

LEMMA ElementEmits == ASSUME NEW s, s.op = "gep", ~IsStructFieldAccess(s), IsStatement(s), Accepts(s) PROVE Emits(s)
<1> DEFINE d == s.dst.id
           n == SizeOf(Stepped(s.base.dtype))
           o == LowerValue(s.index)
<1>1. /\ IsOperand(s.base) /\ LowersPtr(s.base) /\ RegsOf(s.base) \subseteq ReadLocals(s)
      /\ IsOperand(s.index) /\ LowersInt(s.index) /\ RegsOf(s.index) \subseteq ReadLocals(s)
      /\ DefinedLocals(s) = {d} /\ n \in Nat BY ReadOperands DEF IsStatement, Accepts, Operands, DefinedLocals
<1>2. d \in Virtual /\ IsVReg(d) BY LocalsVirtual DEF IsStatement, DefinedLocals, Virtual
<1>3. Emitted(s) = IF HasAlloca(s.base) \/ s.base.kind = "global"
                   THEN <<Lea(d, LowerPtrAsAddr(s.base)), Gep(d, d, o, n)>>
                   ELSE <<Gep(d, s.base.id, o, n)>> BY DEF Emitted, EmitGepArray
<1>4. o \in Operand /\ OperandRegs(o) = RegsOf(s.index) BY <1>1, LoweredValue
<1> HIDE DEF d, n, o
<1>5. CASE HasAlloca(s.base) \/ s.base.kind = "global"
 <2> DEFINE a == LowerPtrAsAddr(s.base)
            i == Lea(d, a)
            j == Gep(d, d, o, n)
 <2>1. a \in Address /\ {x \in AddrRegs(a) : IsVReg(x)} = RegsOf(s.base) BY <1>1, LoweredPtr
 <2>2. Emitted(s) = <<i, j>> BY <1>3, <1>5
 <2> HIDE DEF a
 <2>3. a \in OffBase({FP} \cup Virtual, Int) \cup AtSymbol /\ d \in Virtual \cup {REG_X0, SCRATCH0}
   BY <1>2, <2>1 DEF Address, OffBase
 <2>4. /\ i \in VInsts /\ UsedVregs(i) = {x \in AddrRegs(a) : IsVReg(x)}
       /\ DefinedVreg(i) = {x \in {d} : IsVReg(x)} /\ ~ReadsScratch(i) /\ ~IsBranch(i) BY <2>3, LeaShape
 <2>5. /\ j \in VInsts /\ UsedVregs(j) = {x \in {d} \cup OperandRegs(o) : IsVReg(x)}
       /\ DefinedVreg(j) = {d} /\ ~ReadsScratch(j) /\ ~IsBranch(j) BY <1>1, <1>2, <1>4, GepShape
 <2> HIDE DEF i, j
 <2>6. UsedVregs(i) \subseteq ReadLocals(s) /\ UsedVregs(j) \subseteq ReadLocals(s) \cup DefinedVreg(i)
       /\ DefinedLocals(s) \subseteq DefinedVreg(i) \cup DefinedVreg(j) BY <1>1, <1>2, <1>4, <2>1, <2>4, <2>5
 <2> QED BY <2>2, <2>4, <2>5, <2>6, TwoDefine
<1>6. CASE ~(HasAlloca(s.base) \/ s.base.kind = "global")
 <2> DEFINE b == s.base.id
            j == Gep(d, b, o, n)
 <2>1. b \in Virtual /\ RegsOf(s.base) = {b} BY <1>1, <1>6, LocalsVirtual DEF IsOperand, LowersPtr, RegsOf
 <2>2. Emitted(s) = <<j>> BY <1>3, <1>6
 <2> HIDE DEF b
 <2>3. /\ j \in VInsts /\ UsedVregs(j) = {x \in {b} \cup OperandRegs(o) : IsVReg(x)}
       /\ DefinedVreg(j) = {d} /\ ~ReadsScratch(j) /\ ~IsBranch(j) BY <1>1, <1>2, <1>4, <2>1, GepShape
 <2> HIDE DEF j
 <2>4. UsedVregs(j) \subseteq ReadLocals(s) /\ DefinedLocals(s) \subseteq DefinedVreg(j) BY <1>1, <1>4, <2>1, <2>3
 <2> QED BY <2>2, <2>3, <2>4, OneDefines
<1> QED BY <1>5, <1>6

(* emit_stmt: what a statement becomes reads what the statement reads and
   defines what it defines. *)
LEMMA EmittedPiece == ASSUME NEW s, IsStatement(s), Accepts(s), next_vreg \in Virtual, CondsKnown PROVE Emits(s)
<1>1. s.op \in {"store", "load", "biop", "cmp", "cjump", "jump", "gep", "return", "return_void",
                 "gpr_arg", "stack_arg", "call_result", "copy", "as_is", "alloca"} BY DEF IsStatement, Accepts
<1>2. CASE s.op \in {"store", "load", "biop", "cmp"} BY <1>2, StoreEmits, LoadEmits, BiopEmits, CmpEmits
<1>3. CASE s.op \in {"cjump", "jump", "return_void", "alloca"} BY <1>3, JumpEmits
<1>4. CASE s.op \in {"return", "gpr_arg", "stack_arg"} BY <1>4, ReturnEmits, GprArgEmits, StackArgEmits
<1>5. CASE s.op \in {"call_result", "copy", "as_is"} BY <1>5, CopyEmits
<1>6. CASE s.op = "gep" BY <1>6, FieldEmits, ElementEmits
<1> QED BY <1>1, <1>2, <1>3, <1>4, <1>5, <1>6
-----------------------------------------------------------------------------
(* What selection keeps: the statements still to come read only what has been
   defined, a terminator is the last of them, and behind the code of a
   terminator nothing more is selected. *)
Readable(ss, R) ==
  \A k \in DOMAIN ss :
    /\ IsStatement(ss[k])
    /\ ReadLocals(ss[k]) \subseteq R \cup UNION {DefinedLocals(ss[j]) : j \in 1 .. k - 1}
    /\ IsTerminator(ss[k]) => k = Len(ss)

StatementsOf(p) == ToSet(p.body) \cup ToSet(p.copies)

CodeInv ==
  /\ vals = block.vals /\ block \in Programs
  /\ \A v \in DOMAIN vals : v \in Locals /\ vals[v] \in 0 .. Modulus(X64) - 1
  /\ next_vreg \in Virtual
  /\ CondsKnown
  /\ stmts \in Seq(StatementsOf(block))
  /\ Readable(stmts, DOMAIN vals \cup DefinedIn(code))
  /\ Piece(code, DOMAIN vals, {})
  /\ HasBranch(code) => stmts = <<>>
  /\ located => stmts = <<>>

LEMMA SeqWider ==
  ASSUME NEW S, NEW T, S \subseteq T, NEW s \in Seq(S) PROVE s \in Seq(T)
OBVIOUS

LEMMA ConcatFacts ==
  ASSUME NEW S, NEW s \in Seq(S), NEW t \in Seq(S)
  PROVE  /\ s \o t \in Seq(S) /\ Len(s \o t) = Len(s) + Len(t)
         /\ Len(s) \in Nat /\ Len(t) \in Nat
         /\ DOMAIN s = 1 .. Len(s) /\ DOMAIN t = 1 .. Len(t) /\ DOMAIN (s \o t) = 1 .. Len(s) + Len(t)
         /\ \A k \in 1 .. Len(s) : (s \o t)[k] = s[k]
         /\ \A k \in 1 .. Len(t) : (s \o t)[Len(s) + k] = t[k]
OBVIOUS

LEMMA CondOfCmp == ASSUME NEW s, s.op = "cmp", IsStatement(s) PROVE CmpOpToCond(s.kind) \in Comparisons
BY DEF IsStatement, CmpOpToCond, Comparisons

(* A block's only terminator ends it, behind the copies too. *)
LEMMA OrderOfBlock ==
  ASSUME NEW p, IsBlock(p)
  PROVE  /\ EmissionOrder(p.body, p.copies) \in Seq(StatementsOf(p))
         /\ Readable(EmissionOrder(p.body, p.copies), DOMAIN p.vals)
<1> DEFINE order == EmissionOrder(p.body, p.copies)
           S == StatementsOf(p)
           b == p.body
           c == p.copies
           n == Len(b)
<1>0. b \in Seq(ToSet(b)) /\ c \in Seq(ToSet(c)) BY DEF IsBlock
<1>1. b \in Seq(S) /\ c \in Seq(S)
 <2>1. b \in Seq(ToSet(b) \cup ToSet(c)) BY <1>0, SeqWider
 <2>2. c \in Seq(ToSet(b) \cup ToSet(c)) BY <1>0, SeqWider
 <2> QED BY <2>1, <2>2 DEF StatementsOf
<1>2. Terminators(b) \subseteq {n} /\ Terminators(c) = {} BY DEF IsBlock
<1>3. order = IF Terminators(b) = {} THEN b \o c
              ELSE LET pos == CHOOSE k \in Terminators(b) : \A j \in Terminators(b) : j <= k
                   IN  SubSeq(b, 1, pos - 1) \o c \o SubSeq(b, pos, Len(b)) BY DEF EmissionOrder
<1>4. \A k \in DOMAIN order :
           /\ IsStatement(order[k])
           /\ ReadLocals(order[k]) \subseteq
                DOMAIN p.vals \cup UNION {DefinedLocals(order[j]) : j \in 1 .. k - 1} BY DEF IsBlock
<1> HIDE DEF order, S, b, c
<1>5. n \in Nat /\ DOMAIN b = 1 .. n /\ Len(c) \in Nat /\ DOMAIN c = 1 .. Len(c) BY <1>1
<1>6. \A k \in DOMAIN b : IsTerminator(b[k]) => k = n BY <1>2 DEF Terminators
<1>7. \A k \in DOMAIN c : ~IsTerminator(c[k]) BY <1>2 DEF Terminators
<1>8. order \in Seq(S) /\ \A k \in DOMAIN order : IsTerminator(order[k]) => k = Len(order)
 <2>1. CASE Terminators(b) = {}
  <3>1. order = b \o c BY <1>3, <2>1
  <3>2. \A k \in DOMAIN b : ~IsTerminator(b[k]) BY <2>1 DEF Terminators
  <3>3. /\ order \in Seq(S) /\ Len(order) = Len(b) + Len(c)
        /\ \A k \in 1 .. Len(b) : order[k] = b[k]
        /\ \A k \in 1 .. Len(c) : order[Len(b) + k] = c[k] BY <1>1, <3>1
  <3>4. ASSUME NEW k \in DOMAIN order PROVE ~IsTerminator(order[k])
   <4>1. k \in 1 .. Len(b) \/ (k - Len(b) \in 1 .. Len(c) /\ Len(b) + (k - Len(b)) = k) BY <1>5, <3>3
   <4>2. CASE k \in 1 .. Len(b) BY <1>5, <3>2, <3>3, <4>2
   <4>3. CASE k - Len(b) \in 1 .. Len(c) /\ Len(b) + (k - Len(b)) = k
    <5>1. order[k] = c[k - Len(b)] BY <3>3, <4>3
    <5> QED BY <1>5, <1>7, <4>3, <5>1
   <4> QED BY <4>1, <4>2, <4>3
  <3> QED BY <3>3, <3>4
 <2>2. CASE Terminators(b) # {}
  <3> DEFINE f == SubSeq(b, 1, n - 1)
             e == SubSeq(b, n, n)
             g == f \o c
  <3>1. Terminators(b) = {n} /\ n \in 1 .. n BY <1>2, <1>5, <2>2 DEF Terminators
  <3>2. (CHOOSE k \in Terminators(b) : \A j \in Terminators(b) : j <= k) = n BY <1>5, <3>1
  <3>3. order = g \o e BY <1>3, <2>2, <3>2
  <3>4. /\ f \in Seq(S) /\ Len(f) = n - 1 /\ \A k \in 1 .. n - 1 : f[k] = b[k] BY <1>1, <1>5, <3>1
  <3>5. e \in Seq(S) /\ Len(e) = 1 BY <1>1, <1>5, <3>1
  <3> HIDE DEF f, e
  <3>6. /\ g \in Seq(S) /\ Len(g) = (n - 1) + Len(c)
        /\ \A k \in 1 .. n - 1 : g[k] = f[k]
        /\ \A k \in 1 .. Len(c) : g[(n - 1) + k] = c[k]
   <4>0. f \in Seq(S) BY <3>4
   <4>1. c \in Seq(S) BY <1>1
   <4> HIDE DEF n
   <4>2. /\ f \o c \in Seq(S) /\ Len(f \o c) = Len(f) + Len(c)
         /\ \A k \in 1 .. Len(f) : (f \o c)[k] = f[k]
         /\ \A k \in 1 .. Len(c) : (f \o c)[Len(f) + k] = c[k] BY <4>0, <4>1, ConcatFacts
   <4> QED BY <3>4, <4>2
  <3>7. ASSUME NEW k \in 1 .. Len(g) PROVE ~IsTerminator(g[k])
   <4>1. k \in 1 .. n - 1 \/ (k - (n - 1) \in 1 .. Len(c) /\ (n - 1) + (k - (n - 1)) = k) BY <1>5, <3>1, <3>6
   <4>2. CASE k \in 1 .. n - 1
    <5> HIDE DEF n, g
    <5>0. k \in DOMAIN b /\ k # n
     <6>1. n \in Nat /\ DOMAIN b = 1 .. n BY <1>5
     <6> QED BY <4>2, <6>1
    <5>1. g[k] = b[k] BY <3>4, <3>6, <4>2
    <5> QED BY <1>6, <5>0, <5>1
   <4>3. CASE k - (n - 1) \in 1 .. Len(c) /\ (n - 1) + (k - (n - 1)) = k
    <5>1. g[k] = c[k - (n - 1)] BY <3>6, <4>3
    <5> QED BY <1>5, <1>7, <4>3, <5>1
   <4> QED BY <4>1, <4>2, <4>3
  <3> HIDE DEF g
  <3>8. /\ order \in Seq(S) /\ Len(order) = Len(g) + 1
        /\ \A k \in 1 .. Len(g) : order[k] = g[k]
   <4>0. g \in Seq(S) BY <3>6
   <4>1. e \in Seq(S) BY <3>5
   <4>2. /\ g \o e \in Seq(S) /\ Len(g \o e) = Len(g) + Len(e)
         /\ \A k \in 1 .. Len(g) : (g \o e)[k] = g[k] BY <4>0, <4>1, ConcatFacts
   <4> QED BY <3>3, <3>5, <4>2
  <3>9. Len(g) \in Nat BY <3>6
  <3>10. ASSUME NEW k \in DOMAIN order, IsTerminator(order[k]) PROVE k = Len(order)
   <4>1. k \in 1 .. Len(g) \/ k = Len(order) BY <3>8, <3>9
   <4> QED BY <3>7, <3>8, <3>10, <4>1
  <3> QED BY <3>8, <3>10
 <2> QED BY <2>1, <2>2
<1> QED BY <1>4, <1>8 DEF Readable, order, S

LEMMA CodeInvHolds == Spec => []CodeInv
<1>1. Init => CodeInv
 <2>1. SUFFICES ASSUME Init PROVE CodeInv OBVIOUS
 <2>2. IsBlock(block) BY <2>1, ProgramsAssumption DEF Init
 <2>3. \A v \in DOMAIN vals : v \in Locals /\ vals[v] \in 0 .. Modulus(X64) - 1 BY <2>1, <2>2 DEF Init, IsBlock
 <2>4. next_vreg \in Virtual BY <2>1, ProgramsAssumption DEF Init, Virtual, IsVReg, FirstVReg
 <2>5. CondsKnown /\ DefinedIn(code) = {} BY <2>1 DEF Init, CondsKnown, DefinedIn
 <2>6. stmts = EmissionOrder(block.body, block.copies) /\ vals = block.vals BY <2>1 DEF Init
 <2>7. stmts \in Seq(StatementsOf(block)) /\ Readable(stmts, DOMAIN vals) BY <2>2, <2>6, OrderOfBlock
 <2>8. Readable(stmts, DOMAIN vals \cup DefinedIn(code)) BY <2>5, <2>7 DEF Readable
 <2>9. Piece(code, DOMAIN vals, {}) /\ ~HasBranch(code) BY <2>1, NoPiece DEF Init, HasBranch
 <2>10. ~located /\ block \in Programs BY <2>1 DEF Init, BackendInit
 <2> QED BY <2>3, <2>4, <2>5, <2>6, <2>7, <2>8, <2>9, <2>10 DEF CodeInv
<1>2. CodeInv /\ [Next]_vars => CodeInv'
 <2>1. SUFFICES ASSUME CodeInv, [Next]_vars PROVE CodeInv' OBVIOUS
 <2>2. CASE Select
  <3> DEFINE s == Head(stmts)
  <3>1. CASE ~Accepts(s)
   <4>1. UNCHANGED <<code, vals, stmts, block, next_vreg, cond_map, located>> BY <2>2, <3>1 DEF Select
   <4> QED BY <2>1, <4>1 DEF CodeInv, CondsKnown
  <3>2. CASE Accepts(s)
   <4>1. /\ stmts # <<>> /\ code' = code \o Emitted(s) /\ stmts' = Tail(stmts)
         /\ next_vreg' = next_vreg + (IF TakesFresh(s) THEN 1 ELSE 0)
         /\ cond_map' = IF s.op = "cmp" THEN Assigned(cond_map, s.dst.id, CmpOpToCond(s.kind))
                        ELSE cond_map
         /\ UNCHANGED <<vals, block, located>> BY <2>2, <3>2 DEF Select
   <4> DEFINE S == StatementsOf(block)
   <4>2. stmts \in Seq(S) BY <2>1 DEF CodeInv
   <4> HIDE DEF S
   <4>3. /\ Len(stmts) \in Nat /\ Len(stmts) > 0 /\ s = stmts[1] /\ DOMAIN stmts = 1 .. Len(stmts)
         /\ stmts' \in Seq(S) /\ Len(stmts') = Len(stmts) - 1 /\ DOMAIN stmts' = 1 .. Len(stmts) - 1
         /\ \A k \in 1 .. Len(stmts) - 1 : stmts'[k] = stmts[k + 1] BY <4>1, <4>2
   <4> DEFINE R == DOMAIN vals \cup DefinedIn(code)
   <4>4. IsStatement(s) /\ ReadLocals(s) \subseteq R /\ (IsTerminator(s) => Len(stmts) = 1)
    <5>1. 1 \in DOMAIN stmts /\ UNION {DefinedLocals(stmts[j]) : j \in 1 .. 1 - 1} = {} BY <4>3
    <5>2. IsStatement(stmts[1]) /\ (IsTerminator(stmts[1]) => 1 = Len(stmts)) BY <2>1, <5>1 DEF CodeInv, Readable
    <5>3. ReadLocals(stmts[1]) \subseteq R \cup UNION {DefinedLocals(stmts[j]) : j \in 1 .. 1 - 1}
      BY <2>1, <5>1 DEF CodeInv, Readable
    <5> QED BY <4>3, <5>1, <5>2, <5>3
   <4> HIDE DEF s
   <4>5. Emits(s) BY <2>1, <3>2, <4>4, EmittedPiece DEF CodeInv
   <4>6. ~HasBranch(code) /\ Piece(code, DOMAIN vals, {}) BY <2>1, <4>1 DEF CodeInv
   <4>7. /\ Piece(code', DOMAIN vals, {})
         /\ DefinedIn(code') = DefinedIn(code) \cup DefinedIn(Emitted(s))
    <5>1. Piece(Emitted(s), ReadLocals(s), DefinedLocals(s)) BY <4>5 DEF Emits
    <5> DEFINE e == Emitted(s)
               Q == ReadLocals(s)
               F == DefinedLocals(s)
               V == DOMAIN vals
    <5>2. Piece(e, Q, F) /\ Q \subseteq V \cup DefinedIn(code) /\ code' = code \o e BY <4>1, <4>4, <5>1
    <5> HIDE DEF e, Q, F, V
    <5>3. Piece(code, V, {}) BY <4>6 DEF V
    <5>4. /\ Piece(code \o e, V, {} \cup F)
          /\ DefinedIn(code \o e) = DefinedIn(code) \cup DefinedIn(e) BY <4>6, <5>2, <5>3, PiecesJoin
    <5>5. Piece(code', V, {} \cup F) /\ DefinedIn(code') = DefinedIn(code) \cup DefinedIn(e) BY <5>2, <5>4
    <5> QED BY <5>5 DEF Piece, V, e
   <4>8. DefinedLocals(s) \subseteq DefinedIn(code') BY <4>5, <4>7 DEF Emits, Piece
   <4>9. Readable(stmts', DOMAIN vals' \cup DefinedIn(code'))
    <5>1. SUFFICES ASSUME NEW k \in DOMAIN stmts'
                   PROVE  /\ IsStatement(stmts'[k])
                          /\ ReadLocals(stmts'[k]) \subseteq (DOMAIN vals' \cup DefinedIn(code'))
                               \cup UNION {DefinedLocals(stmts'[j]) : j \in 1 .. k - 1}
                          /\ IsTerminator(stmts'[k]) => k = Len(stmts') BY DEF Readable
    <5>2. k \in Nat /\ k + 1 \in DOMAIN stmts /\ stmts'[k] = stmts[k + 1] BY <4>3
    <5>3. IsStatement(stmts[k + 1]) /\ (IsTerminator(stmts[k + 1]) => k + 1 = Len(stmts)) BY <2>1, <5>2 DEF CodeInv, Readable
    <5>4. ReadLocals(stmts[k + 1]) \subseteq R \cup UNION {DefinedLocals(stmts[j]) : j \in 1 .. (k + 1) - 1}
      BY <2>1, <5>2 DEF CodeInv, Readable
    <5>5. ASSUME NEW v \in UNION {DefinedLocals(stmts[j]) : j \in 1 .. (k + 1) - 1}
          PROVE  v \in DefinedIn(code') \cup UNION {DefinedLocals(stmts'[j]) : j \in 1 .. k - 1}
     <6>1. PICK j \in 1 .. (k + 1) - 1 : v \in DefinedLocals(stmts[j]) BY <5>5
     <6>2. CASE j = 1 BY <4>3, <4>8, <6>1, <6>2
     <6>3. CASE j # 1
      <7>1. j - 1 \in 1 .. k - 1 /\ j - 1 \in 1 .. Len(stmts) - 1 /\ (j - 1) + 1 = j BY <4>3, <5>2, <6>3
      <7>2. stmts'[j - 1] = stmts[j] BY <4>3, <7>1
      <7> QED BY <6>1, <7>1, <7>2
     <6> QED BY <6>2, <6>3
    <5>6. vals' = vals BY <4>1
    <5>7. IsTerminator(stmts'[k]) => k = Len(stmts') BY <4>3, <5>2, <5>3
    <5>8. ReadLocals(stmts'[k]) \subseteq (DOMAIN vals' \cup DefinedIn(code'))
                               \cup UNION {DefinedLocals(stmts'[j]) : j \in 1 .. k - 1} BY <4>7, <5>2, <5>4, <5>5, <5>6
    <5> QED BY <5>2, <5>3, <5>7, <5>8
   <4>10. HasBranch(code') => stmts' = <<>>
    <5>1. ASSUME HasBranch(code') PROVE Len(stmts) = 1
     <6>1. PICK k \in DOMAIN code' : IsBranch(code'[k]) BY <5>1 DEF HasBranch
     <6>2. code \in Seq(VInsts) /\ Emitted(s) \in Seq(VInsts) BY <4>5, <4>6 DEF Piece, Emits
     <6> DEFINE e == Emitted(s)
     <6> HIDE DEF e
     <6>3. code' = code \o e /\ e \in Seq(VInsts) /\ code \in Seq(VInsts) BY <4>1, <6>2 DEF e
     <6>4. Len(code) \in Nat /\ Len(e) \in Nat /\ Len(code') = Len(code) + Len(e)
           /\ DOMAIN code' = 1 .. Len(code) + Len(e) BY <6>3
     <6>5. CASE k \in 1 .. Len(code)
      <7>1. code'[k] = code[k] /\ k \in DOMAIN code BY <6>3, <6>5
      <7> QED BY <4>6, <6>1, <7>1 DEF HasBranch
     <6>6. CASE k \notin 1 .. Len(code)
      <7>1. k - Len(code) \in 1 .. Len(e) /\ Len(code) + (k - Len(code)) = k BY <6>1, <6>4, <6>6
      <7>2. code'[Len(code) + (k - Len(code))] = e[k - Len(code)] BY <6>3, <7>1
      <7>3. k - Len(code) \in DOMAIN e /\ code'[k] = e[k - Len(code)] BY <6>3, <7>1, <7>2
      <7>4. HasBranch(Emitted(s)) BY <6>1, <7>3 DEF HasBranch, e
      <7> QED BY <4>4, <4>5, <7>4 DEF Emits
     <6> QED BY <6>5, <6>6
    <5>2. Len(stmts) = 1 => stmts' = <<>> BY <4>3
    <5> QED BY <5>1, <5>2
   <4>11. next_vreg' \in Virtual BY <2>1, <4>1 DEF CodeInv, Virtual, IsVReg, FirstVReg
   <4>12. CondsKnown'
    <5>1. CASE s.op = "cmp"
     <6>1. CmpOpToCond(s.kind) \in Comparisons BY <4>4, <5>1, CondOfCmp
     <6>2. cond_map' = Assigned(cond_map, s.dst.id, CmpOpToCond(s.kind)) BY <4>1, <5>1
     <6>3. \A v \in DOMAIN cond_map : cond_map[v] \in Comparisons BY <2>1 DEF CodeInv, CondsKnown
     <6> DEFINE x == s.dst.id
                y == CmpOpToCond(s.kind)
     <6>4. cond_map' = Assigned(cond_map, x, y) /\ y \in Comparisons BY <6>1, <6>2
     <6> HIDE DEF x, y
     <6>5. /\ DOMAIN cond_map' = DOMAIN cond_map \cup {x} /\ cond_map'[x] = y
           /\ \A z \in DOMAIN cond_map : z # x => cond_map'[z] = cond_map[z] BY <6>4 DEF Assigned
     <6>6. \A v \in DOMAIN cond_map' : cond_map'[v] \in Comparisons BY <6>3, <6>4, <6>5
     <6> QED BY <6>6 DEF CondsKnown
    <5>2. CASE s.op # "cmp" BY <2>1, <4>1, <5>2 DEF CodeInv, CondsKnown
    <5> QED BY <5>1, <5>2
   <4>13. ~located' BY <2>1, <4>1 DEF CodeInv
   <4>14. stmts' \in Seq(StatementsOf(block')) BY <4>1, <4>3 DEF S
   <4>15. /\ vals' = block'.vals /\ block' \in Programs
          /\ \A v \in DOMAIN vals' : v \in Locals /\ vals'[v] \in 0 .. Modulus(X64) - 1 BY <2>1, <4>1 DEF CodeInv
   <4>16. Piece(code', DOMAIN vals', {}) BY <4>1, <4>7
   <4> QED BY <4>9, <4>10, <4>11, <4>12, <4>13, <4>14, <4>15, <4>16 DEF CodeInv
  <3> QED BY <3>1, <3>2
 <2>3. CASE stmts = <<>> /\ (Allocate \/ BackendNext) /\ UNCHANGED selectionVars
  <3>1. UNCHANGED <<code, vals, stmts, block, next_vreg, cond_map>>
    BY <2>3 DEF Allocate, BackendNext, Rewrite, Print1, Run, selectionVars
  <3> QED BY <2>1, <2>3, <3>1 DEF CodeInv, CondsKnown
 <2>4. CASE UNCHANGED vars BY <2>1, <2>4 DEF CodeInv, CondsKnown, vars, backendVars, selectionVars
 <2> QED BY <2>1, <2>2, <2>3, <2>4 DEF Next
<1> QED BY <1>1, <1>2, PTL DEF Spec
-----------------------------------------------------------------------------
(* A literal one mov can produce, the programs that move no other, and that
   selection moves no literal of its own. *)
LiteralFits(c, size) ==
  OneChunk(c % Modulus(size), size) \/ OneChunk((-1 - c) % Modulus(size), size)
MovedOperands(s) ==
  CASE s.op \in {"store", "gpr_arg", "stack_arg", "copy"} -> {s.src}
    [] s.op \in {"biop", "cmp"} -> {s.left} [] s.op = "return" -> {s.val}
    [] OTHER -> {}
MoveSize(s) == IF s.op = "copy" THEN RegisterSize(s.dst.dtype) ELSE W32
MovedFit(s) == \A o \in MovedOperands(s) : o.kind = "const" => LiteralFits(o.val, MoveSize(s))
MovedLiteralsFit == \A p \in Programs : \A s \in StatementsOf(p) : MovedFit(s)

MoveFits(i) == i.op = "Mov" /\ i.src.kind = "imm" => LiteralFits(i.src.val, i.size)
FitCode(c) == \A k \in DOMAIN c : MoveFits(c[k])

LEMMA FitShort ==
  /\ FitCode(<<>>)
  /\ \A i : MoveFits(i) => FitCode(<<i>>)
  /\ \A i, j : MoveFits(i) /\ MoveFits(j) => FitCode(<<i, j>>)
BY DEF FitCode

LEMMA OthersFit ==
  /\ \A n, r, a : MoveFits(Str(n, r, a)) /\ MoveFits(Ldr(n, r, a))
  /\ \A r, a : MoveFits(Lea(r, a))
  /\ \A d, b, i, n : MoveFits(Gep(d, b, i, n))
  /\ \A op, n, d, l, r : MoveFits(BinOp(op, n, d, l, r))
  /\ \A l, r : MoveFits(Cmp(l, r))
  /\ \A c, n : MoveFits(BCond(c, n)) /\ MoveFits(B(n))
  /\ MoveFits([op |-> "Ret"])
  /\ \A n, d, r : MoveFits(Mov(n, d, Reg(r)))
BY DEF MoveFits, Str, Ldr, Lea, Gep, BinOp, Cmp, BCond, B, Mov, Reg

LEMMA MovedLiteral ==
  ASSUME NEW o, IsOperand(o), o.kind = "const" => LiteralFits(o.val, W32), NEW d
  PROVE  /\ MoveFits(Mov(RegisterSize(o.dtype), d, LowerValue(o)))
         /\ FitCode(MoveFresh(o))
<1>1. CASE o.kind = "const"
 <2>1. RegisterSize(o.dtype) = W32 BY <1>1 DEF IsOperand, RegisterSize, IsInt
 <2>2. LowerValue(o) = Imm(o.val) BY <1>1 DEF LowerValue
 <2>3. LiteralFits(o.val, W32) BY <1>1
 <2>4. \A e : MoveFits(Mov(W32, e, Imm(o.val))) BY <2>3 DEF MoveFits, Mov, Imm
 <2>5. MoveFresh(o) = <<Mov(W32, next_vreg, Imm(o.val))>> BY <1>1, <2>1 DEF MoveFresh, NeedsFresh
 <2> QED BY <2>1, <2>2, <2>4, <2>5, FitShort
<1>2. CASE o.kind # "const"
 <2>1. LowerValue(o) = Reg(o.id) /\ MoveFresh(o) = <<>> BY <1>2 DEF LowerValue, MoveFresh, NeedsFresh
 <2> QED BY <2>1, FitShort, OthersFit
<1> QED BY <1>1, <1>2

LEMMA FitJoin == ASSUME NEW S, NEW c \in Seq(S), NEW e \in Seq(S), FitCode(c), FitCode(e) PROVE FitCode(c \o e)
<1> DEFINE b == c \o e
<1>1. /\ Len(c) \in Nat /\ Len(e) \in Nat /\ DOMAIN c = 1 .. Len(c) /\ DOMAIN e = 1 .. Len(e)
      /\ DOMAIN b = 1 .. Len(c) + Len(e)
      /\ \A k \in 1 .. Len(c) : b[k] = c[k]
      /\ \A k \in 1 .. Len(e) : b[Len(c) + k] = e[k] BY ConcatFacts
<1> HIDE DEF b
<1>2. ASSUME NEW k \in DOMAIN b PROVE MoveFits(b[k])
 <2>1. CASE k \in 1 .. Len(c) BY <1>1, <2>1 DEF FitCode
 <2>2. CASE k \notin 1 .. Len(c)
  <3>1. k - Len(c) \in 1 .. Len(e) /\ Len(c) + (k - Len(c)) = k BY <1>1, <1>2, <2>2
  <3>2. b[Len(c) + (k - Len(c))] = e[k - Len(c)] BY <1>1, <3>1
  <3> QED BY <1>1, <3>1, <3>2 DEF FitCode
 <2> QED BY <2>1, <2>2
<1> QED BY <1>2 DEF FitCode, b

LEMMA FitJoinFresh == ASSUME NEW o, NEW j, FitCode(MoveFresh(o)), MoveFits(j) PROVE FitCode(MoveFresh(o) \o <<j>>)
<1>1. CASE NeedsFresh(o)
 <2> DEFINE i == Mov(RegisterSize(o.dtype), next_vreg, Imm(o.val))
 <2>1. MoveFresh(o) = <<i>> BY <1>1 DEF MoveFresh
 <2> HIDE DEF i
 <2>2. FitCode(<<i>>) BY <2>1
 <2>3. MoveFits(i) BY <2>2 DEF FitCode
 <2>4. <<i>> \o <<j>> = <<i, j>> BY PairJoined
 <2> QED BY <2>1, <2>3, <2>4, FitShort
<1>2. CASE ~NeedsFresh(o)
 <2>1. MoveFresh(o) \o <<j>> = <<j>> BY <1>2 DEF MoveFresh
 <2> QED BY <2>1, FitShort
<1> QED BY <1>1, <1>2

LEMMA PtrToRegFits == ASSUME NEW o, NEW d PROVE \E i : PtrToReg(o, d) = <<i>> /\ MoveFits(i)
<1>1. CASE HasAlloca(o) \/ o.kind = "global"
 <2>1. PtrToReg(o, d) = <<Lea(d, LowerPtrAsAddr(o))>> BY <1>1 DEF PtrToReg
 <2> QED BY <2>1, OthersFit
<1>2. CASE ~(HasAlloca(o) \/ o.kind = "global")
 <2>1. PtrToReg(o, d) = <<Mov(X64, d, Reg(o.id))>> BY <1>2 DEF PtrToReg
 <2> QED BY <2>1, OthersFit
<1> QED BY <1>1, <1>2

LEMMA EmittedFits == ASSUME NEW s, IsStatement(s), Accepts(s), MovedFit(s) PROVE FitCode(Emitted(s))
<1>1. s.op \in {"store", "load", "biop", "cmp", "cjump", "jump", "gep", "return", "return_void",
                 "gpr_arg", "stack_arg", "call_result", "copy", "as_is", "alloca"} BY DEF IsStatement, Accepts
<1>2. ASSUME NEW o \in Operands(s) PROVE IsOperand(o) BY <1>2 DEF IsStatement
<1>3. ASSUME NEW o \in Operands(s), o \in MovedOperands(s), s.op # "copy", NEW d
      PROVE  MoveFits(Mov(RegisterSize(o.dtype), d, LowerValue(o))) /\ FitCode(MoveFresh(o))
 <2>1. o.kind = "const" => LiteralFits(o.val, W32) BY <1>3 DEF MovedFit, MoveSize
 <2> QED BY <1>2, <2>1, MovedLiteral
<1>4. CASE s.op = "store"
 <2> DEFINE j == Str(RegisterSize(s.src.dtype), InRegister(s.src), LowerPtrAsAddr(s.ptr))
            f == MoveFresh(s.src)
 <2>1. Emitted(s) = f \o <<j>> BY <1>4 DEF Emitted
 <2>2. FitCode(f) BY <1>3, <1>4 DEF Operands, MovedOperands
 <2>3. MoveFits(j) BY OthersFit
 <2> HIDE DEF j
 <2> QED BY <2>1, <2>2, <2>3, FitJoinFresh
<1>5. CASE s.op = "biop"
 <2> DEFINE j == BinOp(s.kind, W32, s.dst.id, InRegister(s.left), LowerValue(s.right))
            f == MoveFresh(s.left)
 <2>1. Emitted(s) = f \o <<j>> BY <1>5 DEF Emitted
 <2>2. FitCode(f) BY <1>3, <1>5 DEF Operands, MovedOperands
 <2>3. MoveFits(j) BY OthersFit
 <2> HIDE DEF j
 <2> QED BY <2>1, <2>2, <2>3, FitJoinFresh
<1>6. CASE s.op = "cmp"
 <2> DEFINE j == Cmp(InRegister(s.left), LowerValue(s.right))
            f == MoveFresh(s.left)
 <2>1. Emitted(s) = f \o <<j>> BY <1>6 DEF Emitted
 <2>2. FitCode(f) BY <1>3, <1>6 DEF Operands, MovedOperands
 <2>3. MoveFits(j) BY OthersFit
 <2> HIDE DEF j
 <2> QED BY <2>1, <2>2, <2>3, FitJoinFresh
<1>7. CASE s.op = "load"
 <2>1. Emitted(s) = <<Ldr(RegisterSize(s.dst.dtype), s.dst.id, LowerPtrAsAddr(s.ptr))>> BY <1>7 DEF Emitted
 <2> QED BY <2>1, FitShort, OthersFit
<1>8. CASE s.op \in {"cjump", "jump", "return_void", "alloca"}
 <2>1. CASE s.op = "cjump"
  <3>1. Emitted(s) = <<BCond(cond_map[s.cond.id], s.true), B(s.false)>> BY <2>1 DEF Emitted
  <3> QED BY <3>1, FitShort, OthersFit
 <2>2. CASE s.op = "jump"
  <3>1. Emitted(s) = <<B(s.target)>> BY <2>2 DEF Emitted
  <3> QED BY <3>1, FitShort, OthersFit
 <2>3. CASE s.op = "return_void"
  <3>1. Emitted(s) = <<[op |-> "Ret"]>> BY <2>3 DEF Emitted
  <3> QED BY <3>1, FitShort, OthersFit
 <2>4. CASE s.op = "alloca"
  <3>1. Emitted(s) = <<>> BY <2>4 DEF Emitted
  <3> QED BY <3>1, FitShort
 <2> QED BY <1>8, <2>1, <2>2, <2>3, <2>4
<1>9. CASE s.op = "gep"
 <2>1. CASE IsStructFieldAccess(s)
  <3> DEFINE d == s.dst.id
             n == FieldOffset(s)
             b == s.base
  <3>1. Emitted(s) = EmitPtrOffset(d, b, n) BY <1>9, <2>1 DEF Emitted
  <3> HIDE DEF d, n, b
  <3>2. CASE HasAlloca(b)
   <4>1. Emitted(s) = <<Lea(d, LocalAddr(Allocas[b.id] + n))>> BY <3>1, <3>2 DEF EmitPtrOffset, HasAlloca
   <4> QED BY <4>1, FitShort, OthersFit
  <3>3. CASE ~HasAlloca(b) /\ b.kind = "global"
   <4> DEFINE i == Lea(d, Global(b.sym))
              j == BinOp("add", X64, d, d, Imm(n))
   <4>1. Emitted(s) = <<i>> \o (IF n = 0 THEN <<>> ELSE <<j>>) BY <3>1, <3>3 DEF EmitPtrOffset
   <4>2. MoveFits(i) /\ MoveFits(j) BY OthersFit
   <4> HIDE DEF i, j
   <4>3. <<i>> \o <<j>> = <<i, j>> /\ <<i>> \o <<>> = <<i>> BY PairJoined
   <4> QED BY <4>1, <4>2, <4>3, FitShort
  <3>4. CASE ~HasAlloca(b) /\ b.kind # "global"
   <4>1. Emitted(s) = <<Lea(d, BaseOff(b.id, n))>> BY <3>1, <3>4 DEF EmitPtrOffset
   <4> QED BY <4>1, FitShort, OthersFit
  <3> QED BY <3>2, <3>3, <3>4
 <2>2. CASE ~IsStructFieldAccess(s)
  <3> DEFINE d == s.dst.id
             n == SizeOf(Stepped(s.base.dtype))
             o == LowerValue(s.index)
  <3>1. Emitted(s) = IF HasAlloca(s.base) \/ s.base.kind = "global"
                     THEN <<Lea(d, LowerPtrAsAddr(s.base)), Gep(d, d, o, n)>>
                     ELSE <<Gep(d, s.base.id, o, n)>> BY <1>9, <2>2 DEF Emitted, EmitGepArray
  <3> HIDE DEF d, n, o
  <3> QED BY <3>1, FitShort, OthersFit
 <2> QED BY <2>1, <2>2
<1>10. CASE s.op = "return"
 <2> DEFINE i == Mov(RegisterSize(s.val.dtype), REG_X0, LowerValue(s.val))
            j == [op |-> "Ret"]
 <2>1. Emitted(s) = <<i, j>> BY <1>10 DEF Emitted
 <2>2. MoveFits(i) BY <1>3, <1>10 DEF Operands, MovedOperands
 <2>3. MoveFits(j) BY OthersFit
 <2> HIDE DEF i, j
 <2> QED BY <2>1, <2>2, <2>3, FitShort
<1>11. CASE s.op = "gpr_arg"
 <2>1. CASE s.src.dtype.kind \in {"ptr", "array"}
  <3>1. Emitted(s) = PtrToReg(s.src, s.at) BY <1>11, <2>1 DEF Emitted, EmitGprArg
  <3> QED BY <3>1, PtrToRegFits, FitShort
 <2>2. CASE ~(s.src.dtype.kind \in {"ptr", "array"})
  <3> DEFINE i == Mov(RegisterSize(s.src.dtype), s.at, LowerValue(s.src))
  <3>1. Emitted(s) = <<i>> BY <1>11, <2>2 DEF Emitted, EmitGprArg
  <3>2. MoveFits(i) BY <1>3, <1>11 DEF Operands, MovedOperands
  <3> HIDE DEF i
  <3> QED BY <3>1, <3>2, FitShort
 <2> QED BY <2>1, <2>2
<1>12. CASE s.op = "stack_arg"
 <2> DEFINE slot == BaseOff(SP, s.at)
            size == RegisterSize(s.src.dtype)
 <2>1. Emitted(s) =
       CASE s.src.dtype.kind \in {"ptr", "array"} ->
              PtrToReg(s.src, SCRATCH0) \o <<Str(X64, SCRATCH0, slot)>>
         [] s.src.kind = "const" ->
              <<Mov(size, SCRATCH0, Imm(s.src.val)), Str(size, SCRATCH0, slot)>>
         [] OTHER -> <<Str(size, s.src.id, slot)>> BY <1>12 DEF Emitted, EmitStackArg
 <2>2. IsOperand(s.src) /\ MoveFits(Mov(size, SCRATCH0, LowerValue(s.src))) BY <1>2, <1>3, <1>12 DEF Operands, MovedOperands
 <2> HIDE DEF slot, size
 <2>3. CASE s.src.dtype.kind \in {"ptr", "array"}
  <3> DEFINE j == Str(X64, SCRATCH0, slot)
  <3>1. PICK i : PtrToReg(s.src, SCRATCH0) = <<i>> /\ MoveFits(i) BY PtrToRegFits
  <3>2. s.src.kind # "const" BY <2>2, <2>3 DEF IsOperand
  <3>3. Emitted(s) = <<i>> \o <<j>> BY <2>1, <2>3, <3>1, <3>2
  <3>4. MoveFits(j) BY OthersFit
  <3> HIDE DEF j
  <3>5. <<i>> \o <<j>> = <<i, j>> BY PairJoined
  <3> QED BY <3>1, <3>3, <3>4, <3>5, FitShort
 <2>4. CASE ~(s.src.dtype.kind \in {"ptr", "array"}) /\ s.src.kind = "const"
  <3>1. Emitted(s) = <<Mov(size, SCRATCH0, LowerValue(s.src)), Str(size, SCRATCH0, slot)>> BY <2>1, <2>4 DEF LowerValue
  <3> QED BY <2>2, <3>1, FitShort, OthersFit
 <2>5. CASE ~(s.src.dtype.kind \in {"ptr", "array"}) /\ s.src.kind # "const"
  <3>1. Emitted(s) = <<Str(size, s.src.id, slot)>> BY <2>1, <2>5
  <3> QED BY <3>1, FitShort, OthersFit
 <2> QED BY <2>3, <2>4, <2>5
<1>13. CASE s.op = "call_result"
 <2>1. Emitted(s) = <<Mov(RegisterSize(s.dst.dtype), s.dst.id, Reg(REG_X0))>> BY <1>13 DEF Emitted
 <2> QED BY <2>1, FitShort, OthersFit
<1>14. CASE s.op = "copy"
 <2> DEFINE n == RegisterSize(s.dst.dtype)
            d == s.dst.id
            i == Mov(n, d, LowerValue(s.src))
 <2>1. Emitted(s) = <<i>> BY <1>14 DEF Emitted
 <2>2. CASE s.src.kind = "const"
  <3>1. LowerValue(s.src) = Imm(s.src.val) /\ LiteralFits(s.src.val, n)
    BY <1>14, <2>2 DEF LowerValue, MovedFit, MovedOperands, MoveSize
  <3>2. MoveFits(i) BY <3>1 DEF MoveFits, Mov, Imm
  <3> HIDE DEF i
  <3> QED BY <2>1, <3>2, FitShort
 <2>3. CASE s.src.kind # "const"
  <3>1. LowerValue(s.src) = Reg(s.src.id) BY <2>3 DEF LowerValue
  <3> QED BY <2>1, <3>1, FitShort, OthersFit
 <2> QED BY <2>2, <2>3
<1>15. CASE s.op = "as_is"
 <2>1. Emitted(s) = <<s.inst>> /\ s.inst \in PiecesOfCalls BY <1>15 DEF Emitted, IsStatement
 <2>2. MoveFits(s.inst) BY <2>1 DEF MoveFits, PiecesOfCalls
 <2> QED BY <2>1, <2>2, FitShort
<1> QED BY <1>1, <1>4, <1>5, <1>6, <1>7, <1>8, <1>9, <1>10, <1>11, <1>12, <1>13, <1>14, <1>15
-----------------------------------------------------------------------------
(* Where the virtual registers of one instruction are. *)
Frame == SpValue - FpValue .. -1
PlacedRegs(R) == \A v \in R : IsVReg(v) => place[v] \in Registers \cup Frame
Concerns(i) == UsedVregs(i) \cup DefinedVreg(i)

LEMMA NumbersOfRegisters ==
  /\ Registers \subseteq 0 .. 99
  /\ General \subseteq Nat /\ SCRATCH0 \in General /\ SCRATCH1 \in General /\ REG_X0 \in General
  /\ SCRATCH0 # SCRATCH1 /\ SCRATCH0 \notin Registers /\ SCRATCH1 \notin Registers
  /\ REG_X0 \notin Registers /\ FP \notin General /\ SP \notin General
  /\ ~IsVReg(SCRATCH0) /\ ~IsVReg(SCRATCH1) /\ ~IsVReg(REG_X0) /\ ~IsVReg(FP) /\ ~IsVReg(SP)
  /\ \A r \in General : ~IsVReg(r)
BY RegistersAssumption DEF General, SCRATCH0, SCRATCH1, REG_X0, FP, SP, IsVReg, FirstVReg

LEMMA InRegGeneral ==
  ASSUME NEW r, r \in General \/ (r \in Virtual /\ PlacedRegs({r})), NEW c \in {SCRATCH0, SCRATCH1}
  PROVE  /\ InReg(r, c) \in General
         /\ Spilled(r) => InReg(r, c) = c /\ place[r] \in Frame /\ IsVReg(r)
         /\ ~Spilled(r) => InReg(r, c) = MapReg(r)
         /\ ~Spilled(r) /\ r \in Virtual => MapReg(r) = place[r] /\ place[r] \in Registers
         /\ r \in General => InReg(r, c) = r /\ ~Spilled(r) /\ MapReg(r) = r
<1>1. CASE r \in General
 <2>1. ~IsVReg(r) BY <1>1, NumbersOfRegisters
 <2>2. r \notin Virtual BY <2>1 DEF Virtual
 <2> QED BY <1>1, <2>1, <2>2 DEF InReg, Spilled, MapReg
<1>2. CASE r \in Virtual /\ PlacedRegs({r})
 <2>1. IsVReg(r) /\ place[r] \in Registers \cup Frame BY <1>2 DEF Virtual, PlacedRegs
 <2>2. r \notin General BY <2>1, NumbersOfRegisters
 <2>3. place[r] \in Registers => ~(place[r] < 0)
  <3> DEFINE x == place[r]
  <3>1. x \in Registers => x \in 0 .. 99 BY NumbersOfRegisters
  <3> HIDE DEF x
  <3>2. x \in 0 .. 99 => ~(x < 0) OBVIOUS
  <3> QED BY <3>1, <3>2 DEF x
 <2>4. place[r] \in Frame => place[r] < 0 BY FrameAssumption DEF Frame
 <2>5. CASE place[r] < 0
  <3>1. Spilled(r) /\ place[r] \in Frame BY <2>1, <2>3, <2>5 DEF Spilled
  <3>2. InReg(r, c) = c BY <3>1 DEF InReg
  <3>3. c \in General BY NumbersOfRegisters
  <3> QED BY <2>1, <2>2, <3>1, <3>2, <3>3
 <2>6. CASE ~(place[r] < 0)
  <3>1. ~Spilled(r) /\ place[r] \in Registers BY <2>1, <2>4, <2>6 DEF Spilled
  <3>2. InReg(r, c) = place[r] /\ MapReg(r) = place[r] BY <2>1, <3>1 DEF InReg, MapReg
  <3>3. place[r] \in General BY <3>1 DEF General
  <3> QED BY <2>2, <3>1, <3>2, <3>3
 <2> QED BY <2>5, <2>6
<1> QED BY <1>1, <1>2

LEMMA OutsideTheRegisters == ASSUME NEW r \in {FP, SP}, NEW c PROVE ~Spilled(r) /\ InReg(r, c) = r /\ MapReg(r) = r
BY NumbersOfRegisters DEF Spilled, InReg, MapReg

(* Addresses before and after. *)
VAddress == OffBase({FP, SP}, Int) \cup OffBase(Virtual, Int) \cup AtSymbol

LEMMA MapAddrShape ==
  ASSUME NEW a \in OffBase({FP, SP}, Int) \cup OffBase(Virtual, Int) \cup AtSymbol,
         PlacedRegs(AddrRegs(a))
  PROVE  /\ a.kind = "global" =>
              MapAddr(a) = a /\ LoadAddr(a) = <<>> /\ a \in AtSymbol /\ ScratchAfterAddr(a) = SCRATCH0
         /\ a.kind # "global" =>
              /\ MapAddr(a) = BaseOff(InReg(a.base, SCRATCH0), a.offset)
              /\ LoadAddr(a) = SpillLoad(a.base, X64, SCRATCH0)
              /\ ScratchAfterAddr(a) = ScratchAfterBase(a.base)
              /\ a.base \in {FP, SP} \cup Virtual
              /\ a.base \in Virtual => PlacedRegs({a.base}) /\ InReg(a.base, SCRATCH0) \in General
              /\ a.base \in {FP, SP} => InReg(a.base, SCRATCH0) = a.base
         /\ a \in OffBase({FP, SP}, Int) \cup OffBase(Virtual, {0}) \cup AtSymbol =>
              MapAddr(a) \in OffBase({FP, SP}, Int) \cup OffBase(General, {0}) \cup AtSymbol
         /\ a \in OffBase({FP}, Int) \cup OffBase(Virtual, {0}) \cup AtSymbol =>
              MapAddr(a) \in OffBase({FP}, Int) \cup OffBase(General, {0}) \cup AtSymbol
         /\ a \in OffBase({FP} \cup Virtual, Int) \cup AtSymbol =>
              MapAddr(a) \in OffBase({FP} \cup General, Int) \cup AtSymbol
<1>1. CASE a.kind = "global"
 <2>1. a \in AtSymbol BY <1>1 DEF OffBase
 <2>2. MapAddr(a) = a /\ LoadAddr(a) = <<>> /\ ScratchAfterAddr(a) = SCRATCH0 BY <1>1 DEF MapAddr, LoadAddr, ScratchAfterAddr
 <2> QED BY <1>1, <2>1, <2>2
<1>2. CASE a.kind # "global"
 <2> DEFINE b == a.base
            o == a.offset
            r == InReg(b, SCRATCH0)
 <2>1. a \in OffBase({FP, SP} \cup Virtual, Int) BY <1>2 DEF OffBase, AtSymbol
 <2>2. b \in {FP, SP} \cup Virtual /\ o \in Int /\ a = BaseOff(b, o) BY <2>1 DEF OffBase, BaseOff
 <2>3. MapAddr(a) = BaseOff(r, o) BY <1>2, <2>2 DEF MapAddr, BaseOff
 <2>4. LoadAddr(a) = SpillLoad(b, X64, SCRATCH0) /\ ScratchAfterAddr(a) = ScratchAfterBase(b)
   BY <1>2 DEF LoadAddr, ScratchAfterAddr
 <2>5. b \in Virtual => PlacedRegs({b}) BY <1>2 DEF AddrRegs
 <2>6. b \in Virtual => r \in General BY <2>5, InRegGeneral
 <2>7. b \in {FP, SP} => r = b BY OutsideTheRegisters
 <2>8. a.kind = "base_off" BY <2>2 DEF BaseOff
 <2>9. a \notin AtSymbol BY <1>2 DEF AtSymbol
 <2>10. b \in {FP, SP} => b \notin Virtual BY NumbersOfRegisters DEF Virtual
 <2> HIDE DEF b, o, r
 <2>11. a \in OffBase({FP, SP}, Int) \cup OffBase(Virtual, {0}) \cup AtSymbol =>
             MapAddr(a) \in OffBase({FP, SP}, Int) \cup OffBase(General, {0}) \cup AtSymbol
   BY <2>2, <2>3, <2>6, <2>7, <2>9, <2>10 DEF OffBase, BaseOff
 <2>12. a \in OffBase({FP}, Int) \cup OffBase(Virtual, {0}) \cup AtSymbol =>
             MapAddr(a) \in OffBase({FP}, Int) \cup OffBase(General, {0}) \cup AtSymbol
   BY <2>2, <2>3, <2>6, <2>7, <2>9, <2>10 DEF OffBase, BaseOff
 <2>13. a \in OffBase({FP} \cup Virtual, Int) \cup AtSymbol =>
             MapAddr(a) \in OffBase({FP} \cup General, Int) \cup AtSymbol
   BY <2>2, <2>3, <2>6, <2>7, <2>9, <2>10 DEF OffBase, BaseOff
 <2> QED BY <1>2, <2>2, <2>3, <2>4, <2>5, <2>6, <2>7, <2>11, <2>12, <2>13 DEF b, o, r
<1> QED BY <1>1, <1>2

(* The forms of rewritten instructions. *)
LEMMA BinOpForm ==
  ASSUME NEW i \in BinOps(Virtual)
  PROVE  /\ RewriteBinop(i) =
              SpillLoad(i.lhs, i.size, SCRATCH0) \o LoadOperand(i.rhs, i.size, SCRATCH1)
                \o (<<BinOp(i.binop, i.size, InReg(i.dst, SCRATCH0), InReg(i.lhs, SCRATCH0),
                            MapOperand(i.rhs, SCRATCH1))>>
                      \o SpillStore(i.dst, i.size, SCRATCH0))
         /\ i = BinOp(i.binop, i.size, i.dst, i.lhs, i.rhs)
<1> DEFINE l == InReg(i.lhs, SCRATCH0)
           o == MapOperand(i.rhs, SCRATCH1)
           d == InReg(i.dst, SCRATCH0)
           j == [i EXCEPT !.lhs = l, !.rhs = o]
<1>1. i = BinOp(i.binop, i.size, i.dst, i.lhs, i.rhs) BY DEF BinOps, BinOp
<1>2. RewriteBinop(i) = SpillLoad(i.lhs, i.size, SCRATCH0) \o LoadOperand(i.rhs, i.size, SCRATCH1)
                          \o WriteToDst(j, i.size, SCRATCH0) BY DEF RewriteBinop
<1>3. WriteToDst(j, i.size, SCRATCH0) =
        <<[j EXCEPT !.dst = InReg(j.dst, SCRATCH0)]>> \o SpillStore(j.dst, i.size, SCRATCH0) BY DEF WriteToDst
<1> HIDE DEF l, o
<1>4. j = BinOp(i.binop, i.size, i.dst, l, o)
 <2> DEFINE h == [i EXCEPT !.lhs = l]
 <2>1. h = BinOp(i.binop, i.size, i.dst, l, i.rhs) BY <1>1 DEF BinOp
 <2>2. j = [h EXCEPT !.rhs = o] OBVIOUS
 <2> HIDE DEF h, j
 <2> QED BY <2>1, <2>2 DEF BinOp
<1>5. j.dst = i.dst BY <1>4 DEF BinOp
<1> HIDE DEF j, d
<1>6. [j EXCEPT !.dst = d] = BinOp(i.binop, i.size, d, l, o) BY <1>4 DEF BinOp
<1>7. [j EXCEPT !.dst = InReg(j.dst, SCRATCH0)] = BinOp(i.binop, i.size, d, l, o) BY <1>5, <1>6 DEF d
<1> QED BY <1>1, <1>2, <1>3, <1>5, <1>7 DEF l, o, d

LEMMA CmpForm ==
  ASSUME NEW i \in Cmps(Virtual)
  PROVE  /\ RewriteCmp(i) =
              SpillLoad(i.lhs, i.size, SCRATCH0) \o LoadOperand(i.rhs, i.size, SCRATCH1)
                \o <<[op |-> "Cmp", size |-> i.size, lhs |-> InReg(i.lhs, SCRATCH0),
                      rhs |-> MapOperand(i.rhs, SCRATCH1)]>>
         /\ i = [op |-> "Cmp", size |-> i.size, lhs |-> i.lhs, rhs |-> i.rhs]
<1> DEFINE l == InReg(i.lhs, SCRATCH0)
           o == MapOperand(i.rhs, SCRATCH1)
<1>1. i = [op |-> "Cmp", size |-> i.size, lhs |-> i.lhs, rhs |-> i.rhs] BY DEF Cmps
<1>2. RewriteCmp(i) = SpillLoad(i.lhs, i.size, SCRATCH0) \o LoadOperand(i.rhs, i.size, SCRATCH1)
                          \o <<[i EXCEPT !.lhs = l, !.rhs = o]>> BY DEF RewriteCmp
<1> HIDE DEF l, o
<1>3. [i EXCEPT !.lhs = l, !.rhs = o] = [op |-> "Cmp", size |-> i.size, lhs |-> l, rhs |-> o]
 <2> DEFINE h == [i EXCEPT !.lhs = l]
 <2>1. h = [op |-> "Cmp", size |-> i.size, lhs |-> l, rhs |-> i.rhs] BY <1>1
 <2>2. [i EXCEPT !.lhs = l, !.rhs = o] = [h EXCEPT !.rhs = o] OBVIOUS
 <2> HIDE DEF h
 <2> QED BY <2>1, <2>2
<1> QED BY <1>1, <1>2, <1>3 DEF l, o

LEMMA LdrForm ==
  ASSUME NEW i \in Ldrs(Virtual)
  PROVE  /\ RewriteLdr(i) =
              LoadAddr(i.addr)
                \o (<<Ldr(i.size, InReg(i.dst, ScratchAfterAddr(i.addr)), MapAddr(i.addr))>>
                      \o SpillStore(i.dst, i.size, ScratchAfterAddr(i.addr)))
         /\ i = Ldr(i.size, i.dst, i.addr)
<1> DEFINE a == MapAddr(i.addr)
           c == ScratchAfterAddr(i.addr)
           j == [i EXCEPT !.addr = a]
           d == InReg(i.dst, c)
<1>1. i = Ldr(i.size, i.dst, i.addr) BY DEF Ldrs, Ldr
<1>2. RewriteLdr(i) = LoadAddr(i.addr) \o WriteToDst(j, i.size, c) BY DEF RewriteLdr
<1>3. WriteToDst(j, i.size, c) = <<[j EXCEPT !.dst = InReg(j.dst, c)]>> \o SpillStore(j.dst, i.size, c) BY DEF WriteToDst
<1> HIDE DEF a, c
<1>4. j = Ldr(i.size, i.dst, a) BY <1>1 DEF Ldr
<1>5. j.dst = i.dst BY <1>4 DEF Ldr
<1> HIDE DEF j, d
<1>6. [j EXCEPT !.dst = d] = Ldr(i.size, d, a) BY <1>4 DEF Ldr
<1>7. [j EXCEPT !.dst = InReg(j.dst, c)] = Ldr(i.size, d, a) BY <1>5, <1>6 DEF d
<1> QED BY <1>1, <1>2, <1>3, <1>5, <1>7 DEF a, c, d

LEMMA LeaForm ==
  ASSUME NEW i, NEW R, NEW D, i \in Leas(R, D)
  PROVE  /\ RewriteLea(i) =
              LoadAddr(i.addr)
                \o (<<Lea(InReg(i.dst, ScratchAfterAddr(i.addr)), MapAddr(i.addr))>>
                      \o SpillStore(i.dst, X64, ScratchAfterAddr(i.addr)))
         /\ i = Lea(i.dst, i.addr)
<1> DEFINE a == MapAddr(i.addr)
           c == ScratchAfterAddr(i.addr)
           j == [i EXCEPT !.addr = a]
           d == InReg(i.dst, c)
<1>1. i = Lea(i.dst, i.addr) BY DEF Leas, Lea
<1>2. RewriteLea(i) = LoadAddr(i.addr) \o WriteToDst(j, X64, c) BY DEF RewriteLea
<1>3. WriteToDst(j, X64, c) = <<[j EXCEPT !.dst = InReg(j.dst, c)]>> \o SpillStore(j.dst, X64, c) BY DEF WriteToDst
<1> HIDE DEF a, c
<1>4. j = Lea(i.dst, a) BY <1>1 DEF Lea
<1>5. j.dst = i.dst BY <1>4 DEF Lea
<1> HIDE DEF j, d
<1>6. [j EXCEPT !.dst = d] = Lea(d, a) BY <1>4 DEF Lea
<1>7. [j EXCEPT !.dst = InReg(j.dst, c)] = Lea(d, a) BY <1>5, <1>6 DEF d
<1> QED BY <1>1, <1>2, <1>3, <1>5, <1>7 DEF a, c, d

LEMMA GepForm ==
  ASSUME NEW i \in Geps(Virtual)
  PROVE  /\ RewriteGep(i) =
              SpillLoad(i.base, X64, SCRATCH0) \o LoadOperand(i.index, W32, ScratchAfterBase(i.base))
                \o (<<Gep(InReg(i.dst, ScratchAfterBase(i.base)), InReg(i.base, SCRATCH0),
                          MapOperand(i.index, ScratchAfterBase(i.base)), i.scale)>>
                      \o SpillStore(i.dst, X64, ScratchAfterBase(i.base)))
         /\ i = Gep(i.dst, i.base, i.index, i.scale)
<1> DEFINE c == ScratchAfterBase(i.base)
           b == InReg(i.base, SCRATCH0)
           o == MapOperand(i.index, c)
           d == InReg(i.dst, c)
           j == [i EXCEPT !.base = b, !.index = o]
<1>1. i = Gep(i.dst, i.base, i.index, i.scale) BY DEF Geps, Gep
<1>2. RewriteGep(i) = SpillLoad(i.base, X64, SCRATCH0) \o LoadOperand(i.index, W32, c)
                          \o WriteToDst(j, X64, c) BY DEF RewriteGep
<1>3. WriteToDst(j, X64, c) = <<[j EXCEPT !.dst = InReg(j.dst, c)]>> \o SpillStore(j.dst, X64, c) BY DEF WriteToDst
<1> HIDE DEF b, o, c
<1>4. j = Gep(i.dst, b, o, i.scale)
 <2> DEFINE h == [i EXCEPT !.base = b]
 <2>1. h = Gep(i.dst, b, i.index, i.scale) BY <1>1 DEF Gep
 <2>2. j = [h EXCEPT !.index = o] OBVIOUS
 <2> HIDE DEF h, j
 <2> QED BY <2>1, <2>2 DEF Gep
<1>5. j.dst = i.dst BY <1>4 DEF Gep
<1> HIDE DEF j, d
<1>6. [j EXCEPT !.dst = d] = Gep(d, b, o, i.scale) BY <1>4 DEF Gep
<1>7. [j EXCEPT !.dst = InReg(j.dst, c)] = Gep(d, b, o, i.scale) BY <1>5, <1>6 DEF d
<1> QED BY <1>1, <1>2, <1>3, <1>5, <1>7 DEF b, o, c, d
-----------------------------------------------------------------------------
DstOf(i) == IF i.op \in {"Mov", "BinOp", "Ldr", "Lea", "Gep"} THEN {i.dst} ELSE {}
Writing(W) == {i \in PInsts : DstOf(i) \subseteq W /\ (MovedLiteralsFit => MoveFits(i))}

LEMMA PhysicalShapes ==
  ASSUME NEW n \in Sizes, NEW d \in General
  PROVE  /\ \A o \in Immediates(Int) \cup InRegisters(General) : Mov(n, d, o) \in PInsts
         /\ \A a \in OffBase({FP}, Int) \cup OffBase(General, {0}) \cup AtSymbol : Ldr(n, d, a) \in PInsts
         /\ \A a \in OffBase({FP, SP}, Int) \cup OffBase(General, {0}) \cup AtSymbol : Str(n, d, a) \in PInsts
         /\ \A a \in OffBase({FP} \cup General, Int) \cup AtSymbol : Lea(d, a) \in PInsts
<1>1. \A o \in Immediates(Int) \cup InRegisters(General) : Mov(n, d, o) \in PInsts BY DEF PInsts, Insts, Movs, Mov
<1>2. \A a \in OffBase({FP}, Int) \cup OffBase(General, {0}) \cup AtSymbol : Ldr(n, d, a) \in PInsts
  BY DEF PInsts, Insts, Ldrs, Ldr
<1>3. \A a \in OffBase({FP, SP}, Int) \cup OffBase(General, {0}) \cup AtSymbol : Str(n, d, a) \in PInsts
  BY DEF PInsts, Insts, Strs, Str
<1>4. \A a \in OffBase({FP} \cup General, Int) \cup AtSymbol : Lea(d, a) \in PInsts BY DEF PInsts, Insts, Leas, Lea
<1> QED BY <1>1, <1>2, <1>3, <1>4

LEMMA PhysicalArithmetic ==
  ASSUME NEW n \in Sizes, NEW d \in General, NEW l \in General
  PROVE  /\ \A op \in ArithOps, o \in Immediates(Int) \cup InRegisters(General) :
              BinOp(op, n, d, l, o) \in PInsts
         /\ \A o \in Immediates(Int) \cup InRegisters(General) :
              [op |-> "Cmp", size |-> n, lhs |-> l, rhs |-> o] \in PInsts
         /\ \A o \in Immediates(I32Values) \cup InRegisters(General), k \in Nat :
              (d = l => d \notin {SCRATCH0, SCRATCH1}) => Gep(d, l, o, k) \in PInsts
<1>1. \A op \in ArithOps, o \in Immediates(Int) \cup InRegisters(General) :
        BinOp(op, n, d, l, o) \in PInsts BY DEF PInsts, Insts, BinOps, BinOp
<1>2. \A o \in Immediates(Int) \cup InRegisters(General) :
        [op |-> "Cmp", size |-> n, lhs |-> l, rhs |-> o] \in PInsts BY DEF PInsts, Insts, Cmps
<1>3. \A o \in Immediates(I32Values) \cup InRegisters(General), k \in Nat :
        (d = l => d \notin {SCRATCH0, SCRATCH1}) => Gep(d, l, o, k) \in PInsts BY DEF PInsts, Insts, Geps, Gep
<1> QED BY <1>1, <1>2, <1>3

LEMMA SlotAddress ==
  ASSUME NEW r, place[r] \in Frame
  PROVE  /\ LocalAddr(place[r]) \in OffBase({FP}, Int)
         /\ LocalAddr(place[r]) = BaseOff(FP, place[r])
BY FrameAssumption DEF LocalAddr, BaseOff, OffBase, Frame

LEMMA SpillCode ==
  ASSUME NEW r, r \in General \/ (r \in Virtual /\ PlacedRegs({r})), NEW n \in Sizes,
         NEW W, SCRATCH0 \in W, SCRATCH1 \in W
  PROVE  /\ \A c \in {SCRATCH0, SCRATCH1} : SpillLoad(r, n, c) \in Seq(Writing(W))
         /\ \A c \in General : SpillStore(r, n, c) \in Seq(Writing(W))
<1>1. CASE Spilled(r)
 <2> DEFINE a == LocalAddr(place[r])
 <2>1. place[r] \in Frame BY <1>1, InRegGeneral
 <2>2. a \in OffBase({FP}, Int) BY <2>1, SlotAddress
 <2>3. \A c : SpillLoad(r, n, c) = <<Ldr(n, c, a)>> /\ SpillStore(r, n, c) = <<Str(n, c, a)>> BY <1>1 DEF SpillLoad, SpillStore
 <2> HIDE DEF a
 <2>4. a \in OffBase({FP}, Int) \cup OffBase(General, {0}) \cup AtSymbol
       /\ a \in OffBase({FP, SP}, Int) \cup OffBase(General, {0}) \cup AtSymbol BY <2>2 DEF OffBase
 <2>5. \A c \in {SCRATCH0, SCRATCH1} : Ldr(n, c, a) \in Writing(W)
  <3>1. \A c \in {SCRATCH0, SCRATCH1} : Ldr(n, c, a) \in PInsts BY <2>4, PhysicalShapes, NumbersOfRegisters
  <3>2. \A c \in {SCRATCH0, SCRATCH1} : DstOf(Ldr(n, c, a)) \subseteq W BY DEF DstOf, Ldr
  <3> QED BY <3>1, <3>2, OthersFit DEF Writing
 <2>6. \A c \in General : Str(n, c, a) \in Writing(W)
  <3>1. \A c \in General : Str(n, c, a) \in PInsts BY <2>4, PhysicalShapes
  <3>2. \A c \in General : DstOf(Str(n, c, a)) = {} BY DEF DstOf, Str
  <3> QED BY <3>1, <3>2, OthersFit DEF Writing
 <2>7. \A S : \A x \in S : <<x>> \in Seq(S) OBVIOUS
 <2>8. \A c \in {SCRATCH0, SCRATCH1} : SpillLoad(r, n, c) \in Seq(Writing(W)) BY <2>3, <2>5, <2>7
 <2>9. \A c \in General : SpillStore(r, n, c) \in Seq(Writing(W)) BY <2>3, <2>6, <2>7
 <2> QED BY <2>8, <2>9
<1>2. CASE ~Spilled(r) BY <1>2 DEF SpillLoad, SpillStore
<1> QED BY <1>1, <1>2

LEMMA OperandCode ==
  ASSUME NEW I, NEW o \in Immediates(I) \cup InRegisters(Virtual), PlacedRegs(OperandRegs(o)),
         NEW n \in Sizes, NEW c \in {SCRATCH0, SCRATCH1}, NEW W, SCRATCH0 \in W, SCRATCH1 \in W
  PROVE  /\ LoadOperand(o, n, c) \in Seq(Writing(W))
         /\ MapOperand(o, c) \in Immediates(I) \cup InRegisters(General)
         /\ o.kind = "imm" => MapOperand(o, c) = o /\ LoadOperand(o, n, c) = <<>> /\ o.val \in I
         /\ o.kind # "imm" => /\ o = Reg(o.val) /\ o.val \in Virtual /\ PlacedRegs({o.val})
                              /\ o.kind = "reg"
                              /\ MapOperand(o, c) = Reg(InReg(o.val, c))
                              /\ LoadOperand(o, n, c) = SpillLoad(o.val, n, c)
<1>1. CASE o \in Immediates(I)
 <2>1. o.kind = "imm" /\ o.val \in I BY <1>1 DEF Immediates
 <2>2. LoadOperand(o, n, c) = <<>> /\ MapOperand(o, c) = o BY <2>1 DEF LoadOperand, MapOperand
 <2> QED BY <1>1, <2>1, <2>2
<1>2. CASE o \in InRegisters(Virtual)
 <2>1. o.kind = "reg" /\ o.val \in Virtual /\ o = Reg(o.val) BY <1>2 DEF InRegisters, Reg
 <2>2. PlacedRegs({o.val}) BY <2>1 DEF OperandRegs
 <2>3. LoadOperand(o, n, c) = SpillLoad(o.val, n, c) /\ MapOperand(o, c) = Reg(InReg(o.val, c))
   BY <2>1 DEF LoadOperand, MapOperand
 <2>4. SpillLoad(o.val, n, c) \in Seq(Writing(W)) BY <2>1, <2>2, SpillCode
 <2>5. InReg(o.val, c) \in General BY <2>1, <2>2, InRegGeneral
 <2>6. Reg(InReg(o.val, c)) \in InRegisters(General) BY <2>5 DEF Reg, InRegisters
 <2> QED BY <2>1, <2>2, <2>3, <2>4, <2>6
<1> QED BY <1>1, <1>2

LEMMA JoinTwo ==
  ASSUME NEW S, NEW j \in S, NEW c \in Seq(S), NEW e \in Seq(S)
  PROVE  c \o (<<j>> \o e) \in Seq(S) /\ <<j>> \o e \in Seq(S) /\ <<j>> \in Seq(S)
<1>1. <<j>> \in Seq(S) OBVIOUS
<1>2. <<j>> \o e \in Seq(S) BY <1>1
<1> QED BY <1>1, <1>2

LEMMA JoinThree == ASSUME NEW S, NEW c \in Seq(S), NEW d \in Seq(S), NEW e \in Seq(S) PROVE c \o d \o e \in Seq(S)
<1>1. c \o d \in Seq(S) OBVIOUS
<1> QED BY <1>1

LEMMA RewriteMovCode ==
  ASSUME NEW D, NEW R, NEW i \in Movs(D, R), D \subseteq Virtual \cup General, R \subseteq Virtual \cup General,
         PlacedRegs({i.dst}), PlacedRegs(OperandRegs(i.src)),
         NEW W, SCRATCH0 \in W, SCRATCH1 \in W, ~Spilled(i.dst) => MapReg(i.dst) \in W,
         MovedLiteralsFit => MoveFits(i)
  PROVE  /\ RewriteMov(i) \in Seq(Writing(W))
         /\ i = Mov(i.size, i.dst, i.src)
<1> DEFINE n == i.size
           d == i.dst
           o == i.src
           s == MapOperand(o, SCRATCH1)
           l == LoadOperand(o, n, SCRATCH1)
<1>1. i = Mov(n, d, o) /\ n \in Sizes /\ d \in D /\ o \in Immediates(Int) \cup InRegisters(R) BY DEF Movs, Mov
<1>2. RewriteMov(i) =
        CASE ~Spilled(d) -> l \o <<Mov(n, MapReg(d), s)>>
          [] Spilled(d) /\ s.kind = "reg" -> l \o SpillStore(d, n, s.val)
          [] OTHER -> <<Mov(n, SCRATCH0, s)>> \o SpillStore(d, n, SCRATCH0) BY DEF RewriteMov
<1>3. d \in General \/ (d \in Virtual /\ PlacedRegs({d})) BY <1>1
<1>4. /\ l \in Seq(Writing(W))
      /\ s \in Immediates(Int) \cup InRegisters(General)
      /\ s.kind = "imm" => s = o
      /\ s.kind = "reg" => s.val \in General
 <2>1. CASE o \in Immediates(Int)
  <3>1. o.kind = "imm" BY <2>1 DEF Immediates
  <3>2. s = o /\ l = <<>> BY <3>1 DEF MapOperand, LoadOperand
  <3> QED BY <2>1, <3>1, <3>2
 <2>2. CASE o \in InRegisters(R)
  <3>1. o.kind = "reg" /\ o.val \in R BY <2>2 DEF InRegisters
  <3>2. PlacedRegs({o.val}) BY <3>1 DEF OperandRegs
  <3>3. o.val \in General \/ (o.val \in Virtual /\ PlacedRegs({o.val})) BY <3>1, <3>2
  <3>4. s = Reg(InReg(o.val, SCRATCH1)) /\ l = SpillLoad(o.val, n, SCRATCH1) BY <3>1 DEF MapOperand, LoadOperand
  <3>5. InReg(o.val, SCRATCH1) \in General BY <3>3, InRegGeneral
  <3>6. SpillLoad(o.val, n, SCRATCH1) \in Seq(Writing(W)) BY <1>1, <3>3, SpillCode
  <3>7. s \in InRegisters(General) /\ s.kind = "reg" /\ s.val \in General BY <3>4, <3>5 DEF Reg, InRegisters
  <3> QED BY <3>4, <3>6, <3>7
 <2> QED BY <1>1, <2>1, <2>2
<1> HIDE DEF l, s, d, n, o
<1>5. ASSUME NEW e \in General, e \in W PROVE Mov(n, e, s) \in Writing(W)
 <2>1. Mov(n, e, s) \in PInsts BY <1>1, <1>4, PhysicalShapes
 <2>2. DstOf(Mov(n, e, s)) \subseteq W BY <1>5 DEF DstOf, Mov
 <2>3. MovedLiteralsFit => MoveFits(Mov(n, e, s))
  <3>1. CASE s.kind = "imm"
   <4>1. s = o BY <1>4, <3>1
   <4>2. MovedLiteralsFit => LiteralFits(o.val, n) BY <1>1, <3>1, <4>1 DEF MoveFits, Mov
   <4> QED BY <4>1, <4>2 DEF MoveFits, Mov
  <3>2. CASE s.kind # "imm" BY <3>2 DEF MoveFits, Mov
  <3> QED BY <3>1, <3>2
 <2> QED BY <2>1, <2>2, <2>3 DEF Writing
<1>6. CASE ~Spilled(d)
 <2>1. MapReg(d) \in General /\ MapReg(d) \in W
  <3>1. InReg(d, SCRATCH0) \in General /\ InReg(d, SCRATCH0) = MapReg(d) BY <1>3, <1>6, InRegGeneral
  <3> QED BY <1>6, <3>1 DEF d
 <2> DEFINE j == Mov(n, MapReg(d), s)
 <2>2. j \in Writing(W) BY <1>5, <2>1
 <2>3. RewriteMov(i) = l \o <<j>> BY <1>2, <1>6
 <2> HIDE DEF j
 <2>4. <<j>> \in Seq(Writing(W)) BY <2>2
 <2> QED BY <1>1, <1>4, <2>3, <2>4 DEF n, d, o
<1>7. CASE Spilled(d) /\ s.kind = "reg"
 <2> DEFINE e == SpillStore(d, n, s.val)
 <2>1. e \in Seq(Writing(W)) BY <1>1, <1>3, <1>4, <1>7, SpillCode
 <2>2. RewriteMov(i) = l \o e BY <1>2, <1>7
 <2> HIDE DEF e
 <2> QED BY <1>1, <1>4, <2>1, <2>2 DEF n, d, o
<1>8. CASE Spilled(d) /\ s.kind # "reg"
 <2> DEFINE e == SpillStore(d, n, SCRATCH0)
            j == Mov(n, SCRATCH0, s)
 <2>1. e \in Seq(Writing(W)) BY <1>1, <1>3, NumbersOfRegisters, SpillCode
 <2>2. RewriteMov(i) = <<j>> \o e BY <1>2, <1>8
 <2>3. j \in Writing(W) BY <1>5, NumbersOfRegisters
 <2> HIDE DEF e, j
 <2>4. <<j>> \o e \in Seq(Writing(W)) BY <2>1, <2>3, JoinTwo
 <2> QED BY <1>1, <2>2, <2>4 DEF n, d, o
<1> QED BY <1>6, <1>7, <1>8

LEMMA RewriteBinOpCode ==
  ASSUME NEW i \in BinOps(Virtual), PlacedRegs(Concerns(i)),
         NEW W, SCRATCH0 \in W, SCRATCH1 \in W, ~Spilled(i.dst) => MapReg(i.dst) \in W
  PROVE  RewriteBinop(i) \in Seq(Writing(W))
<1> DEFINE n == i.size
           d == InReg(i.dst, SCRATCH0)
           l == InReg(i.lhs, SCRATCH0)
           o == MapOperand(i.rhs, SCRATCH1)
           c == SpillLoad(i.lhs, n, SCRATCH0)
           e == LoadOperand(i.rhs, n, SCRATCH1)
           f == SpillStore(i.dst, n, SCRATCH0)
           j == BinOp(i.binop, n, d, l, o)
<1>1. RewriteBinop(i) = c \o e \o (<<j>> \o f) BY BinOpForm
<1>2. /\ n \in Sizes /\ i.dst \in Virtual /\ i.lhs \in Virtual /\ i.binop \in ArithOps
      /\ i.rhs \in Immediates(Int) \cup InRegisters(Virtual)
      /\ i.op = "BinOp" BY DEF BinOps
<1>3. PlacedRegs({i.dst}) /\ PlacedRegs({i.lhs}) /\ PlacedRegs(OperandRegs(i.rhs))
 <2>1. IsVReg(i.dst) BY <1>2 DEF Virtual
 <2>2. DefinedVreg(i) = {i.dst} BY <1>2, <2>1 DEF DefinedVreg
 <2>3. UsedVregs(i) = {r \in {i.lhs} \cup OperandRegs(i.rhs) : IsVReg(r)} BY <1>2 DEF UsedVregs
 <2> QED BY <2>2, <2>3 DEF Concerns, PlacedRegs
<1>4. c \in Seq(Writing(W)) /\ f \in Seq(Writing(W)) BY <1>2, <1>3, SpillCode, NumbersOfRegisters
<1>5. e \in Seq(Writing(W)) /\ o \in Immediates(Int) \cup InRegisters(General) BY <1>2, <1>3, OperandCode
<1>6. d \in General /\ l \in General /\ d \in W BY <1>2, <1>3, InRegGeneral
<1> HIDE DEF n, d, l, o, c, e, f
<1>7. j \in Writing(W)
 <2>1. j \in PInsts BY <1>2, <1>5, <1>6, PhysicalArithmetic DEF n
 <2>2. DstOf(j) \subseteq W BY <1>6 DEF DstOf, BinOp
 <2> QED BY <2>1, <2>2, OthersFit DEF Writing
<1> HIDE DEF j
<1>8. <<j>> \o f \in Seq(Writing(W)) BY <1>4, <1>7, JoinTwo
<1> QED BY <1>1, <1>4, <1>5, <1>8, JoinThree

LEMMA RewriteCmpCode ==
  ASSUME NEW i \in Cmps(Virtual), PlacedRegs(Concerns(i)), NEW W, SCRATCH0 \in W, SCRATCH1 \in W
  PROVE  RewriteCmp(i) \in Seq(Writing(W))
<1> DEFINE n == i.size
           l == InReg(i.lhs, SCRATCH0)
           o == MapOperand(i.rhs, SCRATCH1)
           c == SpillLoad(i.lhs, n, SCRATCH0)
           e == LoadOperand(i.rhs, n, SCRATCH1)
           j == [op |-> "Cmp", size |-> n, lhs |-> l, rhs |-> o]
<1>1. RewriteCmp(i) = c \o e \o <<j>> BY CmpForm
<1>2. /\ n \in Sizes /\ i.lhs \in Virtual /\ i.op = "Cmp"
      /\ i.rhs \in Immediates(Int) \cup InRegisters(Virtual) BY DEF Cmps
<1>3. PlacedRegs({i.lhs}) /\ PlacedRegs(OperandRegs(i.rhs))
 <2>3. UsedVregs(i) = {r \in {i.lhs} \cup OperandRegs(i.rhs) : IsVReg(r)} BY <1>2 DEF UsedVregs
 <2> QED BY <2>3 DEF Concerns, PlacedRegs
<1>4. c \in Seq(Writing(W)) BY <1>2, <1>3, SpillCode, NumbersOfRegisters
<1>5. e \in Seq(Writing(W)) /\ o \in Immediates(Int) \cup InRegisters(General) BY <1>2, <1>3, OperandCode
<1>6. l \in General BY <1>2, <1>3, InRegGeneral
<1> HIDE DEF n, l, o, c, e
<1>7. j \in Writing(W)
 <2>1. j \in PInsts BY <1>2, <1>5, <1>6, PhysicalArithmetic DEF n
 <2>2. DstOf(j) \subseteq W /\ MoveFits(j) BY DEF DstOf, MoveFits
 <2> QED BY <2>1, <2>2 DEF Writing
<1> HIDE DEF j
<1>8. <<j>> \in Seq(Writing(W)) BY <1>7
<1> QED BY <1>1, <1>4, <1>5, <1>8, JoinThree

LEMMA AddrCode ==
  ASSUME NEW a \in VAddress, PlacedRegs(AddrRegs(a)), NEW W, SCRATCH0 \in W, SCRATCH1 \in W
  PROVE  /\ LoadAddr(a) \in Seq(Writing(W))
         /\ ScratchAfterAddr(a) \in {SCRATCH0, SCRATCH1}
<1>1. a \in OffBase({FP, SP}, Int) \cup OffBase(Virtual, Int) \cup AtSymbol BY DEF VAddress
<1>2. CASE a.kind = "global"
 <2>1. LoadAddr(a) = <<>> /\ ScratchAfterAddr(a) = SCRATCH0 BY <1>2 DEF LoadAddr, ScratchAfterAddr
 <2> QED BY <2>1
<1>3. CASE a.kind # "global"
 <2>1. a.base \in {FP, SP} \cup Virtual /\ LoadAddr(a) = SpillLoad(a.base, X64, SCRATCH0)
       /\ ScratchAfterAddr(a) = ScratchAfterBase(a.base)
       /\ (a.base \in Virtual => PlacedRegs({a.base})) BY <1>1, <1>3, MapAddrShape
 <2>2. ScratchAfterBase(a.base) \in {SCRATCH0, SCRATCH1} BY DEF ScratchAfterBase
 <2>3. X64 \in Sizes BY DEF Sizes
 <2>4. CASE a.base \in Virtual
  <3>1. SpillLoad(a.base, X64, SCRATCH0) \in Seq(Writing(W)) BY <2>1, <2>3, <2>4, SpillCode
  <3> QED BY <2>1, <2>2, <3>1
 <2>5. CASE a.base \in {FP, SP}
  <3>1. ~Spilled(a.base) BY <2>5, OutsideTheRegisters
  <3>2. SpillLoad(a.base, X64, SCRATCH0) = <<>> BY <3>1 DEF SpillLoad
  <3> QED BY <2>1, <2>2, <3>2
 <2> QED BY <2>1, <2>4, <2>5
<1> QED BY <1>2, <1>3

LEMMA RewriteLdrCode ==
  ASSUME NEW i \in Ldrs(Virtual), PlacedRegs(Concerns(i)),
         NEW W, SCRATCH0 \in W, SCRATCH1 \in W, ~Spilled(i.dst) => MapReg(i.dst) \in W
  PROVE  RewriteLdr(i) \in Seq(Writing(W))
<1> DEFINE n == i.size
           k == ScratchAfterAddr(i.addr)
           d == InReg(i.dst, k)
           a == MapAddr(i.addr)
           c == LoadAddr(i.addr)
           f == SpillStore(i.dst, n, k)
           j == Ldr(n, d, a)
<1>1. RewriteLdr(i) = c \o (<<j>> \o f) BY LdrForm
<1>2. /\ n \in Sizes /\ i.dst \in Virtual /\ i.op = "Ldr"
      /\ i.addr \in OffBase({FP}, Int) \cup OffBase(Virtual, {0}) \cup AtSymbol
      /\ i.addr \in VAddress BY DEF Ldrs, VAddress, OffBase
<1>3. PlacedRegs({i.dst}) /\ PlacedRegs(AddrRegs(i.addr))
 <2>1. IsVReg(i.dst) BY <1>2 DEF Virtual
 <2>2. DefinedVreg(i) = {i.dst} BY <1>2, <2>1 DEF DefinedVreg
 <2>3. UsedVregs(i) = {r \in AddrRegs(i.addr) : IsVReg(r)} BY <1>2 DEF UsedVregs
 <2> QED BY <2>2, <2>3 DEF Concerns, PlacedRegs
<1>4. c \in Seq(Writing(W)) /\ k \in {SCRATCH0, SCRATCH1} BY <1>2, <1>3, AddrCode
<1>5. f \in Seq(Writing(W)) BY <1>2, <1>3, <1>4, SpillCode, NumbersOfRegisters
<1>6. d \in General /\ d \in W BY <1>2, <1>3, <1>4, InRegGeneral
<1>7. a \in OffBase({FP}, Int) \cup OffBase(General, {0}) \cup AtSymbol BY <1>2, <1>3, MapAddrShape DEF VAddress
<1> HIDE DEF n, d, k, a, c, f
<1>8. j \in Writing(W)
 <2>1. j \in PInsts BY <1>2, <1>6, <1>7, PhysicalShapes DEF n
 <2>2. DstOf(j) \subseteq W BY <1>6 DEF DstOf, Ldr
 <2> QED BY <2>1, <2>2, OthersFit DEF Writing
<1> HIDE DEF j
<1> QED BY <1>1, <1>4, <1>5, <1>8, JoinTwo

LEMMA RewriteStrCode ==
  ASSUME NEW i \in Strs(Virtual, Virtual \cup {SCRATCH0}), PlacedRegs(Concerns(i)),
         NEW W, SCRATCH0 \in W, SCRATCH1 \in W
  PROVE  /\ RewriteStr(i) \in Seq(Writing(W))
         /\ i = Str(i.size, i.src, i.addr)
<1> DEFINE n == i.size
           k == ScratchAfterAddr(i.addr)
           d == InReg(i.src, k)
           a == MapAddr(i.addr)
           c == LoadAddr(i.addr)
           e == SpillLoad(i.src, n, k)
           j == Str(n, d, a)
<1>1. RewriteStr(i) = c \o e \o <<j>> BY DEF RewriteStr
<1>2. /\ n \in Sizes /\ i.src \in Virtual \cup {SCRATCH0} /\ i.op = "Str"
      /\ i.addr \in OffBase({FP, SP}, Int) \cup OffBase(Virtual, {0}) \cup AtSymbol
      /\ i.addr \in VAddress
      /\ i = Str(i.size, i.src, i.addr) BY DEF Strs, VAddress, OffBase, Str
<1>3. PlacedRegs({i.src}) /\ PlacedRegs(AddrRegs(i.addr))
 <2>3. UsedVregs(i) = {r \in {i.src} \cup AddrRegs(i.addr) : IsVReg(r)} BY <1>2 DEF UsedVregs
 <2> QED BY <2>3 DEF Concerns, PlacedRegs
<1>4. c \in Seq(Writing(W)) /\ k \in {SCRATCH0, SCRATCH1} BY <1>2, <1>3, AddrCode
<1>5. i.src \in General \/ (i.src \in Virtual /\ PlacedRegs({i.src})) BY <1>2, <1>3, NumbersOfRegisters
<1>6. e \in Seq(Writing(W)) /\ d \in General BY <1>2, <1>4, <1>5, SpillCode, InRegGeneral
<1>7. a \in OffBase({FP, SP}, Int) \cup OffBase(General, {0}) \cup AtSymbol BY <1>2, <1>3, MapAddrShape DEF VAddress
<1> HIDE DEF n, d, k, a, c, e
<1>8. j \in Writing(W)
 <2>1. j \in PInsts BY <1>2, <1>6, <1>7, PhysicalShapes DEF n
 <2>2. DstOf(j) \subseteq W BY <1>6 DEF DstOf, Str
 <2> QED BY <2>1, <2>2, OthersFit DEF Writing
<1> HIDE DEF j
<1>9. <<j>> \in Seq(Writing(W)) BY <1>8
<1> QED BY <1>1, <1>2, <1>4, <1>6, <1>9, JoinThree

LEMMA RewriteLeaCode ==
  ASSUME NEW R, NEW D, NEW i \in Leas(R, D), R \subseteq Virtual, D \subseteq Virtual \cup General,
         PlacedRegs({i.dst}), PlacedRegs(AddrRegs(i.addr)),
         NEW W, SCRATCH0 \in W, SCRATCH1 \in W, ~Spilled(i.dst) => MapReg(i.dst) \in W
  PROVE  RewriteLea(i) \in Seq(Writing(W))
<1> DEFINE n == X64
           k == ScratchAfterAddr(i.addr)
           d == InReg(i.dst, k)
           a == MapAddr(i.addr)
           c == LoadAddr(i.addr)
           f == SpillStore(i.dst, n, k)
           j == Lea(d, a)
<1>1. RewriteLea(i) = c \o (<<j>> \o f) BY LeaForm
<1>2. /\ n \in Sizes /\ i.dst \in Virtual \cup General
      /\ i.addr \in OffBase({FP} \cup Virtual, Int) \cup AtSymbol
      /\ i.addr \in VAddress BY DEF Leas, VAddress, OffBase, Sizes
<1>3. i.dst \in General \/ (i.dst \in Virtual /\ PlacedRegs({i.dst})) BY <1>2
<1>4. c \in Seq(Writing(W)) /\ k \in {SCRATCH0, SCRATCH1} BY <1>2, AddrCode
<1>5. f \in Seq(Writing(W)) BY <1>2, <1>3, <1>4, SpillCode, NumbersOfRegisters
<1>6. d \in General /\ d \in W BY <1>2, <1>3, <1>4, InRegGeneral
<1>7. a \in OffBase({FP} \cup General, Int) \cup AtSymbol BY <1>2, MapAddrShape DEF VAddress
<1> HIDE DEF n, d, k, a, c, f
<1>8. j \in Writing(W)
 <2>1. j \in PInsts BY <1>2, <1>6, <1>7, PhysicalShapes
 <2>2. DstOf(j) \subseteq W BY <1>6 DEF DstOf, Lea
 <2> QED BY <2>1, <2>2, OthersFit DEF Writing
<1> HIDE DEF j
<1> QED BY <1>1, <1>4, <1>5, <1>8, JoinTwo

LEMMA RewriteGepCode ==
  ASSUME NEW i \in Geps(Virtual), PlacedRegs(Concerns(i)),
         NEW W, SCRATCH0 \in W, SCRATCH1 \in W, ~Spilled(i.dst) => MapReg(i.dst) \in W
  PROVE  RewriteGep(i) \in Seq(Writing(W))
<1> DEFINE k == ScratchAfterBase(i.base)
           d == InReg(i.dst, k)
           b == InReg(i.base, SCRATCH0)
           o == MapOperand(i.index, k)
           c == SpillLoad(i.base, X64, SCRATCH0)
           e == LoadOperand(i.index, W32, k)
           f == SpillStore(i.dst, X64, k)
           j == Gep(d, b, o, i.scale)
<1>1. RewriteGep(i) = c \o e \o (<<j>> \o f) BY GepForm
<1>2. /\ i.dst \in Virtual /\ i.base \in Virtual /\ i.scale \in Nat /\ i.op = "Gep"
      /\ i.index \in Immediates(I32Values) \cup InRegisters(Virtual)
      /\ W32 \in Sizes /\ X64 \in Sizes BY DEF Geps, Sizes
<1>3. PlacedRegs({i.dst}) /\ PlacedRegs({i.base}) /\ PlacedRegs(OperandRegs(i.index))
 <2>1. IsVReg(i.dst) BY <1>2 DEF Virtual
 <2>2. DefinedVreg(i) = {i.dst} BY <1>2, <2>1 DEF DefinedVreg
 <2>3. UsedVregs(i) = {r \in {i.base} \cup OperandRegs(i.index) : IsVReg(r)} BY <1>2 DEF UsedVregs
 <2> QED BY <2>2, <2>3 DEF Concerns, PlacedRegs
<1>4. k \in {SCRATCH0, SCRATCH1} /\ (k = SCRATCH0 <=> ~Spilled(i.base)) BY NumbersOfRegisters DEF ScratchAfterBase
<1>5. c \in Seq(Writing(W)) /\ f \in Seq(Writing(W)) BY <1>2, <1>3, <1>4, SpillCode, NumbersOfRegisters
<1>6. e \in Seq(Writing(W)) /\ o \in Immediates(I32Values) \cup InRegisters(General) BY <1>2, <1>3, <1>4, OperandCode
<1>7. d \in General /\ b \in General /\ d \in W BY <1>2, <1>3, <1>4, InRegGeneral
<1>8. d = b => d \notin {SCRATCH0, SCRATCH1}
 <2>1. CASE Spilled(i.base)
  <3>1. b = SCRATCH0 /\ k = SCRATCH1 BY <1>2, <1>3, <1>4, <2>1, InRegGeneral
  <3>2. d = SCRATCH1 \/ d \in Registers BY <1>2, <1>3, <1>4, <3>1, InRegGeneral
  <3> QED BY <3>1, <3>2, NumbersOfRegisters
 <2>2. CASE ~Spilled(i.base)
  <3>1. b \in Registers BY <1>2, <1>3, <2>2, InRegGeneral
  <3> QED BY <3>1, NumbersOfRegisters
 <2> QED BY <2>1, <2>2
<1> HIDE DEF d, k, b, o, c, e, f
<1>9. j \in Writing(W)
 <2>1. j \in PInsts BY <1>2, <1>6, <1>7, <1>8, PhysicalArithmetic
 <2>2. DstOf(j) \subseteq W BY <1>7 DEF DstOf, Gep
 <2> QED BY <2>1, <2>2, OthersFit DEF Writing
<1> HIDE DEF j
<1>10. <<j>> \o f \in Seq(Writing(W)) BY <1>5, <1>9, JoinTwo
<1> QED BY <1>1, <1>5, <1>6, <1>10, JoinThree

(* What InstRewriter makes of an instruction: instructions on processor
   registers, which write the scratch registers and the place of the
   destination. *)
LEMMA RewrittenCode ==
  ASSUME NEW i \in VInsts, PlacedRegs(Concerns(i)),
         NEW W, SCRATCH0 \in W, SCRATCH1 \in W,
         \A d \in DstOf(i) : ~Spilled(d) => MapReg(d) \in W,
         MovedLiteralsFit => MoveFits(i)
  PROVE  RewriteInst(i) \in Seq(Writing(W))
<1> DEFINE D == Virtual \cup {REG_X0, SCRATCH0}
           R == Virtual \cup {REG_X0}
<1>0. D \subseteq Virtual \cup General /\ R \subseteq Virtual \cup General /\ Virtual \subseteq Virtual BY NumbersOfRegisters
<1>1. CASE i \in Movs(D, R)
 <2>1. i.op = "Mov" /\ i.dst \in D BY <1>1 DEF Movs
 <2>2. RewriteInst(i) = RewriteMov(i) BY <2>1 DEF RewriteInst
 <2>3. PlacedRegs({i.dst}) /\ PlacedRegs(OperandRegs(i.src)) BY <2>1 DEF Concerns, PlacedRegs, UsedVregs, DefinedVreg
 <2>4. ~Spilled(i.dst) => MapReg(i.dst) \in W BY <2>1 DEF DstOf
 <2> HIDE DEF D, R
 <2>5. RewriteMov(i) \in Seq(Writing(W)) BY <1>0, <1>1, <2>3, <2>4, RewriteMovCode
 <2> QED BY <2>2, <2>5
<1>2. CASE i \in BinOps(Virtual)
 <2>1. i.op = "BinOp" BY <1>2 DEF BinOps
 <2>2. RewriteInst(i) = RewriteBinop(i) BY <2>1 DEF RewriteInst
 <2>3. ~Spilled(i.dst) => MapReg(i.dst) \in W BY <2>1 DEF DstOf
 <2> QED BY <1>2, <2>2, <2>3, RewriteBinOpCode
<1>3. CASE i \in Cmps(Virtual)
 <2>1. i.op = "Cmp" BY <1>3 DEF Cmps
 <2>2. RewriteInst(i) = RewriteCmp(i) BY <2>1 DEF RewriteInst
 <2> QED BY <1>3, <2>2, RewriteCmpCode
<1>4. CASE i \in Ldrs(Virtual)
 <2>1. i.op = "Ldr" BY <1>4 DEF Ldrs
 <2>2. RewriteInst(i) = RewriteLdr(i) BY <2>1 DEF RewriteInst
 <2>3. ~Spilled(i.dst) => MapReg(i.dst) \in W BY <2>1 DEF DstOf
 <2> QED BY <1>4, <2>2, <2>3, RewriteLdrCode
<1>5. CASE i \in Strs(Virtual, Virtual \cup {SCRATCH0})
 <2>1. i.op = "Str" BY <1>5 DEF Strs
 <2>2. RewriteInst(i) = RewriteStr(i) BY <2>1 DEF RewriteInst
 <2> QED BY <1>5, <2>2, RewriteStrCode
<1>6. CASE i \in Leas(Virtual, D)
 <2>1. i.op = "Lea" BY <1>6 DEF Leas
 <2>2. RewriteInst(i) = RewriteLea(i) BY <2>1 DEF RewriteInst
 <2>3. PlacedRegs({i.dst}) /\ PlacedRegs(AddrRegs(i.addr)) BY <2>1 DEF Concerns, PlacedRegs, UsedVregs, DefinedVreg
 <2>4. ~Spilled(i.dst) => MapReg(i.dst) \in W BY <2>1 DEF DstOf
 <2> HIDE DEF D
 <2>5. RewriteLea(i) \in Seq(Writing(W)) BY <1>0, <1>6, <2>3, <2>4, RewriteLeaCode
 <2> QED BY <2>2, <2>5
<1>7. CASE i \in Geps(Virtual)
 <2>1. i.op = "Gep" BY <1>7 DEF Geps
 <2>2. RewriteInst(i) = RewriteGep(i) BY <2>1 DEF RewriteInst
 <2>3. ~Spilled(i.dst) => MapReg(i.dst) \in W BY <2>1 DEF DstOf
 <2> QED BY <1>7, <2>2, <2>3, RewriteGepCode
<1>8. CASE i \in SpMoves \cup Branches
 <2>1. i.op \in {"SubSp", "AddSp", "BCond", "B", "Ret"} BY <1>8 DEF SpMoves, Branches
 <2>2. RewriteInst(i) = <<i>> BY <2>1 DEF RewriteInst
 <2>3. i \in PInsts BY <1>8, <2>1 DEF PInsts, Insts
 <2>4. DstOf(i) = {} BY <2>1 DEF DstOf
 <2>5. i \in Writing(W) BY <2>3, <2>4 DEF Writing
 <2>6. <<i>> \in Seq(Writing(W)) BY <2>5
 <2> QED BY <2>2, <2>6
<1> QED BY <1>1, <1>2, <1>3, <1>4, <1>5, <1>6, <1>7, <1>8 DEF VInsts, Insts
-----------------------------------------------------------------------------
(* What AsmPrinter prints: lines the processor has, which write no register but
   the destination, the scratch registers and sp. *)
WritingOps ==
  {"mov", "mov_imm", "movz", "movk", "add", "sub", "mul", "sdiv", "add_imm", "sub_imm", "add_sxtw",
   "sxtw", "adr", "ldr", "ldur"}
LineWrites(l) == IF l.op \in WritingOps THEN {l.dst} ELSE {}
Fine(W) == {l \in Lines : LineWrites(l) \subseteq W \cup {SP} /\ (MovedLiteralsFit => Encodable(l))}

LEMMA FineLine ==
  ASSUME NEW op \in LineOps, NEW n \in Sizes, NEW d \in Int, NEW l \in Int,
         NEW r \in Int \cup Comparisons, NEW k \in Int, NEW W,
         op \in WritingOps => d \in W \cup {SP},
         MovedLiteralsFit => Encodable(Line(op, n, d, l, r, k))
  PROVE  <<Line(op, n, d, l, r, k)>> \in Seq(Fine(W))
<1> DEFINE x == Line(op, n, d, l, r, k)
<1>1. x \in Lines /\ x.op = op /\ x.dst = d BY DEF Line, Lines
<1> HIDE DEF x
<1>2. LineWrites(x) \subseteq W \cup {SP} BY <1>1 DEF LineWrites
<1>3. x \in Fine(W) BY <1>1, <1>2 DEF Fine, x
<1>4. <<x>> \in Seq(Fine(W)) BY <1>3
<1> QED BY <1>4 DEF x

LEMMA EncodableImmediates ==
  ASSUME NEW k \in Int, IsAddSubImmEncodable(k)
  PROVE  \A op \in {"add_imm", "sub_imm", "cmp_imm"} : \A n, d, l, r : Encodable(Line(op, n, d, l, r, k))
<1>1. ImmLimit \in Nat \ {0} BY MachineAssumption
<1>2. k >= 0 /\ (k <= ImmLimit - 1 \/ (k % ImmLimit = 0 /\ k \div ImmLimit <= ImmLimit - 1)) BY DEF IsAddSubImmEncodable
<1>3. k \div ImmLimit \in Int /\ k \div ImmLimit >= 0
 <2>1. k = (k \div ImmLimit) * ImmLimit + (k % ImmLimit) /\ k \div ImmLimit \in Int
       /\ k % ImmLimit \in 0 .. ImmLimit - 1 BY <1>1, DivMod
 <2> DEFINE q == k \div ImmLimit
            r == k % ImmLimit
 <2> HIDE DEF q, r
 <2>2. k = q * ImmLimit + r /\ q \in Int /\ r \in 0 .. ImmLimit - 1 BY <2>1 DEF q, r
 <2>3. q >= 0 BY <1>1, <1>2, <2>2
 <2> QED BY <2>2, <2>3 DEF q
<1>4. k \in 0 .. ImmLimit - 1 \/ (k % ImmLimit = 0 /\ k \div ImmLimit \in 0 .. ImmLimit - 1)
 <2> DEFINE q == k \div ImmLimit
 <2> HIDE DEF q
 <2> QED BY <1>1, <1>2, <1>3 DEF q
<1>5. ASSUME NEW op \in {"add_imm", "sub_imm", "cmp_imm"}, NEW n, NEW d, NEW l, NEW r
      PROVE  Encodable(Line(op, n, d, l, r, k))
 <2> DEFINE x == Line(op, n, d, l, r, k)
 <2>1. x.op = op /\ x.imm = k BY DEF Line
 <2> HIDE DEF x
 <2>2. Encodable(x) = (\/ x.imm \in 0 .. ImmLimit - 1
                       \/ x.imm % ImmLimit = 0 /\ x.imm \div ImmLimit \in 0 .. ImmLimit - 1) BY <2>1 DEF Encodable
 <2> QED BY <1>4, <2>1, <2>2 DEF x
<1> QED BY <1>5

LEMMA EncodableOthers ==
  /\ \A op \in {"mul", "sdiv"} : \A n, d, l, r, k :
       SP \notin {d, l, r} => Encodable(Line(op, n, d, l, r, k))
  /\ \A op \in {"mov", "add", "sub"} : \A n, d, l, r, k :
       n = X64 \/ d # SP => Encodable(Line(op, n, d, l, r, k))
  /\ \A op \in {"sxtw", "adr", "cmp", "b_cond", "b", "ret"} : \A n, d, l, r, k :
       Encodable(Line(op, n, d, l, r, k))
  /\ \A n, d, l, r : \A k \in {1, 2, 4, 8} : Encodable(Line("add_sxtw", n, d, l, r, k))
BY DEF Encodable, Line

LEMMA EncodableAccesses ==
  ASSUME NEW k \in Int, NEW n \in Sizes
  PROVE  /\ \A op \in {"ldr", "str"} : \A d, l, r :
              k = 0 \/ IsLdrStrOffsetEncodable(n, k) => Encodable(Line(op, n, d, l, r, k))
         /\ \A op \in {"ldur", "stur"} : \A d, l, r :
              IsLdurSturOffsetEncodable(k) => Encodable(Line(op, n, d, l, r, k))
<1>1. ImmLimit \in Nat \ {0} /\ n \in Nat \ {0} BY MachineAssumption DEF Sizes, W32, X64
<1>2. 0 % n = 0 /\ 0 \div n = 0 BY <1>1, ModUnique
<1>3. ASSUME k = 0 \/ IsLdrStrOffsetEncodable(n, k) PROVE k >= 0 /\ k % n = 0 /\ k \div n < ImmLimit
 <2>1. k >= 0 /\ k % n = 0 /\ k \div n <= ImmLimit - 1 BY <1>1, <1>2, <1>3 DEF IsLdrStrOffsetEncodable
 <2>2. k \div n \in Int BY <1>1, DivMod
 <2> DEFINE q == k \div n
 <2> HIDE DEF q
 <2>3. q < ImmLimit BY <1>1, <2>1, <2>2 DEF q
 <2> QED BY <2>1, <2>3 DEF q
<1>4. ASSUME NEW op \in {"ldr", "str"}, NEW d, NEW l, NEW r, k = 0 \/ IsLdrStrOffsetEncodable(n, k)
      PROVE  Encodable(Line(op, n, d, l, r, k))
 <2> DEFINE x == Line(op, n, d, l, r, k)
 <2>1. x.op = op /\ x.imm = k /\ x.size = n BY DEF Line
 <2> HIDE DEF x
 <2>2. Encodable(x) = (x.imm >= 0 /\ x.imm % x.size = 0 /\ x.imm \div x.size < ImmLimit) BY <2>1 DEF Encodable
 <2> QED BY <1>3, <1>4, <2>1, <2>2 DEF x
<1>5. ASSUME NEW op \in {"ldur", "stur"}, NEW d, NEW l, NEW r, IsLdurSturOffsetEncodable(k)
      PROVE  Encodable(Line(op, n, d, l, r, k))
 <2> DEFINE x == Line(op, n, d, l, r, k)
 <2>1. x.op = op /\ x.imm = k BY DEF Line
 <2> HIDE DEF x
 <2>2. Encodable(x) = (x.imm \in -Unscaled .. Unscaled - 1) BY <2>1 DEF Encodable
 <2> QED BY <1>5, <2>1, <2>2 DEF x, IsLdurSturOffsetEncodable
<1> QED BY <1>4, <1>5

LEMMA MovImmEncodable == ASSUME NEW n \in Sizes, NEW d, NEW v \in 0 .. Chunk - 1 PROVE Encodable(MoveImm(n, d, v))
<1>1. Chunk \in Nat /\ Chunk > 1 BY MachineAssumption
<1>2. Modulus(n) \in Nat \ {0} /\ Chunk <= Modulus(n)
 <2>1. Chunk <= Chunk * Chunk BY <1>1
 <2>2. Chunk <= Modulus(W32) /\ Modulus(W32) <= Modulus(X64) /\ Modulus(W32) \in Nat
       /\ Modulus(X64) \in Nat BY <2>1, ModulusFacts
 <2>3. Chunk <= Modulus(X64) BY <1>1, <2>2
 <2> QED BY <2>2, <2>3, ModulusFacts DEF Sizes
<1>3. v % Modulus(n) = v
 <2> DEFINE q == Modulus(n)
 <2>1. q \in Nat \ {0} /\ v \in 0 .. q - 1 BY <1>1, <1>2
 <2> HIDE DEF q
 <2>2. (0 * q + v) % q = v BY <2>1, ModUnique
 <2>3. 0 * q + v = v BY <2>1
 <2> QED BY <2>2, <2>3 DEF q
<1>4. ChunkAt(v, 0) = v /\ Pow(Chunk, 0) = 1
 <2>1. Pow(Chunk, 0) = 1 BY DEF Pow
 <2>2. v \div 1 = v BY <1>1
 <2>3. v % Chunk = v
  <3>1. (0 * Chunk + v) % Chunk = v BY <1>1, ModUnique
  <3>2. 0 * Chunk + v = v BY <1>1
  <3> QED BY <3>1, <3>2
 <2> QED BY <2>1, <2>2, <2>3 DEF ChunkAt
<1>5. OneChunk(v % Modulus(n), n)
 <2>1. v = ChunkAt(v, 0) * Pow(Chunk, 0) BY <1>1, <1>4
 <2>2. \A b \in {1, 3} : 0 \in 0 .. b OBVIOUS
 <2>3. 0 \in 0 .. (IF n = W32 THEN 1 ELSE 3) BY <2>2
 <2>4. OneChunk(v, n) BY <2>1, <2>3 DEF OneChunk
 <2> QED BY <1>3, <2>4
<1> QED BY <1>5 DEF Encodable, MoveImm, Line

LEMMA FineMoves ==
  ASSUME NEW W, NEW d \in Int, d \in W \cup {SP}, NEW l \in Int, NEW n \in Sizes
  PROVE  /\ d # SP \/ n = X64 => <<Move(n, d, l)>> \in Seq(Fine(W))
         /\ \A v \in 0 .. Chunk - 1 : <<MoveImm(n, d, v)>> \in Seq(Fine(W))
         /\ \A v \in Int : (MovedLiteralsFit => LiteralFits(v, n)) => <<MoveImm(n, d, v)>> \in Seq(Fine(W))
         /\ \A a \in Int : <<Adr(d, a)>> \in Seq(Fine(W))
         /\ <<Sxtw(d, l)>> \in Seq(Fine(W))
<1>0. SP \in Int /\ 0 \in Int /\ X64 \in Sizes /\ W32 \in Sizes BY DEF SP, Sizes
<1>1. d # SP \/ n = X64 => <<Move(n, d, l)>> \in Seq(Fine(W))
 <2>1. d # SP \/ n = X64 => Encodable(Line("mov", n, d, SP, l, 0)) BY EncodableOthers
 <2>2. "mov" \in LineOps BY DEF LineOps
 <2> QED BY <1>0, <2>1, <2>2, FineLine DEF Move
<1>2. ASSUME NEW v \in Int, MovedLiteralsFit => Encodable(MoveImm(n, d, v))
      PROVE  <<MoveImm(n, d, v)>> \in Seq(Fine(W))
 <2>1. "mov_imm" \in LineOps BY DEF LineOps
 <2> QED BY <1>0, <1>2, <2>1, FineLine DEF MoveImm
<1>3. \A v \in 0 .. Chunk - 1 : <<MoveImm(n, d, v)>> \in Seq(Fine(W))
 <2>1. \A v \in 0 .. Chunk - 1 : v \in Int BY MachineAssumption
 <2>2. \A v \in 0 .. Chunk - 1 : Encodable(MoveImm(n, d, v)) BY MovImmEncodable
 <2> QED BY <1>2, <2>1, <2>2
<1>4. ASSUME NEW v \in Int, MovedLiteralsFit => LiteralFits(v, n) PROVE <<MoveImm(n, d, v)>> \in Seq(Fine(W))
 <2> DEFINE x == MoveImm(n, d, v)
 <2>1. x.op = "mov_imm" /\ x.imm = v /\ x.size = n BY DEF MoveImm, Line
 <2> HIDE DEF x
 <2>2. LiteralFits(v, n) => Encodable(x) BY <2>1 DEF Encodable, LiteralFits
 <2>3. MovedLiteralsFit => Encodable(x) BY <1>4, <2>2
 <2> QED BY <1>2, <2>3 DEF x
<1>5. \A a \in Int : <<Adr(d, a)>> \in Seq(Fine(W))
 <2>1. \A a : Encodable(Line("adr", X64, d, SP, SP, a)) BY EncodableOthers
 <2>2. "adr" \in LineOps BY DEF LineOps
 <2> QED BY <1>0, <2>1, <2>2, FineLine DEF Adr
<1>6. <<Sxtw(d, l)>> \in Seq(Fine(W))
 <2>1. Encodable(Line("sxtw", X64, d, SP, l, 0)) BY EncodableOthers
 <2>2. "sxtw" \in LineOps BY DEF LineOps
 <2> QED BY <1>0, <2>1, <2>2, FineLine DEF Sxtw
<1> QED BY <1>1, <1>3, <1>4, <1>5, <1>6

LEMMA FineArithmetic ==
  ASSUME NEW W, NEW d \in Int, d \in W \cup {SP}, NEW l \in Int, NEW r \in Int, NEW n \in Sizes
  PROVE  /\ \A op \in {"add", "sub"} : d # SP \/ n = X64 => <<Op3(op, n, d, l, r)>> \in Seq(Fine(W))
         /\ \A op \in {"mul", "sdiv"} : SP \notin {d, l, r} => <<Op3(op, n, d, l, r)>> \in Seq(Fine(W))
<1>0. SP \in Int /\ 0 \in Int /\ {"add", "sub", "mul", "sdiv"} \subseteq LineOps BY DEF SP, LineOps
<1>1. ASSUME NEW op \in {"add", "sub"}, d # SP \/ n = X64 PROVE <<Op3(op, n, d, l, r)>> \in Seq(Fine(W))
 <2>1. Encodable(Line(op, n, d, l, r, 0)) BY <1>1, EncodableOthers
 <2> QED BY <1>0, <2>1, FineLine DEF Op3
<1>2. ASSUME NEW op \in {"mul", "sdiv"}, SP \notin {d, l, r} PROVE <<Op3(op, n, d, l, r)>> \in Seq(Fine(W))
 <2>1. Encodable(Line(op, n, d, l, r, 0)) BY <1>2, EncodableOthers
 <2> QED BY <1>0, <2>1, FineLine DEF Op3
<1> QED BY <1>1, <1>2

LEMMA FineImmediate ==
  ASSUME NEW W, NEW d \in Int, d \in W \cup {SP}, NEW l \in Int, NEW n \in Sizes,
         NEW op \in {"add_imm", "sub_imm"}, NEW k \in Int, IsAddSubImmEncodable(k)
  PROVE  <<OpImm(op, n, d, l, k)>> \in Seq(Fine(W))
<1>1. SP \in Int /\ {"add_imm", "sub_imm"} \subseteq LineOps BY DEF SP, LineOps
<1>2. Encodable(Line(op, n, d, l, SP, k)) BY EncodableImmediates
<1> QED BY <1>1, <1>2, FineLine DEF OpImm

LEMMA FineRest ==
  ASSUME NEW W, NEW l \in Int, NEW r \in Int, NEW n \in Sizes
  PROVE  /\ <<Op3("cmp", n, SP, l, r)>> \in Seq(Fine(W))
         /\ \A k \in Int : IsAddSubImmEncodable(k) => <<OpImm("cmp_imm", n, SP, l, k)>> \in Seq(Fine(W))
         /\ \A k \in Int : <<OpImm("b", X64, SP, SP, k)>> \in Seq(Fine(W))
         /\ \A c \in Comparisons : \A k \in Int : <<Line("b_cond", X64, SP, SP, c, k)>> \in Seq(Fine(W))
         /\ <<OpImm("ret", X64, SP, SP, 0)>> \in Seq(Fine(W))
         /\ \A d \in W \cap Int : \A k \in {1, 2, 4, 8} :
              <<Line("add_sxtw", X64, d, l, r, k)>> \in Seq(Fine(W))
<1>0. /\ SP \in Int /\ 0 \in Int /\ X64 \in Sizes
      /\ {"cmp", "cmp_imm", "b", "b_cond", "ret", "add_sxtw"} \subseteq LineOps
      /\ SP \in W \cup {SP} BY DEF SP, LineOps, Sizes
<1>1. <<Op3("cmp", n, SP, l, r)>> \in Seq(Fine(W))
 <2>1. Encodable(Line("cmp", n, SP, l, r, 0)) BY EncodableOthers
 <2> QED BY <1>0, <2>1, FineLine DEF Op3
<1>2. ASSUME NEW k \in Int, IsAddSubImmEncodable(k) PROVE <<OpImm("cmp_imm", n, SP, l, k)>> \in Seq(Fine(W))
 <2>1. Encodable(Line("cmp_imm", n, SP, l, SP, k)) BY <1>2, EncodableImmediates
 <2> QED BY <1>0, <2>1, FineLine DEF OpImm
<1>3. \A k \in Int : <<OpImm("b", X64, SP, SP, k)>> \in Seq(Fine(W))
 <2>1. \A k : Encodable(Line("b", X64, SP, SP, SP, k)) BY EncodableOthers
 <2> QED BY <1>0, <2>1, FineLine DEF OpImm
<1>4. \A c \in Comparisons : \A k \in Int : <<Line("b_cond", X64, SP, SP, c, k)>> \in Seq(Fine(W))
 <2>1. \A c, k : Encodable(Line("b_cond", X64, SP, SP, c, k)) BY EncodableOthers
 <2> QED BY <1>0, <2>1, FineLine
<1>5. <<OpImm("ret", X64, SP, SP, 0)>> \in Seq(Fine(W))
 <2>1. Encodable(Line("ret", X64, SP, SP, SP, 0)) BY EncodableOthers
 <2> QED BY <1>0, <2>1, FineLine DEF OpImm
<1>6. \A d \in W \cap Int : \A k \in {1, 2, 4, 8} : <<Line("add_sxtw", X64, d, l, r, k)>> \in Seq(Fine(W))
 <2>1. \A d : \A k \in {1, 2, 4, 8} : Encodable(Line("add_sxtw", X64, d, l, r, k)) BY EncodableOthers
 <2>2. \A k \in {1, 2, 4, 8} : k \in Int OBVIOUS
 <2> QED BY <1>0, <2>1, <2>2, FineLine
<1> QED BY <1>1, <1>2, <1>3, <1>4, <1>5, <1>6

LEMMA FineAccesses ==
  ASSUME NEW W, NEW d \in Int, NEW b \in Int, NEW n \in Sizes, NEW k \in Int
  PROVE  /\ k = 0 \/ IsLdrStrOffsetEncodable(n, k) =>
              /\ <<Access("str", n, d, b, k)>> \in Seq(Fine(W))
              /\ d \in W => <<Access("ldr", n, d, b, k)>> \in Seq(Fine(W))
         /\ IsLdurSturOffsetEncodable(k) =>
              /\ <<Access("stur", n, d, b, k)>> \in Seq(Fine(W))
              /\ d \in W => <<Access("ldur", n, d, b, k)>> \in Seq(Fine(W))
<1>0. SP \in Int /\ {"ldr", "str", "ldur", "stur"} \subseteq LineOps BY DEF SP, LineOps
<1>1. ASSUME k = 0 \/ IsLdrStrOffsetEncodable(n, k), NEW op \in {"ldr", "str"}, op = "ldr" => d \in W
      PROVE  <<Access(op, n, d, b, k)>> \in Seq(Fine(W))
 <2>1. Encodable(Line(op, n, d, b, SP, k)) BY <1>1, EncodableAccesses
 <2>2. op \in WritingOps => d \in W \cup {SP} BY <1>1 DEF WritingOps
 <2> QED BY <1>0, <2>1, <2>2, FineLine DEF Access
<1>2. ASSUME IsLdurSturOffsetEncodable(k), NEW op \in {"ldur", "stur"}, op = "ldur" => d \in W
      PROVE  <<Access(op, n, d, b, k)>> \in Seq(Fine(W))
 <2>1. Encodable(Line(op, n, d, b, SP, k)) BY <1>2, EncodableAccesses
 <2>2. op \in WritingOps => d \in W \cup {SP} BY <1>2 DEF WritingOps
 <2> QED BY <1>0, <2>1, <2>2, FineLine DEF Access
<1> QED BY <1>1, <1>2

LEMMA FineMovImm ==
  ASSUME NEW W, NEW d \in W, d \in Int, NEW n \in Sizes, NEW val \in Int PROVE EmitMovImm(n, d, val) \in Seq(Fine(W))
<1> DEFINE q == Modulus(n)
           v == val % q
           S == Fine(W)
<1>1. v \in Nat
 <2>1. q \in Nat \ {0} BY ModulusFacts
 <2> HIDE DEF q
 <2> QED BY <2>1, DivMod
<1>2. ASSUME NEW k \in {0, 1, 2, 3}, n = W32 => k \in {0, 1} PROVE MovChunk(n, d, v, k) \in Seq(S)
 <2> DEFINE T == {l \in Lines : Encodable(l) /\ l.dst = d /\ l.op \in {"movz", "movk"}}
 <2>1. T \subseteq S BY DEF Fine, LineWrites
 <2> HIDE DEF v, S
 <2>2. MovChunk(n, d, v, k) \in Seq(T) BY <1>1, <1>2, MovChunkLines
 <2> HIDE DEF T
 <2>3. Seq(T) \subseteq Seq(S) BY <2>1, SeqWider
 <2> QED BY <2>2, <2>3
<1> DEFINE c0 == MovChunk(n, d, v, 0)
           c1 == MovChunk(n, d, v, 1)
           c2 == MovChunk(n, d, v, 2)
           c3 == MovChunk(n, d, v, 3)
<1>3. c0 \in Seq(S) /\ c1 \in Seq(S) BY <1>2
<1>4. n # W32 => c2 \in Seq(S) /\ c3 \in Seq(S) BY <1>2
<1>5. v <= Chunk - 1 => <<MoveImm(n, d, v)>> \in Seq(S)
 <2> HIDE DEF v, S
 <2>1. v <= Chunk - 1 => v \in 0 .. Chunk - 1 BY <1>1, MachineAssumption
 <2> QED BY <2>1, FineMoves DEF S
<1>6. EmitMovImm(n, d, val) = IF v <= Chunk - 1 THEN <<MoveImm(n, d, v)>>
                              ELSE (c0 \o c1) \o (IF n = W32 THEN <<>> ELSE c2 \o c3) BY DEF EmitMovImm
<1> HIDE DEF v, S, c0, c1, c2, c3
<1>7. c0 \o c1 \in Seq(S) BY <1>3
<1>8. n # W32 => (c0 \o c1) \o (c2 \o c3) \in Seq(S)
 <2>1. n # W32 => c2 \o c3 \in Seq(S) BY <1>4
 <2> DEFINE a == c0 \o c1
            b == c2 \o c3
 <2> HIDE DEF a, b
 <2>2. n # W32 => a \o b \in Seq(S) BY <1>7, <2>1 DEF a, b
 <2> QED BY <2>2 DEF a, b
<1>9. (c0 \o c1) \o <<>> \in Seq(S) BY <1>7
<1> QED BY <1>5, <1>6, <1>8, <1>9 DEF S
-----------------------------------------------------------------------------
LEMMA AbsFacts == ASSUME NEW k \in Int PROVE Abs(k) \in Nat /\ (k # 0 => Abs(k) # 0)
BY DEF Abs

LEMMA RegisterNumbers ==
  /\ \A r \in General : r \in Int /\ r # SP /\ r # FP
  /\ SCRATCH0 \in General /\ SCRATCH1 \in General /\ FP \in Int /\ SP \in Int /\ FP # SP
  /\ SCRATCH0 # SCRATCH1
BY NumbersOfRegisters DEF SP, FP

LEMMA FineAddX ==
  ASSUME NEW W, NEW d \in W, d \in Int, d # SP, NEW b \in Int, NEW k \in Int, NEW c \in W, c \in Int
  PROVE  EmitAddXImmWith(d, b, k, c) \in Seq(Fine(W))
<1>0. X64 \in Sizes BY DEF Sizes
<1>1. CASE k = 0
 <2>1. EmitAddXImmWith(d, b, k, c) = <<Move(X64, d, b)>> BY <1>1 DEF EmitAddXImmWith
 <2> QED BY <1>0, <2>1, FineMoves
<1>2. CASE k # 0 /\ IsAddSubImmEncodable(Abs(k))
 <2> DEFINE op == IF k > 0 THEN "add_imm" ELSE "sub_imm"
 <2>1. EmitAddXImmWith(d, b, k, c) = <<OpImm(op, X64, d, b, Abs(k))>> BY <1>2 DEF EmitAddXImmWith
 <2>2. op \in {"add_imm", "sub_imm"} OBVIOUS
 <2> HIDE DEF op
 <2>3. Abs(k) \in Int BY AbsFacts
 <2> QED BY <1>0, <1>2, <2>1, <2>2, <2>3, FineImmediate
<1>3. CASE k # 0 /\ ~IsAddSubImmEncodable(Abs(k))
 <2> DEFINE x == EmitMovImm(X64, c, Abs(k))
            y == <<Op3(AddOrSub(k), X64, d, b, c)>>
 <2>1. EmitAddXImmWith(d, b, k, c) = x \o y BY <1>3 DEF EmitAddXImmWith
 <2>2. Abs(k) \in Int BY AbsFacts
 <2>3. x \in Seq(Fine(W)) BY <1>0, <2>2, FineMovImm
 <2>4. AddOrSub(k) \in {"add", "sub"} BY DEF AddOrSub
 <2>5. y \in Seq(Fine(W)) BY <1>0, <2>4, FineArithmetic
 <2> HIDE DEF x, y
 <2> QED BY <2>1, <2>3, <2>5
<1> QED BY <1>1, <1>2, <1>3

LEMMA FineAdjustSp ==
  ASSUME NEW W, SCRATCH0 \in W, NEW k \in Nat, NEW op \in {"add", "sub"} PROVE AdjustSp(op, k) \in Seq(Fine(W))
<1>0. X64 \in Sizes /\ SP \in W \cup {SP} /\ SP \in Int /\ k \in Int /\ SCRATCH0 \in Int BY DEF Sizes, SP, SCRATCH0
<1>1. CASE k = 0 BY <1>1 DEF AdjustSp
<1>2. CASE k # 0 /\ IsAddSubImmEncodable(k)
 <2> DEFINE o == IF op = "add" THEN "add_imm" ELSE "sub_imm"
 <2>1. AdjustSp(op, k) = <<OpImm(o, X64, SP, SP, k)>> BY <1>2 DEF AdjustSp
 <2>2. o \in {"add_imm", "sub_imm"} OBVIOUS
 <2> HIDE DEF o
 <2> QED BY <1>0, <1>2, <2>1, <2>2, FineImmediate
<1>3. CASE k # 0 /\ ~IsAddSubImmEncodable(k)
 <2> DEFINE x == EmitMovImm(X64, SCRATCH0, k)
            y == <<Op3(op, X64, SP, SP, SCRATCH0)>>
 <2>1. AdjustSp(op, k) = x \o y BY <1>3 DEF AdjustSp
 <2>2. x \in Seq(Fine(W)) BY <1>0, FineMovImm
 <2>3. y \in Seq(Fine(W)) BY <1>0, FineArithmetic
 <2> HIDE DEF x, y
 <2> QED BY <2>1, <2>2, <2>3
<1> QED BY <1>1, <1>2, <1>3

LEMMA FineViaScratch ==
  ASSUME NEW W, SCRATCH0 \in W, SCRATCH1 \in W, NEW d \in W, d \in General, NEW l \in General,
         NEW n \in Sizes, NEW k \in Int, NEW op \in {"add", "sub", "mul", "sdiv"}
  PROVE  EmitOpViaImmScratch(op, n, d, l, k) \in Seq(Fine(W))
<1> DEFINE c == IF d # l THEN d ELSE OtherScratch(d)
           x == EmitMovImm(n, c, k)
           y == <<Op3(op, n, d, l, c)>>
<1>1. EmitOpViaImmScratch(op, n, d, l, k) = x \o y BY DEF EmitOpViaImmScratch
<1>2. c \in W /\ c \in General BY RegisterNumbers DEF OtherScratch
<1> HIDE DEF c
<1>3. c \in Int /\ d \in Int /\ l \in Int /\ SP \notin {d, l, c} BY <1>2, RegisterNumbers
<1>4. x \in Seq(Fine(W)) BY <1>2, <1>3, FineMovImm
<1>5. y \in Seq(Fine(W))
 <2>1. op \in {"add", "sub"} \/ op \in {"mul", "sdiv"} OBVIOUS
 <2> QED BY <1>3, <2>1, FineArithmetic
<1> HIDE DEF x, y
<1> QED BY <1>1, <1>4, <1>5

LEMMA FinePick ==
  ASSUME NEW r, NEW b
  PROVE  /\ PickFreeScratch({r}) \in {SCRATCH0, SCRATCH1} \ {r}
         /\ PickFreeScratch({r, b}) # NoScratch => PickFreeScratch({r, b}) \in {SCRATCH0, SCRATCH1} \ {r, b}
         /\ PickFreeScratch({r, b}) = NoScratch => {r, b} = {SCRATCH0, SCRATCH1}
         /\ \A d \in {r, b} : PickScratchOrClobberDst({r, b}, d) \in {SCRATCH0, SCRATCH1, d}
BY DEF PickFreeScratch, PickScratchOrClobberDst, SCRATCH0, SCRATCH1, NoScratch

LEMMA NoScratchLeft == ASSUME NEW r, NEW b, PickFreeScratch({r, b}) = NoScratch PROVE {r, b} = {SCRATCH0, SCRATCH1}
BY DEF PickFreeScratch, SCRATCH0, SCRATCH1, NoScratch

LEMMA FineComputeAddr ==
  ASSUME NEW W, NEW d \in W, d \in Int, d # SP, NEW b \in Int, NEW k \in Int
  PROVE  ComputeAddr(d, b, k) \in Seq(Fine(W))
<1> DEFINE x == EmitMovImm(X64, d, Abs(k))
           y == <<Op3(AddOrSub(k), X64, d, b, d)>>
<1>1. ComputeAddr(d, b, k) = x \o y BY DEF ComputeAddr
<1>2. X64 \in Sizes /\ Abs(k) \in Int BY AbsFacts DEF Sizes
<1>3. x \in Seq(Fine(W)) BY <1>2, FineMovImm
<1>4. AddOrSub(k) \in {"add", "sub"} BY DEF AddOrSub
<1>5. y \in Seq(Fine(W)) BY <1>2, <1>4, FineArithmetic
<1> HIDE DEF x, y
<1> QED BY <1>1, <1>3, <1>5

(* The cases of EmitMemAccess that InstRewriter's output leads to. *)
LEMMA LoadForms ==
  ASSUME NEW n \in Sizes, NEW d,
         NEW a \in OffBase({FP}, Int) \cup OffBase(General, {0}) \cup AtSymbol
  PROVE  \/ a.kind = "global" /\ EmitMemAccess("ldr", n, d, a) = <<Adr(d, a.offset), Access("ldr", n, d, d, 0)>>
         \/ /\ a.kind # "global" /\ (a.offset = 0 \/ IsLdrStrOffsetEncodable(n, a.offset))
            /\ EmitMemAccess("ldr", n, d, a) = <<Access("ldr", n, d, a.base, a.offset)>>
         \/ /\ a.kind # "global" /\ IsLdurSturOffsetEncodable(a.offset) /\ a.offset # 0
            /\ EmitMemAccess("ldr", n, d, a) = <<Access("ldur", n, d, a.base, a.offset)>>
         \/ /\ a.kind # "global" /\ a.offset # 0 /\ a.base = FP
            /\ EmitMemAccess("ldr", n, d, a) =
                 ComputeAddr(d, a.base, a.offset) \o <<Access("ldr", n, d, d, 0)>>
<1>1. CASE a.kind = "global" BY <1>1 DEF EmitMemAccess
<1>2. CASE a.kind # "global" /\ (a.offset = 0 \/ IsLdrStrOffsetEncodable(n, a.offset)) BY <1>2 DEF EmitMemAccess
<1>3. CASE a.kind # "global" /\ a.offset # 0 /\ ~IsLdrStrOffsetEncodable(n, a.offset)
           /\ IsLdurSturOffsetEncodable(a.offset) BY <1>3 DEF EmitMemAccess
<1>4. CASE a.kind # "global" /\ a.offset # 0 /\ ~IsLdrStrOffsetEncodable(n, a.offset)
           /\ ~IsLdurSturOffsetEncodable(a.offset)
 <2>1. a.base = FP BY <1>4 DEF OffBase, AtSymbol
 <2>2. EmitMemAccess("ldr", n, d, a) =
                ComputeAddr(d, a.base, a.offset) \o <<Access("ldr", n, d, d, 0)>> BY <1>4 DEF EmitMemAccess
 <2> QED BY <1>4, <2>1, <2>2
<1> QED BY <1>1, <1>2, <1>3, <1>4

(* The scratch registers a store of d can use. *)
Spare(d) == {SCRATCH0, SCRATCH1} \ {d}

LEMMA StoreForms ==
  ASSUME NEW n \in Sizes, NEW d \in General,
         NEW a \in OffBase({FP, SP}, Int) \cup OffBase(General, {0}) \cup AtSymbol
  PROVE  \/ \E c \in Spare(d) :
              /\ a.kind = "global"
              /\ EmitMemAccess("str", n, d, a) = <<Adr(c, a.offset), Access("str", n, d, c, 0)>>
         \/ /\ a.kind # "global" /\ (a.offset = 0 \/ IsLdrStrOffsetEncodable(n, a.offset))
            /\ EmitMemAccess("str", n, d, a) = <<Access("str", n, d, a.base, a.offset)>>
         \/ /\ a.kind # "global" /\ IsLdurSturOffsetEncodable(a.offset) /\ a.offset # 0
            /\ EmitMemAccess("str", n, d, a) = <<Access("stur", n, d, a.base, a.offset)>>
         \/ \E c \in Spare(d) :
              /\ a.kind # "global" /\ a.offset # 0 /\ a.base \in {FP, SP}
              /\ EmitMemAccess("str", n, d, a) =
                   EmitAddXImmWith(c, a.base, a.offset, c) \o <<Access("str", n, d, c, 0)>>
<1>1. CASE a.kind = "global"
 <2> DEFINE c == PickFreeScratch({d})
 <2>1. {d} \cup {} = {d} OBVIOUS
 <2>2. EmitMemAccess("str", n, d, a) = <<Adr(c, a.offset), Access("str", n, d, c, 0)>> BY <1>1, <2>1 DEF EmitMemAccess
 <2>3. c \in Spare(d) BY FinePick DEF Spare
 <2> HIDE DEF c
 <2> QED BY <1>1, <2>2, <2>3
<1>2. CASE a.kind # "global" /\ (a.offset = 0 \/ IsLdrStrOffsetEncodable(n, a.offset)) BY <1>2 DEF EmitMemAccess
<1>3. CASE a.kind # "global" /\ a.offset # 0 /\ ~IsLdrStrOffsetEncodable(n, a.offset)
           /\ IsLdurSturOffsetEncodable(a.offset) BY <1>3 DEF EmitMemAccess
<1>4. CASE a.kind # "global" /\ a.offset # 0 /\ ~IsLdrStrOffsetEncodable(n, a.offset)
           /\ ~IsLdurSturOffsetEncodable(a.offset)
 <2> DEFINE c == PickFreeScratch({d, a.base})
 <2>1. a.base \in {FP, SP} BY <1>4 DEF OffBase, AtSymbol
 <2>2. {d} \cup {a.base} = {d, a.base} OBVIOUS
 <2>3. c # NoScratch
  <3>1. a.base \notin {SCRATCH0, SCRATCH1} BY <2>1, RegisterNumbers
  <3>2. {d, a.base} # {SCRATCH0, SCRATCH1} BY <3>1
  <3> DEFINE q == a.base
  <3> HIDE DEF q
  <3>3. PickFreeScratch({d, q}) = NoScratch => {d, q} = {SCRATCH0, SCRATCH1} BY NoScratchLeft
  <3> QED BY <3>2, <3>3 DEF q
 <2>4. c \in Spare(d) BY <2>3, FinePick DEF Spare
 <2>5. EmitMemAccess("str", n, d, a) =
                  EmitAddXImmWith(c, a.base, a.offset, c) \o <<Access("str", n, d, c, 0)>> BY <1>4, <2>2, <2>3 DEF EmitMemAccess
 <2> HIDE DEF c
 <2> QED BY <1>4, <2>1, <2>4, <2>5
<1> QED BY <1>1, <1>2, <1>3, <1>4
-----------------------------------------------------------------------------
LEMMA FineMov ==
  ASSUME NEW W, NEW i \in Movs(General, General), i.dst \in W, MovedLiteralsFit => MoveFits(i)
  PROVE  EmitMov(i) \in Seq(Fine(W))
<1>1. i.size \in Sizes /\ i.dst \in General /\ i.op = "Mov"
      /\ i.src \in Immediates(Int) \cup InRegisters(General) BY DEF Movs
<1>2. i.dst \in Int /\ i.dst # SP BY <1>1, RegisterNumbers
<1>3. CASE i.src.kind = "imm"
 <2>1. i.src.val \in Int BY <1>1, <1>3 DEF Immediates, InRegisters
 <2>2. EmitMov(i) = <<MoveImm(i.size, i.dst, i.src.val)>> BY <1>3 DEF EmitMov
 <2>3. MovedLiteralsFit => LiteralFits(i.src.val, i.size) BY <1>1, <1>3 DEF MoveFits
 <2> QED BY <1>1, <1>2, <2>1, <2>2, <2>3, FineMoves
<1>4. CASE i.src.kind # "imm"
 <2>1. i.src.val \in General BY <1>1, <1>4 DEF Immediates, InRegisters
 <2>2. i.src.val \in Int BY <2>1, RegisterNumbers
 <2>3. EmitMov(i) = <<Move(i.size, i.dst, i.src.val)>> BY <1>4 DEF EmitMov
 <2> QED BY <1>1, <1>2, <2>2, <2>3, FineMoves
<1> QED BY <1>3, <1>4

LEMMA FineBinOp ==
  ASSUME NEW W, SCRATCH0 \in W, SCRATCH1 \in W, NEW i \in BinOps(General), i.dst \in W
  PROVE  EmitBinop(i) \in Seq(Fine(W))
<1> DEFINE n == i.size
           d == i.dst
           l == i.lhs
           op == i.binop
           k == i.rhs.val
           other == CASE i.binop = "add" /\ i.rhs.val < 0 -> "sub"
                      [] i.binop = "sub" /\ i.rhs.val < 0 -> "add"
                      [] OTHER -> i.binop
           o == IF other = "add" THEN "add_imm" ELSE "sub_imm"
<1>1. n \in Sizes /\ d \in General /\ l \in General /\ op \in ArithOps /\ d \in W
      /\ i.rhs \in Immediates(Int) \cup InRegisters(General) BY DEF BinOps
<1>2. d \in Int /\ l \in Int /\ SP \notin {d, l} BY <1>1, RegisterNumbers
<1>3. o \in {"add_imm", "sub_imm"} OBVIOUS
<1>4. op \in {"add", "sub"} => other \in {"add", "sub"} OBVIOUS
<1>5. CASE i.rhs.kind = "reg"
 <2>1. EmitBinop(i) = <<Op3(op, n, d, l, k)>> BY <1>5 DEF EmitBinop
 <2>2. k \in General BY <1>1, <1>5 DEF Immediates, InRegisters
 <2>3. k \in Int /\ k # SP BY <2>2, RegisterNumbers
 <2>4. op \in {"add", "sub"} \/ op \in {"mul", "sdiv"} BY <1>1 DEF ArithOps
 <2> HIDE DEF n, d, l, op, k
 <2> QED BY <1>1, <1>2, <2>1, <2>3, <2>4, FineArithmetic
<1>6. CASE i.rhs.kind # "reg"
 <2>1. k \in Int /\ i.rhs.kind = "imm" BY <1>1, <1>6 DEF Immediates, InRegisters
 <2>2. CASE op \in {"mul", "sdiv"}
  <3>1. EmitBinop(i) = EmitOpViaImmScratch(op, n, d, l, k) BY <2>1, <2>2 DEF EmitBinop
  <3> HIDE DEF n, d, l, op, k
  <3> QED BY <1>1, <2>1, <2>2, <3>1, FineViaScratch
 <2>3. CASE op \notin {"mul", "sdiv"}
  <3>1. other \in {"add", "sub"} BY <1>1, <1>4, <2>3 DEF ArithOps
  <3>2. EmitBinop(i) = IF IsAddSubImmEncodable(Abs(k)) THEN <<OpImm(o, n, d, l, Abs(k))>>
                       ELSE EmitOpViaImmScratch(other, n, d, l, Abs(k)) BY <2>1, <2>3 DEF EmitBinop
  <3>3. Abs(k) \in Int BY <2>1, AbsFacts
  <3> HIDE DEF n, d, l, op, k, other, o
  <3>4. CASE IsAddSubImmEncodable(Abs(k))
   <4>1. EmitBinop(i) = <<OpImm(o, n, d, l, Abs(k))>> BY <3>2, <3>4
   <4> QED BY <1>1, <1>2, <1>3, <3>3, <3>4, <4>1, FineImmediate
  <3>5. CASE ~IsAddSubImmEncodable(Abs(k))
   <4>1. EmitBinop(i) = EmitOpViaImmScratch(other, n, d, l, Abs(k)) BY <3>2, <3>5
   <4>2. other \in {"add", "sub", "mul", "sdiv"} BY <3>1
   <4> QED BY <1>1, <3>3, <4>1, <4>2, FineViaScratch
  <3> QED BY <3>4, <3>5
 <2> QED BY <2>2, <2>3
<1> QED BY <1>5, <1>6

LEMMA FineCmp ==
  ASSUME NEW W, SCRATCH0 \in W, SCRATCH1 \in W, NEW i \in Cmps(General) PROVE EmitCmp(i) \in Seq(Fine(W))
<1>1. i.size \in Sizes /\ i.lhs \in General /\ i.rhs \in Immediates(Int) \cup InRegisters(General) BY DEF Cmps
<1>2. i.lhs \in Int BY <1>1, RegisterNumbers
<1>3. CASE i.rhs.kind = "reg"
 <2>1. EmitCmp(i) = <<Op3("cmp", i.size, SP, i.lhs, i.rhs.val)>> BY <1>3 DEF EmitCmp
 <2>2. i.rhs.val \in General BY <1>1, <1>3 DEF Immediates, InRegisters
 <2>3. i.rhs.val \in Int BY <2>2, RegisterNumbers
 <2> QED BY <1>1, <1>2, <2>1, <2>3, FineRest
<1>4. CASE i.rhs.kind # "reg"
 <2> DEFINE k == i.rhs.val
            c == OtherScratch(i.lhs)
            x == EmitMovImm(i.size, c, k)
            y == <<Op3("cmp", i.size, SP, i.lhs, c)>>
 <2>1. k \in Int /\ i.rhs.kind = "imm" BY <1>1, <1>4 DEF Immediates, InRegisters
 <2>2. EmitCmp(i) = IF IsAddSubImmEncodable(k) THEN <<OpImm("cmp_imm", i.size, SP, i.lhs, k)>>
                    ELSE x \o y BY <2>1 DEF EmitCmp
 <2>3. c \in W /\ c \in Int BY RegisterNumbers DEF OtherScratch
 <2> HIDE DEF k, c
 <2>4. x \in Seq(Fine(W)) BY <1>1, <2>1, <2>3, FineMovImm
 <2>5. y \in Seq(Fine(W)) BY <1>1, <1>2, <2>3, FineRest
 <2>6. IsAddSubImmEncodable(k) => <<OpImm("cmp_imm", i.size, SP, i.lhs, k)>> \in Seq(Fine(W))
  <3>1. 0 \in Int OBVIOUS
  <3> QED BY <1>1, <1>2, <2>1, <3>1, FineRest
 <2> HIDE DEF x, y
 <2> QED BY <2>2, <2>4, <2>5, <2>6
<1> QED BY <1>3, <1>4

LEMMA PairOfLines == ASSUME NEW S, NEW a, NEW b, <<a>> \in Seq(S), <<b>> \in Seq(S) PROVE <<a, b>> \in Seq(S)
<1>1. \A x : <<x>>[1] = x /\ DOMAIN <<x>> = {1} OBVIOUS
<1>2. a \in S /\ b \in S BY <1>1, ElementType
<1> QED BY <1>2

LEMMA AddressParts ==
  ASSUME NEW R, NEW O, NEW P, NEW Q,
         NEW a \in OffBase(R, O) \cup OffBase(P, Q) \cup AtSymbol
  PROVE  /\ a.kind = "global" => a.offset \in 0 .. Modulus(X64) - 1 /\ a.offset \in Int
                                 /\ a \in AtSymbol /\ a = Global(a.offset)
         /\ a.kind # "global" => /\ (a.base \in R /\ a.offset \in O) \/ (a.base \in P /\ a.offset \in Q)
                                 /\ a = BaseOff(a.base, a.offset)
<1>1. \A v \in 0 .. Modulus(X64) - 1 : v \in Int BY ModulusFacts
<1>2. CASE a \in AtSymbol BY <1>1, <1>2 DEF AtSymbol, Global
<1>3. CASE a \in OffBase(R, O) BY <1>3 DEF OffBase, BaseOff
<1>4. CASE a \in OffBase(P, Q) BY <1>4 DEF OffBase, BaseOff
<1> QED BY <1>2, <1>3, <1>4

LEMMA FineLdr ==
  ASSUME NEW W, NEW i \in Ldrs(General), i.dst \in W
  PROVE  EmitMemAccess("ldr", i.size, i.dst, i.addr) \in Seq(Fine(W))
<1> DEFINE n == i.size
           d == i.dst
           a == i.addr
           e == EmitMemAccess("ldr", i.size, i.dst, i.addr)
<1>1. n \in Sizes /\ d \in General /\ d \in W
      /\ a \in OffBase({FP}, Int) \cup OffBase(General, {0}) \cup AtSymbol BY DEF Ldrs
<1>2. d \in Int /\ d # SP BY <1>1, RegisterNumbers
<1>3. a.offset \in Int /\ (a.kind # "global" => a.base \in Int)
 <2>1. a.kind = "global" => a.offset \in Int BY <1>1, AddressParts
 <2> HIDE DEF a
 <2>0. a.kind # "global" => (a.base \in {FP} /\ a.offset \in Int) \/ (a.base \in General /\ a.offset \in {0})
   BY <1>1, AddressParts
 <2>2. a.kind # "global" => a.offset \in Int \cup {0} /\ a.base \in {FP} \cup General BY <2>0
 <2> QED BY <2>1, <2>2, RegisterNumbers
<1> HIDE DEF n, d, a
<1>4. <<Access("ldr", n, d, d, 0)>> \in Seq(Fine(W)) BY <1>1, <1>2, FineAccesses
<1>5. CASE a.kind = "global" /\ e = <<Adr(d, a.offset), Access("ldr", n, d, d, 0)>>
 <2>1. <<Adr(d, a.offset)>> \in Seq(Fine(W)) BY <1>1, <1>2, <1>3, FineMoves
 <2> QED BY <1>4, <1>5, <2>1, PairOfLines DEF n, d, a
<1>6. CASE a.kind # "global" /\ (a.offset = 0 \/ IsLdrStrOffsetEncodable(n, a.offset))
           /\ e = <<Access("ldr", n, d, a.base, a.offset)>>
 <2>1. <<Access("ldr", n, d, a.base, a.offset)>> \in Seq(Fine(W)) BY <1>1, <1>2, <1>3, <1>6, FineAccesses
 <2> QED BY <1>6, <2>1 DEF n, d, a
<1>7. CASE a.kind # "global" /\ IsLdurSturOffsetEncodable(a.offset) /\ a.offset # 0
           /\ e = <<Access("ldur", n, d, a.base, a.offset)>>
 <2>1. <<Access("ldur", n, d, a.base, a.offset)>> \in Seq(Fine(W)) BY <1>1, <1>2, <1>3, <1>7, FineAccesses
 <2> QED BY <1>7, <2>1 DEF n, d, a
<1>8. CASE a.kind # "global" /\ a.offset # 0 /\ a.base = FP
           /\ e = ComputeAddr(d, a.base, a.offset) \o <<Access("ldr", n, d, d, 0)>>
 <2>1. ComputeAddr(d, a.base, a.offset) \in Seq(Fine(W)) BY <1>1, <1>2, <1>3, <1>8, FineComputeAddr
 <2> DEFINE x == ComputeAddr(d, a.base, a.offset)
            y == <<Access("ldr", n, d, d, 0)>>
 <2>2. x \in Seq(Fine(W)) /\ y \in Seq(Fine(W)) /\ e = x \o y BY <1>4, <1>8, <2>1 DEF n, d, a
 <2> HIDE DEF x, y, e
 <2>3. e \in Seq(Fine(W)) BY <2>2
 <2> QED BY <2>3 DEF e, n, d, a
<1> QED BY <1>1, <1>5, <1>6, <1>7, <1>8, LoadForms DEF n, d, a

LEMMA FineStr ==
  ASSUME NEW W, SCRATCH0 \in W, SCRATCH1 \in W, NEW i \in Strs(General, General)
  PROVE  EmitMemAccess("str", i.size, i.src, i.addr) \in Seq(Fine(W))
<1> DEFINE n == i.size
           d == i.src
           a == i.addr
           e == EmitMemAccess("str", i.size, i.src, i.addr)
<1>1. n \in Sizes /\ d \in General
      /\ a \in OffBase({FP, SP}, Int) \cup OffBase(General, {0}) \cup AtSymbol BY DEF Strs
<1>2. d \in Int /\ d # SP BY <1>1, RegisterNumbers
<1>3. a.offset \in Int /\ (a.kind # "global" => a.base \in Int)
 <2>1. a.kind = "global" => a.offset \in Int BY <1>1, AddressParts
 <2>2. a.kind # "global" => a.offset \in Int \cup {0} /\ a.base \in {FP, SP} \cup General BY <1>1, AddressParts
 <2> QED BY <2>1, <2>2, RegisterNumbers
<1>0. \A c \in {SCRATCH0, SCRATCH1} : c \in W /\ c \in Int /\ c # SP BY RegisterNumbers
<1> HIDE DEF n, d, a
<1>4. \A c \in {SCRATCH0, SCRATCH1} : <<Access("str", n, d, c, 0)>> \in Seq(Fine(W))
 <2>1. 0 \in Int OBVIOUS
 <2> QED BY <1>0, <1>1, <1>2, <2>1, FineAccesses
<1>5. ASSUME NEW c \in {SCRATCH0, SCRATCH1}, e = <<Adr(c, a.offset), Access("str", n, d, c, 0)>>
      PROVE  e \in Seq(Fine(W))
 <2>1. c \in W \cup {SP} /\ c \in Int /\ 0 \in Int BY <1>0
 <2>2. <<Adr(c, a.offset)>> \in Seq(Fine(W)) BY <1>1, <1>3, <2>1, FineMoves
 <2>3. <<Access("str", n, d, c, 0)>> \in Seq(Fine(W)) BY <1>4
 <2> HIDE DEF e
 <2> QED BY <1>5, <2>2, <2>3, PairOfLines
<1>6. CASE a.kind # "global" /\ (a.offset = 0 \/ IsLdrStrOffsetEncodable(n, a.offset))
           /\ e = <<Access("str", n, d, a.base, a.offset)>>
 <2>1. <<Access("str", n, d, a.base, a.offset)>> \in Seq(Fine(W)) BY <1>1, <1>2, <1>3, <1>6, FineAccesses
 <2> HIDE DEF e
 <2>2. e \in Seq(Fine(W)) BY <1>6, <2>1
 <2> QED BY <2>2 DEF e, n, d, a
<1>7. CASE a.kind # "global" /\ IsLdurSturOffsetEncodable(a.offset) /\ a.offset # 0
           /\ e = <<Access("stur", n, d, a.base, a.offset)>>
 <2>1. <<Access("stur", n, d, a.base, a.offset)>> \in Seq(Fine(W)) BY <1>1, <1>2, <1>3, <1>7, FineAccesses
 <2> HIDE DEF e
 <2>2. e \in Seq(Fine(W)) BY <1>7, <2>1
 <2> QED BY <2>2 DEF e, n, d, a
<1>8. ASSUME NEW c \in {SCRATCH0, SCRATCH1}, a.kind # "global",
             e = EmitAddXImmWith(c, a.base, a.offset, c) \o <<Access("str", n, d, c, 0)>>
      PROVE  e \in Seq(Fine(W))
 <2> DEFINE x == EmitAddXImmWith(c, a.base, a.offset, c)
            y == <<Access("str", n, d, c, 0)>>
 <2>1. x \in Seq(Fine(W)) BY <1>0, <1>3, <1>8, FineAddX
 <2>2. y \in Seq(Fine(W)) /\ e = x \o y BY <1>4, <1>8
 <2> HIDE DEF x, y, e
 <2> QED BY <2>1, <2>2
<1>9. \/ \E c \in {SCRATCH0, SCRATCH1} : e = <<Adr(c, a.offset), Access("str", n, d, c, 0)>>
      \/ a.kind # "global" /\ (a.offset = 0 \/ IsLdrStrOffsetEncodable(n, a.offset))
           /\ e = <<Access("str", n, d, a.base, a.offset)>>
      \/ a.kind # "global" /\ IsLdurSturOffsetEncodable(a.offset) /\ a.offset # 0
           /\ e = <<Access("stur", n, d, a.base, a.offset)>>
      \/ \E c \in {SCRATCH0, SCRATCH1} :
           /\ a.kind # "global"
           /\ e = EmitAddXImmWith(c, a.base, a.offset, c) \o <<Access("str", n, d, c, 0)>>
  BY <1>1, StoreForms DEF n, d, a, Spare
<1> QED BY <1>5, <1>6, <1>7, <1>8, <1>9 DEF n, d, a
-----------------------------------------------------------------------------
(* The cases of EmitGep that InstRewriter's output leads to. *)
LEMMA GepForms ==
  ASSUME NEW i \in Geps(General), i.dst = i.base => i.dst \notin {SCRATCH0, SCRATCH1}
  PROVE  \/ \E c \in {SCRATCH0, SCRATCH1, i.dst} \ {i.base} :
              /\ i.index.kind = "imm"
              /\ EmitGep(i) = EmitAddXImmWith(i.dst, i.base, i.index.val * i.scale, c)
         \/ /\ i.index.kind = "reg" /\ i.scale \in {1, 2, 4, 8}
            /\ EmitGep(i) = <<Line("add_sxtw", X64, i.dst, i.base, i.index.val, i.scale)>>
         \/ \E c \in {SCRATCH0, SCRATCH1} \ {i.dst, i.base} :
              /\ i.index.kind = "reg" /\ i.dst # i.base
              /\ EmitGep(i) = Product(i.dst, i.index.val, c, i.scale)
                                \o <<Op3("add", X64, i.dst, i.base, i.dst)>>
         \/ /\ i.index.kind = "reg" /\ i.dst # i.base /\ {i.dst, i.base} = {SCRATCH0, SCRATCH1}
            /\ EmitGep(i) = Stash(i.base) \o Product(i.dst, i.index.val, i.base, i.scale)
                              \o Unstash(i.base) \o <<Op3("add", X64, i.dst, i.base, i.dst)>>
         \/ /\ i.index.kind = "reg" /\ i.dst = i.base /\ i.dst \notin {SCRATCH0, SCRATCH1}
            /\ EmitGep(i) = Product(SCRATCH0, i.index.val, SCRATCH1, i.scale)
                              \o <<Op3("add", X64, i.dst, i.base, SCRATCH0)>>
<1> DEFINE d == i.dst
           b == i.base
           r == i.index.val
           n == i.scale
           free == PickFreeScratch({d, b})
<1>1. i.index.kind \in {"imm", "reg"} BY DEF Geps, Immediates, InRegisters
<1>2. CASE i.index.kind = "imm"
 <2> DEFINE c == PickScratchOrClobberDst({d, b}, d)
 <2>1. EmitGep(i) = EmitAddXImmWith(d, b, r * n, c) BY <1>2 DEF EmitGep
 <2>2. c \in {SCRATCH0, SCRATCH1, d} BY FinePick
 <2>3. c # b
  <3>1. CASE free = NoScratch
   <4>1. {d, b} = {SCRATCH0, SCRATCH1} BY <3>1, FinePick
   <4>2. d # b BY <4>1, RegisterNumbers
   <4>3. c = d BY <3>1 DEF PickScratchOrClobberDst
   <4> QED BY <4>2, <4>3
  <3>2. CASE free # NoScratch
   <4>1. free \notin {d, b} BY <3>2, FinePick
   <4>2. c = free BY <3>2 DEF PickScratchOrClobberDst
   <4> QED BY <4>1, <4>2
  <3> QED BY <3>1, <3>2
 <2> HIDE DEF c
 <2> QED BY <1>2, <2>1, <2>2, <2>3
<1>3. CASE i.index.kind = "reg" /\ n \in {1, 2, 4, 8}
 <2>1. EmitGep(i) = <<Line("add_sxtw", X64, d, b, r, n)>> BY <1>3 DEF EmitGep, ScaleToShift
 <2> QED BY <1>3, <2>1
<1>4. CASE i.index.kind = "reg" /\ n \notin {1, 2, 4, 8}
 <2>1. EmitGep(i) = ScaledIndex(d, b, r, n) BY <1>4 DEF EmitGep, ScaleToShift
 <2>2. CASE d # b /\ free # NoScratch
  <3>1. ScaledIndex(d, b, r, n) = Product(d, r, free, n) \o <<Op3("add", X64, d, b, d)>> BY <2>2 DEF ScaledIndex
  <3>2. free \in {SCRATCH0, SCRATCH1} \ {d, b} BY <2>2, FinePick
  <3> HIDE DEF free
  <3> QED BY <1>4, <2>1, <2>2, <3>1, <3>2
 <2>3. CASE d # b /\ free = NoScratch
  <3>1. ScaledIndex(d, b, r, n) = Stash(b) \o Product(d, r, b, n) \o Unstash(b) \o <<Op3("add", X64, d, b, d)>>
    BY <2>3 DEF ScaledIndex
  <3>2. {d, b} = {SCRATCH0, SCRATCH1} BY <2>3, FinePick
  <3> QED BY <1>4, <2>1, <2>3, <3>1, <3>2
 <2>4. CASE d = b
  <3>1. b \notin {SCRATCH0, SCRATCH1} BY <2>4
  <3>2. ScaledIndex(d, b, r, n) = Product(SCRATCH0, r, SCRATCH1, n) \o <<Op3("add", X64, d, b, SCRATCH0)>>
    BY <2>4, <3>1 DEF ScaledIndex
  <3> QED BY <1>4, <2>1, <2>4, <3>1, <3>2
 <2> QED BY <2>2, <2>3, <2>4
<1> QED BY <1>1, <1>2, <1>3, <1>4

LEMMA FineProduct ==
  ASSUME NEW W, NEW d \in W, d \in General, NEW r \in General, NEW c \in W, c \in General, NEW n \in Int
  PROVE  Product(d, r, c, n) \in Seq(Fine(W))
<1> DEFINE x == <<Sxtw(d, r)>>
           y == EmitMovImm(X64, c, n)
           z == <<Op3("mul", X64, d, d, c)>>
<1>1. Product(d, r, c, n) = x \o y \o z BY DEF Product
<1>2. d \in Int /\ r \in Int /\ c \in Int /\ SP \notin {d, r, c} /\ X64 \in Sizes BY RegisterNumbers DEF Sizes
<1>3. x \in Seq(Fine(W)) BY <1>2, FineMoves
<1>4. y \in Seq(Fine(W)) BY <1>2, FineMovImm
<1>5. z \in Seq(Fine(W)) BY <1>2, FineArithmetic
<1> HIDE DEF x, y, z
<1> QED BY <1>1, <1>3, <1>4, <1>5, JoinThree

LEMMA SpillSlotLines ==
  /\ EmitSubSp(ScratchSpillSlot) = <<OpImm("sub_imm", X64, SP, SP, ScratchSpillSlot)>>
  /\ EmitAddSp(ScratchSpillSlot) = <<OpImm("add_imm", X64, SP, SP, ScratchSpillSlot)>>
<1>1. ScratchSpillSlot # 0 /\ IsAddSubImmEncodable(ScratchSpillSlot) BY SpillSlotAssumption
<1> QED BY <1>1 DEF EmitSubSp, EmitAddSp, AdjustSp

LEMMA FineStash == ASSUME NEW W, NEW b \in W, b \in Int PROVE Stash(b) \in Seq(Fine(W)) /\ Unstash(b) \in Seq(Fine(W))
<1> DEFINE x == <<OpImm("sub_imm", X64, SP, SP, ScratchSpillSlot)>>
           y == <<Access("str", X64, b, SP, 0)>>
           v == <<Access("ldr", X64, b, SP, 0)>>
           w == <<OpImm("add_imm", X64, SP, SP, ScratchSpillSlot)>>
<1>1. Stash(b) = x \o y /\ Unstash(b) = v \o w BY SpillSlotLines DEF Stash, Unstash
<1>2. SP \in Int /\ SP \in W \cup {SP} /\ X64 \in Sizes /\ 0 \in Int BY RegisterNumbers DEF Sizes
<1>3. ScratchSpillSlot \in Int /\ IsAddSubImmEncodable(ScratchSpillSlot) BY SpillSlotAssumption
<1>4. x \in Seq(Fine(W)) /\ w \in Seq(Fine(W)) BY <1>2, <1>3, FineImmediate
<1>5. y \in Seq(Fine(W)) /\ v \in Seq(Fine(W)) BY <1>2, FineAccesses
<1> HIDE DEF x, y, v, w
<1> QED BY <1>1, <1>4, <1>5

LEMMA FineGep ==
  ASSUME NEW W, SCRATCH0 \in W, SCRATCH1 \in W, NEW i \in Geps(General), i.dst \in W,
         i.dst = i.base => i.dst \notin {SCRATCH0, SCRATCH1}
  PROVE  EmitGep(i) \in Seq(Fine(W))
<1> DEFINE d == i.dst
           b == i.base
           r == i.index.val
           n == i.scale
           e == EmitGep(i)
<1>1. d \in General /\ b \in General /\ n \in Int /\ d \in W BY DEF Geps
<1>2. i.index.kind = "reg" => r \in General BY DEF Geps, Immediates, InRegisters
<1>3. i.index.kind = "imm" => r * n \in Int
 <2>1. i.index.kind = "imm" => r \in Int BY DEF Geps, Immediates, InRegisters, I32Values
 <2> HIDE DEF r, n
 <2> QED BY <1>1, <2>1
<1>4. X64 \in Sizes /\ d \in Int /\ b \in Int /\ d # SP /\ {SCRATCH0, SCRATCH1} \subseteq General
      /\ SCRATCH0 \in Int /\ SCRATCH1 \in Int BY <1>1, RegisterNumbers DEF Sizes
<1>5. ASSUME NEW c \in {SCRATCH0, SCRATCH1, d}, i.index.kind = "imm", e = EmitAddXImmWith(d, b, r * n, c)
      PROVE  e \in Seq(Fine(W))
 <2>1. c \in W /\ c \in Int BY <1>1, <1>4
 <2> DEFINE k == r * n
 <2>2. k \in Int /\ e = EmitAddXImmWith(d, b, k, c) BY <1>3, <1>5
 <2> HIDE DEF d, b, r, n, e, k
 <2> QED BY <1>1, <1>4, <2>1, <2>2, FineAddX
<1>6. CASE i.index.kind = "reg" /\ n \in {1, 2, 4, 8} /\ e = <<Line("add_sxtw", X64, d, b, r, n)>>
 <2>1. r \in Int BY <1>2, <1>6, RegisterNumbers
 <2> HIDE DEF d, b, r, n, e
 <2>2. d \in W \cap Int BY <1>1, <1>4
 <2>3. e \in Seq(Fine(W)) BY <1>4, <1>6, <2>1, <2>2, FineRest
 <2> QED BY <2>3 DEF e
<1>7. ASSUME NEW c \in {SCRATCH0, SCRATCH1}, i.index.kind = "reg",
             e = Product(d, r, c, n) \o <<Op3("add", X64, d, b, d)>>
      PROVE  e \in Seq(Fine(W))
 <2> DEFINE x == Product(d, r, c, n)
            y == <<Op3("add", X64, d, b, d)>>
 <2>1. e = x \o y BY <1>7
 <2>2. c \in W /\ c \in General BY <1>4
 <2> HIDE DEF d, b, r, n, e
 <2>3. x \in Seq(Fine(W)) BY <1>1, <1>2, <1>7, <2>2, FineProduct
 <2>4. y \in Seq(Fine(W)) BY <1>1, <1>4, FineArithmetic
 <2> HIDE DEF x, y
 <2> QED BY <2>1, <2>3, <2>4
<1>8. CASE i.index.kind = "reg" /\ {d, b} = {SCRATCH0, SCRATCH1}
           /\ e = Stash(b) \o Product(d, r, b, n) \o Unstash(b) \o <<Op3("add", X64, d, b, d)>>
 <2> DEFINE x == Stash(b)
            y == Product(d, r, b, n)
            z == Unstash(b)
            w == <<Op3("add", X64, d, b, d)>>
 <2>1. e = x \o y \o z \o w BY <1>8
 <2> HIDE DEF d, b, r, n, e
 <2>2. b \in W BY <1>8
 <2>3. x \in Seq(Fine(W)) /\ z \in Seq(Fine(W)) BY <1>4, <2>2, FineStash
 <2>4. y \in Seq(Fine(W)) BY <1>1, <1>2, <1>8, <2>2, FineProduct
 <2>5. w \in Seq(Fine(W)) BY <1>1, <1>4, FineArithmetic
 <2> HIDE DEF x, y, z, w
 <2>6. x \o y \o z \in Seq(Fine(W)) BY <2>3, <2>4, JoinThree
 <2>7. e \in Seq(Fine(W)) BY <2>1, <2>5, <2>6
 <2> QED BY <2>7 DEF e
<1>9. CASE i.index.kind = "reg" /\ d = b
           /\ e = Product(SCRATCH0, r, SCRATCH1, n) \o <<Op3("add", X64, d, b, SCRATCH0)>>
 <2> DEFINE x == Product(SCRATCH0, r, SCRATCH1, n)
            y == <<Op3("add", X64, d, b, SCRATCH0)>>
 <2>1. e = x \o y BY <1>9
 <2> HIDE DEF d, b, r, n, e
 <2>2. SCRATCH0 \in General /\ SCRATCH1 \in General BY <1>4
 <2>3. x \in Seq(Fine(W)) BY <1>1, <1>2, <1>9, <2>2, FineProduct
 <2>4. y \in Seq(Fine(W)) BY <1>1, <1>4, FineArithmetic
 <2> HIDE DEF x, y
 <2>5. e \in Seq(Fine(W)) BY <2>1, <2>3, <2>4
 <2> QED BY <2>5 DEF e
<1> QED BY <1>5, <1>6, <1>7, <1>8, <1>9, GepForms

LEMMA FineLea ==
  ASSUME NEW W, SCRATCH0 \in W, SCRATCH1 \in W, NEW i \in Leas(General, General), i.dst \in W
  PROVE  EmitLea(i) \in Seq(Fine(W))
<1> DEFINE d == i.dst
           a == i.addr
           c == PickScratchOrClobberDst({i.dst, i.addr.base}, i.dst)
<1>1. d \in General /\ d \in W /\ a \in OffBase({FP} \cup General, Int) \cup AtSymbol BY DEF Leas
<1>2. d \in Int /\ d # SP BY <1>1, RegisterNumbers
<1>3. EmitLea(i) = IF a.kind = "global" THEN <<Adr(d, a.offset)>> ELSE EmitAddXImmWith(d, a.base, a.offset, c) BY DEF EmitLea
<1>4. c \in W /\ c \in Int
 <2>1. c \in {SCRATCH0, SCRATCH1, d} BY FinePick
 <2> QED BY <1>1, <1>2, <2>1, RegisterNumbers
<1> HIDE DEF d, a, c
<1>5. a \in OffBase({FP} \cup General, Int) \cup OffBase({FP} \cup General, Int) \cup AtSymbol BY <1>1
<1>6. a.kind = "global" => a.offset \in Int BY <1>5, AddressParts
<1>7. a.kind # "global" => a.base \in {FP} \cup General /\ a.offset \in Int BY <1>5, AddressParts
<1>8. a.kind # "global" => a.base \in Int BY <1>7, RegisterNumbers
<1>9. CASE a.kind = "global"
 <2>1. X64 \in Sizes /\ 0 \in Int /\ d \in W \cup {SP} BY <1>1 DEF Sizes
 <2>2. <<Adr(d, a.offset)>> \in Seq(Fine(W)) BY <1>2, <1>6, <1>9, <2>1, FineMoves
 <2> QED BY <1>3, <1>9, <2>2
<1>10. CASE a.kind # "global"
 <2>1. EmitAddXImmWith(d, a.base, a.offset, c) \in Seq(Fine(W)) BY <1>1, <1>2, <1>4, <1>7, <1>8, <1>10, FineAddX
 <2> QED BY <1>3, <1>10, <2>1
<1> QED BY <1>9, <1>10

(* AsmPrinter prints no more than the processor has. *)
LEMMA PrintedLines ==
  ASSUME NEW W, SCRATCH0 \in W, SCRATCH1 \in W, NEW i \in Writing(W) PROVE EmitInst(i) \in Seq(Fine(W))
<1>0. i \in PInsts /\ DstOf(i) \subseteq W /\ (MovedLiteralsFit => MoveFits(i)) BY DEF Writing
<1> DEFINE G == General
<1>1. CASE i \in Movs(G, G)
 <2>1. i.op = "Mov" BY <1>1 DEF Movs
 <2>2. EmitInst(i) = EmitMov(i) /\ i.dst \in W BY <1>0, <2>1 DEF EmitInst, DstOf
 <2> QED BY <1>0, <1>1, <2>2, FineMov
<1>2. CASE i \in BinOps(G)
 <2>1. i.op = "BinOp" BY <1>2 DEF BinOps
 <2>2. EmitInst(i) = EmitBinop(i) /\ i.dst \in W BY <1>0, <2>1 DEF EmitInst, DstOf
 <2> QED BY <1>2, <2>2, FineBinOp
<1>3. CASE i \in Cmps(G)
 <2>1. i.op = "Cmp" BY <1>3 DEF Cmps
 <2>2. EmitInst(i) = EmitCmp(i) BY <2>1 DEF EmitInst
 <2> QED BY <1>3, <2>2, FineCmp
<1>4. CASE i \in Ldrs(G)
 <2>1. i.op = "Ldr" BY <1>4 DEF Ldrs
 <2>2. EmitInst(i) = EmitMemAccess("ldr", i.size, i.dst, i.addr) /\ i.dst \in W BY <1>0, <2>1 DEF EmitInst, DstOf
 <2> QED BY <1>4, <2>2, FineLdr
<1>5. CASE i \in Strs(G, G)
 <2>1. i.op = "Str" BY <1>5 DEF Strs
 <2>2. EmitInst(i) = EmitMemAccess("str", i.size, i.src, i.addr) BY <2>1 DEF EmitInst
 <2> QED BY <1>5, <2>2, FineStr
<1>6. CASE i \in Leas(G, G)
 <2>1. i.op = "Lea" BY <1>6 DEF Leas
 <2>2. EmitInst(i) = EmitLea(i) /\ i.dst \in W BY <1>0, <2>1 DEF EmitInst, DstOf
 <2> QED BY <1>6, <2>2, FineLea
<1>7. CASE i \in Geps(G)
 <2>1. i.op = "Gep" BY <1>7 DEF Geps
 <2>2. EmitInst(i) = EmitGep(i) /\ i.dst \in W BY <1>0, <2>1 DEF EmitInst, DstOf
 <2>3. i.dst = i.base => i.dst \notin {SCRATCH0, SCRATCH1} BY <1>0, <2>1 DEF PInsts
 <2> QED BY <1>7, <2>2, <2>3, FineGep
<1>8. CASE i \in SpMoves
 <2>1. i.op \in {"SubSp", "AddSp"} /\ i.imm \in Nat BY <1>8 DEF SpMoves
 <2>2. EmitInst(i) = AdjustSp("sub", i.imm) \/ EmitInst(i) = AdjustSp("add", i.imm) BY <2>1 DEF EmitInst, EmitSubSp, EmitAddSp
 <2>3. AdjustSp("sub", i.imm) \in Seq(Fine(W)) /\ AdjustSp("add", i.imm) \in Seq(Fine(W)) BY <2>1, FineAdjustSp
 <2> QED BY <2>2, <2>3
<1>9. CASE i \in Branches
 <2>1. i.op \in {"B", "BCond", "Ret"} BY <1>9 DEF Branches
 <2>2. (i.op # "Ret" => i.label \in Int) /\ (i.op = "BCond" => i.cond \in Comparisons) BY <1>9 DEF Branches
 <2>3. /\ i.op = "B" => EmitInst(i) = <<OpImm("b", X64, SP, SP, i.label)>>
       /\ i.op = "BCond" => EmitInst(i) = <<Line("b_cond", X64, SP, SP, i.cond, i.label)>>
       /\ i.op = "Ret" => EmitInst(i) = <<OpImm("ret", X64, SP, SP, 0)>> BY DEF EmitInst
 <2>4. /\ \A k \in Int : <<OpImm("b", X64, SP, SP, k)>> \in Seq(Fine(W))
       /\ \A c \in Comparisons : \A k \in Int : <<Line("b_cond", X64, SP, SP, c, k)>> \in Seq(Fine(W))
       /\ <<OpImm("ret", X64, SP, SP, 0)>> \in Seq(Fine(W))
  <3>1. 0 \in Int /\ X64 \in Sizes BY DEF Sizes
  <3> QED BY <3>1, FineRest
 <2>5. CASE i.op = "B" BY <2>2, <2>3, <2>4, <2>5
 <2>6. CASE i.op = "BCond" BY <2>2, <2>3, <2>4, <2>6
 <2>7. CASE i.op = "Ret" BY <2>3, <2>4, <2>7
 <2> QED BY <2>1, <2>5, <2>6, <2>7
<1> QED BY <1>0, <1>1, <1>2, <1>3, <1>4, <1>5, <1>6, <1>7, <1>8, <1>9 DEF PInsts, Insts
-----------------------------------------------------------------------------
(* What the pipeline holds: legal places, the program's own instructions,
   rewritten ones and printed lines of the kinds above, and a processor whose
   other registers nothing has written. *)
Owned == {SCRATCH0, SCRATCH1} \cup Named \cup {place[v] : v \in Defined}
Formed(s) ==
  s = [regs |-> [r \in PhysicalRegs |-> s.regs[r]], mem |-> s.mem, flags |-> s.flags, at |-> s.at]

LinesInv ==
  /\ MovedLiteralsFit => FitCode(code)
  /\ located => Legal(place)
  /\ insts \in Seq({code[k] : k \in DOMAIN code})
  /\ output \in Seq(Writing(Owned))
  /\ text \in Seq(Fine(Owned))
  /\ ~located => insts = <<>> /\ output = <<>> /\ text = <<>>
  /\ located => /\ Formed(m)
                /\ \A r \in PhysicalRegs \ (Owned \cup {SP}) : m.regs[r] = StartMachine(place).regs[r]

LEMMA WriteFormed ==
  ASSUME NEW s, Formed(s), NEW d, NEW v
  PROVE  /\ Formed(Write(s, d, v))
         /\ \A r \in PhysicalRegs : r # d => Write(s, d, v).regs[r] = s.regs[r]
<1> DEFINE f == s.regs
           a == s.mem
           b == s.flags
           c == s.at
           g == [r \in PhysicalRegs |-> f[r]]
           h == [g EXCEPT ![d] = v]
<1>1. s = [regs |-> g, mem |-> a, flags |-> b, at |-> c] BY DEF Formed
<1>2. DOMAIN g = PhysicalRegs /\ g = [r \in PhysicalRegs |-> f[r]] OBVIOUS
<1> HIDE DEF a, b, c, f, g
<1>3. Write(s, d, v) = [regs |-> h, mem |-> a, flags |-> b, at |-> c] BY <1>1 DEF Write
<1>4. h = [r \in PhysicalRegs |-> h[r]] BY <1>2
<1>5. \A r \in PhysicalRegs : r # d => h[r] = g[r] BY <1>2
<1>6. s.regs = g BY <1>1
<1> HIDE DEF h
<1> QED BY <1>3, <1>4, <1>5, <1>6 DEF Formed

LEMMA OthersFormed ==
  ASSUME NEW s, Formed(s)
  PROVE  /\ \A a, v : Formed(StoreCell(s, a, v)) /\ StoreCell(s, a, v).regs = s.regs
         /\ \A x : Formed([s EXCEPT !.flags = x]) /\ [s EXCEPT !.flags = x].regs = s.regs
         /\ \A x : Formed([s EXCEPT !.at = x]) /\ [s EXCEPT !.at = x].regs = s.regs
<1> DEFINE f == s.regs
           a == s.mem
           b == s.flags
           c == s.at
           g == [r \in PhysicalRegs |-> f[r]]
<1>1. s = [regs |-> g, mem |-> a, flags |-> b, at |-> c] BY DEF Formed
<1>2. g = [r \in PhysicalRegs |-> g[r]] OBVIOUS
<1> HIDE DEF a, b, c, f, g
<1>3. s.regs = g /\ s.mem = a /\ s.flags = b /\ s.at = c BY <1>1
<1>4. \A e, v : StoreCell(s, e, v) = [regs |-> g, mem |-> Assigned(a, e, v), flags |-> b, at |-> c] BY <1>1, <1>3 DEF StoreCell
<1>5. \A x : [s EXCEPT !.flags = x] = [regs |-> g, mem |-> a, flags |-> x, at |-> c] BY <1>1
<1>6. \A x : [s EXCEPT !.at = x] = [regs |-> g, mem |-> a, flags |-> b, at |-> x] BY <1>1
<1> QED BY <1>2, <1>3, <1>4, <1>5, <1>6 DEF Formed

(* A line writes its destination and no other register. *)
LEMMA WritingExecutes == ASSUME NEW s, NEW l, l.op \in WritingOps PROVE \E v : Execute(s, l) = Write(s, l.dst, v)
<1>1. CASE l.op \in {"mov", "mov_imm", "movz", "movk"}
 <2>1. CASE l.op = "mov" BY <2>1 DEF Execute
 <2>2. CASE l.op = "mov_imm" BY <2>2 DEF Execute
 <2>3. CASE l.op = "movz" BY <2>3 DEF Execute
 <2>4. CASE l.op = "movk" BY <2>4 DEF Execute
 <2> QED BY <1>1, <2>1, <2>2, <2>3, <2>4
<1>2. CASE l.op \in {"add", "sub", "mul", "sdiv"} BY <1>2 DEF Execute
<1>3. CASE l.op \in {"add_imm", "sub_imm"}
 <2>1. CASE l.op = "add_imm" BY <2>1 DEF Execute
 <2>2. CASE l.op = "sub_imm" BY <2>2 DEF Execute
 <2> QED BY <1>3, <2>1, <2>2
<1>4. CASE l.op \in {"add_sxtw", "sxtw", "adr"}
 <2>1. CASE l.op = "add_sxtw" BY <2>1 DEF Execute
 <2>2. CASE l.op = "sxtw" BY <2>2 DEF Execute
 <2>3. CASE l.op = "adr" BY <2>3 DEF Execute
 <2> QED BY <1>4, <2>1, <2>2, <2>3
<1>5. CASE l.op \in {"ldr", "ldur"} BY <1>5 DEF Execute
<1> QED BY <1>1, <1>2, <1>3, <1>4, <1>5 DEF WritingOps

LEMMA LineKeepsOthers ==
  ASSUME NEW s, Formed(s), NEW l \in Lines
  PROVE  /\ Formed(Execute(s, l))
         /\ \A r \in PhysicalRegs \ LineWrites(l) : Execute(s, l).regs[r] = s.regs[r]
<1>1. CASE l.op \in WritingOps
 <2>1. PICK v : Execute(s, l) = Write(s, l.dst, v) BY <1>1, WritingExecutes
 <2>2. LineWrites(l) = {l.dst} BY <1>1 DEF LineWrites
 <2> QED BY <2>1, <2>2, WriteFormed
<1>2. CASE l.op \in {"str", "stur"}
 <2>1. Execute(s, l) = StoreCell(s, AddressAt(s, l.lhs, l.imm), Read(s, l.dst, l.size)) BY <1>2 DEF Execute
 <2> QED BY <2>1, OthersFormed
<1>3. CASE l.op \in {"cmp", "cmp_imm"}
 <2>1. \E x : Execute(s, l) = [s EXCEPT !.flags = x]
  <3>1. CASE l.op = "cmp" BY <3>1 DEF Execute
  <3>2. CASE l.op = "cmp_imm" BY <3>2 DEF Execute
  <3> QED BY <1>3, <3>1, <3>2
 <2> QED BY <2>1, OthersFormed
<1>4. CASE l.op \in {"b_cond", "b", "ret"}
 <2>1. (\E x : Execute(s, l) = [s EXCEPT !.at = x]) \/ Execute(s, l) = s
  <3>1. CASE l.op = "b_cond" BY <3>1 DEF Execute
  <3>2. CASE l.op = "b" BY <3>2 DEF Execute
  <3>3. CASE l.op = "ret" BY <3>3 DEF Execute
  <3> QED BY <1>4, <3>1, <3>2, <3>3
 <2>2. CASE Execute(s, l) = s BY <2>2
 <2>3. CASE \E x : Execute(s, l) = [s EXCEPT !.at = x]
  <3>1. PICK x : Execute(s, l) = [s EXCEPT !.at = x] BY <2>3
  <3> DEFINE t == [s EXCEPT !.at = x]
  <3>2. Formed(t) /\ t.regs = s.regs BY OthersFormed
  <3> HIDE DEF t
  <3>3. Execute(s, l) = t BY <3>1 DEF t
  <3> QED BY <3>2, <3>3
 <2> QED BY <2>1, <2>2, <2>3
<1>5. l.op \in LineOps BY DEF Lines
<1> QED BY <1>1, <1>2, <1>3, <1>4, <1>5 DEF LineOps, WritingOps

(* The start. *)
LEMMA StartFormed == ASSUME NEW f PROVE Formed(StartMachine(f))
<1> DEFINE g == [r \in PhysicalRegs |-> IF Residents(f, r) = {} THEN InitialReg(r)
                                        ELSE vals[CHOOSE v \in Residents(f, r) : TRUE]]
           a == [c \in {FpValue + f[v] : v \in {w \in Given : f[w] < 0}} |->
                   vals[CHOOSE v \in Given : FpValue + f[v] = c]]
<1>1. g = [r \in PhysicalRegs |-> g[r]] OBVIOUS
<1>2. StartMachine(f) = [regs |-> g, mem |-> a, flags |-> "none", at |-> Here] BY DEF StartMachine
<1> HIDE DEF g, a
<1> QED BY <1>1, <1>2 DEF Formed

LEMMA CodePlaced ==
  ASSUME Legal(place), code \in Seq(VInsts), NEW k \in DOMAIN code
  PROVE  /\ PlacedRegs(Concerns(code[k]))
         /\ \A d \in DstOf(code[k]) : ~Spilled(d) => MapReg(d) \in Owned
<1> DEFINE i == code[k]
<1>1. UsedVregs(i) \cup DefinedVreg(i) \subseteq Vregs BY DEF Vregs
<1>2. \A v \in Vregs : place[v] \in Registers \cup (SpValue - FpValue .. -1) BY DEF Legal
<1>3. PlacedRegs(Concerns(i)) BY <1>1, <1>2 DEF PlacedRegs, Concerns, Frame
<1>4. ASSUME NEW d \in DstOf(i) PROVE MapReg(d) \in Owned
 <2>1. i.op \in {"Mov", "BinOp", "Ldr", "Lea", "Gep"} /\ d = i.dst BY <1>4 DEF DstOf
 <2>2. CASE IsVReg(d)
  <3>1. d \in DefinedVreg(i) BY <2>1, <2>2 DEF DefinedVreg
  <3>2. d \in Defined BY <3>1 DEF Defined
  <3> QED BY <2>2, <3>2 DEF Owned, MapReg
 <2>3. CASE ~IsVReg(d)
  <3>1. i \in VInsts BY ElementType
  <3>2. i.op \in {"BinOp", "Gep"} => d \in Virtual
    BY <2>1, <3>1 DEF VInsts, Insts, Movs, BinOps, Cmps, Ldrs, Strs, Leas, Geps, SpMoves, Branches
  <3>3. i.op \in {"Mov", "Ldr", "Lea"} BY <2>1, <2>3, <3>2 DEF Virtual
  <3>4. d \in Named \cup {SCRATCH0, SCRATCH1} BY <2>1, <3>3 DEF Named
  <3> QED BY <2>3, <3>4 DEF Owned, MapReg
 <2> QED BY <2>2, <2>3
<1> QED BY <1>3, <1>4

THEOREM LinesInvHolds == Spec => []LinesInv
<1>1. Init => LinesInv
 <2>1. SUFFICES ASSUME Init PROVE LinesInv OBVIOUS
 <2>2. /\ code = <<>> /\ ~located /\ insts = <<>> /\ output = <<>> /\ text = <<>> BY <2>1 DEF Init, BackendInit
 <2>3. FitCode(code) BY <2>2, FitShort
 <2>4. \A S : <<>> \in Seq(S) OBVIOUS
 <2> QED BY <2>2, <2>3, <2>4 DEF LinesInv
<1>2. CodeInv /\ LinesInv /\ [Next]_vars => LinesInv'
 <2>1. SUFFICES ASSUME CodeInv, LinesInv, [Next]_vars PROVE LinesInv' OBVIOUS
 <2>2. ASSUME UNCHANGED <<code, place>> PROVE Owned' = Owned BY <2>2 DEF Owned, Named, Defined
 <2>3. CASE Select
  <3>1. stmts # <<>> /\ UNCHANGED <<located, place, insts, output, text, m>> BY <2>3 DEF Select
  <3>2. ~located BY <2>1, <3>1 DEF CodeInv
  <3>3. insts' = <<>> /\ output' = <<>> /\ text' = <<>> /\ ~located' BY <2>1, <3>1, <3>2 DEF LinesInv
  <3>4. MovedLiteralsFit => FitCode(code')
   <4>1. SUFFICES ASSUME MovedLiteralsFit PROVE FitCode(code') OBVIOUS
   <4>2. FitCode(code) BY <2>1, <4>1 DEF LinesInv
   <4> DEFINE s == Head(stmts)
   <4>3. CASE ~Accepts(s)
    <5>1. code' = code BY <2>3, <4>3 DEF Select
    <5> QED BY <4>2, <5>1
   <4>4. CASE Accepts(s)
    <5>1. code' = code \o Emitted(s) BY <2>3, <4>4 DEF Select
    <5> DEFINE S == StatementsOf(block)
    <5>2. stmts \in Seq(S) /\ block \in Programs BY <2>1 DEF CodeInv
    <5>3. \A x \in S : MovedFit(x) BY <4>1, <5>2 DEF MovedLiteralsFit
    <5> HIDE DEF S
    <5>4. s \in S /\ s = stmts[1] /\ 1 \in DOMAIN stmts BY <3>1, <5>2
    <5>5. IsStatement(s) BY <2>1, <5>4 DEF CodeInv, Readable
    <5>6. MovedFit(s) BY <5>3, <5>4
    <5> HIDE DEF s
    <5>7. FitCode(Emitted(s)) BY <4>4, <5>5, <5>6, EmittedFits
    <5>8. Emits(s) BY <2>1, <4>4, <5>5, EmittedPiece DEF CodeInv
    <5>9. code \in Seq(VInsts) /\ Emitted(s) \in Seq(VInsts) BY <2>1, <5>8 DEF CodeInv, Emits, Piece
    <5>10. FitCode(code \o Emitted(s)) BY <4>2, <5>7, <5>9, FitJoin
    <5> QED BY <5>1, <5>10
   <4> QED BY <4>3, <4>4
  <3>5. \A S : <<>> \in Seq(S) OBVIOUS
  <3> QED BY <3>3, <3>4, <3>5 DEF LinesInv
 <2>4. CASE Allocate
  <3>1. /\ ~located /\ UNCHANGED <<code, vals, output, text>> /\ insts' = code
        /\ Legal(place') /\ m' = StartMachine(place') BY <2>4 DEF Allocate
  <3>2. MovedLiteralsFit => FitCode(code') BY <2>1, <3>1 DEF LinesInv
  <3>3. Legal(place)' BY <3>1 DEF Legal, Vregs, Given, UsedFrom
  <3>4. insts' \in Seq({code'[k] : k \in DOMAIN code'})
   <4>1. code \in Seq(VInsts) BY <2>1 DEF CodeInv, Piece
   <4>2. code \in Seq({code[k] : k \in DOMAIN code}) BY <4>1
   <4> QED BY <3>1, <4>2
  <3>5. output' = <<>> /\ text' = <<>> BY <2>1, <3>1 DEF LinesInv
  <3>6. \A S : <<>> \in Seq(S) OBVIOUS
  <3>7. StartMachine(place)' = StartMachine(place') BY <3>1 DEF StartMachine, Residents, Given, Vregs
  <3>8. Formed(m)' /\ \A r \in PhysicalRegs \ (Owned \cup {SP})' : m'.regs[r] = (StartMachine(place)').regs[r]
   <4>1. Formed(StartMachine(place')) BY StartFormed
   <4>2. Formed(m') BY <3>1, <4>1
   <4>3. m' = StartMachine(place)' BY <3>1, <3>7
   <4> QED BY <4>2, <4>3
  <3> QED BY <3>2, <3>3, <3>4, <3>5, <3>6, <3>8, <2>4 DEF LinesInv, Allocate
 <2>5. CASE BackendNext
  <3>1. UNCHANGED <<code, vals, located, place>> BY <2>5 DEF BackendNext, Rewrite, Print1, Run
  <3>2. located /\ Legal(place)
   <4>1. insts # <<>> \/ output # <<>> \/ text # <<>> BY <2>5 DEF BackendNext, Rewrite, Print1, Run
   <4> QED BY <2>1, <4>1 DEF LinesInv
  <3>3. MovedLiteralsFit => FitCode(code') BY <2>1, <3>1 DEF LinesInv
  <3>4. Legal(place)' BY <3>1, <3>2 DEF Legal, Vregs, Given, UsedFrom
  <3>5. Owned' = Owned BY <2>2, <3>1
  <3>6. StartMachine(place)' = StartMachine(place) BY <3>1 DEF StartMachine, Residents, Given, Vregs
  <3>7. /\ insts \in Seq({code[k] : k \in DOMAIN code}) /\ output \in Seq(Writing(Owned)) /\ text \in Seq(Fine(Owned))
        /\ Formed(m)
        /\ \A r \in PhysicalRegs \ (Owned \cup {SP}) : m.regs[r] = StartMachine(place).regs[r] BY <2>1, <3>2 DEF LinesInv
  <3>8. SCRATCH0 \in Owned /\ SCRATCH1 \in Owned BY DEF Owned
  <3> DEFINE C == {code[k] : k \in DOMAIN code}
             O == Owned
             P == Writing(Owned)
             L == Fine(Owned)
  <3>9. SUFFICES ASSUME TRUE
                 PROVE  /\ insts' \in Seq(C) /\ output' \in Seq(P) /\ text' \in Seq(L)
                        /\ Formed(m')
                        /\ \A r \in PhysicalRegs \ (O \cup {SP}) : m'.regs[r] = StartMachine(place).regs[r]
   <4>1. ASSUME /\ insts' \in Seq(C) /\ output' \in Seq(P) /\ text' \in Seq(L)
                /\ Formed(m')
                /\ \A r \in PhysicalRegs \ (O \cup {SP}) : m'.regs[r] = StartMachine(place).regs[r]
         PROVE  LinesInv'
    <5>1. C' = C /\ P' = P /\ L' = L BY <3>1, <3>5 DEF Writing, Fine
    <5>2. located' BY <3>1, <3>2
    <5>3. Formed(m)' BY <4>1
    <5>4. \A r \in PhysicalRegs \ (Owned' \cup {SP}) : m'.regs[r] = (StartMachine(place)').regs[r] BY <3>5, <3>6, <4>1
    <5>5. insts' \in Seq(C)' /\ output' \in Seq(P)' /\ text' \in Seq(L)' BY <4>1, <5>1
    <5> QED BY <3>3, <3>4, <5>2, <5>3, <5>4, <5>5 DEF LinesInv
   <4> QED BY <4>1
  <3> HIDE DEF C
  <3>10. CASE Rewrite
   <4> DEFINE i == Head(insts)
   <4>1. /\ insts # <<>> /\ output' = output \o RewriteInst(i) /\ insts' = Tail(insts)
         /\ UNCHANGED <<text, m>> BY <3>10 DEF Rewrite
   <4>2. insts \in Seq(C) BY <3>7 DEF C
   <4>3. i \in C /\ insts' \in Seq(C) BY <4>1, <4>2
   <4>4. PICK k \in DOMAIN code : i = code[k] BY <4>3 DEF C
   <4>5. code \in Seq(VInsts) BY <2>1 DEF CodeInv, Piece
   <4>6. PlacedRegs(Concerns(i)) /\ \A d \in DstOf(i) : ~Spilled(d) => MapReg(d) \in Owned BY <3>2, <4>4, <4>5, CodePlaced
   <4>7. i \in VInsts BY <4>4, <4>5, ElementType
   <4>8. MovedLiteralsFit => MoveFits(i) BY <2>1, <4>4 DEF LinesInv, FitCode
   <4> HIDE DEF i
   <4>9. RewriteInst(i) \in Seq(P) BY <3>8, <4>6, <4>7, <4>8, RewrittenCode
   <4>10. output \in Seq(P) BY <3>7
   <4> HIDE DEF P, L, O
   <4>11. output' \in Seq(P) BY <4>1, <4>9, <4>10
   <4>12. text' \in Seq(L) BY <3>7, <4>1 DEF L
   <4>13. \A r \in PhysicalRegs \ (O \cup {SP}) : m'.regs[r] = StartMachine(place).regs[r] BY <3>7, <4>1 DEF O
   <4> QED BY <3>7, <4>1, <4>3, <4>11, <4>12, <4>13
  <3>11. CASE Print1
   <4> DEFINE i == Head(output)
   <4>1. /\ output # <<>> /\ text' = text \o EmitInst(i) /\ output' = Tail(output)
         /\ UNCHANGED <<insts, m>> BY <3>11 DEF Print1
   <4>2. output \in Seq(P) /\ text \in Seq(L) BY <3>7
   <4>3. i \in P /\ output' \in Seq(P)
    <5> HIDE DEF P
    <5> QED BY <4>1, <4>2
   <4> HIDE DEF i
   <4>4. EmitInst(i) \in Seq(L) BY <3>8, <4>3, PrintedLines
   <4> HIDE DEF P, L, O
   <4>5. text' \in Seq(L) BY <4>1, <4>2, <4>4
   <4>6. \A r \in PhysicalRegs \ (O \cup {SP}) : m'.regs[r] = StartMachine(place).regs[r] BY <3>7, <4>1 DEF O
   <4>7. insts' \in Seq(C) BY <3>7, <4>1 DEF C
   <4> QED BY <3>7, <4>1, <4>3, <4>5, <4>6, <4>7
  <3>12. CASE Run
   <4> DEFINE l == Head(text)
   <4>1. /\ text # <<>> /\ m' = Execute(m, l) /\ text' = IF m'.at = Here THEN Tail(text) ELSE <<>>
         /\ UNCHANGED <<insts, output>> BY <3>12 DEF Run
   <4>2. text \in Seq(L) BY <3>7
   <4>3. l \in L /\ text' \in Seq(L)
    <5> HIDE DEF L
    <5>1. l \in L /\ Tail(text) \in Seq(L) /\ <<>> \in Seq(L) BY <4>1, <4>2
    <5> QED BY <4>1, <5>1
   <4>4. l \in Lines /\ LineWrites(l) \subseteq O \cup {SP} BY <4>3 DEF Fine
   <4> HIDE DEF l
   <4>5. Formed(m') /\ \A r \in PhysicalRegs \ LineWrites(l) : m'.regs[r] = m.regs[r] BY <3>7, <4>1, <4>4, LineKeepsOthers
   <4> HIDE DEF P, L, O
   <4>6. insts' \in Seq(C) /\ output' \in Seq(P) BY <3>7, <4>1 DEF C, P
   <4>7. \A r \in PhysicalRegs \ (O \cup {SP}) : m'.regs[r] = StartMachine(place).regs[r] BY <3>7, <4>4, <4>5 DEF O
   <4> QED BY <4>3, <4>5, <4>6, <4>7
  <3> QED BY <2>5, <3>10, <3>11, <3>12 DEF BackendNext
 <2>6. CASE UNCHANGED vars
  <3>1. UNCHANGED backendVars BY <2>6 DEF vars
  <3>2. UNCHANGED <<code, vals, located, place, insts, output, text, m>> BY <3>1 DEF backendVars
  <3>3. Owned' = Owned BY <2>2, <3>2
  <3>4. StartMachine(place)' = StartMachine(place) BY <3>2 DEF StartMachine, Residents, Given, Vregs
  <3>5. Legal(place)' = Legal(place) BY <3>2 DEF Legal, Vregs, Given, UsedFrom
  <3>6. Writing(Owned)' = Writing(Owned) /\ Fine(Owned)' = Fine(Owned) BY <3>3 DEF Writing, Fine
  <3>7. Formed(m)' = Formed(m) BY <3>2 DEF Formed
  <3> QED BY <2>1, <3>2, <3>3, <3>4, <3>5, <3>6, <3>7 DEF LinesInv
 <2> QED BY <2>1, <2>3, <2>4, <2>5, <2>6 DEF Next
<1> QED BY <1>1, <1>2, CodeInvHolds, PTL DEF Spec

(* As long as no literal a block moves is too wide for one mov, every line that
   is printed is an instruction of the processor: offsets, immediates and
   scales beyond its limits have gone through the scratch registers. *)
THEOREM EveryLineAssembles == MovedLiteralsFit => (Spec => []AllEncodable)
<1>1. SUFFICES ASSUME MovedLiteralsFit PROVE Spec => []AllEncodable OBVIOUS
<1>2. LinesInv => AllEncodable
 <2>1. SUFFICES ASSUME LinesInv, NEW k \in DOMAIN text PROVE Encodable(text[k]) BY DEF AllEncodable
 <2>2. text \in Seq(Fine(Owned)) BY <2>1 DEF LinesInv
 <2>3. text[k] \in Fine(Owned) BY <2>2, ElementType
 <2> QED BY <1>1, <2>3 DEF Fine
<1> QED BY <1>2, LinesInvHolds, PTL
-----------------------------------------------------------------------------
(* What running a stretch of text does: some sequence of machines, each the
   effect of one line on the one before, leads from a to b.  A line behind a
   branch that was taken does nothing. *)
AfterLine(s, l) == IF s.at = Here THEN Execute(s, l) ELSE s
IsTrace(tr, T) == \A k \in 1 .. Len(T) : tr[k] = AfterLine(tr[k - 1], T[k])
Runs(a, T, b) ==
  /\ T \in Seq(Lines)
  /\ \E tr : tr[0] = a /\ tr[Len(T)] = b /\ IsTrace(tr, T)

LEMMA RunsNothing == ASSUME NEW a, NEW b PROVE Runs(a, <<>>, b) <=> a = b
<1>1. <<>> \in Seq(Lines) /\ Len(<<>>) = 0 /\ 1 .. 0 = {} OBVIOUS
<1>2. ASSUME Runs(a, <<>>, b) PROVE a = b BY <1>1, <1>2 DEF Runs
<1>3. ASSUME a = b PROVE Runs(a, <<>>, b)
 <2> DEFINE tr == [k \in {0} |-> a]
 <2>1. tr[0] = a /\ IsTrace(tr, <<>>) BY <1>1 DEF IsTrace
 <2> HIDE DEF tr
 <2> QED BY <1>1, <1>3, <2>1 DEF Runs
<1> QED BY <1>2, <1>3

LEMMA RunsOne == ASSUME NEW l \in Lines, NEW a PROVE Runs(a, <<l>>, AfterLine(a, l))
<1> DEFINE b == AfterLine(a, l)
           tr == [k \in {0, 1} |-> IF k = 0 THEN a ELSE b]
           T == <<l>>
<1>1. T \in Seq(Lines) /\ Len(T) = 1 /\ T[1] = l OBVIOUS
<1>2. tr[0] = a /\ tr[1] = b /\ 1 - 1 = 0 OBVIOUS
<1> HIDE DEF tr, T
<1>3. IsTrace(tr, T)
 <2>1. ASSUME NEW k \in 1 .. Len(T) PROVE tr[k] = AfterLine(tr[k - 1], T[k])
  <3>1. k = 1 BY <1>1
  <3> QED BY <1>1, <1>2, <3>1
 <2> QED BY <2>1 DEF IsTrace
<1>4. Runs(a, T, b) BY <1>1, <1>2, <1>3 DEF Runs
<1> QED BY <1>4 DEF T

LEMMA RunsJoin == ASSUME NEW a, NEW b, NEW c, NEW T, NEW U, Runs(a, T, b), Runs(b, U, c) PROVE Runs(a, T \o U, c)
<1>1. T \in Seq(Lines) /\ U \in Seq(Lines) BY DEF Runs
<1>2. PICK f : f[0] = a /\ f[Len(T)] = b /\ IsTrace(f, T) BY DEF Runs
<1>3. PICK g : g[0] = b /\ g[Len(U)] = c /\ IsTrace(g, U) BY DEF Runs
<1> DEFINE n == Len(T)
           e == Len(U)
           J == T \o U
           h == [k \in 0 .. n + e |-> IF k <= n THEN f[k] ELSE g[k - n]]
<1>4. /\ n \in Nat /\ e \in Nat /\ J \in Seq(Lines) /\ Len(J) = n + e
      /\ \A k \in 1 .. n : J[k] = T[k]
      /\ \A k \in 1 .. e : J[n + k] = U[k] BY <1>1
<1>5. \A k \in 0 .. n : h[k] = f[k] BY <1>4
<1>6. \A k \in 0 .. e : h[n + k] = g[k]
 <2>1. SUFFICES ASSUME NEW k \in 0 .. e PROVE h[n + k] = g[k] OBVIOUS
 <2>2. CASE k = 0 BY <1>2, <1>3, <1>4, <2>2
 <2>3. CASE k # 0
  <3>1. n + k \in 0 .. n + e /\ ~(n + k <= n) /\ (n + k) - n = k BY <1>4, <2>3
  <3> QED BY <3>1
 <2> QED BY <2>2, <2>3
<1> HIDE DEF h, J
<1>7. IsTrace(h, J)
 <2>1. SUFFICES ASSUME NEW k \in 1 .. Len(J) PROVE h[k] = AfterLine(h[k - 1], J[k]) BY DEF IsTrace
 <2>2. CASE k <= n
  <3>1. k \in 1 .. n /\ k \in 0 .. n /\ k - 1 \in 0 .. n BY <1>4, <2>1, <2>2
  <3>2. f[k] = AfterLine(f[k - 1], T[k]) BY <1>2, <3>1 DEF IsTrace
  <3> QED BY <1>4, <1>5, <3>1, <3>2
 <2>3. CASE ~(k <= n)
  <3>1. /\ k - n \in 1 .. e /\ k - n \in 0 .. e /\ (k - n) - 1 \in 0 .. e
        /\ n + (k - n) = k /\ n + ((k - n) - 1) = k - 1 BY <1>4, <2>1, <2>3
  <3>2. g[k - n] = AfterLine(g[(k - n) - 1], U[k - n]) BY <1>3, <3>1 DEF IsTrace
  <3>3. h[k] = g[k - n] /\ h[k - 1] = g[(k - n) - 1] /\ J[k] = U[k - n]
   <4>1. h[n + (k - n)] = g[k - n] /\ h[n + ((k - n) - 1)] = g[(k - n) - 1] BY <1>6, <3>1
   <4>2. J[n + (k - n)] = U[k - n] BY <1>4, <3>1
   <4> QED BY <3>1, <4>1, <4>2
  <3> QED BY <3>2, <3>3
 <2> QED BY <2>2, <2>3
<1>8. h[0] = a /\ h[Len(J)] = c
 <2>1. 0 \in 0 .. n /\ e \in 0 .. e BY <1>4
 <2> QED BY <1>2, <1>3, <1>4, <1>5, <1>6, <2>1
<1>9. Runs(a, J, c) BY <1>4, <1>7, <1>8 DEF Runs
<1> QED BY <1>9 DEF J

LEMMA RunsHead == ASSUME NEW a, NEW b, NEW T, Runs(a, T, b), T # <<>> PROVE Runs(AfterLine(a, Head(T)), Tail(T), b)
<1>1. T \in Seq(Lines) BY DEF Runs
<1>2. PICK f : f[0] = a /\ f[Len(T)] = b /\ IsTrace(f, T) BY DEF Runs
<1> DEFINE n == Len(T)
           U == Tail(T)
           h == [k \in 0 .. n - 1 |-> f[k + 1]]
<1>3. /\ n \in Nat \ {0} /\ U \in Seq(Lines) /\ Len(U) = n - 1 /\ Head(T) = T[1]
      /\ \A k \in 1 .. n - 1 : U[k] = T[k + 1] BY <1>1
<1>4. \A k \in 0 .. n - 1 : h[k] = f[k + 1] OBVIOUS
<1> HIDE DEF h, U
<1>5. IsTrace(h, U)
 <2>1. SUFFICES ASSUME NEW k \in 1 .. Len(U) PROVE h[k] = AfterLine(h[k - 1], U[k]) BY DEF IsTrace
 <2>2. k \in 0 .. n - 1 /\ k - 1 \in 0 .. n - 1 /\ (k - 1) + 1 = k /\ k + 1 \in 1 .. n
       /\ (k + 1) - 1 = k /\ k \in 1 .. n - 1 BY <1>3, <2>1
 <2>3. f[k + 1] = AfterLine(f[(k + 1) - 1], T[k + 1]) BY <1>2, <2>2 DEF IsTrace
 <2> QED BY <1>3, <1>4, <2>2, <2>3
<1>6. h[0] = AfterLine(a, Head(T)) /\ h[Len(U)] = b
 <2>1. 0 \in 0 .. n - 1 /\ 0 + 1 = 1 /\ n - 1 \in 0 .. n - 1 /\ (n - 1) + 1 = n /\ 1 \in 1 .. n /\ 1 - 1 = 0 BY <1>3
 <2>2. f[1] = AfterLine(f[1 - 1], T[1]) BY <1>2, <2>1 DEF IsTrace
 <2> QED BY <1>2, <1>3, <1>4, <2>1, <2>2
<1> QED BY <1>3, <1>5, <1>6 DEF Runs, U

LEMMA RunsStopped == ASSUME NEW a, a.at # Here, NEW T \in Seq(Lines), NEW b PROVE Runs(a, T, b) <=> a = b
<1>1. Len(T) \in Nat OBVIOUS
<1>2. ASSUME Runs(a, T, b) PROVE a = b
 <2>1. PICK f : f[0] = a /\ f[Len(T)] = b /\ IsTrace(f, T) BY <1>2 DEF Runs
 <2> DEFINE S == {k \in Nat : k <= Len(T) => f[k] = a}
 <2>2. 0 \in S BY <2>1
 <2>3. ASSUME NEW k \in S PROVE k + 1 \in S
  <3>1. k \in Nat /\ (k <= Len(T) => f[k] = a) BY <2>3
  <3>2. CASE k + 1 <= Len(T)
   <4>1. k + 1 \in 1 .. Len(T) /\ (k + 1) - 1 = k /\ k <= Len(T) BY <1>1, <3>1, <3>2
   <4>2. f[k + 1] = AfterLine(f[k], T[k + 1]) BY <2>1, <4>1 DEF IsTrace
   <4>3. f[k + 1] = a BY <3>1, <4>1, <4>2 DEF AfterLine
   <4> QED BY <3>1, <4>3
  <3>3. CASE ~(k + 1 <= Len(T)) BY <3>1, <3>3
  <3> QED BY <3>2, <3>3
 <2>4. S \subseteq Nat OBVIOUS
 <2> HIDE DEF S
 <2>5. \A k \in Nat : k \in S BY <2>2, <2>3, <2>4, SetInduction
 <2>6. Len(T) \in S BY <1>1, <2>5
 <2> QED BY <1>1, <2>1, <2>6 DEF S
<1>3. ASSUME a = b PROVE Runs(a, T, b)
 <2> DEFINE f == [k \in 0 .. Len(T) |-> a]
 <2>1. \A k \in 0 .. Len(T) : f[k] = a OBVIOUS
 <2> HIDE DEF f
 <2>2. \A k \in 1 .. Len(T) : k \in 0 .. Len(T) /\ k - 1 \in 0 .. Len(T) BY <1>1
 <2>3. IsTrace(f, T) BY <2>1, <2>2 DEF IsTrace, AfterLine
 <2>4. f[0] = a /\ f[Len(T)] = b BY <1>1, <1>3, <2>1
 <2> QED BY <2>3, <2>4 DEF Runs
<1> QED BY <1>2, <1>3
-----------------------------------------------------------------------------
(* Arithmetic modulo a power. *)
LEMMA ModShift == ASSUME NEW n \in Nat \ {0}, NEW x \in Int, NEW k \in Int PROVE (x + k * n) % n = x % n
<1> DEFINE q == x \div n
           r == x % n
<1>1. q \in Int /\ r \in 0 .. n - 1 /\ x = q * n + r BY DivMod
<1> HIDE DEF q, r
<1>2. x + k * n = (q + k) * n + r
 <2>1. (q + k) * n = q * n + k * n BY <1>1
 <2> QED BY <1>1, <2>1
<1>3. q + k \in Int BY <1>1
<1>4. ((q + k) * n + r) % n = r BY <1>1, <1>3, ModUnique
<1> QED BY <1>2, <1>4 DEF r

LEMMA ModSmall == ASSUME NEW n \in Nat \ {0}, NEW x \in 0 .. n - 1 PROVE x % n = x /\ x \div n = 0
<1>1. (0 * n + x) % n = x /\ (0 * n + x) \div n = 0 BY ModUnique
<1>2. 0 * n + x = x OBVIOUS
<1> QED BY <1>1, <1>2

LEMMA ModInRange == ASSUME NEW n \in Nat \ {0}, NEW x \in Int PROVE x % n \in 0 .. n - 1 /\ x % n \in Int
<1>1. x % n \in 0 .. n - 1 BY DivMod
<1> QED BY <1>1

LEMMA ModTwice == ASSUME NEW n \in Nat \ {0}, NEW x \in Int PROVE (x % n) % n = x % n
<1>1. x % n \in 0 .. n - 1 BY ModInRange
<1> DEFINE y == x % n
<1>2. y \in 0 .. n - 1 BY <1>1
<1> HIDE DEF y
<1>3. y % n = y BY <1>2, ModSmall
<1> QED BY <1>3 DEF y

LEMMA ModOfSum ==
  ASSUME NEW n \in Nat \ {0}, NEW a \in Int, NEW b \in Int
  PROVE  /\ ((a % n) + b) % n = (a + b) % n
         /\ (a + (b % n)) % n = (a + b) % n
         /\ (a - (b % n)) % n = (a - b) % n
         /\ ((a % n) + (b % n)) % n = (a + b) % n
         /\ ((a % n) - (b % n)) % n = (a - b) % n
<1> DEFINE p == a \div n
           c == a % n
           q == b \div n
           d == b % n
<1>1. p \in Int /\ c \in Int /\ a = p * n + c BY DivMod, ModInRange
<1>2. q \in Int /\ d \in Int /\ b = q * n + d BY DivMod, ModInRange
<1>3. c + b \in Int /\ a + d \in Int /\ a - d \in Int /\ c + d \in Int /\ c - d \in Int
      /\ p + q \in Int /\ p - q \in Int /\ -q \in Int BY <1>1, <1>2
<1> HIDE DEF p, c, q, d
<1>4. a + b = (c + b) + p * n BY <1>1
<1>5. a + b = (a + d) + q * n BY <1>2
<1>6. a - b = (a - d) + (-q) * n BY <1>2
<1>7. a + b = (c + d) + (p + q) * n
 <2>1. (p + q) * n = p * n + q * n BY <1>1, <1>2
 <2> QED BY <1>1, <1>2, <2>1
<1>8. a - b = (c - d) + (p - q) * n
 <2>1. (p - q) * n = p * n - q * n BY <1>1, <1>2
 <2> QED BY <1>1, <1>2, <2>1
<1>9. ((c + b) + p * n) % n = (c + b) % n BY <1>1, <1>3, ModShift
<1>10. ((a + d) + q * n) % n = (a + d) % n BY <1>2, <1>3, ModShift
<1>11. ((a - d) + (-q) * n) % n = (a - d) % n BY <1>3, ModShift
<1>12. ((c + d) + (p + q) * n) % n = (c + d) % n BY <1>3, ModShift
<1>13. ((c - d) + (p - q) * n) % n = (c - d) % n BY <1>3, ModShift
<1>14. /\ (c + b) % n = (a + b) % n /\ (a + d) % n = (a + b) % n /\ (a - d) % n = (a - b) % n
       /\ (c + d) % n = (a + b) % n /\ (c - d) % n = (a - b) % n
  BY <1>4, <1>5, <1>6, <1>7, <1>8, <1>9, <1>10, <1>11, <1>12, <1>13
<1> QED BY <1>14 DEF c, d

LEMMA ModOfProduct ==
  ASSUME NEW n \in Nat \ {0}, NEW a \in Int, NEW b \in Int PROVE ((a % n) * (b % n)) % n = (a * b) % n
<1> DEFINE p == a \div n
           c == a % n
           q == b \div n
           d == b % n
<1>1. p \in Int /\ c \in Int /\ a = p * n + c BY DivMod, ModInRange
<1>2. q \in Int /\ d \in Int /\ b = q * n + d BY DivMod, ModInRange
<1> HIDE DEF p, c, q, d
<1>3. a * b = c * d + (p * b + c * q) * n
 <2>1. a * b = (p * n) * b + c * b BY <1>1, <1>2
 <2>2. c * b = c * (q * n) + c * d BY <1>1, <1>2
 <2>3. (p * n) * b = (p * b) * n BY <1>1
 <2>4. c * (q * n) = (c * q) * n BY <1>1, <1>2
 <2>5. (p * b + c * q) * n = (p * b) * n + (c * q) * n
  <3>1. p * b \in Int /\ c * q \in Int BY <1>1, <1>2
  <3> DEFINE x == p * b
             y == c * q
  <3>2. x \in Int /\ y \in Int BY <3>1
  <3> HIDE DEF x, y
  <3>3. (x + y) * n = x * n + y * n BY <3>2
  <3> QED BY <3>3 DEF x, y
 <2>6. a * b \in Int /\ c * b \in Int /\ c * d \in Int /\ (p * b) * n \in Int /\ (c * q) * n \in Int
  <3>1. p * b \in Int /\ c * q \in Int /\ a * b \in Int /\ c * b \in Int /\ c * d \in Int BY <1>1, <1>2
  <3> QED BY <3>1
 <2> QED BY <2>1, <2>2, <2>3, <2>4, <2>5, <2>6
<1>4. c * d \in Int /\ p * b + c * q \in Int
 <2>1. c * d \in Int /\ p * b \in Int /\ c * q \in Int BY <1>1, <1>2
 <2> QED BY <2>1
<1>5. (c * d + (p * b + c * q) * n) % n = (c * d) % n BY <1>4, ModShift
<1>6. (c * d) % n = (a * b) % n BY <1>3, <1>5
<1> QED BY <1>6 DEF c, d

(* One more digit: of v in base c, above the digits below q. *)
LEMMA NextDigit ==
  ASSUME NEW q \in Nat \ {0}, NEW c \in Nat \ {0}, NEW v \in Nat PROVE v % (q * c) = (v % q) + ((v \div q) % c) * q
<1> DEFINE a == v \div q
           r == v % q
           e == a \div c
           d == a % c
<1>1. a \in Int /\ r \in 0 .. q - 1 /\ v = a * q + r BY DivMod
<1>2. e \in Int /\ d \in 0 .. c - 1 /\ a = e * c + d BY <1>1, DivMod
<1> HIDE DEF a, r, e, d
<1> DEFINE y == d * q
           z == (c - 1) * q
<1>3. v = e * (q * c) + (r + d * q)
 <2>1. a * q = (e * c) * q + d * q
  <3> DEFINE x == e * c
  <3>1. x \in Int BY <1>2
  <3>2. a = x + d BY <1>2
  <3> HIDE DEF x
  <3>3. (x + d) * q = x * q + d * q BY <1>2, <3>1
  <3> QED BY <3>2, <3>3 DEF x
 <2>2. (e * c) * q = e * (q * c) BY <1>2
 <2>3. e * (q * c) \in Int /\ d * q \in Int
  <3>1. q * c \in Int OBVIOUS
  <3> QED BY <1>2, <3>1
 <2> QED BY <1>1, <2>1, <2>2, <2>3
<1>4. y \in Int /\ 0 <= y /\ y <= z /\ z \in Int BY <1>2
<1>5. z = q * c - q /\ q * c \in Nat \ {0} BY <1>2
<1>6. r + d * q \in 0 .. q * c - 1
 <2>1. r + y \in 0 .. (z + q) - 1
  <3> HIDE DEF y, z
  <3> QED BY <1>1, <1>4
 <2> DEFINE w == q * c
 <2>2. w \in Int /\ z = w - q BY <1>5
 <2> HIDE DEF z, w
 <2>3. z + q = w BY <2>2, <1>4
 <2> QED BY <2>1, <2>3 DEF w
<1>7. (e * (q * c) + (r + d * q)) % (q * c) = r + d * q BY <1>2, <1>5, <1>6, ModUnique
<1>8. v % (q * c) = r + d * q BY <1>3, <1>7
<1> QED BY <1>8 DEF r, d, a
-----------------------------------------------------------------------------
(* Machines whose registers and cells hold words, and what a stretch of text
   keeps: everything but the registers Q and the cells X. *)
Word == 0 .. Modulus(X64) - 1
Machine(s, R) ==
  /\ s = [regs |-> [r \in R |-> s.regs[r]], mem |-> s.mem, flags |-> s.flags, at |-> s.at]
  /\ \A r \in R : s.regs[r] \in Word
  /\ \A a \in Word : Cell(s, a) \in Word
Kept(s, t, Q, X) ==
  /\ Machine(t, PhysicalRegs)
  /\ t.flags = s.flags /\ t.at = s.at
  /\ \A r \in PhysicalRegs \ Q : t.regs[r] = s.regs[r]
  /\ \A a : a \notin X => Cell(t, a) = Cell(s, a)
Does(s, T, Q, X, t) == Runs(s, T, t) /\ Kept(s, t, Q, X)

LEMMA Written ==
  ASSUME NEW R, NEW s, Machine(s, R), NEW d \in R, NEW v \in Word
  PROVE  /\ Machine(Write(s, d, v), R)
         /\ Write(s, d, v).regs[d] = v
         /\ \A r \in R : r # d => Write(s, d, v).regs[r] = s.regs[r]
         /\ Write(s, d, v).flags = s.flags /\ Write(s, d, v).at = s.at
         /\ Write(s, d, v).mem = s.mem /\ \A a : Cell(Write(s, d, v), a) = Cell(s, a)
<1> DEFINE f == s.regs
           a == s.mem
           b == s.flags
           c == s.at
           g == [r \in R |-> f[r]]
           h == [g EXCEPT ![d] = v]
           t == Write(s, d, v)
<1>1. s = [regs |-> g, mem |-> a, flags |-> b, at |-> c] BY DEF Machine
<1>2. DOMAIN g = R /\ g = [r \in R |-> f[r]] OBVIOUS
<1>3. \A r \in R : g[r] \in Word BY DEF Machine
<1>4. \A x \in Word : Cell(s, x) \in Word BY DEF Machine
<1> HIDE DEF a, b, c, f, g
<1>5. t = [regs |-> h, mem |-> a, flags |-> b, at |-> c] BY <1>1 DEF Write
<1>6. h = [r \in R |-> h[r]] /\ h[d] = v BY <1>2
<1>7. \A r \in R : r # d => h[r] = g[r] BY <1>2
<1>8. \A r \in R : h[r] \in Word BY <1>3, <1>6, <1>7
<1>9. s.regs = g /\ s.mem = a /\ s.flags = b /\ s.at = c BY <1>1
<1> HIDE DEF h, t
<1>10. t.regs = h /\ t.mem = a /\ t.flags = b /\ t.at = c BY <1>5
<1>11. \A x : Cell(t, x) = Cell(s, x) BY <1>9, <1>10 DEF Cell
<1>12. Machine(t, R)
 <2>1. t = [regs |-> [r \in R |-> t.regs[r]], mem |-> t.mem, flags |-> t.flags, at |-> t.at] BY <1>5, <1>6, <1>10
 <2> QED BY <1>4, <1>8, <1>10, <1>11, <2>1 DEF Machine
<1>13. /\ Machine(t, R) /\ t.regs[d] = v
       /\ \A r \in R : r # d => t.regs[r] = s.regs[r]
       /\ t.flags = s.flags /\ t.at = s.at
       /\ t.mem = s.mem /\ \A x : Cell(t, x) = Cell(s, x) BY <1>6, <1>7, <1>9, <1>10, <1>11, <1>12
<1> QED BY <1>13 DEF t

LEMMA Stored ==
  ASSUME NEW R, NEW s, Machine(s, R), NEW x \in Word, NEW v \in Word
  PROVE  /\ Machine(StoreCell(s, x, v), R)
         /\ StoreCell(s, x, v).regs = s.regs
         /\ StoreCell(s, x, v).flags = s.flags /\ StoreCell(s, x, v).at = s.at
         /\ Cell(StoreCell(s, x, v), x) = v
         /\ \A y : y # x => Cell(StoreCell(s, x, v), y) = Cell(s, y)
<1> DEFINE f == s.regs
           a == s.mem
           b == s.flags
           c == s.at
           g == [r \in R |-> f[r]]
           e == Assigned(a, x, v)
           t == StoreCell(s, x, v)
<1>1. s = [regs |-> g, mem |-> a, flags |-> b, at |-> c] BY DEF Machine
<1>2. \A r \in R : g[r] \in Word BY DEF Machine
<1>3. \A y \in Word : Cell(s, y) \in Word BY DEF Machine
<1>4. g = [r \in R |-> g[r]] OBVIOUS
<1> HIDE DEF a, b, c, f, g
<1>5. s.regs = g /\ s.mem = a /\ s.flags = b /\ s.at = c BY <1>1
<1>6. t = [regs |-> g, mem |-> e, flags |-> b, at |-> c] BY <1>1, <1>5 DEF StoreCell
<1>7. DOMAIN e = DOMAIN a \cup {x} /\ e[x] = v /\ \A y \in DOMAIN a : y # x => e[y] = a[y] BY DEF Assigned
<1> HIDE DEF e, t
<1>8. t.regs = g /\ t.mem = e /\ t.flags = b /\ t.at = c BY <1>6
<1>9. Cell(t, x) = v BY <1>7, <1>8 DEF Cell
<1>10. \A y : y # x => Cell(t, y) = Cell(s, y)
 <2>1. SUFFICES ASSUME NEW y, y # x PROVE Cell(t, y) = Cell(s, y) OBVIOUS
 <2>2. y \in DOMAIN e <=> y \in DOMAIN a BY <1>7, <2>1
 <2> QED BY <1>5, <1>7, <1>8, <2>1, <2>2 DEF Cell
<1>11. Machine(t, R)
 <2>1. t = [regs |-> [r \in R |-> t.regs[r]], mem |-> t.mem, flags |-> t.flags, at |-> t.at] BY <1>4, <1>6, <1>8
 <2>2. \A y \in Word : Cell(t, y) \in Word BY <1>3, <1>9, <1>10
 <2> QED BY <1>2, <1>8, <2>1, <2>2 DEF Machine
<1>12. /\ Machine(t, R) /\ t.regs = s.regs /\ t.flags = s.flags /\ t.at = s.at /\ Cell(t, x) = v
       /\ \A y : y # x => Cell(t, y) = Cell(s, y) BY <1>5, <1>8, <1>9, <1>10, <1>11
<1> QED BY <1>12 DEF t

LEMMA Compared ==
  ASSUME NEW R, NEW s, Machine(s, R), NEW v
  PROVE  /\ Machine([s EXCEPT !.flags = v], R)
         /\ [s EXCEPT !.flags = v].regs = s.regs /\ [s EXCEPT !.flags = v].at = s.at
         /\ [s EXCEPT !.flags = v].flags = v
         /\ \A y : Cell([s EXCEPT !.flags = v], y) = Cell(s, y)
<1> DEFINE f == s.regs
           a == s.mem
           b == s.flags
           c == s.at
           g == [r \in R |-> f[r]]
           t == [s EXCEPT !.flags = v]
<1>1. s = [regs |-> g, mem |-> a, flags |-> b, at |-> c] BY DEF Machine
<1>2. \A r \in R : g[r] \in Word BY DEF Machine
<1>3. \A y \in Word : Cell(s, y) \in Word BY DEF Machine
<1>4. g = [r \in R |-> g[r]] OBVIOUS
<1> HIDE DEF a, b, c, f, g
<1>5. s.regs = g /\ s.mem = a /\ s.flags = b /\ s.at = c BY <1>1
<1>6. t = [regs |-> g, mem |-> a, flags |-> v, at |-> c] BY <1>1
<1> HIDE DEF t
<1>7. t.regs = g /\ t.mem = a /\ t.flags = v /\ t.at = c BY <1>6
<1>8. \A y : Cell(t, y) = Cell(s, y) BY <1>5, <1>7 DEF Cell
<1>9. t = [regs |-> [r \in R |-> t.regs[r]], mem |-> t.mem, flags |-> t.flags, at |-> t.at] BY <1>4, <1>6, <1>7
<1>10. Machine(t, R) BY <1>2, <1>3, <1>7, <1>8, <1>9 DEF Machine
<1>11. Machine(t, R) /\ t.regs = s.regs /\ t.at = s.at /\ t.flags = v /\ \A y : Cell(t, y) = Cell(s, y)
  BY <1>5, <1>7, <1>8, <1>10
<1> QED BY <1>11 DEF t

LEMMA Branched ==
  ASSUME NEW R, NEW s, Machine(s, R), NEW v
  PROVE  /\ Machine([s EXCEPT !.at = v], R)
         /\ [s EXCEPT !.at = v].regs = s.regs /\ [s EXCEPT !.at = v].flags = s.flags
         /\ [s EXCEPT !.at = v].at = v
         /\ \A y : Cell([s EXCEPT !.at = v], y) = Cell(s, y)
<1> DEFINE f == s.regs
           a == s.mem
           b == s.flags
           c == s.at
           g == [r \in R |-> f[r]]
           t == [s EXCEPT !.at = v]
<1>1. s = [regs |-> g, mem |-> a, flags |-> b, at |-> c] BY DEF Machine
<1>2. \A r \in R : g[r] \in Word BY DEF Machine
<1>3. \A y \in Word : Cell(s, y) \in Word BY DEF Machine
<1>4. g = [r \in R |-> g[r]] OBVIOUS
<1> HIDE DEF a, b, c, f, g
<1>5. s.regs = g /\ s.mem = a /\ s.flags = b /\ s.at = c BY <1>1
<1>6. t = [regs |-> g, mem |-> a, flags |-> b, at |-> v] BY <1>1
<1> HIDE DEF t
<1>7. t.regs = g /\ t.mem = a /\ t.flags = b /\ t.at = v BY <1>6
<1>8. \A y : Cell(t, y) = Cell(s, y) BY <1>5, <1>7 DEF Cell
<1>9. t = [regs |-> [r \in R |-> t.regs[r]], mem |-> t.mem, flags |-> t.flags, at |-> t.at] BY <1>4, <1>6, <1>7
<1>10. Machine(t, R) BY <1>2, <1>3, <1>7, <1>8, <1>9 DEF Machine
<1>11. Machine(t, R) /\ t.regs = s.regs /\ t.flags = s.flags /\ t.at = v /\ \A y : Cell(t, y) = Cell(s, y)
  BY <1>5, <1>7, <1>8, <1>10
<1> QED BY <1>11 DEF t

LEMMA KeptSelf == ASSUME NEW s, Machine(s, PhysicalRegs) PROVE Kept(s, s, {}, {})
BY DEF Kept

LEMMA KeptJoin ==
  ASSUME NEW s, NEW t, NEW u, NEW Q, NEW P, NEW X, NEW Y, Kept(s, t, Q, X), Kept(t, u, P, Y)
  PROVE  Kept(s, u, Q \cup P, X \cup Y)
<1>1. Machine(u, PhysicalRegs) /\ u.flags = s.flags /\ u.at = s.at BY DEF Kept
<1>2. \A r \in PhysicalRegs \ (Q \cup P) : u.regs[r] = s.regs[r] BY DEF Kept
<1>3. \A a : a \notin X \cup Y => Cell(u, a) = Cell(s, a) BY DEF Kept
<1> QED BY <1>1, <1>2, <1>3 DEF Kept

LEMMA KeptWider ==
  ASSUME NEW s, NEW t, NEW Q, NEW X, Kept(s, t, Q, X), NEW P, NEW Y,
         Q \cap PhysicalRegs \subseteq P, X \subseteq Y
  PROVE  Kept(s, t, P, Y)
BY DEF Kept

LEMMA DoesNothing == ASSUME NEW s, Machine(s, PhysicalRegs) PROVE Does(s, <<>>, {}, {}, s)
BY KeptSelf, RunsNothing DEF Does

LEMMA DoesJoin ==
  ASSUME NEW s, NEW t, NEW u, NEW T, NEW U, NEW Q, NEW P, NEW X, NEW Y,
         Does(s, T, Q, X, t), Does(t, U, P, Y, u)
  PROVE  Does(s, T \o U, Q \cup P, X \cup Y, u)
<1>1. Runs(s, T, t) /\ Runs(t, U, u) /\ Kept(s, t, Q, X) /\ Kept(t, u, P, Y) BY DEF Does
<1>2. Runs(s, T \o U, u) BY <1>1, RunsJoin
<1>3. Kept(s, u, Q \cup P, X \cup Y) BY <1>1, KeptJoin
<1> QED BY <1>2, <1>3 DEF Does

LEMMA DoesWider ==
  ASSUME NEW s, NEW t, NEW T, NEW Q, NEW X, Does(s, T, Q, X, t), NEW P, NEW Y,
         Q \cap PhysicalRegs \subseteq P, X \subseteq Y
  PROVE  Does(s, T, P, Y, t)
<1>1. Kept(s, t, Q, X) BY DEF Does
<1>2. Kept(s, t, P, Y) BY <1>1, KeptWider
<1> QED BY <1>2 DEF Does

Sets(s, l, d, v, t) == Does(s, <<l>>, {d}, {}, t) /\ t.regs[d] = v
Puts(s, l, x, v, t) == Does(s, <<l>>, {}, {x}, t) /\ Cell(t, x) = v

(* A line that sets a register. *)
LEMMA SetsRegister ==
  ASSUME NEW s, Machine(s, PhysicalRegs), s.at = Here, NEW l \in Lines, NEW d \in PhysicalRegs,
         NEW v \in Word, Execute(s, l) = Write(s, d, v)
  PROVE  \E t : Sets(s, l, d, v, t)
<1> DEFINE t == Write(s, d, v)
<1>1. AfterLine(s, l) = t BY DEF AfterLine
<1>2. Runs(s, <<l>>, t) BY <1>1, RunsOne
<1>3. /\ Machine(t, PhysicalRegs) /\ t.regs[d] = v
      /\ \A r \in PhysicalRegs : r # d => t.regs[r] = s.regs[r]
      /\ t.flags = s.flags /\ t.at = s.at
      /\ \A a : Cell(t, a) = Cell(s, a) BY Written
<1> HIDE DEF t
<1>4. Kept(s, t, {d}, {}) BY <1>3 DEF Kept
<1>5. Does(s, <<l>>, {d}, {}, t) BY <1>2, <1>4 DEF Does
<1>6. Sets(s, l, d, v, t) BY <1>3, <1>5 DEF Sets
<1> QED BY <1>6

(* A line that stores into a cell. *)
LEMMA SetsCell ==
  ASSUME NEW s, Machine(s, PhysicalRegs), s.at = Here, NEW l \in Lines, NEW x \in Word,
         NEW v \in Word, Execute(s, l) = StoreCell(s, x, v)
  PROVE  \E t : Puts(s, l, x, v, t)
<1> DEFINE t == StoreCell(s, x, v)
<1>1. AfterLine(s, l) = t BY DEF AfterLine
<1>2. Runs(s, <<l>>, t) BY <1>1, RunsOne
<1>3. /\ Machine(t, PhysicalRegs) /\ t.regs = s.regs
      /\ t.flags = s.flags /\ t.at = s.at /\ Cell(t, x) = v
      /\ \A y : y # x => Cell(t, y) = Cell(s, y) BY Stored
<1> HIDE DEF t
<1>4. Kept(s, t, {}, {x}) BY <1>3 DEF Kept
<1>5. Does(s, <<l>>, {}, {x}, t) BY <1>2, <1>4 DEF Does
<1>6. Puts(s, l, x, v, t) BY <1>3, <1>5 DEF Puts
<1> QED BY <1>6
-----------------------------------------------------------------------------
LEMMA WordFacts ==
  /\ \A x \in Word : x \in Nat /\ x \in Int /\ x % Modulus(X64) = x
  /\ \A n \in Sizes : \A x \in 0 .. Modulus(n) - 1 : x \in Word
  /\ \A n \in Sizes : \A x \in Int : x % Modulus(n) \in Word /\ x % Modulus(n) \in 0 .. Modulus(n) - 1
  /\ Modulus(X64) \in Nat \ {0}
<1>1. \A n \in Sizes : Modulus(n) \in Nat \ {0} /\ Modulus(n) <= Modulus(X64) BY ModulusFacts DEF Sizes
<1>2. Modulus(X64) \in Nat \ {0} BY ModulusFacts
<1> DEFINE M == Modulus(X64)
<1>3. \A x \in 0 .. M - 1 : x \in Nat /\ x \in Int /\ x % M = x
 <2>1. SUFFICES ASSUME NEW x \in 0 .. M - 1 PROVE x \in Nat /\ x \in Int /\ x % M = x OBVIOUS
 <2>2. x % M = x BY <1>2, ModSmall
 <2> QED BY <1>2, <2>2
<1>4. \A n \in Sizes : \A x \in 0 .. Modulus(n) - 1 : x \in 0 .. M - 1
 <2>1. SUFFICES ASSUME NEW n \in Sizes, NEW x \in 0 .. Modulus(n) - 1 PROVE x \in 0 .. M - 1 OBVIOUS
 <2> DEFINE N0 == Modulus(n)
 <2>2. N0 \in Nat /\ N0 <= M /\ x \in 0 .. N0 - 1 BY <1>1, <2>1
 <2> HIDE DEF N0, M
 <2>3. M \in Nat BY <1>2 DEF M
 <2> QED BY <2>2, <2>3
<1>5. \A n \in Sizes : \A x \in Int : x % Modulus(n) \in 0 .. Modulus(n) - 1 BY <1>1, ModInRange
<1> QED BY <1>2, <1>3, <1>4, <1>5 DEF Word

LEMMA SignedFacts ==
  ASSUME NEW n \in Sizes, NEW v \in Int
  PROVE  /\ Signed(v, n) \in Int
         /\ Signed(v % Modulus(n), n) = Signed(v, n)
         /\ Signed(v, n) % Modulus(n) = v % Modulus(n)
<1> DEFINE M == Modulus(n)
           w == v % M
<1>1. M \in Nat \ {0} BY ModulusFacts
<1>2. w \in 0 .. M - 1 /\ w \in Int BY <1>1, ModInRange
<1>3. w % M = w BY <1>1, <1>2, ModSmall
<1>4. (w + (-1) * M) % M = w % M BY <1>1, <1>2, ModShift
<1>5. Signed(v, n) = IF 2 * w >= M THEN w - M ELSE w BY DEF Signed
<1>6. Signed(w, n) = IF 2 * w >= M THEN w - M ELSE w BY <1>3 DEF Signed
<1> HIDE DEF w, M
<1>7. w - M = w + (-1) * M BY <1>1, <1>2
<1>8. Signed(v, n) \in Int BY <1>1, <1>2, <1>5
<1>9. Signed(v, n) % M = w BY <1>3, <1>4, <1>5, <1>7
<1>10. Signed(w, n) = Signed(v, n) BY <1>5, <1>6
<1> QED BY <1>8, <1>9, <1>10 DEF w, M

LEMMA SignedAlike ==
  ASSUME NEW n \in Sizes, NEW a \in Int, NEW b \in Int, a % Modulus(n) = b % Modulus(n)
  PROVE  Signed(a, n) = Signed(b, n)
BY DEF Signed

LEMMA QuotientInt == ASSUME NEW a \in Int, NEW b \in Int PROVE Quotient(a, b) \in Int
<1> DEFINE p == IF a < 0 THEN -a ELSE a
           r == IF b < 0 THEN -b ELSE b
           q == p \div r
<1>1. CASE b = 0 BY <1>1 DEF Quotient
<1>2. CASE b # 0
 <2>1. p \in Nat /\ r \in Nat \ {0} BY <1>2
 <2> HIDE DEF p, r
 <2>2. q \in Int BY <2>1, DivMod
 <2>3. Quotient(a, b) = IF (a < 0) = (b < 0) THEN q ELSE -q BY <1>2 DEF Quotient, p, r
 <2> HIDE DEF q
 <2> QED BY <2>2, <2>3
<1> QED BY <1>1, <1>2

LEMMA ArithForms ==
  ASSUME NEW a, NEW b, NEW n
  PROVE  /\ Arith("add", a, b, n) = (a + b) % Modulus(n)
         /\ Arith("sub", a, b, n) = (a - b) % Modulus(n)
         /\ Arith("mul", a, b, n) = ((a % Modulus(n)) * (b % Modulus(n))) % Modulus(n)
         /\ Arith("sdiv", a, b, n) = Quotient(Signed(a, n), Signed(b, n)) % Modulus(n)
<1> HIDE DEF Modulus
<1>1. Arith("add", a, b, n) = (a + b) % Modulus(n) BY Zenon DEF Arith
<1>2. Arith("sub", a, b, n) = (a - b) % Modulus(n) BY Zenon DEF Arith
<1>3. Arith("mul", a, b, n) = ((a % Modulus(n)) * (b % Modulus(n))) % Modulus(n) BY Zenon DEF Arith
<1>4. Arith("sdiv", a, b, n) = Quotient(Signed(a, n), Signed(b, n)) % Modulus(n) BY Zenon DEF Arith
<1> QED BY <1>1, <1>2, <1>3, <1>4

(* Arithmetic sees its operands modulo the size. *)
LEMMA ArithFacts ==
  ASSUME NEW op \in ArithOps, NEW n \in Sizes, NEW a \in Int, NEW b \in Int
  PROVE  /\ Arith(op, a, b, n) \in 0 .. Modulus(n) - 1
         /\ Arith(op, a % Modulus(n), b % Modulus(n), n) = Arith(op, a, b, n)
<1> DEFINE M == Modulus(n)
           c == a % M
           d == b % M
<1>1. M \in Nat \ {0} BY ModulusFacts
<1>2. c \in Int /\ d \in Int /\ c % M = c /\ d % M = d BY <1>1, ModInRange, ModTwice
<1>3. Signed(a, n) \in Int /\ Signed(b, n) \in Int BY SignedFacts
<1>4. Signed(c, n) = Signed(a, n) /\ Signed(d, n) = Signed(b, n) BY SignedFacts
<1>5. \A x \in Int : x % M \in 0 .. M - 1 BY <1>1, ModInRange
<1>6. CASE op = "add"
 <2>1. (c + d) % M = (a + b) % M BY <1>1, ModOfSum
 <2>2. Arith(op, a, b, n) = (a + b) % M /\ Arith(op, c, d, n) = (c + d) % M BY <1>6, ArithForms
 <2>3. a + b \in Int OBVIOUS
 <2> HIDE DEF M, c, d
 <2>4. Arith(op, a, b, n) \in 0 .. M - 1 /\ Arith(op, c, d, n) = Arith(op, a, b, n) BY <1>5, <2>1, <2>2, <2>3
 <2> QED BY <2>4 DEF M, c, d
<1>7. CASE op = "sub"
 <2>1. (c - d) % M = (a - b) % M BY <1>1, ModOfSum
 <2>2. Arith(op, a, b, n) = (a - b) % M /\ Arith(op, c, d, n) = (c - d) % M BY <1>7, ArithForms
 <2>3. a - b \in Int OBVIOUS
 <2> HIDE DEF M, c, d
 <2>4. Arith(op, a, b, n) \in 0 .. M - 1 /\ Arith(op, c, d, n) = Arith(op, a, b, n) BY <1>5, <2>1, <2>2, <2>3
 <2> QED BY <2>4 DEF M, c, d
<1>8. CASE op = "mul"
 <2>1. Arith(op, a, b, n) = (c * d) % M /\ Arith(op, c, d, n) = ((c % M) * (d % M)) % M BY <1>8, ArithForms
 <2>2. c * d \in Int BY <1>2
 <2> HIDE DEF M, c, d
 <2>3. Arith(op, a, b, n) \in 0 .. M - 1 /\ Arith(op, c, d, n) = Arith(op, a, b, n) BY <1>2, <1>5, <2>1, <2>2
 <2> QED BY <2>3 DEF M, c, d
<1>9. CASE op = "sdiv"
 <2> DEFINE q == Quotient(Signed(a, n), Signed(b, n))
 <2>1. Arith(op, a, b, n) = q % M BY <1>9, ArithForms
 <2>2. Arith(op, c, d, n) = q % M BY <1>4, <1>9, ArithForms
 <2>3. q \in Int BY <1>3, QuotientInt
 <2> HIDE DEF M, c, d, q
 <2>4. Arith(op, a, b, n) \in 0 .. M - 1 /\ Arith(op, c, d, n) = Arith(op, a, b, n) BY <1>5, <2>1, <2>2, <2>3
 <2> QED BY <2>4 DEF M, c, d
<1> QED BY <1>6, <1>7, <1>8, <1>9 DEF ArithOps

LEMMA ArithAlike ==
  ASSUME NEW op \in ArithOps, NEW n \in Sizes, NEW a \in Int, NEW b \in Int, NEW c \in Int, NEW d \in Int,
         a % Modulus(n) = c % Modulus(n), b % Modulus(n) = d % Modulus(n)
  PROVE  Arith(op, a, b, n) = Arith(op, c, d, n)
<1>1. Arith(op, a % Modulus(n), b % Modulus(n), n) = Arith(op, a, b, n) BY ArithFacts
<1>2. Arith(op, c % Modulus(n), d % Modulus(n), n) = Arith(op, c, d, n) BY ArithFacts
<1> QED BY <1>1, <1>2

LEMMA FlagsAlike ==
  ASSUME NEW n \in Sizes, NEW a \in Int, NEW b \in Int, NEW c \in Int, NEW d \in Int,
         a % Modulus(n) = c % Modulus(n), b % Modulus(n) = d % Modulus(n)
  PROVE  Flags(a, b, n) = Flags(c, d, n)
<1>1. Signed(a, n) = Signed(c, n) /\ Signed(b, n) = Signed(d, n) BY SignedAlike
<1> QED BY <1>1 DEF Flags
-----------------------------------------------------------------------------
LEMMA PhysicalNumbers ==
  /\ \A r \in PhysicalRegs : r \in Int
  /\ General \subseteq PhysicalRegs /\ FP \in PhysicalRegs /\ SP \in PhysicalRegs
  /\ SCRATCH0 \in PhysicalRegs /\ SCRATCH1 \in PhysicalRegs /\ REG_X0 \in PhysicalRegs
  /\ \A r \in PhysicalRegs : ~IsVReg(r)
<1>1. Registers \subseteq 0 .. FirstVReg - 1 BY RegistersAssumption
<1> QED BY <1>1 DEF PhysicalRegs, General, REG_X0, SCRATCH0, SCRATCH1, FP, LR, SP, IsVReg, FirstVReg

LEMMA LineShape ==
  ASSUME NEW op \in LineOps, NEW n \in Sizes, NEW d \in Int, NEW l \in Int,
         NEW r \in Int \cup Comparisons, NEW k \in Int
  PROVE  /\ Line(op, n, d, l, r, k) \in Lines
         /\ Line(op, n, d, l, r, k).op = op /\ Line(op, n, d, l, r, k).size = n
         /\ Line(op, n, d, l, r, k).dst = d /\ Line(op, n, d, l, r, k).lhs = l
         /\ Line(op, n, d, l, r, k).rhs = r /\ Line(op, n, d, l, r, k).imm = k
BY DEF Line, Lines

LEMMA RegisterWords ==
  ASSUME NEW s, NEW R, Machine(s, R), NEW r \in R
  PROVE  s.regs[r] \in Word /\ s.regs[r] \in Int /\ s.regs[r] % Modulus(X64) = s.regs[r]
         /\ \A n \in Sizes : Read(s, r, n) \in Word /\ Read(s, r, n) \in Int
<1>1. s.regs[r] \in Word BY DEF Machine
<1> QED BY <1>1, WordFacts DEF Read

LEMMA AddressWords == ASSUME NEW s, NEW R, Machine(s, R), NEW b \in R, NEW k \in Int PROVE AddressAt(s, b, k) \in Word
<1>1. s.regs[b] \in Int BY RegisterWords
<1>2. s.regs[b] + k \in Int BY <1>1
<1> QED BY <1>2, WordFacts DEF AddressAt, Sizes

LEMMA FetchWords ==
  ASSUME NEW s, NEW R, Machine(s, R), NEW x \in Word, NEW n \in Sizes
  PROVE  Fetch(s, x, n) \in Word /\ Fetch(s, x, n) \in 0 .. Modulus(n) - 1 /\ Cell(s, x) \in Int
<1>1. Cell(s, x) \in Word BY DEF Machine
<1> QED BY <1>1, WordFacts DEF Fetch
-----------------------------------------------------------------------------
(* What each printed line does. *)
Ready(s) == Machine(s, PhysicalRegs) /\ s.at = Here
Assigns(s, l, d, v) ==
  Ready(s) /\ l \in Lines /\ d \in PhysicalRegs /\ v \in Word /\ Execute(s, l) = Write(s, d, v)
Stores(s, l, x, v) ==
  Ready(s) /\ l \in Lines /\ x \in Word /\ v \in Word /\ Execute(s, l) = StoreCell(s, x, v)

LEMMA AssignsRegister == ASSUME NEW s, NEW l, NEW d, NEW v, Assigns(s, l, d, v) PROVE \E t : Sets(s, l, d, v, t)
<1>1. Machine(s, PhysicalRegs) BY DEF Assigns, Ready
<1>2. s.at = Here BY DEF Assigns, Ready
<1>3. l \in Lines BY DEF Assigns
<1>4. d \in PhysicalRegs BY DEF Assigns
<1>5. v \in Word BY DEF Assigns
<1>6. Execute(s, l) = Write(s, d, v) BY DEF Assigns
<1> QED BY <1>1, <1>2, <1>3, <1>4, <1>5, <1>6, SetsRegister

LEMMA StoresCell == ASSUME NEW s, NEW l, NEW x, NEW v, Stores(s, l, x, v) PROVE \E t : Puts(s, l, x, v, t)
<1>1. Machine(s, PhysicalRegs) BY DEF Stores, Ready
<1>2. s.at = Here BY DEF Stores, Ready
<1>3. l \in Lines BY DEF Stores
<1>4. x \in Word BY DEF Stores
<1>5. v \in Word BY DEF Stores
<1>6. Execute(s, l) = StoreCell(s, x, v) BY DEF Stores
<1> QED BY <1>1, <1>2, <1>3, <1>4, <1>5, <1>6, SetsCell

LEMMA RunMove ==
  ASSUME NEW s, Ready(s), NEW n \in Sizes, NEW d \in PhysicalRegs, NEW l \in PhysicalRegs
  PROVE  \E t : Sets(s, Move(n, d, l), d, s.regs[l] % Modulus(n), t)
<1> DEFINE x == Move(n, d, l)
           v == Read(s, l, n)
<1>1. d \in Int /\ l \in Int /\ SP \in Int /\ 0 \in Int BY PhysicalNumbers
<1>2. "mov" \in LineOps BY DEF LineOps
<1>3. x \in Lines /\ x.op = "mov" /\ x.dst = d /\ x.rhs = l /\ x.size = n BY <1>1, <1>2, LineShape DEF Move
<1>4. v \in Word BY RegisterWords DEF Ready
<1> HIDE DEF x
<1>5. Execute(s, x) = Write(s, d, v) BY <1>3 DEF Execute
<1> HIDE DEF v
<1>6. Assigns(s, x, d, v) BY <1>3, <1>4, <1>5 DEF Assigns
<1>6a. \E t : Sets(s, x, d, v, t) BY <1>6, AssignsRegister
<1> QED BY <1>6a DEF x, v, Read

LEMMA RunMoveImm ==
  ASSUME NEW s, Ready(s), NEW n \in Sizes, NEW d \in PhysicalRegs, NEW k \in Int
  PROVE  \E t : Sets(s, MoveImm(n, d, k), d, k % Modulus(n), t)
<1> DEFINE x == MoveImm(n, d, k)
           v == k % Modulus(n)
<1>1. d \in Int /\ SP \in Int BY PhysicalNumbers
<1>2. "mov_imm" \in LineOps BY DEF LineOps
<1>3. x \in Lines /\ x.op = "mov_imm" /\ x.dst = d /\ x.imm = k /\ x.size = n BY <1>1, <1>2, LineShape DEF MoveImm
<1>4. v \in Word BY WordFacts
<1> HIDE DEF x
<1>5. Execute(s, x) = Write(s, d, v) BY <1>3 DEF Execute
<1> HIDE DEF v
<1>6. Assigns(s, x, d, v) BY <1>3, <1>4, <1>5 DEF Assigns
<1>6a. \E t : Sets(s, x, d, v, t) BY <1>6, AssignsRegister
<1> QED BY <1>6a DEF x, v

LEMMA RunMovz ==
  ASSUME NEW s, Ready(s), NEW n \in Sizes, NEW d \in PhysicalRegs, NEW k \in {0, 1, 2, 3}, NEW c \in Int,
         c * Pow(Chunk, k) \in Word
  PROVE  \E t : Sets(s, Line("movz", n, d, k, SP, c), d, c * Pow(Chunk, k), t)
<1> DEFINE x == Line("movz", n, d, k, SP, c)
           v == c * Pow(Chunk, k)
<1>1. d \in Int /\ SP \in Int /\ k \in Int BY PhysicalNumbers
<1>2. "movz" \in LineOps BY DEF LineOps
<1>3. x \in Lines /\ x.op = "movz" /\ x.dst = d /\ x.lhs = k /\ x.imm = c BY <1>1, <1>2, LineShape
<1>4. v \in Word OBVIOUS
<1> HIDE DEF x
<1>5. Execute(s, x) = Write(s, d, v) BY <1>3 DEF Execute
<1> HIDE DEF v
<1>6. Assigns(s, x, d, v) BY <1>3, <1>4, <1>5 DEF Assigns
<1>6a. \E t : Sets(s, x, d, v, t) BY <1>6, AssignsRegister
<1> QED BY <1>6a DEF x, v

LEMMA RunMovk ==
  ASSUME NEW s, Ready(s), NEW n \in Sizes, NEW d \in PhysicalRegs, NEW k \in {0, 1, 2, 3}, NEW c \in Int,
         NEW w, Read(s, d, n) = w, w + (c - ChunkAt(w, k)) * Pow(Chunk, k) \in Word
  PROVE  \E t : Sets(s, Line("movk", n, d, k, SP, c), d, w + (c - ChunkAt(w, k)) * Pow(Chunk, k), t)
<1> DEFINE x == Line("movk", n, d, k, SP, c)
           v == w + (c - ChunkAt(w, k)) * Pow(Chunk, k)
<1>1. d \in Int /\ SP \in Int /\ k \in Int BY PhysicalNumbers
<1>2. "movk" \in LineOps BY DEF LineOps
<1>3. x \in Lines /\ x.op = "movk" /\ x.dst = d /\ x.lhs = k /\ x.imm = c /\ x.size = n BY <1>1, <1>2, LineShape
<1>4. v \in Word OBVIOUS
<1> HIDE DEF x
<1>5. Execute(s, x) = Write(s, d, v) BY <1>3 DEF Execute
<1> HIDE DEF v
<1>6. Assigns(s, x, d, v) BY <1>3, <1>4, <1>5 DEF Assigns
<1>6a. \E t : Sets(s, x, d, v, t) BY <1>6, AssignsRegister
<1> QED BY <1>6a DEF x, v

LEMMA RunOp3 ==
  ASSUME NEW s, Ready(s), NEW op \in ArithOps, NEW n \in Sizes,
         NEW d \in PhysicalRegs, NEW l \in PhysicalRegs, NEW r \in PhysicalRegs
  PROVE  \E t : Sets(s, Op3(op, n, d, l, r), d, Arith(op, s.regs[l], s.regs[r], n), t)
<1> DEFINE x == Op3(op, n, d, l, r)
           e == Read(s, l, n)
           f == Read(s, r, n)
           v == Arith(op, e, f, n)
<1>1. d \in Int /\ l \in Int /\ r \in Int /\ 0 \in Int BY PhysicalNumbers
<1>2. op \in LineOps /\ op \in {"add", "sub", "mul", "sdiv"} BY DEF LineOps, ArithOps
<1>3. x \in Lines /\ x.op = op /\ x.dst = d /\ x.lhs = l /\ x.rhs = r /\ x.size = n BY <1>1, <1>2, LineShape DEF Op3
<1>4. s.regs[l] \in Int /\ s.regs[r] \in Int BY RegisterWords DEF Ready
<1>5. v = Arith(op, s.regs[l], s.regs[r], n) BY <1>4, ArithFacts DEF Read
<1>6. v \in Word BY <1>4, <1>5, ArithFacts, WordFacts
<1> HIDE DEF x
<1>7. Execute(s, x) = Write(s, d, v) BY <1>2, <1>3 DEF Execute
<1> HIDE DEF v
<1>8. Assigns(s, x, d, v) BY <1>3, <1>6, <1>7 DEF Assigns
<1>8a. \E t : Sets(s, x, d, v, t) BY <1>8, AssignsRegister
<1> QED BY <1>5, <1>8a DEF x

LEMMA RunOpImm ==
  ASSUME NEW s, Ready(s), NEW op \in {"add", "sub"}, NEW n \in Sizes,
         NEW d \in PhysicalRegs, NEW l \in PhysicalRegs, NEW k \in Int
  PROVE  \E t : Sets(s, OpImm(IF op = "add" THEN "add_imm" ELSE "sub_imm", n, d, l, k), d, Arith(op, s.regs[l], k, n), t)
<1> DEFINE o == IF op = "add" THEN "add_imm" ELSE "sub_imm"
           x == OpImm(o, n, d, l, k)
           v == Arith(op, s.regs[l], k, n)
<1>1. d \in Int /\ l \in Int /\ SP \in Int BY PhysicalNumbers
<1>2. o \in LineOps /\ op \in ArithOps BY DEF LineOps, ArithOps
<1>3. x \in Lines /\ x.op = o /\ x.dst = d /\ x.lhs = l /\ x.imm = k /\ x.size = n BY <1>1, <1>2, LineShape DEF OpImm
<1>4. s.regs[l] \in Int BY RegisterWords DEF Ready
<1>5. v \in Word BY <1>2, <1>4, ArithFacts, WordFacts
<1> HIDE DEF x
<1>6. Execute(s, x) = Write(s, d, v)
 <2>1. CASE op = "add" BY <1>3, <2>1 DEF Execute
 <2>2. CASE op = "sub" BY <1>3, <2>2 DEF Execute
 <2> QED BY <2>1, <2>2
<1> HIDE DEF v
<1>7. Assigns(s, x, d, v) BY <1>3, <1>5, <1>6 DEF Assigns
<1>7a. \E t : Sets(s, x, d, v, t) BY <1>7, AssignsRegister
<1> QED BY <1>7a DEF x, v

LEMMA RunExtended ==
  ASSUME NEW s, Ready(s), NEW d \in PhysicalRegs, NEW l \in PhysicalRegs, NEW r \in PhysicalRegs
  PROVE  /\ \E t : Sets(s, Sxtw(d, r), d, Signed(s.regs[r], W32) % Modulus(X64), t)
         /\ \A k \in {1, 2, 4, 8} :
              \E t : Sets(s, Line("add_sxtw", X64, d, l, r, k), d, (s.regs[l] + Signed(s.regs[r], W32) * k) % Modulus(X64), t)
<1>1. d \in Int /\ l \in Int /\ r \in Int /\ SP \in Int /\ 0 \in Int /\ X64 \in Sizes /\ W32 \in Sizes
  BY PhysicalNumbers DEF Sizes
<1>2. "sxtw" \in LineOps /\ "add_sxtw" \in LineOps BY DEF LineOps
<1>3. s.regs[l] \in Int /\ s.regs[r] \in Int BY RegisterWords DEF Ready
<1> DEFINE e == s.regs[l]
           g == Signed(s.regs[r], W32)
<1>4. e \in Int /\ g \in Int BY <1>1, <1>3, SignedFacts
<1>5. \E t : Sets(s, Sxtw(d, r), d, g % Modulus(X64), t)
 <2> DEFINE x == Sxtw(d, r)
            v == g % Modulus(X64)
 <2>1. x \in Lines /\ x.op = "sxtw" /\ x.dst = d /\ x.rhs = r BY <1>1, <1>2, LineShape DEF Sxtw
 <2>2. v \in Word BY <1>1, <1>4, WordFacts
 <2> HIDE DEF x
 <2>3. Execute(s, x) = Write(s, d, v) BY <2>1 DEF Execute
 <2> HIDE DEF v
 <2>4. Assigns(s, x, d, v) BY <2>1, <2>2, <2>3 DEF Assigns
 <2>4a. \E t : Sets(s, x, d, v, t) BY <2>4, AssignsRegister
 <2> QED BY <2>4a DEF x, v
<1>6. ASSUME NEW k \in {1, 2, 4, 8}
      PROVE  \E t : Sets(s, Line("add_sxtw", X64, d, l, r, k), d, (e + g * k) % Modulus(X64), t)
 <2> DEFINE x == Line("add_sxtw", X64, d, l, r, k)
            v == (e + g * k) % Modulus(X64)
 <2>1. k \in Int OBVIOUS
 <2>2. x \in Lines /\ x.op = "add_sxtw" /\ x.dst = d /\ x.lhs = l /\ x.rhs = r /\ x.imm = k BY <1>1, <1>2, <2>1, LineShape
 <2>3. v \in Word
  <3>1. e + g * k \in Int
   <4> HIDE DEF e, g
   <4>1. g * k \in Int BY <1>4, <2>1
   <4> QED BY <1>4, <4>1
  <3> QED BY <1>1, <3>1, WordFacts
 <2> HIDE DEF x
 <2>4. Execute(s, x) = Write(s, d, v) BY <2>2 DEF Execute
 <2> HIDE DEF v
 <2>5. Assigns(s, x, d, v) BY <2>2, <2>3, <2>4 DEF Assigns
 <2>5a. \E t : Sets(s, x, d, v, t) BY <2>5, AssignsRegister
 <2> QED BY <2>5a DEF x, v
<1> QED BY <1>5, <1>6

LEMMA RunAdr ==
  ASSUME NEW s, Ready(s), NEW d \in PhysicalRegs, NEW v \in Word PROVE \E t : Sets(s, Adr(d, v), d, v, t)
<1> DEFINE x == Adr(d, v)
<1>1. d \in Int /\ SP \in Int /\ v \in Int /\ X64 \in Sizes BY PhysicalNumbers, WordFacts DEF Sizes
<1>2. "adr" \in LineOps BY DEF LineOps
<1>3. x \in Lines /\ x.op = "adr" /\ x.dst = d /\ x.imm = v BY <1>1, <1>2, LineShape DEF Adr
<1> HIDE DEF x
<1>4. Execute(s, x) = Write(s, d, v) BY <1>3 DEF Execute
<1>5. Assigns(s, x, d, v) BY <1>3, <1>4 DEF Assigns
<1>5a. \E t : Sets(s, x, d, v, t) BY <1>5, AssignsRegister
<1> QED BY <1>5a DEF x

LEMMA RunLoad ==
  ASSUME NEW s, Ready(s), NEW op \in {"ldr", "ldur"}, NEW n \in Sizes,
         NEW d \in PhysicalRegs, NEW b \in PhysicalRegs, NEW k \in Int
  PROVE  \E t : Sets(s, Access(op, n, d, b, k), d, Fetch(s, AddressAt(s, b, k), n), t)
<1> DEFINE x == Access(op, n, d, b, k)
           a == AddressAt(s, b, k)
           v == Fetch(s, a, n)
<1>1. d \in Int /\ b \in Int /\ SP \in Int BY PhysicalNumbers
<1>2. op \in LineOps BY DEF LineOps
<1>3. x \in Lines /\ x.op = op /\ x.dst = d /\ x.lhs = b /\ x.imm = k /\ x.size = n BY <1>1, <1>2, LineShape DEF Access
<1>4. a \in Word BY AddressWords DEF Ready
<1> HIDE DEF x
<1>5. v \in Word
 <2> HIDE DEF a
 <2> QED BY <1>4, FetchWords DEF Ready
<1>6. Execute(s, x) = Write(s, d, v) BY <1>3 DEF Execute
<1> HIDE DEF v
<1>7. Assigns(s, x, d, v) BY <1>3, <1>5, <1>6 DEF Assigns
<1>7a. \E t : Sets(s, x, d, v, t) BY <1>7, AssignsRegister
<1> QED BY <1>7a DEF x, v

LEMMA RunStore ==
  ASSUME NEW s, Ready(s), NEW op \in {"str", "stur"}, NEW n \in Sizes,
         NEW d \in PhysicalRegs, NEW b \in PhysicalRegs, NEW k \in Int
  PROVE  \E t : Puts(s, Access(op, n, d, b, k), AddressAt(s, b, k), Read(s, d, n), t)
<1> DEFINE x == Access(op, n, d, b, k)
           a == AddressAt(s, b, k)
           v == Read(s, d, n)
<1>1. d \in Int /\ b \in Int /\ SP \in Int BY PhysicalNumbers
<1>2. op \in LineOps BY DEF LineOps
<1>3. x \in Lines /\ x.op = op /\ x.dst = d /\ x.lhs = b /\ x.imm = k /\ x.size = n BY <1>1, <1>2, LineShape DEF Access
<1>4. a \in Word BY AddressWords DEF Ready
<1>5. v \in Word BY RegisterWords DEF Ready
<1> HIDE DEF x
<1>6. Execute(s, x) = StoreCell(s, a, v) BY <1>3 DEF Execute
<1> HIDE DEF v, a
<1>7. Stores(s, x, a, v) BY <1>3, <1>4, <1>5, <1>6 DEF Stores
<1>7a. \E t : Puts(s, x, a, v, t) BY <1>7, StoresCell
<1> QED BY <1>7a DEF x, v, a
-----------------------------------------------------------------------------
(* A stretch of text that gives register d the value v: Gives touches nothing
   else, Makes may use the scratch registers and the cells below the frame. *)
Scratches == {SCRATCH0, SCRATCH1}
Below == 0 .. SpValue - 1
Gives(s, T, d, v, t) == Does(s, T, {d}, {}, t) /\ t.regs[d] = v
Makes(s, T, d, v, t) == Does(s, T, Scratches \cup {d}, Below, t) /\ t.regs[d] = v

LEMMA DoesReady ==
  ASSUME NEW s, s.at = Here, NEW T, NEW Q, NEW X, NEW t, Does(s, T, Q, X, t) PROVE Ready(t) /\ t.flags = s.flags
BY DEF Does, Kept, Ready

LEMMA GivesReady ==
  ASSUME NEW s, s.at = Here, NEW T, NEW d, NEW v, NEW t, Gives(s, T, d, v, t)
  PROVE  /\ Ready(t) /\ t.regs[d] = v
         /\ \A r \in PhysicalRegs : r # d => t.regs[r] = s.regs[r]
         /\ \A a : Cell(t, a) = Cell(s, a)
BY DEF Gives, Does, Kept, Ready

LEMMA SetsGives == ASSUME NEW s, NEW l, NEW d, NEW v, NEW t, Sets(s, l, d, v, t) PROVE Gives(s, <<l>>, d, v, t)
BY DEF Sets, Gives

LEMMA GivesMakes == ASSUME NEW s, NEW T, NEW d, NEW v, NEW t, Gives(s, T, d, v, t) PROVE Makes(s, T, d, v, t)
<1>1. Does(s, T, {d}, {}, t) /\ t.regs[d] = v BY DEF Gives
<1>2. Does(s, T, Scratches \cup {d}, Below, t) BY <1>1, DoesWider
<1> QED BY <1>1, <1>2 DEF Makes

LEMMA GivesAgain ==
  ASSUME NEW s, NEW T, NEW d, NEW v, NEW t, Gives(s, T, d, v, t),
         NEW U, NEW w, NEW u, Gives(t, U, d, w, u)
  PROVE  Gives(s, T \o U, d, w, u)
<1>1. Does(s, T, {d}, {}, t) BY DEF Gives
<1>2. Does(t, U, {d}, {}, u) /\ u.regs[d] = w BY DEF Gives
<1>3. Does(s, T \o U, {d} \cup {d}, {} \cup {}, u) BY <1>1, <1>2, DoesJoin
<1>4. Does(s, T \o U, {d}, {}, u) BY <1>3, DoesWider
<1> QED BY <1>2, <1>4 DEF Gives
-----------------------------------------------------------------------------
LEMMA PowFacts ==
  ASSUME NEW k \in {0, 1, 2, 3}
  PROVE  /\ Pow(Chunk, k) \in Nat \ {0} /\ Chunk \in Nat \ {0}
         /\ Pow(Chunk, k) * Chunk \in Nat \ {0} /\ Pow(Chunk, k) <= Pow(Chunk, k) * Chunk
         /\ Pow(Chunk, k) * Chunk <= Modulus(X64)
         /\ k \in {0, 1} => Pow(Chunk, k) * Chunk <= Modulus(W32)
<1>1. Chunk \in Nat \ {0} BY MachineAssumption
<1> DEFINE p1 == Chunk * Chunk
           p2 == Chunk * Chunk * Chunk
           p3 == Chunk * Chunk * Chunk * Chunk
<1>2. \A x \in Nat \ {0} : x * Chunk \in Nat \ {0} /\ x <= x * Chunk
 <2>1. SUFFICES ASSUME NEW x \in Nat \ {0} PROVE x * Chunk \in Nat \ {0} /\ x <= x * Chunk OBVIOUS
 <2> QED BY <1>1
<1>3. p1 \in Nat \ {0} /\ Chunk <= p1 BY <1>1, <1>2
<1>4. p2 \in Nat \ {0} /\ p1 <= p2
 <2>1. p2 = p1 * Chunk OBVIOUS
 <2> HIDE DEF p1, p2
 <2> QED BY <1>2, <1>3, <2>1
<1>5. p3 \in Nat \ {0} /\ p2 <= p3
 <2>1. p3 = p2 * Chunk OBVIOUS
 <2> HIDE DEF p1, p2, p3
 <2> QED BY <1>2, <1>4, <2>1
<1>6. Modulus(W32) = p1 /\ Modulus(X64) = p3 BY ModulusFacts
<1>7. /\ Pow(Chunk, 0) = 1 /\ Pow(Chunk, 1) = Chunk /\ Pow(Chunk, 2) = p1 /\ Pow(Chunk, 3) = p2 BY DEF Pow
<1>8. 1 * Chunk = Chunk /\ Chunk * Chunk = p1 /\ p1 * Chunk = p2 /\ p2 * Chunk = p3 BY <1>1
<1> HIDE DEF p1, p2, p3
<1>9. CASE k = 0 BY <1>1, <1>3, <1>4, <1>5, <1>6, <1>7, <1>8, <1>9
<1>10. CASE k = 1 BY <1>1, <1>3, <1>4, <1>5, <1>6, <1>7, <1>8, <1>10
<1>11. CASE k = 2 BY <1>1, <1>3, <1>4, <1>5, <1>6, <1>7, <1>8, <1>11
<1>12. CASE k = 3 BY <1>1, <1>3, <1>4, <1>5, <1>6, <1>7, <1>8, <1>12
<1> QED BY <1>9, <1>10, <1>11, <1>12

(* d holds the digits of v below q, unless they are zero. *)
Holds(s, d, q, v) == v % q = 0 \/ s.regs[d] = v % q
Fills(s, T, d, q, v, t) == Does(s, T, {d}, {}, t) /\ Holds(t, d, q, v)

LEMMA FillsJoin ==
  ASSUME NEW s, NEW t, NEW u, NEW T, NEW U, NEW d, NEW q, NEW p, NEW v,
         Fills(s, T, d, q, v, t), Fills(t, U, d, p, v, u)
  PROVE  Fills(s, T \o U, d, p, v, u)
<1>1. Does(s, T, {d}, {}, t) BY DEF Fills
<1>2. Does(t, U, {d}, {}, u) /\ Holds(u, d, p, v) BY DEF Fills
<1>3. Does(s, T \o U, {d} \cup {d}, {} \cup {}, u) BY <1>1, <1>2, DoesJoin
<1>4. Does(s, T \o U, {d}, {}, u) BY <1>3, DoesWider
<1> QED BY <1>2, <1>4 DEF Fills

LEMMA ChunkRuns ==
  ASSUME NEW s, Ready(s), NEW n \in Sizes, NEW d \in PhysicalRegs, NEW k \in {0, 1, 2, 3},
         n = W32 => k \in {0, 1}, NEW v \in 0 .. Modulus(n) - 1, Holds(s, d, Pow(Chunk, k), v)
  PROVE  \E t : Fills(s, MovChunk(n, d, v, k), d, Pow(Chunk, k) * Chunk, v, t)
<1> DEFINE q == Pow(Chunk, k)
           c == ChunkAt(v, k)
           w == v % q
           p == q * Chunk
           M == Modulus(n)
<1>1. q \in Nat \ {0} /\ Chunk \in Nat \ {0} /\ p \in Nat \ {0} /\ q <= p BY PowFacts
<1>2. p <= M
 <2>1. n = W32 \/ n = X64 BY DEF Sizes
 <2> QED BY <2>1, PowFacts
<1>3. v \in Nat /\ v \in Int /\ M \in Nat \ {0} /\ M <= Modulus(X64) BY ModulusFacts DEF Sizes
<1>4. c = (v \div q) % Chunk BY DEF ChunkAt
<1>5. v \div q \in Int /\ w \in 0 .. q - 1 BY <1>1, <1>3, DivMod
<1>6. c \in 0 .. Chunk - 1 /\ c \in Int
 <2> HIDE DEF c
 <2>1. (v \div q) % Chunk \in 0 .. Chunk - 1 BY <1>1, <1>5, ModInRange
 <2> QED BY <1>1, <1>4, <2>1
<1>7. v % p = w + c * q BY <1>1, <1>3, <1>4, NextDigit
<1>8. v % p \in 0 .. p - 1 BY <1>1, <1>3, ModInRange
<1>9. v % p \in Word
 <2> DEFINE z == v % p
            M0 == Modulus(X64)
 <2>1. z \in 0 .. p - 1 /\ p <= M /\ M <= M0 /\ M0 \in Nat BY <1>2, <1>3, <1>8, ModulusFacts
 <2> HIDE DEF z, p, M, M0
 <2>2. z \in 0 .. M0 - 1 BY <1>1, <1>3, <2>1
 <2> QED BY <2>2 DEF z, M0, Word
<1>10. Machine(s, PhysicalRegs) /\ s.at = Here BY DEF Ready
<1>11. CASE c = 0
 <2>1. MovChunk(n, d, v, k) = <<>> BY <1>11 DEF MovChunk
 <2>2. c * q = 0 /\ v % p = w
  <3> HIDE DEF c, q, w, p
  <3>1. c * q = 0 BY <1>1, <1>11
  <3> QED BY <1>5, <1>7, <3>1
 <2>3. Does(s, <<>>, {}, {}, s) BY <1>10, DoesNothing
 <2>4. Does(s, <<>>, {d}, {}, s) BY <2>3, DoesWider
 <2>5. Holds(s, d, p, v) BY <2>2 DEF Holds
 <2>6. Fills(s, <<>>, d, p, v, s) BY <2>4, <2>5 DEF Fills
 <2> QED BY <2>1, <2>6
<1>12. CASE c # 0 /\ w = 0
 <2>1. MovChunk(n, d, v, k) = <<Line("movz", n, d, k, SP, c)>> BY <1>12 DEF MovChunk
 <2>2. v % p = c * q
  <3> HIDE DEF c, q, w, p
  <3>1. c * q \in Int BY <1>1, <1>6
  <3> QED BY <1>7, <1>12, <3>1
 <2>3. c * Pow(Chunk, k) \in Word BY <1>9, <2>2
 <2> HIDE DEF c
 <2>4. PICK t : Sets(s, Line("movz", n, d, k, SP, c), d, c * Pow(Chunk, k), t) BY <1>6, <2>3, RunMovz
 <2>5. Does(s, <<Line("movz", n, d, k, SP, c)>>, {d}, {}, t) /\ t.regs[d] = v % p BY <2>2, <2>4 DEF Sets
 <2>6. Holds(t, d, p, v) BY <2>5 DEF Holds
 <2>7. Fills(s, <<Line("movz", n, d, k, SP, c)>>, d, p, v, t) BY <2>5, <2>6 DEF Fills
 <2> QED BY <2>1, <2>7
<1>13. CASE c # 0 /\ w # 0
 <2>1. MovChunk(n, d, v, k) = <<Line("movk", n, d, k, SP, c)>> BY <1>13 DEF MovChunk
 <2>2. s.regs[d] = w BY <1>13 DEF Holds
 <2>3. Read(s, d, n) = w
  <3>1. w \in 0 .. M - 1
   <4> HIDE DEF w, q, M, p
   <4> QED BY <1>1, <1>2, <1>3, <1>5
  <3>2. w % M = w BY <1>3, <3>1, ModSmall
  <3> QED BY <2>2, <3>2 DEF Read
 <2>4. ChunkAt(w, k) = 0
  <3>1. w \div q = 0 BY <1>1, <1>5, ModSmall
  <3>2. 0 % Chunk = 0 BY <1>1, ModSmall
  <3> QED BY <3>1, <3>2 DEF ChunkAt
 <2>5. w + (c - ChunkAt(w, k)) * q = v % p
  <3> DEFINE e == ChunkAt(w, k)
  <3>1. e = 0 BY <2>4
  <3> HIDE DEF c, e, q, w, p
  <3>2. c - e = c BY <1>6, <3>1
  <3> QED BY <1>7, <3>2 DEF e
 <2>6. w + (c - ChunkAt(w, k)) * Pow(Chunk, k) \in Word BY <1>9, <2>5
 <2> HIDE DEF c, w
 <2>7. PICK t : Sets(s, Line("movk", n, d, k, SP, c), d, w + (c - ChunkAt(w, k)) * Pow(Chunk, k), t)
   BY <1>6, <2>3, <2>6, RunMovk
 <2>8. Does(s, <<Line("movk", n, d, k, SP, c)>>, {d}, {}, t) /\ t.regs[d] = v % p BY <2>5, <2>7 DEF Sets
 <2>9. Holds(t, d, p, v) BY <2>8 DEF Holds
 <2>10. Fills(s, <<Line("movk", n, d, k, SP, c)>>, d, p, v, t) BY <2>8, <2>9 DEF Fills
 <2> QED BY <2>1, <2>10
<1> QED BY <1>11, <1>12, <1>13

LEMMA FillsReady ==
  ASSUME NEW s, Ready(s), NEW T, NEW d, NEW q, NEW v, NEW t, Fills(s, T, d, q, v, t)
  PROVE  Ready(t) /\ Holds(t, d, q, v)
BY DoesReady DEF Fills, Ready

(* A literal built from its chunks. *)
LEMMA EmitMovImmRuns ==
  ASSUME NEW s, Ready(s), NEW n \in Sizes, NEW d \in PhysicalRegs, NEW val \in Int
  PROVE  \E t : Gives(s, EmitMovImm(n, d, val), d, val % Modulus(n), t)
<1> DEFINE M == Modulus(n)
           v == val % M
           c0 == MovChunk(n, d, v, 0)
           c1 == MovChunk(n, d, v, 1)
           c2 == MovChunk(n, d, v, 2)
           c3 == MovChunk(n, d, v, 3)
           p(k) == Pow(Chunk, k)
<1>1. M \in Nat \ {0} /\ v \in 0 .. M - 1 /\ v \in Int BY ModulusFacts, ModInRange
<1>2. v % M = v BY <1>1, ModSmall
<1>3. CASE v <= Chunk - 1
 <2>1. EmitMovImm(n, d, val) = <<MoveImm(n, d, v)>> BY <1>3 DEF EmitMovImm
 <2> HIDE DEF v
 <2>2. PICK t : Sets(s, MoveImm(n, d, v), d, v % Modulus(n), t) BY <1>1, RunMoveImm
 <2>3. Gives(s, <<MoveImm(n, d, v)>>, d, v, t) BY <1>2, <2>2, SetsGives
 <2> QED BY <2>1, <2>3 DEF v
<1>4. CASE ~(v <= Chunk - 1)
 <2>1. EmitMovImm(n, d, val) = (c0 \o c1) \o (IF n = W32 THEN <<>> ELSE c2 \o c3) BY <1>4 DEF EmitMovImm
 <2>2. v # 0
  <3>1. Chunk \in Nat \ {0} BY MachineAssumption
  <3> HIDE DEF v
  <3> QED BY <1>1, <1>4, <3>1
 <2>3. v % p(0) = 0
  <3>1. p(0) = 1 BY DEF Pow
  <3> HIDE DEF v
  <3>2. v % 1 \in 0 .. 1 - 1 BY <1>1, ModInRange
  <3>3. v % 1 = 0 BY <3>2
  <3> QED BY <3>1, <3>3
 <2>4. p(0) * Chunk = p(1) /\ p(1) * Chunk = Modulus(W32) /\ p(1) * Chunk = p(2)
       /\ p(2) * Chunk = p(3) /\ p(3) * Chunk = Modulus(X64) BY ModulusFacts, MachineAssumption DEF Pow
 <2> HIDE DEF v, c0, c1, c2, c3
 <2>5. Holds(s, d, Pow(Chunk, 0), v) BY <2>3 DEF Holds
 <2>6. PICK t0 : Fills(s, c0, d, p(0) * Chunk, v, t0) BY <1>1, <2>5, ChunkRuns DEF c0
 <2>7. Ready(t0) /\ Holds(t0, d, Pow(Chunk, 1), v) BY <2>4, <2>6, FillsReady
 <2>8. PICK t1 : Fills(t0, c1, d, p(1) * Chunk, v, t1) BY <1>1, <2>7, ChunkRuns DEF c1
 <2>9. Fills(s, c0 \o c1, d, p(1) * Chunk, v, t1) BY <2>6, <2>8, FillsJoin
 <2>10. Ready(t1) /\ Holds(t1, d, p(1) * Chunk, v) BY <2>7, <2>8, FillsReady
 <2>11. CASE n = W32
  <3>1. Machine(t1, PhysicalRegs) BY <2>10 DEF Ready
  <3>2. Does(t1, <<>>, {}, {}, t1) BY <3>1, DoesNothing
  <3>3. Does(s, c0 \o c1, {d}, {}, t1) BY <2>9 DEF Fills
  <3>4. Does(s, (c0 \o c1) \o <<>>, {d} \cup {}, {} \cup {}, t1) BY <3>2, <3>3, DoesJoin
  <3>5. Does(s, (c0 \o c1) \o <<>>, {d}, {}, t1) BY <3>4, DoesWider
  <3>6. t1.regs[d] = v BY <1>2, <2>2, <2>4, <2>10, <2>11 DEF Holds
  <3>7. Gives(s, (c0 \o c1) \o <<>>, d, v, t1) BY <3>5, <3>6 DEF Gives
  <3> QED BY <2>1, <2>11, <3>7 DEF v
 <2>12. CASE n # W32
  <3>1. n = X64 BY <2>12 DEF Sizes
  <3>2. Holds(t1, d, Pow(Chunk, 2), v) BY <2>4, <2>10
  <3>3. PICK t2 : Fills(t1, c2, d, p(2) * Chunk, v, t2) BY <1>1, <2>10, <2>12, <3>2, ChunkRuns DEF c2
  <3>4. Ready(t2) /\ Holds(t2, d, Pow(Chunk, 3), v) BY <2>4, <2>10, <3>3, FillsReady
  <3>5. PICK t3 : Fills(t2, c3, d, p(3) * Chunk, v, t3) BY <1>1, <2>12, <3>4, ChunkRuns DEF c3
  <3>6. Fills(t1, c2 \o c3, d, p(3) * Chunk, v, t3) BY <3>3, <3>5, FillsJoin
  <3>7. Fills(s, (c0 \o c1) \o (c2 \o c3), d, p(3) * Chunk, v, t3) BY <2>9, <3>6, FillsJoin
  <3>8. t3.regs[d] = v BY <1>2, <2>2, <2>4, <3>1, <3>7 DEF Holds, Fills
  <3>9. Gives(s, (c0 \o c1) \o (c2 \o c3), d, v, t3) BY <3>7, <3>8 DEF Gives, Fills
  <3> QED BY <2>1, <2>12, <3>9 DEF v
 <2> QED BY <2>11, <2>12
<1> QED BY <1>3, <1>4
-----------------------------------------------------------------------------
(* Text that also uses register c on the way to d. *)
Via(s, T, c, d, v, t) == Does(s, T, {c, d}, {}, t) /\ t.regs[d] = v

LEMMA ViaWider ==
  ASSUME NEW s, NEW T, NEW c, NEW d, NEW v, NEW t, Via(s, T, c, d, v, t)
  PROVE  /\ c \in Scratches \cup {d} => Makes(s, T, d, v, t)
         /\ c = d => Gives(s, T, d, v, t)
<1>1. Does(s, T, {c, d}, {}, t) /\ t.regs[d] = v BY DEF Via
<1>2. ASSUME c \in Scratches \cup {d} PROVE Makes(s, T, d, v, t)
 <2>1. {c, d} \cap PhysicalRegs \subseteq Scratches \cup {d} BY <1>2
 <2>2. Does(s, T, Scratches \cup {d}, Below, t) BY <1>1, <2>1, DoesWider
 <2> QED BY <1>1, <2>2 DEF Makes
<1>3. ASSUME c = d PROVE Gives(s, T, d, v, t)
 <2>1. {c, d} \cap PhysicalRegs \subseteq {d} BY <1>3
 <2>2. Does(s, T, {d}, {}, t) BY <1>1, <2>1, DoesWider
 <2> QED BY <1>1, <2>2 DEF Gives
<1> QED BY <1>2, <1>3

LEMMA GivesVia == ASSUME NEW s, NEW T, NEW d, NEW v, NEW t, Gives(s, T, d, v, t), NEW c PROVE Via(s, T, c, d, v, t)
<1>1. Does(s, T, {d}, {}, t) /\ t.regs[d] = v BY DEF Gives
<1>2. Does(s, T, {c, d}, {}, t) BY <1>1, DoesWider
<1> QED BY <1>1, <1>2 DEF Via

LEMMA GivesThenGives ==
  ASSUME NEW s, NEW T, NEW c, NEW w, NEW u, Gives(s, T, c, w, u),
         NEW U, NEW d, NEW v, NEW t, Gives(u, U, d, v, t)
  PROVE  Via(s, T \o U, c, d, v, t)
<1>1. Does(s, T, {c}, {}, u) BY DEF Gives
<1>2. Does(u, U, {d}, {}, t) /\ t.regs[d] = v BY DEF Gives
<1>3. Does(s, T \o U, {c} \cup {d}, {} \cup {}, t) BY <1>1, <1>2, DoesJoin
<1>4. Does(s, T \o U, {c, d}, {}, t) BY <1>3, DoesWider
<1> QED BY <1>2, <1>4 DEF Via

LEMMA ImmThenOp ==
  ASSUME NEW s, Ready(s), NEW op \in ArithOps, NEW n \in Sizes, NEW d \in PhysicalRegs,
         NEW l \in PhysicalRegs, NEW c \in PhysicalRegs, c # l, NEW k \in Int
  PROVE  \E t : Via(s, EmitMovImm(n, c, k) \o <<Op3(op, n, d, l, c)>>, c, d, Arith(op, s.regs[l], k, n), t)
<1> DEFINE M == Modulus(n)
           T == EmitMovImm(n, c, k)
           w == k % M
<1>1. PICK u : Gives(s, T, c, w, u) BY EmitMovImmRuns
<1>2. s.at = Here BY DEF Ready
<1>3. Ready(u) /\ u.regs[c] = w /\ u.regs[l] = s.regs[l] BY <1>1, <1>2, GivesReady
<1>4. PICK t : Sets(u, Op3(op, n, d, l, c), d, Arith(op, u.regs[l], u.regs[c], n), t) BY <1>3, RunOp3
<1>5. s.regs[l] \in Int BY RegisterWords DEF Ready
<1>6. w \in Int /\ w % M = k % M BY ModulusFacts, ModInRange, ModTwice
<1>7. Arith(op, u.regs[l], u.regs[c], n) = Arith(op, s.regs[l], k, n)
 <2> DEFINE x == s.regs[l]
 <2>1. x \in Int BY <1>5
 <2> HIDE DEF x, w
 <2>2. Arith(op, x, w, n) = Arith(op, x, k, n) BY <1>6, <2>1, ArithAlike
 <2>3. u.regs[l] = x /\ u.regs[c] = w BY <1>3 DEF x
 <2> QED BY <2>2, <2>3 DEF x
<1>8. Gives(u, <<Op3(op, n, d, l, c)>>, d, Arith(op, s.regs[l], k, n), t) BY <1>4, <1>7, SetsGives
<1>9. Via(s, T \o <<Op3(op, n, d, l, c)>>, c, d, Arith(op, s.regs[l], k, n), t) BY <1>1, <1>8, GivesThenGives
<1> QED BY <1>9

LEMMA SignedAdd ==
  ASSUME NEW x \in Int, NEW k \in Int, NEW n \in Sizes
  PROVE  /\ Arith(AddOrSub(k), x, Abs(k), n) = (x + k) % Modulus(n)
         /\ AddOrSub(k) \in {"add", "sub"} /\ AddOrSub(k) \in ArithOps
<1>1. CASE k < 0
 <2>1. AddOrSub(k) = "sub" /\ Abs(k) = -k BY <1>1 DEF AddOrSub, Abs
 <2>2. Arith("sub", x, -k, n) = (x - (-k)) % Modulus(n) BY ArithForms
 <2>3. x - (-k) = x + k OBVIOUS
 <2> QED BY <2>1, <2>2, <2>3 DEF ArithOps
<1>2. CASE ~(k < 0)
 <2>1. AddOrSub(k) = "add" /\ Abs(k) = k BY <1>2 DEF AddOrSub, Abs
 <2>2. Arith("add", x, k, n) = (x + k) % Modulus(n) BY ArithForms
 <2> QED BY <2>1, <2>2 DEF ArithOps
<1> QED BY <1>1, <1>2

LEMMA ComputeAddrRuns ==
  ASSUME NEW s, Ready(s), NEW d \in PhysicalRegs, NEW b \in PhysicalRegs, d # b, NEW k \in Int
  PROVE  \E t : Gives(s, ComputeAddr(d, b, k), d, AddressAt(s, b, k), t)
<1>1. s.regs[b] \in Int BY RegisterWords DEF Ready
<1>2. X64 \in Sizes BY DEF Sizes
<1>3. Abs(k) \in Int BY AbsFacts
<1> DEFINE op == AddOrSub(k)
           e == Abs(k)
           T == EmitMovImm(X64, d, e) \o <<Op3(op, X64, d, b, d)>>
<1>4. op \in ArithOps /\ Arith(op, s.regs[b], e, X64) = AddressAt(s, b, k) BY <1>1, <1>2, SignedAdd DEF AddressAt
<1>5. ComputeAddr(d, b, k) = T BY DEF ComputeAddr
<1>6. \E t : Via(s, T, d, d, Arith(op, s.regs[b], e, X64), t)
 <2> HIDE DEF op, e
 <2> QED BY <1>2, <1>3, <1>4, ImmThenOp DEF e
<1> HIDE DEF T, op, e
<1>7. PICK t : Via(s, T, d, d, Arith(op, s.regs[b], e, X64), t) BY <1>6
<1>8. Via(s, T, d, d, AddressAt(s, b, k), t) BY <1>4, <1>7
<1>9. Gives(s, T, d, AddressAt(s, b, k), t) BY <1>8, ViaWider
<1> QED BY <1>5, <1>9

LEMMA AddXRuns ==
  ASSUME NEW s, Ready(s), NEW d \in PhysicalRegs, NEW b \in PhysicalRegs, NEW c \in PhysicalRegs,
         c # b, NEW k \in Int
  PROVE  \E t : Via(s, EmitAddXImmWith(d, b, k, c), c, d, AddressAt(s, b, k), t)
<1>1. s.regs[b] \in Int /\ s.regs[b] % Modulus(X64) = s.regs[b] BY RegisterWords DEF Ready
<1>2. X64 \in Sizes BY DEF Sizes
<1>3. Abs(k) \in Int BY AbsFacts
<1> DEFINE op == AddOrSub(k)
           e == Abs(k)
           a == AddressAt(s, b, k)
<1>4. op \in ArithOps /\ op \in {"add", "sub"} /\ Arith(op, s.regs[b], e, X64) = a BY <1>1, <1>2, SignedAdd DEF AddressAt
<1>5. CASE k = 0
 <2>1. EmitAddXImmWith(d, b, k, c) = <<Move(X64, d, b)>> BY <1>5 DEF EmitAddXImmWith
 <2>2. PICK t : Sets(s, Move(X64, d, b), d, s.regs[b] % Modulus(X64), t) BY <1>2, RunMove
 <2>3. a = s.regs[b] % Modulus(X64)
  <3>1. s.regs[b] + k = s.regs[b] BY <1>1, <1>5
  <3> QED BY <3>1 DEF AddressAt
 <2>4. Gives(s, <<Move(X64, d, b)>>, d, a, t) BY <2>2, <2>3, SetsGives
 <2> QED BY <2>1, <2>4, GivesVia
<1>6. CASE k # 0 /\ IsAddSubImmEncodable(e)
 <2> DEFINE o == IF op = "add" THEN "add_imm" ELSE "sub_imm"
 <2>1. (IF k > 0 THEN "add_imm" ELSE "sub_imm") = o BY <1>6 DEF AddOrSub
 <2>2. EmitAddXImmWith(d, b, k, c) = <<OpImm(o, X64, d, b, e)>> BY <1>6, <2>1 DEF EmitAddXImmWith
 <2> HIDE DEF e, op, a
 <2>3. PICK t : Sets(s, OpImm(o, X64, d, b, e), d, Arith(op, s.regs[b], e, X64), t) BY <1>2, <1>3, <1>4, RunOpImm DEF e
 <2>4. Gives(s, <<OpImm(o, X64, d, b, e)>>, d, a, t) BY <1>4, <2>3, SetsGives
 <2>5. Via(s, <<OpImm(o, X64, d, b, e)>>, c, d, a, t) BY <2>4, GivesVia
 <2> QED BY <2>2, <2>5 DEF a
<1>7. CASE k # 0 /\ ~IsAddSubImmEncodable(e)
 <2> DEFINE T == EmitMovImm(X64, c, e) \o <<Op3(op, X64, d, b, c)>>
 <2>1. EmitAddXImmWith(d, b, k, c) = T BY <1>7 DEF EmitAddXImmWith
 <2> HIDE DEF e, op, a
 <2>2. \E t : Via(s, T, c, d, Arith(op, s.regs[b], e, X64), t) BY <1>2, <1>3, <1>4, ImmThenOp DEF e
 <2> HIDE DEF T
 <2>3. PICK t : Via(s, T, c, d, Arith(op, s.regs[b], e, X64), t) BY <2>2
 <2>4. Via(s, T, c, d, a, t) BY <1>4, <2>3
 <2> QED BY <2>1, <2>4 DEF a
<1> QED BY <1>5, <1>6, <1>7

LEMMA AdjustSpRuns ==
  ASSUME NEW s, Ready(s), NEW op \in {"add", "sub"}, NEW k \in Nat
  PROVE  \E t : Via(s, AdjustSp(op, k), SCRATCH0, SP, Arith(op, s.regs[SP], k, X64), t)
<1> DEFINE v == Arith(op, s.regs[SP], k, X64)
           o == IF op = "add" THEN "add_imm" ELSE "sub_imm"
<1>1. SP \in PhysicalRegs /\ SCRATCH0 \in PhysicalRegs /\ SCRATCH0 # SP /\ X64 \in Sizes /\ k \in Int
      /\ op \in ArithOps BY PhysicalNumbers DEF SCRATCH0, SP, Sizes, ArithOps
<1>2. s.regs[SP] \in Int /\ s.regs[SP] % Modulus(X64) = s.regs[SP] BY <1>1, RegisterWords DEF Ready
<1>3. CASE k = 0
 <2>1. AdjustSp(op, k) = <<>> BY <1>3 DEF AdjustSp
 <2>2. Does(s, <<>>, {}, {}, s) BY DoesNothing DEF Ready
 <2>3. Does(s, <<>>, {SCRATCH0, SP}, {}, s) BY <2>2, DoesWider
 <2>4. v = s.regs[SP]
  <3> DEFINE x == s.regs[SP]
  <3>1. x + 0 = x /\ x - 0 = x /\ x % Modulus(X64) = x BY <1>2
  <3>2. v = (x + 0) % Modulus(X64) \/ v = (x - 0) % Modulus(X64) BY <1>3, ArithForms
  <3> QED BY <3>1, <3>2
 <2>5. Via(s, <<>>, SCRATCH0, SP, v, s) BY <2>3, <2>4 DEF Via
 <2> QED BY <2>1, <2>5
<1>4. CASE k # 0 /\ IsAddSubImmEncodable(k)
 <2>1. AdjustSp(op, k) = <<OpImm(o, X64, SP, SP, k)>> BY <1>4 DEF AdjustSp
 <2>2. PICK t : Sets(s, OpImm(o, X64, SP, SP, k), SP, v, t) BY <1>1, RunOpImm
 <2>3. Gives(s, <<OpImm(o, X64, SP, SP, k)>>, SP, v, t) BY <2>2, SetsGives
 <2>4. Via(s, <<OpImm(o, X64, SP, SP, k)>>, SCRATCH0, SP, v, t) BY <2>3, GivesVia
 <2> QED BY <2>1, <2>4
<1>5. CASE k # 0 /\ ~IsAddSubImmEncodable(k)
 <2> DEFINE T == EmitMovImm(X64, SCRATCH0, k) \o <<Op3(op, X64, SP, SP, SCRATCH0)>>
 <2>1. AdjustSp(op, k) = T BY <1>5 DEF AdjustSp
 <2>2. \E t : Via(s, T, SCRATCH0, SP, v, t) BY <1>1, ImmThenOp
 <2> QED BY <2>1, <2>2
<1> QED BY <1>3, <1>4, <1>5
=============================================================================
