------------------------- MODULE PhiLoweringProofs --------------------------
(* Theorems about the destruction of SSA form, for functions and bundles of any
   size over any set of registers: no copy reads a clobbered source, the moves
   of a bundle implement the parallel assignment, every edge of the function
   carries exactly its copies, and the lowered function does what the phis say. *)
EXTENDS PhiLowering, BasicLemmas, FiniteSetTheorems, TLAPS

(* Distinct destinations stay distinct when a copy is removed, and the
   destination of the removed one is gone. *)
LEMMA RemoveKeepsDistinct ==
  ASSUME NEW s \in Seq(Copy), NEW k \in DOMAIN s, DistinctDestinations(s)
  PROVE  /\ DistinctDestinations(RemoveAt(s, k))
         /\ \A j \in DOMAIN RemoveAt(s, k) : RemoveAt(s, k)[j].dst # s[k].dst
<1> DEFINE t == RemoveAt(s, k)
           Old(n) == IF n < k THEN n ELSE n + 1
<1>1. ASSUME NEW n \in DOMAIN t PROVE Old(n) \in DOMAIN s \ {k} /\ t[n] = s[Old(n)]
 <2>1. CASE n < k
  <3>1. n \in 1 .. k - 1 /\ n \in DOMAIN s \ {k} BY <2>1, RemoveAtFacts
  <3>2. t[n] = s[n] BY <3>1, RemoveAtFacts
  <3> QED BY <2>1, <3>1, <3>2
 <2>2. CASE ~(n < k)
  <3>1. n \in k .. Len(s) - 1 /\ n + 1 \in DOMAIN s \ {k} BY <2>2, RemoveAtFacts
  <3>2. t[n] = s[n + 1] BY <3>1, RemoveAtFacts
  <3> QED BY <2>2, <3>1, <3>2
 <2> QED BY <2>1, <2>2
<1>2. ASSUME NEW i \in DOMAIN t, NEW j \in DOMAIN t, t[i].dst = t[j].dst PROVE i = j
 <2>1. Old(i) = Old(j)
  <3> HIDE DEF Old, t
  <3> QED BY <1>1, <1>2 DEF DistinctDestinations
 <2>2. i \in Int /\ j \in Int /\ k \in Int BY RemoveAtFacts
 <2> QED BY <2>1, <2>2
<1>3. ASSUME NEW j \in DOMAIN t PROVE t[j].dst # s[k].dst
 <2> HIDE DEF Old, t
 <2> QED BY <1>1 DEF DistinctDestinations
<1> QED BY <1>2, <1>3 DEF DistinctDestinations

(* Redirecting readers to the temporary changes sources only. *)
LEMMA RedirectedFacts ==
  ASSUME TypeOK, NEW t \in Locals, NEW d \in Locals
  PROVE  /\ Redirected(t, d) \in Seq(Copy)
         /\ DOMAIN Redirected(t, d) = DOMAIN pending
         /\ \A k \in DOMAIN pending :
              /\ Redirected(t, d)[k].dst = pending[k].dst
              /\ Redirected(t, d)[k].src =
                   IF pending[k].src = d THEN t ELSE pending[k].src
<1>1. \A k \in DOMAIN pending : pending[k] \in Copy BY ElementType DEF TypeOK
<1>2. \A k \in DOMAIN pending :
        /\ Redirected(t, d)[k] \in Copy
        /\ Redirected(t, d)[k].dst = pending[k].dst
        /\ Redirected(t, d)[k].src =
             IF pending[k].src = d THEN t ELSE pending[k].src BY <1>1 DEF Redirected, Copy, Operand
<1>3. Len(pending) \in Nat /\ DOMAIN pending = 1 .. Len(pending) BY DEF TypeOK
<1>4. Redirected(t, d) \in Seq(Copy) BY <1>2, <1>3 DEF Redirected
<1> QED BY <1>2, <1>4 DEF Redirected

(* An operand denotes a value. *)
LEMMA ValueType == ASSUME NEW e \in [Reg -> Val], NEW o \in Operand PROVE ValueOf(e, o) \in Val
BY DEF Operand, Locals, Local, Const, ValueOf

-----------------------------------------------------------------------------
(* A move keeps the types and the distinct destinations. *)
LEMMA TypeStep == TypeOK /\ [Next]_vars => TypeOK'
<1> SUFFICES ASSUME TypeOK, [Next]_vars PROVE TypeOK' OBVIOUS
<1>1. CASE EmitReady
 <2>1. PICK k \in DOMAIN pending :
         /\ env' = Moved(pending[k].dst, pending[k].src)
         /\ pending' = RemoveAt(pending, k) BY <1>1 DEF EmitReady
 <2>2. UNCHANGED <<args, next_vreg>> BY <1>1 DEF EmitReady
 <2>3. pending[k] \in Copy BY ElementType DEF TypeOK
 <2>4. env' \in [Reg -> Val] BY <2>1, <2>3, ValueType DEF TypeOK, Moved, Copy
 <2>5. pending' \in Seq(Copy) /\ DistinctDestinations(pending') BY <2>1, RemovedElements, RemoveKeepsDistinct DEF TypeOK
 <2>6. Below(pending', next_vreg)
  <3>1. \A j \in DOMAIN pending' : \E i \in DOMAIN pending : pending'[j] = pending[i] BY <2>1, RemovedElements DEF TypeOK
  <3> QED BY <3>1 DEF Below, TypeOK
 <2> QED BY <2>2, <2>4, <2>5, <2>6 DEF TypeOK, args
<1>2. CASE BreakCycle
 <2> DEFINE d == pending[1].dst
            t == Local(next_vreg)
 <2>1. /\ pending # <<>>
       /\ next_vreg <= MaxReg
       /\ env' = Moved(t, d)
       /\ pending' = Redirected(t, d)
       /\ next_vreg' = next_vreg + 1
       /\ UNCHANGED args BY <1>2 DEF BreakCycle, Saved, CounterAdvanced
 <2>2. 1 \in DOMAIN pending /\ pending[1] \in Copy BY <2>1, ElementType DEF TypeOK
 <2>3. d \in Locals /\ d \in Operand BY <2>2 DEF Copy, Operand
 <2>4. t \in Locals BY <2>1, RegAssumption DEF TypeOK, Locals
 <2>5. next_vreg \in Reg /\ t.id = next_vreg /\ t.kind = "Local" BY <2>1, RegAssumption DEF TypeOK, Local
 <2>6. env' \in [Reg -> Val] BY <2>1, <2>3, <2>5, ValueType DEF TypeOK, Moved
 <2> HIDE DEF d, t
 <2>7. pending' \in Seq(Copy) /\ DistinctDestinations(pending')
  <3>1. /\ pending' \in Seq(Copy) /\ DOMAIN pending' = DOMAIN pending
        /\ \A k \in DOMAIN pending : pending'[k].dst = pending[k].dst BY <2>1, <2>3, <2>4, RedirectedFacts
  <3>2. DistinctDestinations(pending) BY DEF TypeOK
  <3> QED BY <3>1, <3>2 DEF DistinctDestinations
 <2>8. Below(pending', next_vreg')
  <3> SUFFICES ASSUME NEW k \in DOMAIN pending
               PROVE  /\ pending'[k].dst.id < next_vreg + 1
                      /\ pending'[k].src.kind = "Local" =>
                           pending'[k].src.id < next_vreg + 1 BY <2>1, <2>3, <2>4, RedirectedFacts DEF Below
  <3>1. /\ pending'[k].dst = pending[k].dst
        /\ pending'[k].src = IF pending[k].src = d THEN t ELSE pending[k].src BY <2>1, <2>3, <2>4, RedirectedFacts
  <3>2. pending[k] \in Copy BY ElementType DEF TypeOK
  <3>3. /\ pending[k].dst.id \in Int /\ pending[k].dst.id < next_vreg
        /\ pending[k].src.kind = "Local" =>
             /\ pending[k].src.id \in Int
             /\ pending[k].src.id < next_vreg BY <3>2, RegAssumption
    DEF TypeOK, Below, Copy, Operand, Locals, Local, Const
  <3> QED BY <3>1, <3>3, <2>5 DEF TypeOK
 <2> QED BY <2>1, <2>6, <2>7, <2>8 DEF TypeOK, args
<1>3. CASE UNCHANGED vars BY <1>3 DEF vars, TypeOK
<1> QED BY <1>1, <1>2, <1>3 DEF Next

(* Types, distinct destinations and freshness of the next temporary. *)
THEOREM TypeCorrect == Spec => []TypeOK
<1>1. Init => TypeOK BY InputsAssumption DEF Init, TypeOK
<1> QED BY <1>1, TypeStep, PTL DEF Spec

-----------------------------------------------------------------------------
(* No move clobbers the source of a copy still pending. *)
LEMMA SourcesStep == TypeOK /\ PendingSourcesIntact /\ [Next]_vars => PendingSourcesIntact'
<1> SUFFICES ASSUME TypeOK, PendingSourcesIntact, [Next]_vars PROVE PendingSourcesIntact' OBVIOUS
<1>1. CASE EmitReady
 <2>1. PICK k \in DOMAIN pending :
         /\ Ready(k)
         /\ env' = Moved(pending[k].dst, pending[k].src)
         /\ pending' = RemoveAt(pending, k) BY <1>1 DEF EmitReady
 <2>2. UNCHANGED args BY <1>1 DEF EmitReady
 <2> SUFFICES ASSUME NEW j \in DOMAIN pending'
              PROVE  \E c \in DOMAIN copies :
                       /\ copies[c].dst = pending'[j].dst
                       /\ ValueOf(env', pending'[j].src) = ValueOf(env0, copies[c].src) BY <2>2 DEF PendingSourcesIntact, args
 <2>3. PICK i \in DOMAIN pending : pending'[j] = pending[i] BY <2>1, RemovedElements DEF TypeOK
 <2>4. pending[i] \in Copy /\ pending[k] \in Copy BY ElementType DEF TypeOK
 <2>5. pending[i].src # pending[k].dst BY <2>1 DEF Ready
 <2>6. ValueOf(env', pending[i].src) = ValueOf(env, pending[i].src) BY <2>1, <2>4, <2>5
   DEF TypeOK, Moved, ValueOf, Copy, Operand, Locals, Local, Const
 <2> QED BY <2>3, <2>6 DEF PendingSourcesIntact
<1>2. CASE BreakCycle
 <2> DEFINE d == pending[1].dst
            t == Local(next_vreg)
 <2>1. /\ pending # <<>>
       /\ next_vreg <= MaxReg
       /\ env' = Moved(t, d)
       /\ pending' = Redirected(t, d)
       /\ UNCHANGED args BY <1>2 DEF BreakCycle, Saved
 <2>2. pending[1] \in Copy BY <2>1, ElementType DEF TypeOK
 <2>3. d \in Locals /\ t \in Locals /\ next_vreg \in Reg BY <2>1, <2>2, RegAssumption DEF TypeOK, Locals, Copy
 <2>4. /\ t.kind = "Local" /\ t.id = next_vreg
       /\ d.kind = "Local" /\ d.id \in Reg BY <2>3 DEF Locals, Local
 <2>5. ValueOf(env', t) = ValueOf(env, d) BY <2>1, <2>3, <2>4 DEF Moved, ValueOf, TypeOK
 <2> HIDE DEF d, t
 <2> SUFFICES ASSUME NEW k \in DOMAIN pending
              PROVE  \E c \in DOMAIN copies :
                       /\ copies[c].dst = pending'[k].dst
                       /\ ValueOf(env', pending'[k].src) = ValueOf(env0, copies[c].src)
   BY <2>1, <2>3, RedirectedFacts DEF PendingSourcesIntact, args
 <2>6. /\ pending'[k].dst = pending[k].dst
       /\ pending'[k].src = IF pending[k].src = d THEN t ELSE pending[k].src BY <2>1, <2>3, RedirectedFacts
 <2>7. ValueOf(env', pending'[k].src) = ValueOf(env, pending[k].src)
  <3>1. CASE pending[k].src = d BY <3>1, <2>5, <2>6
  <3>2. CASE pending[k].src # d
   <4>1. pending[k] \in Copy BY ElementType DEF TypeOK
   <4>2. pending[k].src.kind = "Local" => /\ pending[k].src.id \in Reg
                                         /\ pending[k].src.id # next_vreg BY <4>1, RegAssumption
     DEF TypeOK, Below, Copy, Operand, Locals, Local, Const
   <4> QED BY <4>2, <3>2, <2>1, <2>4, <2>6 DEF Moved, ValueOf, TypeOK
  <3> QED BY <3>1, <3>2
 <2> QED BY <2>6, <2>7 DEF PendingSourcesIntact
<1>3. CASE UNCHANGED vars BY <1>3 DEF vars, PendingSourcesIntact
<1> QED BY <1>1, <1>2, <1>3 DEF Next

(* The lost-copy hazard never bites: a pending copy's source still holds the
   value the destination must receive. *)
THEOREM SourcesIntact == Spec => []PendingSourcesIntact
<1>1. Init => PendingSourcesIntact BY DEF Init, PendingSourcesIntact
<1> QED BY <1>1, SourcesStep, TypeCorrect, PTL DEF Spec

-----------------------------------------------------------------------------
(* A move writes no register that has its final value. *)
LEMMA FinalStep == TypeOK /\ PendingSourcesIntact /\ EmittedAreFinal /\ [Next]_vars => EmittedAreFinal'
<1> SUFFICES ASSUME TypeOK, PendingSourcesIntact, EmittedAreFinal, [Next]_vars PROVE EmittedAreFinal' OBVIOUS
<1>1. CASE EmitReady
 <2>1. PICK k \in DOMAIN pending :
         /\ env' = Moved(pending[k].dst, pending[k].src)
         /\ pending' = RemoveAt(pending, k) BY <1>1 DEF EmitReady
 <2>2. UNCHANGED args BY <1>1 DEF EmitReady
 <2> DEFINE d == pending[k].dst
 <2>3. PICK c \in DOMAIN copies :
         copies[c].dst = d /\ ValueOf(env, pending[k].src) = ValueOf(env0, copies[c].src) BY DEF PendingSourcesIntact
 <2>4. d \in Locals
  <3>1. pending[k] \in Copy BY ElementType DEF TypeOK
  <3> QED BY <3>1 DEF Copy
 <2>5. d.id \in Reg /\ d = Local(d.id) BY <2>4 DEF Locals, Local
 <2>6. /\ env'[d.id] = ValueOf(env, pending[k].src)
       /\ \A r \in Reg : r # d.id => env'[r] = env[r] BY <2>1, <2>5 DEF Moved, TypeOK
 <2> HIDE DEF d
 <2>7. ASSUME NEW j \in DOMAIN copies
       PROVE  \/ \E i \in DOMAIN pending' : pending'[i].dst = copies[j].dst
              \/ env'[copies[j].dst.id] = ValueOf(env0, copies[j].src)
  <3>1. copies[j].dst \in Locals
   <4>1. copies[j] \in Copy BY ElementType DEF TypeOK
   <4> QED BY <4>1 DEF Copy
  <3>2. CASE copies[j].dst = d
   <4>1. j = c BY <2>3, <3>2 DEF TypeOK, DistinctDestinations
   <4> QED BY <4>1, <2>3, <2>6, <3>2
  <3>3. CASE copies[j].dst # d
   <4>1. copies[j].dst.id # d.id /\ copies[j].dst.id \in Reg BY <3>1, <3>3, <2>5 DEF Locals, Local
   <4>2. ASSUME NEW i \in DOMAIN pending, pending[i].dst = copies[j].dst
         PROVE  \E m \in DOMAIN pending' : pending'[m].dst = copies[j].dst
    <5>1. i \in DOMAIN pending \ {k} BY <4>2, <3>3 DEF d
    <5>2. PICK m \in DOMAIN pending' : pending'[m] = pending[i]
     <6>1. pending \in Seq(Copy) /\ pending' = RemoveAt(pending, k) BY <2>1 DEF TypeOK
     <6> QED BY <6>1, <5>1, RemovedElements
    <5> QED BY <5>2, <4>2
   <4> QED BY <4>1, <4>2, <2>6 DEF EmittedAreFinal
  <3> QED BY <3>2, <3>3
 <2>8. ASSUME NEW r \in Reg, r < first, \A j \in DOMAIN copies : copies[j].dst # Local(r) PROVE env'[r] = env0[r]
  <3>1. r # d.id BY <2>3, <2>5, <2>8
  <3> QED BY <3>1, <2>6, <2>8 DEF EmittedAreFinal
 <2> QED BY <2>2, <2>7, <2>8 DEF EmittedAreFinal, args
<1>2. CASE BreakCycle
 <2> DEFINE dd == pending[1].dst
            t == Local(next_vreg)
 <2>1. /\ pending # <<>>
       /\ next_vreg <= MaxReg
       /\ env' = Moved(t, dd)
       /\ pending' = Redirected(t, dd)
       /\ UNCHANGED args BY <1>2 DEF BreakCycle, Saved
 <2>2. pending[1] \in Copy BY <2>1, ElementType DEF TypeOK
 <2>3. dd \in Locals /\ t \in Locals /\ t.id = next_vreg BY <2>1, <2>2, RegAssumption DEF TypeOK, Locals, Copy, Local
 <2>4. \A r \in Reg : r < first => env'[r] = env[r] BY <2>1, <2>3, RegAssumption DEF Moved, TypeOK
 <2> HIDE DEF dd, t
 <2>5. /\ DOMAIN pending' = DOMAIN pending
       /\ \A k \in DOMAIN pending : pending'[k].dst = pending[k].dst BY <2>1, <2>3, RedirectedFacts
 <2>6. ASSUME NEW j \in DOMAIN copies PROVE copies[j].dst.id \in Reg /\ copies[j].dst.id < first
  <3>1. copies[j] \in Copy BY ElementType DEF TypeOK
  <3> QED BY <3>1 DEF Copy, Locals, Local, TypeOK, Below
 <2> QED BY <2>1, <2>4, <2>5, <2>6 DEF EmittedAreFinal, args
<1>3. CASE UNCHANGED vars BY <1>3 DEF vars, EmittedAreFinal
<1> QED BY <1>1, <1>2, <1>3 DEF Next

(* A performed copy left the right value in its destination and nothing
   overwrites it; registers that are no destination are never written. *)
THEOREM EmittedFinal == Spec => []EmittedAreFinal
<1>1. Init => EmittedAreFinal BY DEF Init, EmittedAreFinal
<1> QED BY <1>1, FinalStep, TypeCorrect, SourcesIntact, PTL DEF Spec

-----------------------------------------------------------------------------
(* When nothing is pending, the program's registers hold what the parallel
   assignment puts there. *)
RegistersAssigned ==
  Done => Visible(env) = Abstract!Assigned(Visible(env0), copies)

LEMMA FinalRegisters == TypeOK /\ EmittedAreFinal => RegistersAssigned
<1> SUFFICES ASSUME TypeOK, EmittedAreFinal, Done
             PROVE  Visible(env) = Abstract!Assigned(Visible(env0), copies) BY DEF RegistersAssigned
<1> SUFFICES ASSUME NEW r \in {q \in Reg : q < first}
             PROVE  env[r] = Abstract!Assigned(Visible(env0), copies)[r] BY DEF Visible, Abstract!Assigned
<1>0. Abstract!Assigned(Visible(env0), copies)[r] =
        IF \E k \in DOMAIN copies : copies[k].dst.id = r
        THEN Abstract!Value(Visible(env0),
               copies[CHOOSE k \in DOMAIN copies : copies[k].dst.id = r].src)
        ELSE env0[r] BY DEF Visible, Abstract!Assigned
<1>1. CASE \E k \in DOMAIN copies : copies[k].dst.id = r
 <2> DEFINE k == CHOOSE i \in DOMAIN copies : copies[i].dst.id = r
 <2>1. k \in DOMAIN copies /\ copies[k].dst.id = r BY <1>1
 <2> HIDE DEF k
 <2>2. env[r] = ValueOf(env0, copies[k].src) BY <2>1 DEF EmittedAreFinal, Done
 <2>3. copies[k] \in Copy BY <2>1, ElementType DEF TypeOK
 <2>4. ValueOf(env0, copies[k].src) = Abstract!Value(Visible(env0), copies[k].src) BY <2>1, <2>3
   DEF TypeOK, Below, ValueOf, Visible, Abstract!Value, Copy, Operand, Locals, Local, Const
 <2> QED BY <1>0, <1>1, <2>2, <2>4 DEF k
<1>2. CASE ~ \E k \in DOMAIN copies : copies[k].dst.id = r
 <2>1. \A k \in DOMAIN copies : copies[k].dst # Local(r) BY <1>2 DEF Local
 <2> QED BY <1>0, <1>2, <2>1 DEF EmittedAreFinal
<1> QED BY <1>1, <1>2

(* The emitted sequence implements the parallel assignment: seen from outside,
   nothing happens until the last move, and then all phis of the edge have
   taken their values at once. *)
THEOREM Refinement == Spec => ImplementsParallelAssign
<1>1. Init => Abstract!Init BY InputsAssumption DEF Init, Done, Abstract!Init
<1>2. /\ RegistersAssigned'
      /\ [Next]_vars
      => [Abstract!Assign]_<<copies,
                            IF Done THEN Visible(env) ELSE Visible(env0), Done>>
 <2> SUFFICES ASSUME RegistersAssigned', [Next]_vars
              PROVE  [Abstract!Assign]_<<copies,
                           IF Done THEN Visible(env) ELSE Visible(env0), Done>> OBVIOUS
 <2>1. CASE UNCHANGED vars BY <2>1 DEF vars, Done, Visible
 <2>2. CASE Next
  <3>1. ~Done /\ UNCHANGED args BY <2>2 DEF Next, EmitReady, BreakCycle, Done
  <3>2. Visible(env0)' = Visible(env0) BY <3>1 DEF Visible, args
  <3>3. CASE ~Done' BY <3>1, <3>2, <3>3 DEF args, Done
  <3>4. CASE Done'
   <4>1. Visible(env)' = Abstract!Assigned(Visible(env0), copies)' BY <3>4 DEF RegistersAssigned
   <4>2. Abstract!Assigned(Visible(env0), copies)'
           = Abstract!Assigned(Visible(env0), copies) BY <3>1, <3>2 DEF Abstract!Assigned, Abstract!Value, args
   <4> QED BY <3>1, <3>4, <4>1, <4>2 DEF Abstract!Assign, args
  <3> QED BY <3>3, <3>4
 <2> QED BY <2>1, <2>2
<1> QED BY <1>1, <1>2, TypeCorrect, EmittedFinal, FinalRegisters, PTL
  DEF Spec, ImplementsParallelAssign, Abstract!Spec

-----------------------------------------------------------------------------
(* Why a cycle costs one temporary.  When the loop saves a register, every
   destination has a reader, so that the pending copies are permutations: no
   reader of an earlier temporary is left, and exactly one copy reads the saved
   register.  That copy is emitted only after its own reader, which makes two
   copies emitted before another register is saved. *)
IsTemporary(operand) == operand.kind = "Local" /\ operand.id >= first
ReadsTemporary(k) == IsTemporary(pending[k].src)
Temporaries == next_vreg - first
NrEmitted == Len(copies) - Len(pending)

OneTemporaryReader ==
  \A j, k \in DOMAIN pending : ReadsTemporary(j) /\ ReadsTemporary(k) => j = k

(* Two emitted copies pay for each temporary; the one whose reader is still
   pending is owed them. *)
TemporariesPaid ==
  /\ (\A k \in DOMAIN pending : ~ReadsTemporary(k)) => 2 * Temporaries <= NrEmitted
  /\ \A k \in DOMAIN pending : ReadsTemporary(k) =>
       /\ 2 * Temporaries <= NrEmitted + 2
       /\ Ready(k) => 2 * Temporaries <= NrEmitted + 1

TemporaryInv == NoSelfCopy(pending) /\ OneTemporaryReader /\ TemporariesPaid

(* A pending destination is a register of the program, never a temporary. *)
LEMMA DestinationsAreNoTemporaries ==
  ASSUME TypeOK, PendingSourcesIntact, NEW k \in DOMAIN pending
  PROVE  /\ pending[k].dst \in Locals
         /\ ~IsTemporary(pending[k].dst)
<1>1. PICK j \in DOMAIN copies : copies[j].dst = pending[k].dst BY DEF PendingSourcesIntact
<1>2. pending[k] \in Copy /\ copies[j] \in Copy BY ElementType DEF TypeOK
<1>3. copies[j].dst.id \in Int /\ copies[j].dst.id < first BY <1>2, RegAssumption DEF TypeOK, Below, Copy, Locals, Local
<1> QED BY <1>1, <1>2, <1>3 DEF IsTemporary, Copy, TypeOK

(* The pigeonhole: with every destination read, sources and destinations are
   the same set and no two copies have one source. *)
LEMMA CyclesOnly ==
  ASSUME TypeOK, \A k \in DOMAIN pending : ~Ready(k)
  PROVE  /\ \A k \in DOMAIN pending : \E j \in DOMAIN pending : pending[k].src = pending[j].dst
         /\ \A j, k \in DOMAIN pending : pending[j].src = pending[k].src => j = k
<1> DEFINE D == DOMAIN pending
           src == [k \in D |-> pending[k].src]
           dst == [k \in D |-> pending[k].dst]
           Sources == {pending[k].src : k \in D}
           Destinations == {pending[k].dst : k \in D}
<1>1. IsFiniteSet(D)
 <2>1. D = 1 .. Len(pending) /\ Len(pending) \in Nat BY DEF TypeOK
 <2> QED BY <2>1, FS_Interval
<1>2. src \in Surjection(D, Sources) /\ dst \in Surjection(D, Destinations) BY DEF Surjection
<1>3. dst \in Injection(D, Destinations) BY DEF Injection, IsInjective, TypeOK, DistinctDestinations
<1> HIDE DEF D, src, dst, Sources, Destinations
<1>4. /\ IsFiniteSet(Sources) /\ Cardinality(Sources) <= Cardinality(D)
      /\ Cardinality(Sources) = Cardinality(D) => src \in Injection(D, Sources) BY <1>1, <1>2, FS_Surjection
<1>5. IsFiniteSet(Destinations) /\ Cardinality(Destinations) = Cardinality(D) BY <1>1, <1>2, <1>3, FS_Surjection
<1>6. Destinations \in SUBSET Sources BY DEF Ready, D, Sources, Destinations
<1>7. /\ Cardinality(Destinations) <= Cardinality(Sources)
      /\ Cardinality(Sources) = Cardinality(Destinations) => Sources = Destinations BY <1>4, <1>6, FS_Subset
<1>8. Cardinality(Sources) = Cardinality(D)
 <2>1. /\ Cardinality(Sources) \in Nat /\ Cardinality(D) \in Nat BY <1>1, <1>4, FS_CardinalityType
 <2> QED BY <2>1, <1>4, <1>5, <1>7
<1>9. Sources = Destinations /\ src \in Injection(D, Sources) BY <1>4, <1>5, <1>7, <1>8
<1>10. ASSUME NEW k \in DOMAIN pending PROVE \E j \in DOMAIN pending : pending[k].src = pending[j].dst
 <2>1. pending[k].src \in Sources BY DEF Sources, D
 <2>2. pending[k].src \in Destinations BY <1>9, <2>1
 <2> QED BY <2>2 DEF Destinations, D
<1>11. ASSUME NEW j \in DOMAIN pending, NEW k \in DOMAIN pending,
              pending[j].src = pending[k].src
       PROVE  j = k
 <2>1. \A a, b \in D : src[a] = src[b] => a = b BY <1>9 DEF Injection, IsInjective
 <2> QED BY <1>11, <2>1 DEF src, D
<1> QED BY <1>10, <1>11

(* The bound is preserved by the save that breaks a cycle. *)
LEMMA BreakPaid == ASSUME TypeOK, PendingSourcesIntact, TemporaryInv, BreakCycle PROVE TemporaryInv'
<1> DEFINE d == pending[1].dst
           t == Local(next_vreg)
<1>1. /\ pending # <<>>
      /\ \A k \in DOMAIN pending : ~Ready(k)
      /\ next_vreg <= MaxReg
      /\ pending' = Redirected(t, d)
      /\ next_vreg' = next_vreg + 1
      /\ UNCHANGED args BY DEF BreakCycle, CounterAdvanced
<1>2. 1 \in DOMAIN pending /\ d \in Locals /\ ~IsTemporary(d) BY <1>1, DestinationsAreNoTemporaries DEF TypeOK
<1>3. t \in Locals /\ IsTemporary(t) BY <1>1, RegAssumption DEF TypeOK, Locals, Local, IsTemporary
<1> HIDE DEF d, t
<1>4. /\ DOMAIN pending' = DOMAIN pending /\ Len(pending') = Len(pending)
      /\ \A k \in DOMAIN pending :
           /\ pending'[k].dst = pending[k].dst
           /\ pending'[k].src = IF pending[k].src = d THEN t ELSE pending[k].src
 <2>1. pending \in Seq(Copy) /\ pending' \in Seq(Copy) BY <1>1, <1>2, <1>3, RedirectedFacts DEF TypeOK
 <2> QED BY <2>1, <1>1, <1>2, <1>3, RedirectedFacts
<1>5. \A o : IsTemporary(o)' <=> IsTemporary(o) BY <1>1 DEF IsTemporary, args
<1>6. \A k \in DOMAIN pending : ~ReadsTemporary(k) BY <1>1, CyclesOnly, DestinationsAreNoTemporaries DEF ReadsTemporary
<1>7. \A k \in DOMAIN pending : ReadsTemporary(k)' <=> pending[k].src = d BY <1>3, <1>4, <1>5, <1>6 DEF ReadsTemporary
<1>8. NoSelfCopy(pending') BY <1>3, <1>4, DestinationsAreNoTemporaries DEF TemporaryInv, NoSelfCopy
<1>9. OneTemporaryReader'
 <2>1. \A j, k \in DOMAIN pending : pending[j].src = d /\ pending[k].src = d => j = k BY <1>1, CyclesOnly
 <2> QED BY <2>1, <1>4, <1>7 DEF OneTemporaryReader
<1>10. 2 * Temporaries <= NrEmitted /\ NrEmitted \in Int /\ Temporaries \in Int
  BY <1>6 DEF TemporaryInv, TemporariesPaid, Temporaries, NrEmitted, TypeOK
<1>11. NrEmitted' = NrEmitted /\ Temporaries' = Temporaries + 1 BY <1>1, <1>4 DEF NrEmitted, Temporaries, args, TypeOK
<1>12. \E k \in DOMAIN pending : pending[k].src = d BY <1>1, <1>2 DEF Ready, d
<1>13. ASSUME NEW k \in DOMAIN pending, pending[k].src = d PROVE ~Ready(k)'
 <2>1. PICK j \in DOMAIN pending : pending[j].src = pending[k].dst BY <1>1 DEF Ready
 <2>2. pending[k].dst # d BY <1>13 DEF TemporaryInv, NoSelfCopy
 <2>3. pending'[j].src = pending'[k].dst BY <1>4, <2>1, <2>2
 <2> QED BY <2>3, <1>4 DEF Ready
<1>14. TemporariesPaid' BY <1>4, <1>7, <1>10, <1>11, <1>12, <1>13 DEF TemporariesPaid
<1> QED BY <1>8, <1>9, <1>14 DEF TemporaryInv

(* And by emitting a ready copy. *)
LEMMA EmitPaid == ASSUME TypeOK, TemporaryInv, EmitReady PROVE TemporaryInv'
<1>1. PICK k \in DOMAIN pending : Ready(k) /\ pending' = RemoveAt(pending, k) BY DEF EmitReady
<1>2. UNCHANGED <<args, next_vreg>> BY DEF EmitReady
<1>3. \A o : IsTemporary(o)' <=> IsTemporary(o) BY <1>2 DEF IsTemporary, args
<1>4. /\ pending \in Seq(Copy) /\ pending' \in Seq(Copy)
      /\ Len(pending) \in Nat \ {0} /\ Len(pending') = Len(pending) - 1 BY <1>1, RemoveAtFacts DEF TypeOK
<1>5. NrEmitted' = NrEmitted + 1 /\ Temporaries' = Temporaries BY <1>2, <1>4 DEF NrEmitted, Temporaries, args, TypeOK
<1>6. Temporaries \in Int /\ NrEmitted \in Int BY DEF Temporaries, NrEmitted, TypeOK
<1> DEFINE Old(j) == IF j < k THEN j ELSE j + 1
<1>7. \A j \in DOMAIN pending' :
        /\ Old(j) \in DOMAIN pending \ {k} /\ pending'[j] = pending[Old(j)]
 <2> SUFFICES ASSUME NEW j \in DOMAIN pending'
              PROVE  Old(j) \in DOMAIN pending \ {k} /\ pending'[j] = pending[Old(j)] OBVIOUS
 <2>1. /\ DOMAIN pending = 1 .. Len(pending) /\ DOMAIN pending' = 1 .. Len(pending) - 1
       /\ Len(pending) \in Nat
       /\ \A i \in 1 .. k - 1 : pending'[i] = pending[i]
       /\ \A i \in k .. Len(pending) - 1 : pending'[i] = pending[i + 1] BY <1>1, <1>4, RemoveAtFacts
 <2>2. CASE j < k BY <2>1, <2>2
 <2>3. CASE ~(j < k)
  <3>1. j \in k .. Len(pending) - 1 BY <2>1, <2>3
  <3> QED BY <2>1, <2>3, <3>1
 <2> QED BY <2>2, <2>3
<1>8. \A i, j \in DOMAIN pending' : Old(i) = Old(j) => i = j BY <1>4
<1> HIDE DEF Old
<1>9. \A j \in DOMAIN pending' : ReadsTemporary(j)' <=> ReadsTemporary(Old(j)) BY <1>3, <1>7 DEF ReadsTemporary
<1>10. NoSelfCopy(pending') BY <1>7 DEF TemporaryInv, NoSelfCopy
<1>11. OneTemporaryReader' BY <1>7, <1>8, <1>9 DEF TemporaryInv, OneTemporaryReader
<1>12. ASSUME \A j \in DOMAIN pending' : ~ReadsTemporary(j)' PROVE 2 * Temporaries' <= NrEmitted'
 <2>1. CASE ReadsTemporary(k) BY <1>1, <1>5, <1>6, <2>1 DEF TemporaryInv, TemporariesPaid
 <2>2. CASE ~ReadsTemporary(k)
  <3>1. ASSUME NEW i \in DOMAIN pending, i # k PROVE ~ReadsTemporary(i)
   <4>1. i \in DOMAIN pending \ {k} BY <3>1
   <4>2. PICK j \in DOMAIN pending' : pending'[j] = pending[i]
    <5>1. pending \in Seq(Copy) /\ pending' = RemoveAt(pending, k) BY <1>1, <1>4
    <5> QED BY <4>1, <5>1, RemovedElements
   <4> QED BY <4>2, <1>3, <1>12 DEF ReadsTemporary
  <3>2. 2 * Temporaries <= NrEmitted BY <2>2, <3>1 DEF TemporaryInv, TemporariesPaid
  <3> QED BY <3>2, <1>5, <1>6
 <2> QED BY <2>1, <2>2
<1>13. ASSUME NEW j \in DOMAIN pending', ReadsTemporary(j)' PROVE 2 * Temporaries' <= NrEmitted' + 1
 <2>1. ReadsTemporary(Old(j)) /\ Old(j) \in DOMAIN pending BY <1>7, <1>9, <1>13
 <2>2. 2 * Temporaries <= NrEmitted + 2 BY <2>1 DEF TemporaryInv, TemporariesPaid
 <2> QED BY <2>2, <1>5, <1>6
<1>14. TemporariesPaid'
 <2>1. NrEmitted' \in Int /\ Temporaries' \in Int BY <1>5, <1>6
 <2>2. \A t, n \in Int : 2 * t <= n + 1 => 2 * t <= n + 2 OBVIOUS
 <2> QED BY <1>12, <1>13, <2>1, <2>2 DEF TemporariesPaid
<1> QED BY <1>10, <1>11, <1>14 DEF TemporaryInv

(* What is owed never exceeds what is pending. *)
LEMMA PaidIsBounded == TypeOK /\ TemporaryInv => TemporariesBounded
<1> SUFFICES ASSUME TypeOK, TemporaryInv PROVE TemporariesBounded OBVIOUS
<1>1. /\ Len(copies) \in Nat /\ Len(pending) \in Nat /\ DOMAIN pending = 1 .. Len(pending)
      /\ Temporaries \in Int /\ NrEmitted = Len(copies) - Len(pending) BY DEF TypeOK, Temporaries, NrEmitted
<1>2. CASE \A k \in DOMAIN pending : ~ReadsTemporary(k)
  BY <1>1, <1>2 DEF TemporaryInv, TemporariesPaid, TemporariesBounded, Temporaries
<1>3. ASSUME NEW k \in DOMAIN pending, ReadsTemporary(k) PROVE TemporariesBounded
 <2>1. /\ 2 * Temporaries <= NrEmitted + 2
       /\ Ready(k) => 2 * Temporaries <= NrEmitted + 1 BY <1>3 DEF TemporaryInv, TemporariesPaid
 <2>2. CASE Len(pending) >= 2 BY <1>1, <2>1, <2>2 DEF TemporariesBounded, Temporaries
 <2>3. CASE Len(pending) < 2
  <3>1. Len(pending) = 1 /\ DOMAIN pending = {k} BY <1>1, <1>3, <2>3
  <3>2. pending[k].src # pending[k].dst BY DEF TemporaryInv, NoSelfCopy
  <3>3. Ready(k) BY <3>1, <3>2 DEF Ready
  <3> QED BY <1>1, <2>1, <3>1, <3>3 DEF TemporariesBounded, Temporaries
 <2> QED BY <1>1, <2>2, <2>3
<1> QED BY <1>2, <1>3

LEMMA TemporaryStep ==
  TypeOK /\ PendingSourcesIntact /\ TemporaryInv /\ [Next]_vars => TemporaryInv'
<1> SUFFICES ASSUME TypeOK, PendingSourcesIntact, TemporaryInv, [Next]_vars PROVE TemporaryInv' OBVIOUS
<1>1. CASE EmitReady BY <1>1, EmitPaid
<1>2. CASE BreakCycle BY <1>2, BreakPaid
<1>3. CASE UNCHANGED vars BY <1>3 DEF vars, args, TemporaryInv, NoSelfCopy, OneTemporaryReader, TemporariesPaid,
    Temporaries, NrEmitted, ReadsTemporary, IsTemporary, Ready
<1> QED BY <1>1, <1>2, <1>3 DEF Next

(* A bundle before its first move satisfies everything the moves preserve. *)
Unmoved == pending = copies /\ env = env0 /\ next_vreg = first

LEMMA UnmovedFacts ==
  /\ Unmoved => PendingSourcesIntact /\ EmittedAreFinal
  /\ TypeOK /\ Unmoved /\ NoSelfCopy(copies) => TemporaryInv
<1>1. Unmoved => PendingSourcesIntact /\ EmittedAreFinal BY DEF Unmoved, PendingSourcesIntact, EmittedAreFinal
<1>2. ASSUME TypeOK, Unmoved, NoSelfCopy(copies) PROVE TemporaryInv
 <2>1. NoSelfCopy(pending) BY <1>2 DEF Unmoved
 <2>2. ASSUME NEW k \in DOMAIN pending PROVE ~ReadsTemporary(k)
  <3>1. pending[k] \in Copy BY <1>2, ElementType DEF TypeOK
  <3> QED BY <1>2, <3>1, RegAssumption
    DEF Unmoved, TypeOK, Below, ReadsTemporary, IsTemporary, Copy, Operand, Locals, Local, Const
 <2>3. Temporaries = 0 /\ NrEmitted = 0 BY <1>2 DEF Unmoved, TypeOK, Temporaries, NrEmitted
 <2> QED BY <2>1, <2>2, <2>3 DEF TemporaryInv, OneTemporaryReader, TemporariesPaid
<1> QED BY <1>1, <1>2

(* A cycle of copies costs one temporary, so that with two copies or more to a
   cycle the temporaries are at most half the copies of the edge. *)
THEOREM FewTemporaries == Spec => []TemporariesBounded
<1>1. TypeOK /\ Init => TemporaryInv
 <2> SUFFICES ASSUME TypeOK, Init PROVE TemporaryInv OBVIOUS
 <2>1. Unmoved /\ NoSelfCopy(copies) BY InputsAssumption DEF Init, Unmoved
 <2> QED BY <2>1, UnmovedFacts
<1> QED BY <1>1, TemporaryStep, TypeCorrect, SourcesIntact, PaidIsBounded, PTL DEF Spec

-----------------------------------------------------------------------------
(* The function that is lowered and its flow graph. *)
Labels == {label[b] : b \in Block}

FunctionOK ==
  /\ label \in [Block -> Nat] /\ IsInjective(label)
  /\ \A b \in Block : label[b] = EntryLabel <=> b = 0
  /\ term \in [Block -> Terminators]
  /\ \A b \in Block : \A k \in DOMAIN term[b].targets :
       \E t \in Block \ {0} : term[b].targets[k] = label[t]
  /\ \A b \in Block : term[b].kind = "fall" => term[b].targets = <<>>
  /\ term[N - 1].kind # "fall"
  /\ phis \in [Block -> Seq(PhisOver(Labels))]
  /\ \A b \in Block : DistinctDestinations(phis[b])

LEMMA Blocks == Block = 0 .. N - 1 /\ N \in Nat \ {0} /\ 0 \in Block
BY SizesAssumption DEF Block, NodesOf

LEMMA BlockOfLabel == ASSUME FunctionOK, NEW t \in Block PROVE BlockOf(label[t]) = t
BY DEF FunctionOK, BlockOf, IsInjective

LEMMA TargetBlock ==
  ASSUME FunctionOK, NEW b \in Block, NEW k \in DOMAIN term[b].targets
  PROVE  /\ BlockOf(term[b].targets[k]) \in Block \ {0}
         /\ label[BlockOf(term[b].targets[k])] = term[b].targets[k]
<1>1. PICK t \in Block \ {0} : term[b].targets[k] = label[t] BY DEF FunctionOK
<1>2. BlockOf(label[t]) = t BY BlockOfLabel
<1> QED BY <1>1, <1>2

(* BasicBlock::successors: the blocks the labels of the terminator name, or the
   next block. *)
LEMMA SuccessorsOf ==
  ASSUME FunctionOK, NEW b \in Block
  PROVE  /\ Successors(b) \in Seq(Block)
         /\ \/ /\ term[b].kind = "fall" /\ b + 1 \in Block
               /\ Successors(b) = <<b + 1>>
            \/ /\ term[b].kind # "fall"
               /\ DOMAIN Successors(b) = DOMAIN term[b].targets
               /\ Len(Successors(b)) = Len(term[b].targets)
               /\ \A k \in DOMAIN term[b].targets :
                    Successors(b)[k] = BlockOf(term[b].targets[k])
         /\ 0 \notin ToSet(Successors(b))
<1>1. term[b] \in Terminators /\ term[b].targets \in Seq(Nat) BY DEF FunctionOK, Terminators
<1>2. CASE term[b].kind = "fall"
 <2>1. b # N - 1 /\ b \in 0 .. N - 1 /\ N \in Nat BY <1>2, Blocks DEF FunctionOK
 <2>2. b + 1 < N /\ b + 1 \in Block /\ b + 1 # 0 BY <2>1, Blocks
 <2>3. Successors(b) = <<b + 1>> BY <1>2, <2>2 DEF Successors
 <2>4. ToSet(<<b + 1>>) = {b + 1} BY DEF ToSet
 <2> QED BY <1>2, <2>2, <2>3, <2>4
<1>3. CASE term[b].kind # "fall"
 <2> DEFINE ts == term[b].targets
            bs == [k \in DOMAIN ts |-> BlockOf(ts[k])]
 <2>1. Successors(b) = bs BY <1>3 DEF Successors
 <2>2. \A k \in DOMAIN ts : BlockOf(ts[k]) \in Block \ {0} BY TargetBlock
 <2>3. PICK n \in Nat : n = Len(ts) BY <1>1
 <2>4. DOMAIN ts = 1 .. n BY <1>1, <2>3
 <2> HIDE DEF ts
 <2>5. bs \in Seq(Block) /\ DOMAIN bs = 1 .. n /\ Len(bs) = n BY <2>2, <2>4
 <2>6. \A k \in DOMAIN ts : bs[k] = BlockOf(ts[k]) OBVIOUS
 <2>7. 0 \notin ToSet(bs) BY <2>2, <2>4, <2>5, <2>6 DEF ToSet
 <2> HIDE DEF bs
 <2> QED BY <1>3, <2>1, <2>3, <2>4, <2>5, <2>6, <2>7 DEF ts
<1> QED BY <1>2, <1>3

LEMMA CfgIs ==
  /\ \A b \in Block : Cfg.succs[b] = Successors(b)
  /\ \A s \in Block :
       Cfg.preds[s] = PredecessorList([b \in Block |-> Successors(b)], N, s)
  /\ \A b \in Block : SingleSuccessor(b) <=> Len(Successors(b)) = 1
BY DEF Cfg, NewGraph, SingleSuccessor, Block

LEMMA OccurrencesIs ==
  ASSUME NEW l \in Seq(Block), NEW s
  PROVE  /\ Occurrences(l, s) \in Nat
         /\ Occurrences(l, s) > 0 <=> s \in ToSet(l)
         /\ Len(l) = 1 => Occurrences(l, s) <= 1
<1> DEFINE J == {j \in DOMAIN l : l[j] = s}
<1>1. IsFiniteSet(1 .. Len(l)) /\ Cardinality(1 .. Len(l)) = Len(l) /\ Len(l) \in Nat
 <2>1. Len(l) \in Nat OBVIOUS
 <2> QED BY <2>1, FS_Interval
<1>2. DOMAIN l = 1 .. Len(l) OBVIOUS
<1>3. J \in SUBSET (1 .. Len(l)) BY <1>2
<1>4. IsFiniteSet(J) /\ Cardinality(J) <= Len(l)
 <2> HIDE DEF J
 <2> QED BY <1>1, <1>3, FS_Subset
<1>5. Cardinality(J) \in Nat /\ (Cardinality(J) = 0 <=> J = {})
 <2> HIDE DEF J
 <2> QED BY <1>4, FS_CardinalityType, FS_EmptySet
<1>6. J = {} <=> s \notin ToSet(l) BY DEF ToSet
<1>7. Occurrences(l, s) = Cardinality(J) BY DEF Occurrences
<1> HIDE DEF J
<1> QED BY <1>1, <1>4, <1>5, <1>6, <1>7

(* Graph::new: the predecessors are the blocks with s among their successors,
   one with a single successor only once. *)
LEMMA PredecessorsOf ==
  ASSUME FunctionOK, NEW s \in Block
  PROVE  /\ Cfg.preds[s] \in Seq(Block)
         /\ \A p \in Block : p \in ToSet(Cfg.preds[s]) <=> s \in ToSet(Successors(p))
         /\ \A p \in Block : SingleSuccessor(p) => OnceIn(Cfg.preds[s], {p})
<1> DEFINE g == [b \in Block |-> Successors(b)]
           D == 0 .. N
           from(k) == [j \in 1 .. Occurrences(g[k - 1], s) |-> k - 1]
           c == [k \in 1 .. N |-> from(k)]
           At(f, k) == IF k = 0 THEN <<>>
                       ELSE f[k - 1] \o [j \in 1 .. Occurrences(g[k - 1], s) |-> k - 1]
           P == CHOOSE f : f = [k \in D |-> At(f, k)]
<1>1. \A k \in 1 .. N : k - 1 \in Block /\ k - 1 \in D /\ k \in D /\ k # 0 BY Blocks
<1>2. \A b \in Block : g[b] = Successors(b) /\ g[b] \in Seq(Block) BY SuccessorsOf
<1> HIDE DEF g
<1>3. ASSUME NEW k \in 1 .. N
      PROVE  /\ Occurrences(g[k - 1], s) \in Nat
             /\ c[k] \in Seq(Block)
             /\ DOMAIN c[k] = 1 .. Occurrences(g[k - 1], s)
             /\ \A j \in DOMAIN c[k] : c[k][j] = k - 1
 <2>1. Occurrences(g[k - 1], s) \in Nat BY <1>1, <1>2, OccurrencesIs
 <2>2. c[k] = from(k) OBVIOUS
 <2> HIDE DEF c
 <2> QED BY <1>1, <2>1, <2>2
<1>4. c \in [1 .. N -> Seq(Block)]
 <2> HIDE DEF from
 <2>1. \A k \in 1 .. N : c[k] \in Seq(Block) BY <1>3
 <2> QED BY <2>1
<1>5. \E f : f = [k \in D |-> At(f, k)]
 <2>1. PICK f \in [D -> Seq(Block)] : IsListing(Block, N, c, f)
  <3> HIDE DEF c
  <3> QED BY <1>4, Blocks, ListingExists
 <2>2. ASSUME NEW k \in D PROVE f[k] = At(f, k)
  <3>1. CASE k = 0 BY <2>1, <3>1 DEF IsListing
  <3>2. CASE k # 0
   <4>1. k \in 1 .. N BY <3>2, Blocks
   <4>2. f[k] = f[k - 1] \o c[k]
    <5> HIDE DEF c
    <5> QED BY <2>1, <4>1 DEF IsListing
   <4>3. c[k] = from(k) BY <4>1
   <4> QED BY <3>2, <4>2, <4>3
  <3> QED BY <3>1, <3>2
 <2> HIDE DEF At
 <2> QED BY <2>1, <2>2
<1>6. P = [k \in D |-> At(P, k)]
 <2> HIDE DEF At
 <2> QED BY <1>5
<1>7. Cfg.preds[s] = P[N] BY CfgIs DEF PredecessorList, g
<1> HIDE DEF P
<1>8. IsListing(Block, N, c, P)
 <2>1. \A k \in D : P[k] = At(P, k)
  <3> HIDE DEF At, D
  <3> QED BY <1>6
 <2>2. 0 \in D BY Blocks
 <2>3. P[0] = <<>> BY <2>1, <2>2
 <2>4. ASSUME NEW k \in 1 .. N PROVE P[k] = P[k - 1] \o c[k]
  <3>1. P[k] = At(P, k) /\ k # 0 /\ c[k] = from(k) BY <1>1, <2>1
  <3> QED BY <3>1
 <2> HIDE DEF c
 <2> QED BY <1>4, <2>3, <2>4 DEF IsListing
<1>9. ListsAll(Block, N, c, P[N])
 <2> HIDE DEF c
 <2> QED BY <1>8, Blocks, ListingElements
<1>10. ASSUME NEW k \in 1 .. N PROVE \A e : e \in ToSet(c[k]) <=> e = k - 1 /\ s \in ToSet(Successors(k - 1))
 <2>1. Occurrences(g[k - 1], s) > 0 <=> s \in ToSet(g[k - 1]) BY <1>1, <1>2, OccurrencesIs
 <2>2. g[k - 1] = Successors(k - 1) BY <1>1, <1>2
 <2> HIDE DEF c
 <2> QED BY <1>3, <2>1, <2>2 DEF ToSet
<1>11. ASSUME NEW p \in Block PROVE p \in ToSet(Cfg.preds[s]) <=> s \in ToSet(Successors(p))
 <2>1. p \in ToSet(P[N]) <=> \E k \in 1 .. N : p \in ToSet(c[k])
  <3> HIDE DEF c
  <3> QED BY <1>9 DEF ListsAll
 <2>2. p + 1 \in 1 .. N /\ (p + 1) - 1 = p BY Blocks
 <2> HIDE DEF c
 <2> QED BY <1>7, <1>10, <2>1, <2>2
<1>12. ASSUME NEW p \in Block, SingleSuccessor(p) PROVE OnceIn(Cfg.preds[s], {p})
 <2>1. ASSUME NEW k \in 1 .. N PROVE OnceIn(c[k], {p})
  <3>1. CASE k - 1 = p
   <4>1. Occurrences(g[k - 1], s) <= 1 BY <1>1, <1>2, <1>12, <3>1, CfgIs, OccurrencesIs
   <4> HIDE DEF c
   <4> QED BY <1>3, <4>1 DEF OnceIn
  <3>2. CASE k - 1 # p
   <4> HIDE DEF c
   <4> QED BY <1>3, <3>2 DEF OnceIn
  <3> QED BY <3>1, <3>2
 <2> HIDE DEF c
 <2>2. ASSUME NEW k \in 1 .. N, NEW m \in 1 .. N,
              ToSet(c[k]) \cap {p} # {}, ToSet(c[m]) \cap {p} # {}
       PROVE  k = m
  <3>1. p = k - 1 /\ p = m - 1 BY <1>10, <2>2
  <3> QED BY <3>1
 <2>3. OnceAmong(N, c, {p}) BY <2>1, <2>2 DEF OnceAmong
 <2>4. OnceIn(P[N], {p}) BY <1>8, <2>3, Blocks, ListingOnce
 <2> QED BY <1>7, <2>4
<1>13. Cfg.preds[s] \in Seq(Block)
 <2> HIDE DEF c
 <2> QED BY <1>7, <1>9 DEF ListsAll
<1> QED BY <1>11, <1>12, <1>13

(* place_phi_copies visits every edge into a block with phis, and an edge that
   is the only one out of its block once. *)
Edge(b, p) == [block |-> b, pred |-> p]
Edges == {Edge(b, p) : b \in Block, p \in Block}

IsEdge(b, p) == phis[b] # <<>> /\ b \in ToSet(Successors(p))

LEMMA EdgesIntoBlock ==
  ASSUME FunctionOK, NEW b \in Block
  PROVE  /\ EdgesInto(b) \in Seq(Edges)
         /\ \A e : e \in ToSet(EdgesInto(b)) <=>
              \E p \in Block : e = Edge(b, p) /\ IsEdge(b, p)
         /\ \A p \in Block : SingleSuccessor(p) =>
              OnceIn(EdgesInto(b), {e \in Edges : e.pred = p})
<1>1. CASE phis[b] = <<>>
 <2>1. EdgesInto(b) = <<>> /\ ToSet(<<>>) = {} BY <1>1 DEF EdgesInto, ToSet
 <2> QED BY <1>1, <2>1 DEF IsEdge, OnceIn
<1>2. CASE phis[b] # <<>>
 <2> DEFINE ps == Cfg.preds[b]
            es == [j \in DOMAIN ps |-> [block |-> b, pred |-> ps[j]]]
 <2>1. EdgesInto(b) = es BY <1>2 DEF EdgesInto
 <2>2. /\ ps \in Seq(Block)
       /\ \A p \in Block : p \in ToSet(ps) <=> b \in ToSet(Successors(p))
       /\ \A p \in Block : SingleSuccessor(p) => OnceIn(ps, {p}) BY PredecessorsOf
 <2> HIDE DEF ps
 <2>3. \A j \in DOMAIN ps : ps[j] \in Block /\ es[j] = Edge(b, ps[j]) /\ es[j] \in Edges BY <2>2 DEF Edge, Edges
 <2>4. DOMAIN es = DOMAIN ps OBVIOUS
 <2>5. PICK n \in Nat : n = Len(ps) BY <2>2
 <2>6. DOMAIN ps = 1 .. n BY <2>2, <2>5
 <2>7. es \in Seq(Edges) BY <2>3, <2>6 DEF Edge
 <2> HIDE DEF es
 <2>8. ASSUME NEW e PROVE e \in ToSet(es) <=> \E p \in Block : e = Edge(b, p) /\ IsEdge(b, p)
  <3>1. ASSUME NEW j \in DOMAIN es, es[j] = e PROVE \E p \in Block : e = Edge(b, p) /\ IsEdge(b, p)
   <4>1. ps[j] \in Block /\ ps[j] \in ToSet(ps) /\ e = Edge(b, ps[j]) BY <2>3, <2>4, <3>1 DEF ToSet
   <4> QED BY <1>2, <2>2, <4>1 DEF IsEdge
  <3>2. ASSUME NEW p \in Block, e = Edge(b, p), IsEdge(b, p) PROVE \E j \in DOMAIN es : es[j] = e
   <4>1. p \in ToSet(ps) BY <2>2, <3>2 DEF IsEdge
   <4>2. PICK j \in DOMAIN ps : ps[j] = p BY <4>1 DEF ToSet
   <4>3. es[j] = e BY <2>3, <3>2, <4>2
   <4> QED BY <2>4, <4>3
  <3> QED BY <3>1, <3>2 DEF ToSet
 <2>9. ASSUME NEW p \in Block, SingleSuccessor(p) PROVE OnceIn(es, {e \in Edges : e.pred = p})
  <3>1. \A j \in DOMAIN es : es[j].pred = ps[j] BY <2>3, <2>4 DEF Edge
  <3>2. OnceIn(ps, {p}) BY <2>2, <2>9
  <3> QED BY <2>4, <3>1, <3>2 DEF OnceIn
 <2> QED BY <2>1, <2>7, <2>8, <2>9
<1> QED BY <1>1, <1>2

LEMMA EdgesVisited ==
  ASSUME FunctionOK
  PROVE  /\ EdgesToVisit \in Seq(Edges)
         /\ \A b, p \in Block : Edge(b, p) \in ToSet(EdgesToVisit) <=> IsEdge(b, p)
         /\ \A i, j \in DOMAIN EdgesToVisit :
              /\ SingleSuccessor(EdgesToVisit[i].pred)
              /\ EdgesToVisit[i].pred = EdgesToVisit[j].pred
              => i = j
<1> DEFINE D == 0 .. N
           c == [k \in 1 .. N |-> EdgesInto(k - 1)]
           At(f, k) == IF k = 0 THEN <<>> ELSE f[k - 1] \o EdgesInto(k - 1)
           P == CHOOSE f : f = [k \in D |-> At(f, k)]
<1>1. \A k \in 1 .. N : k - 1 \in Block /\ k - 1 \in D /\ k \in D /\ k # 0 BY Blocks
<1>2. \A k \in 1 .. N : c[k] = EdgesInto(k - 1) /\ c[k] \in Seq(Edges) BY <1>1, EdgesIntoBlock
<1>3. c \in [1 .. N -> Seq(Edges)] BY <1>1, EdgesIntoBlock
<1> HIDE DEF c
<1>4. \E f : f = [k \in D |-> At(f, k)]
 <2>1. PICK f \in [D -> Seq(Edges)] : IsListing(Edges, N, c, f) BY <1>3, Blocks, ListingExists
 <2>2. ASSUME NEW k \in D PROVE f[k] = At(f, k)
  <3>1. CASE k = 0 BY <2>1, <3>1 DEF IsListing
  <3>2. CASE k # 0
   <4>1. k \in 1 .. N BY <3>2, Blocks
   <4> QED BY <1>2, <2>1, <3>2, <4>1 DEF IsListing
  <3> QED BY <3>1, <3>2
 <2> HIDE DEF At
 <2> QED BY <2>1, <2>2
<1>5. P = [k \in D |-> At(P, k)]
 <2> HIDE DEF At
 <2> QED BY <1>4
<1>6. EdgesToVisit = P[N] BY DEF EdgesToVisit
<1> HIDE DEF P
<1>7. IsListing(Edges, N, c, P)
 <2>1. \A k \in D : P[k] = At(P, k)
  <3> HIDE DEF At, D
  <3> QED BY <1>5
 <2>2. P[0] = <<>> BY <2>1, Blocks
 <2>3. \A k \in 1 .. N : P[k] = P[k - 1] \o c[k] BY <1>1, <1>2, <2>1
 <2> QED BY <1>3, <2>2, <2>3 DEF IsListing
<1>8. ListsAll(Edges, N, c, P[N]) BY <1>7, Blocks, ListingElements
<1>9. ASSUME NEW b \in Block, NEW p \in Block PROVE Edge(b, p) \in ToSet(P[N]) <=> IsEdge(b, p)
 <2>1. Edge(b, p) \in ToSet(P[N]) <=> \E k \in 1 .. N : Edge(b, p) \in ToSet(EdgesInto(k - 1)) BY <1>2, <1>8 DEF ListsAll
 <2>2. \A k \in 1 .. N :
         Edge(b, p) \in ToSet(EdgesInto(k - 1)) <=> k - 1 = b /\ IsEdge(b, p) BY <1>1, EdgesIntoBlock DEF Edge
 <2>3. b + 1 \in 1 .. N /\ (b + 1) - 1 = b BY Blocks
 <2> QED BY <2>1, <2>2, <2>3
<1>10. ASSUME NEW p \in Block, SingleSuccessor(p) PROVE OnceIn(P[N], {e \in Edges : e.pred = p})
 <2> DEFINE X == {e \in Edges : e.pred = p}
 <2>1. \A k \in 1 .. N : OnceIn(c[k], X) BY <1>1, <1>2, <1>10, EdgesIntoBlock
 <2>2. ASSUME NEW k \in 1 .. N, NEW e \in ToSet(c[k]), e \in X PROVE ToSet(Successors(p)) = {k - 1}
  <3>1. PICK q \in Block : e = Edge(k - 1, q) /\ IsEdge(k - 1, q) BY <1>1, <1>2, <2>2, EdgesIntoBlock
  <3>2. q = p /\ k - 1 \in ToSet(Successors(p)) BY <2>2, <3>1 DEF Edge, IsEdge
  <3>3. Len(Successors(p)) = 1 /\ Successors(p) \in Seq(Block) BY <1>10, CfgIs, SuccessorsOf
  <3>4. DOMAIN Successors(p) = {1} BY <3>3
  <3> QED BY <3>2, <3>4 DEF ToSet
 <2> HIDE DEF X
 <2>3. ASSUME NEW k \in 1 .. N, NEW m \in 1 .. N,
              ToSet(c[k]) \cap X # {}, ToSet(c[m]) \cap X # {}
       PROVE  k = m
  <3>1. {k - 1} = {m - 1} BY <2>2, <2>3
  <3>2. k - 1 = m - 1 BY <3>1
  <3> QED BY <3>2
 <2>4. OnceAmong(N, c, X) BY <2>1, <2>3 DEF OnceAmong
 <2> QED BY <1>7, <2>4, Blocks, ListingOnce DEF X
<1>11. P[N] \in Seq(Edges) BY <1>8 DEF ListsAll
<1>12. ASSUME NEW i \in DOMAIN P[N], NEW j \in DOMAIN P[N],
              SingleSuccessor(P[N][i].pred), P[N][i].pred = P[N][j].pred
       PROVE  i = j
 <2>1. P[N][i] \in Edges /\ P[N][j] \in Edges BY <1>11, ElementType
 <2>2. P[N][i].pred \in Block BY <2>1 DEF Edges, Edge
 <2> QED BY <1>10, <1>12, <2>1, <2>2 DEF OnceIn
<1> QED BY <1>6, <1>9, <1>11, <1>12

(* build_parallel_copies: one copy for every phi that does not keep its
   register, over the registers of the program. *)
LEMMA VarsAreRegisters == Var \in SUBSET Reg /\ Var \in SUBSET Nat /\ 0 \in Val
BY SizesAssumption, RegAssumption DEF Var

LEMMA VarOperands ==
  /\ VarOperand \in SUBSET Operand
  /\ \A o \in VarOperand : o.kind = "Local" => o.id \in Var
<1>1. {Local(v) : v \in Var} \in SUBSET Locals BY VarsAreRegisters DEF Locals
<1> QED BY <1>1 DEF VarOperand, Operand, Local, Const

LEMMA PhiCopyType ==
  ASSUME FunctionOK, NEW b \in Block, NEW p \in Block, NEW k \in DOMAIN phis[b]
  PROVE  /\ PhiCopy(phis[b][k], p) \in Copy
         /\ PhiCopy(phis[b][k], p).dst = phis[b][k].dst
         /\ PhiCopy(phis[b][k], p).src = Source(phis[b][k], label[p])
         /\ Source(phis[b][k], label[p]) \in VarOperand
         /\ \E v \in Var : phis[b][k].dst = Local(v)
<1> DEFINE phi == phis[b][k]
<1>1. phi \in PhisOver(Labels)
 <2>1. phis[b] \in Seq(PhisOver(Labels)) BY DEF FunctionOK
 <2> QED BY <2>1, ElementType
<1> HIDE DEF phi
<1>2. PICK v \in Var : phi.dst = Local(v) BY <1>1 DEF PhisOver
<1>3. PICK L \in SUBSET Labels : phi.incomings \in [L -> VarOperand] BY <1>1 DEF PhisOver
<1>4. Source(phi, label[p]) \in VarOperand
 <2>1. Const(0) \in VarOperand BY VarsAreRegisters DEF VarOperand
 <2> QED BY <1>3, <2>1 DEF Source
<1>5. phi.dst \in Locals BY <1>2, VarsAreRegisters DEF Locals
<1>6. PhiCopy(phi, p) \in Copy BY <1>4, <1>5, VarOperands DEF PhiCopy, Copy
<1> QED BY <1>2, <1>4, <1>6 DEF PhiCopy, phi

LEMMA CopiesOf ==
  ASSUME FunctionOK, NEW b \in Block, NEW p \in Block
  PROVE  /\ Copies(b, p) \in Seq(Copy)
         /\ \A e : e \in ToSet(Copies(b, p)) <=>
              \E k \in DOMAIN phis[b] : e = PhiCopy(phis[b][k], p) /\ Needed(e)
         /\ DistinctDestinations(Copies(b, p))
<1>0. PICK n \in Nat : n = Len(phis[b])
 <2>1. phis[b] \in Seq(PhisOver(Labels)) BY DEF FunctionOK
 <2> QED BY <2>1
<1> DEFINE D == 0 .. n
           copy(k) == PhiCopy(phis[b][k], p)
           c == [k \in 1 .. n |-> IF Needed(copy(k)) THEN <<copy(k)>> ELSE <<>>]
           At(f, k) == IF k = 0 THEN <<>>
                       ELSE IF Needed(copy(k)) THEN Append(f[k - 1], copy(k))
                       ELSE f[k - 1]
           P == CHOOSE f : f = [k \in D |-> At(f, k)]
<1>1. DOMAIN phis[b] = 1 .. n
 <2>1. phis[b] \in Seq(PhisOver(Labels)) BY DEF FunctionOK
 <2> QED BY <1>0, <2>1
<1>2. \A k \in 1 .. n : copy(k) \in Copy /\ k - 1 \in D /\ k \in D /\ k # 0 BY <1>1, PhiCopyType
<1>3. Copies(b, p) = P[n] BY <1>0 DEF Copies
<1> HIDE DEF copy
<1>4. \A k \in 1 .. n : c[k] = IF Needed(copy(k)) THEN <<copy(k)>> ELSE <<>> OBVIOUS
<1>5. c \in [1 .. n -> Seq(Copy)]
 <2>1. \A k \in 1 .. n : (IF Needed(copy(k)) THEN <<copy(k)>> ELSE <<>>) \in Seq(Copy) BY <1>2
 <2> QED BY <2>1
<1> HIDE DEF c
<1>6. \A s \in Seq(Copy), k \in 1 .. n :
        s \o c[k] = IF Needed(copy(k)) THEN Append(s, copy(k)) ELSE s
 <2> SUFFICES ASSUME NEW s \in Seq(Copy), NEW k \in 1 .. n
              PROVE  s \o c[k] = IF Needed(copy(k)) THEN Append(s, copy(k)) ELSE s OBVIOUS
 <2>1. copy(k) \in Copy BY <1>2
 <2>2. s \o <<copy(k)>> = Append(s, copy(k)) BY <2>1
 <2>3. s \o <<>> = s OBVIOUS
 <2> QED BY <1>4, <2>2, <2>3
<1>7. \E f : f = [k \in D |-> At(f, k)]
 <2>1. PICK f \in [D -> Seq(Copy)] : IsListing(Copy, n, c, f) BY <1>5, ListingExists
 <2>2. ASSUME NEW k \in D PROVE f[k] = At(f, k)
  <3>1. CASE k = 0 BY <2>1, <3>1 DEF IsListing
  <3>2. CASE k # 0
   <4>1. k \in 1 .. n BY <3>2
   <4>2. f[k - 1] \in Seq(Copy) /\ f[k] = f[k - 1] \o c[k] BY <1>2, <2>1, <4>1 DEF IsListing
   <4>3. f[k - 1] \o c[k] = IF Needed(copy(k)) THEN Append(f[k - 1], copy(k)) ELSE f[k - 1] BY <1>6, <4>1, <4>2
   <4> QED BY <3>2, <4>2, <4>3
  <3> QED BY <3>1, <3>2
 <2> HIDE DEF At
 <2> QED BY <2>1, <2>2
<1>8. P = [k \in D |-> At(P, k)]
 <2> HIDE DEF At
 <2> QED BY <1>7
<1> HIDE DEF P
<1>9. \A k \in D : P[k] = At(P, k)
 <2> HIDE DEF At, D
 <2> QED BY <1>8
<1>10. \A k \in D : P[k] \in Seq(Copy)
 <2> DEFINE M == {m \in Nat : m \in D => P[m] \in Seq(Copy)}
 <2>1. 0 \in M
  <3>1. P[0] = <<>> /\ <<>> \in Seq(Copy) BY <1>9
  <3> HIDE DEF D
  <3> QED BY <3>1
 <2>2. ASSUME NEW m \in Nat, m \in M PROVE m + 1 \in M
  <3> SUFFICES ASSUME m + 1 \in D PROVE P[m + 1] \in Seq(Copy) OBVIOUS
  <3>1. m \in D /\ m + 1 \in 1 .. n /\ m + 1 # 0 /\ (m + 1) - 1 = m OBVIOUS
  <3>2. P[m] \in Seq(Copy) /\ copy(m + 1) \in Copy BY <1>2, <2>2, <3>1
  <3>3. P[m + 1] = IF Needed(copy(m + 1)) THEN Append(P[m], copy(m + 1)) ELSE P[m] BY <1>9, <3>1
  <3> QED BY <3>2, <3>3
 <2> HIDE DEF M
 <2>3. Nat \in SUBSET M BY <2>1, <2>2, SetInduction
 <2> QED BY <2>3 DEF M
<1>11. IsListing(Copy, n, c, P)
 <2>1. P[0] = <<>> BY <1>9
 <2>2. ASSUME NEW k \in 1 .. n PROVE P[k] = P[k - 1] \o c[k]
  <3>1. k # 0 /\ k \in D /\ k - 1 \in D /\ P[k - 1] \in Seq(Copy) BY <1>2, <1>10
  <3>2. P[k] = IF Needed(copy(k)) THEN Append(P[k - 1], copy(k)) ELSE P[k - 1] BY <1>9, <3>1
  <3> QED BY <1>6, <3>1, <3>2
 <2> QED BY <1>5, <2>1, <2>2 DEF IsListing
<1>12. ListsAll(Copy, n, c, P[n]) BY <1>11, ListingElements
<1>13. ASSUME NEW k \in 1 .. n PROVE \A e : e \in ToSet(c[k]) <=> e = copy(k) /\ Needed(e)
 <2>1. ToSet(<<copy(k)>>) = {copy(k)} /\ ToSet(<<>>) = {} BY DEF ToSet
 <2> QED BY <1>4, <2>1
<1>14. ASSUME NEW e
       PROVE  e \in ToSet(Copies(b, p)) <=>
                \E k \in DOMAIN phis[b] : e = PhiCopy(phis[b][k], p) /\ Needed(e) BY <1>1, <1>3, <1>12, <1>13 DEF ListsAll, copy
<1>15. ASSUME NEW d PROVE OnceIn(P[n], {e \in Copy : e.dst = d})
 <2> DEFINE X == {e \in Copy : e.dst = d}
 <2>1. ASSUME NEW k \in 1 .. n PROVE OnceIn(c[k], X)
  <3>1. DOMAIN c[k] = {1} \/ DOMAIN c[k] = {}
   <4>1. c[k] = <<copy(k)>> \/ c[k] = <<>> BY <1>4
   <4>2. \A x : DOMAIN <<x>> = {1} OBVIOUS
   <4>3. DOMAIN <<>> = {} OBVIOUS
   <4> QED BY <4>1, <4>2, <4>3
  <3> QED BY <3>1 DEF OnceIn
 <2>2. ASSUME NEW k \in 1 .. n, NEW m \in 1 .. n,
              ToSet(c[k]) \cap X # {}, ToSet(c[m]) \cap X # {}
       PROVE  k = m
  <3>1. copy(k).dst = d /\ copy(m).dst = d BY <1>13, <2>2
  <3>2. phis[b][k].dst = d /\ phis[b][m].dst = d BY <1>1, <3>1, PhiCopyType DEF copy
  <3>3. DistinctDestinations(phis[b]) BY DEF FunctionOK
  <3> QED BY <1>1, <3>2, <3>3 DEF DistinctDestinations
 <2> HIDE DEF X
 <2>3. OnceAmong(n, c, X) BY <2>1, <2>2 DEF OnceAmong
 <2> QED BY <1>11, <2>3, ListingOnce DEF X
<1>16. P[n] \in Seq(Copy) BY <1>12 DEF ListsAll
<1>17. DistinctDestinations(P[n])
 <2> SUFFICES ASSUME NEW i \in DOMAIN P[n], NEW j \in DOMAIN P[n],
                     P[n][i].dst = P[n][j].dst
              PROVE  i = j BY DEF DistinctDestinations
 <2>1. P[n][i] \in Copy /\ P[n][j] \in Copy BY <1>16, ElementType
 <2>2. OnceIn(P[n], {e \in Copy : e.dst = P[n][i].dst}) BY <1>15
 <2> QED BY <2>1, <2>2 DEF OnceIn
<1> QED BY <1>3, <1>14, <1>16, <1>17

LEMMA CopiesSound ==
  ASSUME FunctionOK, NEW b \in Block, NEW p \in Block
  PROVE  /\ NoSelfCopy(Copies(b, p))
         /\ Below(Copies(b, p), NumVars)
         /\ phis[b] = <<>> => Copies(b, p) = <<>>
<1>1. ASSUME NEW i \in DOMAIN Copies(b, p)
      PROVE  /\ Needed(Copies(b, p)[i])
             /\ \E k \in DOMAIN phis[b] : Copies(b, p)[i] = PhiCopy(phis[b][k], p)
 <2>1. Copies(b, p)[i] \in ToSet(Copies(b, p)) BY DEF ToSet
 <2> QED BY <2>1, CopiesOf
<1>2. NoSelfCopy(Copies(b, p)) BY <1>1 DEF NoSelfCopy, Needed
<1>3. ASSUME NEW i \in DOMAIN Copies(b, p)
      PROVE  /\ Copies(b, p)[i].dst.id < NumVars
             /\ Copies(b, p)[i].src.kind = "Local" => Copies(b, p)[i].src.id < NumVars
 <2>1. PICK k \in DOMAIN phis[b] : Copies(b, p)[i] = PhiCopy(phis[b][k], p) BY <1>1
 <2>2. /\ PhiCopy(phis[b][k], p).dst = phis[b][k].dst
       /\ PhiCopy(phis[b][k], p).src \in VarOperand
       /\ \E v \in Var : phis[b][k].dst = Local(v) BY PhiCopyType
 <2>3. \A v \in Var : v < NumVars BY SizesAssumption DEF Var
 <2>4. Copies(b, p)[i].dst.id < NumVars BY <2>1, <2>2, <2>3 DEF Local
 <2> QED BY <2>1, <2>2, <2>3, <2>4, VarOperands
<1>4. ASSUME phis[b] = <<>> PROVE Copies(b, p) = <<>>
 <2>1. Copies(b, p) \in Seq(Copy) BY CopiesOf
 <2>2. DOMAIN phis[b] = {} BY <1>4
 <2>3. DOMAIN Copies(b, p) = {} BY <1>1, <2>2
 <2> HIDE <1>1
 <2>4. \A s \in Seq(Copy) : DOMAIN s = {} => s = <<>> OBVIOUS
 <2> QED BY <2>1, <2>3, <2>4
<1> QED BY <1>2, <1>3, <1>4 DEF Below

-----------------------------------------------------------------------------
(* The plan: the invariant of the loops that make it. *)
NrVisited == Len(EdgesToVisit) - Len(edges)
Visited == {EdgesToVisit[i] : i \in 1 .. NrVisited}

EdgesLeft ==
  /\ edges \in Seq(Edges)
  /\ Len(edges) <= Len(EdgesToVisit)
  /\ \A k \in DOMAIN edges : edges[k] = EdgesToVisit[NrVisited + k]

(* The copies of the only edge out of a block stand before its terminator, once
   the edge has been visited; nothing else does. *)
CopiesInserted ==
  /\ inserts \in [Block -> Seq(Copy)]
  /\ \A p \in Block :
       /\ ~SingleSuccessor(p) => inserts[p] = <<>>
       /\ (\A e \in Visited : e.pred # p) => inserts[p] = <<>>
       /\ \A e \in Visited :
            SingleSuccessor(p) /\ e.pred = p => inserts[p] = Copies(e.block, p)

FirstId == NextBlockId(Labels \ {EntryLabel})

SplitEdges == [pred : Block, succ : Nat, label : Nat, copies : Seq(Copy)]

SplitOf(s, b, p) ==
  s.pred = p /\ s.succ = label[b] /\ s.copies = Copies(b, p)

NeedsSplit(b, p) == ~SingleSuccessor(p) /\ Copies(b, p) # <<>>

SplitsMade ==
  /\ splits \in Seq(SplitEdges)
  /\ next_block_id = FirstId + Len(splits)
  /\ \A k \in DOMAIN splits :
       /\ splits[k].label = FirstId + k - 1
       /\ \E b, p \in Block : SplitOf(splits[k], b, p) /\ NeedsSplit(b, p) /\ IsEdge(b, p)
  /\ \A e \in Visited : NeedsSplit(e.block, e.pred) =>
       \E k \in DOMAIN splits : SplitOf(splits[k], e.block, e.pred)

(* A target leads to one of the splits made for its edge, if there is one among
   those whose terminators have been patched. *)
Splits(s, b, k) == s.pred = b /\ s.succ = term[b].targets[k]

TargetsPatched ==
  /\ new_term \in [Block -> Terminators]
  /\ patch \in 0 .. Len(splits)
  /\ \A b \in Block :
       /\ new_term[b].kind = term[b].kind
       /\ DOMAIN new_term[b].targets = DOMAIN term[b].targets
       /\ \A k \in DOMAIN term[b].targets :
            \/ /\ new_term[b].targets[k] = term[b].targets[k]
               /\ \A j \in 1 .. patch : ~Splits(splits[j], b, k)
            \/ \E j \in 1 .. patch :
                 Splits(splits[j], b, k) /\ new_term[b].targets[k] = splits[j].label

Phase ==
  /\ pc \in {"place", "patch", "run"}
  /\ pc = "place" => patch = 0 /\ new_term = term
  /\ pc # "place" => edges = <<>>
  /\ pc = "run" => patch = Len(splits)

PlanInv ==
  FunctionOK /\ EdgesLeft /\ CopiesInserted /\ SplitsMade /\ TargetsPatched /\ Phase

LEMMA LabelsBounded == ASSUME FunctionOK PROVE \E m \in Nat : \A l \in Labels : l <= m
<1> DEFINE M == {n \in Nat : \E m \in Nat : \A b \in Block : b < n => label[b] <= m}
<1>1. 0 \in M
 <2>1. \A b \in Block : ~(b < 0) BY Blocks
 <2> QED BY <2>1
<1>2. ASSUME NEW n \in Nat, n \in M PROVE n + 1 \in M
 <2>1. PICK m \in Nat : \A b \in Block : b < n => label[b] <= m BY <1>2
 <2>2. CASE n \in Block
  <3>1. label[n] \in Nat BY <2>2 DEF FunctionOK
  <3>2. PICK m2 \in Nat : m <= m2 /\ label[n] <= m2
   <4>1. m <= m + label[n] /\ label[n] <= m + label[n] /\ m + label[n] \in Nat BY <3>1
   <4> QED BY <4>1
  <3>3. ASSUME NEW b \in Block, b < n + 1 PROVE label[b] <= m2
   <4>1. b < n \/ b = n BY <3>3, Blocks
   <4>2. label[b] \in Nat BY DEF FunctionOK
   <4> QED BY <2>1, <3>2, <4>1, <4>2
  <3> QED BY <3>3
 <2>3. CASE n \notin Block
  <3>1. \A b \in Block : b < n + 1 => b < n BY <2>3, Blocks
  <3> QED BY <2>1, <3>1
 <2> QED BY <2>2, <2>3
<1> HIDE DEF M
<1>3. N \in M BY <1>1, <1>2, Blocks, SetInduction
<1>4. PICK m \in Nat : \A b \in Block : b < N => label[b] <= m BY <1>3 DEF M
<1>5. \A b \in Block : b < N BY Blocks
<1> QED BY <1>4, <1>5 DEF Labels

(* next_basic_block_id: a label above those of all blocks. *)
LEMMA FirstIdAbove == ASSUME FunctionOK PROVE FirstId \in Nat /\ \A b \in Block : label[b] < FirstId
<1> DEFINE S == Labels \ {EntryLabel}
<1>1. \A b \in Block : label[b] \in Nat BY DEF FunctionOK
<1>2. S \in SUBSET Nat BY <1>1 DEF Labels
<1>3. CASE S = {}
 <2>1. FirstId = 1 BY <1>3 DEF FirstId, NextBlockId
 <2>2. \A b \in Block : label[b] = 0 BY <1>3 DEF Labels, EntryLabel
 <2> QED BY <2>1, <2>2
<1>4. CASE S # {}
 <2> DEFINE U == {n \in Nat : \A x \in S : x <= n}
 <2>1. U \in SUBSET Nat /\ U # {} BY LabelsBounded
 <2> HIDE DEF S
 <2>2. PICK n \in U : \A m \in U : n <= m
  <3> HIDE DEF U
  <3> QED BY <2>1, LeastNumber
 <2>3. n \in S
  <3> SUFFICES ASSUME n \notin S PROVE FALSE OBVIOUS
  <3>1. \A x \in S : x <= n /\ x # n /\ x \in Nat BY <1>2, <2>2
  <3>2. n \in Nat /\ n # 0 BY <1>4, <2>2, <3>1
  <3>3. n - 1 \in Nat /\ \A x \in S : x <= n - 1 BY <3>1, <3>2
  <3>4. n - 1 \in U BY <3>3
  <3> QED BY <2>2, <3>2, <3>4
 <2>4. n \in Nat /\ \A x \in S : x \in Nat /\ n >= x BY <1>2, <2>2
 <2>5. PICK m \in Nat : m \in S /\ m = Max(S) /\ \A x \in S : m >= x
  <3>1. Max(S) \in S /\ \A x \in S : Max(S) >= x BY <2>3, <2>4 DEF Max
  <3> QED BY <1>2, <3>1
 <2>6. FirstId = m + 1 BY <1>4, <2>5 DEF FirstId, NextBlockId, S
 <2>7. ASSUME NEW b \in Block PROVE label[b] < FirstId
  <3>1. CASE label[b] = 0 BY <2>5, <2>6, <3>1
  <3>2. CASE label[b] # 0
   <4>1. label[b] \in S BY <3>2 DEF S, Labels, EntryLabel
   <4> QED BY <1>1, <2>5, <2>6, <4>1
  <3> QED BY <3>1, <3>2
 <2> QED BY <2>5, <2>6, <2>7
<1> QED BY <1>3, <1>4

(* The function stays what it is while it is lowered. *)
LEMMA FunctionKept ==
  ASSUME UNCHANGED function
  PROVE  /\ FunctionOK' <=> FunctionOK
         /\ EdgesToVisit' = EdgesToVisit
         /\ Labels' = Labels
         /\ FirstId' = FirstId
         /\ \A b, p : Copies(b, p)' = Copies(b, p)
         /\ \A b : Successors(b)' = Successors(b)
         /\ \A p : SingleSuccessor(p)' <=> SingleSuccessor(p)
         /\ \A b, p : IsEdge(b, p)' <=> IsEdge(b, p)
         /\ \A b, p : NeedsSplit(b, p)' <=> NeedsSplit(b, p)
         /\ \A s, b, p : SplitOf(s, b, p)' <=> SplitOf(s, b, p)
         /\ \A s, b, k : Splits(s, b, k)' <=> Splits(s, b, k)
<1>1. label' = label /\ term' = term /\ phis' = phis BY DEF function
<1>2. Labels' = Labels BY <1>1 DEF Labels
<1>3. FirstId' = FirstId BY <1>2 DEF FirstId
<1>4. FunctionOK' <=> FunctionOK BY <1>1, <1>2 DEF FunctionOK
<1>5. \A b : Successors(b)' = Successors(b) BY <1>1 DEF Successors, BlockOf
<1>6. Cfg' = Cfg BY <1>5 DEF Cfg
<1>7. \A p : SingleSuccessor(p)' <=> SingleSuccessor(p) BY <1>6 DEF SingleSuccessor
<1>8. \A b : EdgesInto(b)' = EdgesInto(b) BY <1>1, <1>6 DEF EdgesInto
<1>9. EdgesToVisit' = EdgesToVisit BY <1>8 DEF EdgesToVisit
<1>10. \A b, p : Copies(b, p)' = Copies(b, p) BY <1>1 DEF Copies, PhiCopy, Source
<1>11. \A b, p : IsEdge(b, p)' <=> IsEdge(b, p) BY <1>1, <1>5 DEF IsEdge
<1>12. \A b, p : NeedsSplit(b, p)' <=> NeedsSplit(b, p) BY <1>7, <1>10 DEF NeedsSplit
<1>13. \A s, b, p : SplitOf(s, b, p)' <=> SplitOf(s, b, p) BY <1>1, <1>10 DEF SplitOf
<1>14. \A s, b, k : Splits(s, b, k)' <=> Splits(s, b, k) BY <1>1 DEF Splits
<1> QED BY <1>2, <1>3, <1>4, <1>5, <1>7, <1>9, <1>10, <1>11, <1>12, <1>13, <1>14

(* The edge visited next; the only edge out of its block if there is one. *)
LEMMA NextEdge ==
  ASSUME FunctionOK, EdgesLeft, edges # <<>>
  PROVE  /\ Head(edges) \in Edges
         /\ Head(edges).block \in Block /\ Head(edges).pred \in Block
         /\ IsEdge(Head(edges).block, Head(edges).pred)
         /\ SingleSuccessor(Head(edges).pred) =>
              \A e \in Visited : e.pred # Head(edges).pred
         /\ Visited \in SUBSET Edges
<1> DEFINE E == EdgesToVisit
           n == NrVisited
<1>1. E \in Seq(Edges) /\ edges \in Seq(Edges) BY EdgesVisited DEF EdgesLeft
<1>2. Len(E) \in Nat /\ Len(edges) \in Nat /\ Len(edges) > 0 /\ Len(edges) <= Len(E) BY <1>1 DEF EdgesLeft
<1>3. n = Len(E) - Len(edges) /\ n \in Nat /\ n + 1 \in 1 .. Len(E) BY <1>2 DEF NrVisited
<1>4. DOMAIN E = 1 .. Len(E) /\ 1 \in DOMAIN edges /\ Head(edges) = edges[1] BY <1>1, <1>2
<1>5. Head(edges) = E[n + 1] /\ n + 1 \in DOMAIN E BY <1>3, <1>4 DEF EdgesLeft
<1>6. \A i \in 1 .. n : i \in DOMAIN E /\ i # n + 1 BY <1>2, <1>3, <1>4
<1> HIDE DEF E, n
<1>7. Head(edges) \in Edges BY <1>1, <1>5, ElementType
<1>8. PICK b \in Block, p \in Block : Head(edges) = Edge(b, p) BY <1>7 DEF Edges
<1>9. IsEdge(b, p)
 <2>1. Edge(b, p) \in ToSet(E) BY <1>5, <1>8 DEF ToSet
 <2> QED BY <2>1, EdgesVisited DEF E
<1>10. ASSUME SingleSuccessor(Head(edges).pred), NEW i \in 1 .. n,
              E[i].pred = Head(edges).pred
       PROVE  FALSE BY <1>5, <1>6, <1>10, EdgesVisited DEF E
<1>11. Visited = {E[i] : i \in 1 .. n} BY DEF Visited, E, n
<1>12. \A e \in Visited : e \in Edges BY <1>1, <1>6, <1>11, ElementType
<1> QED BY <1>7, <1>8, <1>9, <1>10, <1>11, <1>12 DEF Edge

LEMMA EdgeTaken ==
  ASSUME FunctionOK, EdgesLeft, edges # <<>>, edges' = Tail(edges), UNCHANGED function
  PROVE  /\ EdgesLeft'
         /\ Visited' = Visited \cup {Head(edges)}
<1> DEFINE E == EdgesToVisit
           n == NrVisited
<1>1. E \in Seq(Edges) /\ edges \in Seq(Edges) /\ E' = E BY EdgesVisited, FunctionKept DEF EdgesLeft
<1>2. Len(E) \in Nat /\ Len(edges) \in Nat /\ Len(edges) > 0 /\ Len(edges) <= Len(E) BY <1>1 DEF EdgesLeft
<1>3. /\ edges' \in Seq(Edges) /\ Len(edges') = Len(edges) - 1
      /\ DOMAIN edges = 1 .. Len(edges)
      /\ DOMAIN edges' = 1 .. Len(edges) - 1
      /\ \A k \in DOMAIN edges' : edges'[k] = edges[k + 1]
      /\ Head(edges) = edges[1] BY <1>1, <1>2, TailFacts
<1>4. n = Len(E) - Len(edges) /\ n \in Nat /\ n' = n + 1 BY <1>1, <1>2, <1>3 DEF NrVisited
<1>5. \A k \in DOMAIN edges : edges[k] = E[n + k] BY DEF EdgesLeft
<1>6. \A k \in DOMAIN edges' : edges'[k] = E[n' + k]
 <2> SUFFICES ASSUME NEW k \in DOMAIN edges' PROVE edges'[k] = E[n' + k] OBVIOUS
 <2>1. k + 1 \in DOMAIN edges /\ n + (k + 1) = n' + k BY <1>2, <1>3, <1>4
 <2>2. edges[k + 1] = E[n + (k + 1)] BY <1>5, <2>1
 <2> QED BY <1>3, <2>1, <2>2
<1>7. EdgesLeft'
 <2>1. Len(edges') <= Len(E') BY <1>1, <1>2, <1>3
 <2> QED BY <1>1, <1>3, <1>6, <2>1 DEF EdgesLeft
<1>8. Head(edges) = E[n + 1]
 <2>1. 1 \in DOMAIN edges BY <1>2, <1>3
 <2> QED BY <1>3, <1>5, <2>1
<1>9. Visited = {E[i] : i \in 1 .. n} /\ Visited' = {E[i] : i \in 1 .. n'} BY <1>1 DEF Visited
<1> HIDE DEF E, n
<1>10. \A i : i \in 1 .. n' <=> i \in 1 .. n \/ i = n + 1 BY <1>4
<1> QED BY <1>7, <1>8, <1>9, <1>10

LEMMA PlanStarts == PlanInit => PlanInv
<1> SUFFICES ASSUME PlanInit PROVE PlanInv OBVIOUS
<1>1. FunctionOK BY FunctionsAssumption DEF PlanInit, FunctionOK, Labels
<1>2. EdgesToVisit \in Seq(Edges) /\ edges = EdgesToVisit BY <1>1, EdgesVisited DEF PlanInit
<1>3. Len(EdgesToVisit) \in Nat /\ NrVisited = 0 BY <1>2 DEF NrVisited
<1>4. Visited = {} BY <1>3 DEF Visited
<1>5. EdgesLeft
 <2>1. \A k \in DOMAIN edges : k \in Nat /\ NrVisited + k = k BY <1>2, <1>3
 <2> QED BY <1>2, <1>3, <2>1 DEF EdgesLeft
<1>6. CopiesInserted BY <1>4 DEF PlanInit, CopiesInserted
<1>7. next_block_id = FirstId /\ splits = <<>> /\ FirstId \in Nat BY <1>1, FirstIdAbove DEF PlanInit, FirstId, Labels
<1>8. SplitsMade BY <1>4, <1>7 DEF SplitsMade
<1>9. TargetsPatched
 <2>1. new_term = term /\ patch = 0 /\ Len(splits) = 0 BY <1>7 DEF PlanInit
 <2> QED BY <1>1, <2>1 DEF TargetsPatched, FunctionOK
<1>10. Phase BY DEF PlanInit, Phase
<1> QED BY <1>1, <1>5, <1>6, <1>8, <1>9, <1>10 DEF PlanInv

LEMMA PlaceKeeps == ASSUME PlanInv, Place PROVE PlanInv'
<1> DEFINE b == Head(edges).block
           p == Head(edges).pred
<1>1. /\ FunctionOK /\ EdgesLeft /\ CopiesInserted /\ SplitsMade /\ TargetsPatched /\ Phase
      /\ pc = "place" /\ edges # <<>> /\ edges' = Tail(edges)
      /\ UNCHANGED <<function, pc, patch, new_term>> BY DEF PlanInv, Place
<1>2. /\ EdgesLeft' /\ Visited' = Visited \cup {Head(edges)}
      /\ Head(edges) = Edge(b, p) /\ b \in Block /\ p \in Block /\ IsEdge(b, p)
      /\ SingleSuccessor(p) => \A e \in Visited : e.pred # p
      /\ Visited \in SUBSET Edges
 <2>1. EdgesLeft' /\ Visited' = Visited \cup {Head(edges)} BY <1>1, EdgeTaken
 <2>2. /\ Head(edges) \in Edges /\ b \in Block /\ p \in Block /\ IsEdge(b, p)
       /\ SingleSuccessor(p) => \A e \in Visited : e.pred # p
       /\ Visited \in SUBSET Edges BY <1>1, NextEdge
 <2>3. Head(edges) = Edge(b, p)
  <3>1. PICK c \in Block, q \in Block : Head(edges) = Edge(c, q) BY <2>2 DEF Edges
  <3>2. b = c /\ p = q BY <3>1 DEF Edge
  <3> QED BY <3>1, <3>2
 <2> QED BY <2>1, <2>2, <2>3
<1>3. \/ /\ Copies(b, p) = <<>>
         /\ UNCHANGED <<inserts, splits, next_block_id>>
      \/ /\ Copies(b, p) # <<>> /\ SingleSuccessor(p)
         /\ inserts' = [inserts EXCEPT ![p] = @ \o Copies(b, p)]
         /\ UNCHANGED <<splits, next_block_id>>
      \/ /\ Copies(b, p) # <<>> /\ ~SingleSuccessor(p)
         /\ splits' = Append(splits, [pred |-> p, succ |-> label[b],
                                      label |-> next_block_id, copies |-> Copies(b, p)])
         /\ next_block_id' = next_block_id + 1
         /\ UNCHANGED inserts BY DEF Place
<1> HIDE DEF b, p
<1>4. UNCHANGED function BY <1>1
<1>5. Copies(b, p) \in Seq(Copy) BY <1>1, <1>2, CopiesOf
<1>6. \A e : e \in Visited' <=> e \in Visited \/ e = Edge(b, p) BY <1>2
<1>7. Edge(b, p).block = b /\ Edge(b, p).pred = p BY DEF Edge
<1>8. CopiesInserted'
 <2>1. inserts' \in [Block -> Seq(Copy)]
  <3>1. inserts \in [Block -> Seq(Copy)] BY <1>1 DEF CopiesInserted
  <3>2. inserts[p] \in Seq(Copy) BY <1>2, <3>1
  <3>3. inserts[p] \o Copies(b, p) \in Seq(Copy) BY <1>5, <3>2
  <3> QED BY <1>3, <3>1, <3>3
 <2>2. ASSUME NEW q \in Block, q # p PROVE inserts'[q] = inserts[q] BY <1>1, <1>3, <2>2 DEF CopiesInserted
 <2>3. inserts'[p] = IF SingleSuccessor(p) THEN Copies(b, p) ELSE <<>>
  <3>1. inserts[p] = <<>> BY <1>1, <1>2 DEF CopiesInserted
  <3>2. <<>> \o Copies(b, p) = Copies(b, p) BY <1>5
  <3>3. CASE UNCHANGED inserts /\ Copies(b, p) = <<>> BY <3>1, <3>3
  <3>4. CASE SingleSuccessor(p) /\ inserts' = [inserts EXCEPT ![p] = @ \o Copies(b, p)]
   <4>1. inserts'[p] = inserts[p] \o Copies(b, p) BY <1>1, <1>2, <3>4 DEF CopiesInserted
   <4> QED BY <3>1, <3>2, <3>4, <4>1
  <3>5. CASE UNCHANGED inserts /\ ~SingleSuccessor(p) BY <3>1, <3>5
  <3> QED BY <1>3, <3>3, <3>4, <3>5
 <2>4. ASSUME NEW q \in Block
       PROVE  /\ ~SingleSuccessor(q) => inserts'[q] = <<>>
              /\ (\A e \in Visited' : e.pred # q) => inserts'[q] = <<>>
              /\ \A e \in Visited' :
                   SingleSuccessor(q) /\ e.pred = q => inserts'[q] = Copies(e.block, q)
  <3>1. CASE q = p
   <4>1. Edge(b, p) \in Visited' BY <1>6
   <4> QED BY <1>2, <1>6, <1>7, <2>3, <3>1, <4>1
  <3>2. CASE q # p BY <1>1, <1>6, <1>7, <2>2, <3>2 DEF CopiesInserted
  <3> QED BY <3>1, <3>2
 <2> QED BY <1>4, <2>1, <2>4, FunctionKept DEF CopiesInserted
<1>9. SplitsMade'
 <2> DEFINE s == [pred |-> p, succ |-> label[b], label |-> next_block_id,
                  copies |-> Copies(b, p)]
 <2>1. /\ splits \in Seq(SplitEdges) /\ Len(splits) \in Nat
       /\ next_block_id = FirstId + Len(splits)
       /\ FirstId \in Nat
  <3>1. splits \in Seq(SplitEdges) BY <1>1 DEF SplitsMade
  <3> QED BY <1>1, <3>1, FirstIdAbove DEF SplitsMade
 <2>2. CASE /\ UNCHANGED <<splits, next_block_id>>
            /\ Copies(b, p) = <<>> \/ SingleSuccessor(p)
  <3>1. ~NeedsSplit(b, p) BY <2>2 DEF NeedsSplit
  <3>2. \A e \in Visited' : NeedsSplit(e.block, e.pred) =>
          \E k \in DOMAIN splits : SplitOf(splits[k], e.block, e.pred) BY <1>1, <1>6, <1>7, <3>1 DEF SplitsMade
  <3> QED BY <1>1, <1>4, <2>2, <3>2, FunctionKept DEF SplitsMade
 <2>3. CASE /\ Copies(b, p) # <<>> /\ ~SingleSuccessor(p)
            /\ splits' = Append(splits, s)
            /\ next_block_id' = next_block_id + 1
  <3>1. s \in SplitEdges
   <4>1. label[b] \in Nat /\ next_block_id \in Nat BY <1>1, <1>2, <2>1 DEF FunctionOK
   <4> QED BY <1>2, <1>5, <4>1 DEF SplitEdges
  <3>2. SplitOf(s, b, p) /\ s.label = FirstId + Len(splits) /\ NeedsSplit(b, p) BY <2>1, <2>3 DEF SplitOf, NeedsSplit
  <3> HIDE DEF s
  <3>3. /\ splits' \in Seq(SplitEdges)
        /\ DOMAIN splits = 1 .. Len(splits)
        /\ DOMAIN splits' = 1 .. Len(splits) + 1
        /\ \A k \in DOMAIN splits : splits'[k] = splits[k]
        /\ splits'[Len(splits) + 1] = s BY <2>1, <2>3, <3>1, AppendFacts
  <3>4. Len(splits') = Len(splits) + 1 BY <2>1, <2>3
  <3>5. next_block_id' = FirstId + Len(splits') BY <2>1, <2>3, <3>4
  <3>6. ASSUME NEW k \in DOMAIN splits'
        PROVE  /\ splits'[k].label = FirstId + k - 1
               /\ \E c, q \in Block :
                    SplitOf(splits'[k], c, q) /\ NeedsSplit(c, q) /\ IsEdge(c, q)
   <4>1. CASE k \in DOMAIN splits BY <1>1, <3>3, <4>1 DEF SplitsMade
   <4>2. CASE k \notin DOMAIN splits
    <5>1. k = Len(splits) + 1 /\ splits'[k] = s BY <2>1, <3>3, <4>2
    <5>2. FirstId + k - 1 = FirstId + Len(splits) BY <2>1, <5>1
    <5> QED BY <1>2, <3>2, <5>1, <5>2
   <4> QED BY <4>1, <4>2
  <3>7. ASSUME NEW e \in Visited', NeedsSplit(e.block, e.pred)
        PROVE  \E k \in DOMAIN splits' : SplitOf(splits'[k], e.block, e.pred)
   <4>1. CASE e \in Visited
    <5>1. PICK k \in DOMAIN splits : SplitOf(splits[k], e.block, e.pred) BY <1>1, <3>7, <4>1 DEF SplitsMade
    <5>2. k \in DOMAIN splits' /\ splits'[k] = splits[k] BY <2>1, <3>3
    <5> QED BY <5>1, <5>2
   <4>2. CASE e = Edge(b, p)
    <5>1. Len(splits) + 1 \in DOMAIN splits' BY <2>1, <3>3
    <5> QED BY <1>7, <3>2, <3>3, <4>2, <5>1
   <4> QED BY <1>6, <4>1, <4>2
  <3> QED BY <1>4, <3>3, <3>5, <3>6, <3>7, FunctionKept DEF SplitsMade
 <2> QED BY <1>3, <2>2, <2>3
<1>10. TargetsPatched'
 <2>1. /\ patch' = 0 /\ new_term' = term /\ term' = term
       /\ splits' \in Seq(SplitEdges) BY <1>1, <1>9 DEF Phase, function, SplitsMade
 <2>2. Len(splits') \in Nat /\ term \in [Block -> Terminators] BY <1>1, <2>1 DEF FunctionOK
 <2> QED BY <2>1, <2>2 DEF TargetsPatched
<1>11. Phase' BY <1>1, <1>4 DEF Phase, function
<1> QED BY <1>1, <1>2, <1>4, <1>8, <1>9, <1>10, <1>11, FunctionKept DEF PlanInv

LEMMA PatchStarts == ASSUME PlanInv, StartPatch PROVE PlanInv'
<1>1. /\ UNCHANGED function
      /\ UNCHANGED <<edges, inserts, splits, next_block_id, patch, new_term>>
      /\ pc' = "patch" /\ edges = <<>> BY DEF StartPatch
<1>2. label' = label /\ term' = term /\ phis' = phis BY <1>1 DEF function
<1>3. NrVisited' = NrVisited /\ Visited' = Visited BY <1>1, FunctionKept DEF NrVisited, Visited
<1>4. Phase' BY <1>1 DEF Phase
<1> QED BY <1>1, <1>2, <1>3, <1>4, FunctionKept
  DEF PlanInv, EdgesLeft, CopiesInserted, SplitsMade, TargetsPatched

(* patch_terminators: a target that has been redirected to a split is no label
   of a block, so that a later split does not redirect it again. *)
LEMMA PatchKeeps == ASSUME PlanInv, Patch PROVE PlanInv'
<1> DEFINE s == splits[patch + 1]
<1>1. /\ FunctionOK /\ EdgesLeft /\ CopiesInserted /\ SplitsMade /\ TargetsPatched /\ Phase
      /\ pc = "patch" /\ patch < Len(splits)
      /\ new_term' = [new_term EXCEPT ![s.pred] = Retargeted(@, s.succ, s.label)]
      /\ patch' = patch + 1
      /\ UNCHANGED function
      /\ UNCHANGED <<pc, edges, inserts, splits, next_block_id>> BY DEF PlanInv, Patch, PatchedNext
<1>2. /\ patch \in Nat /\ patch + 1 \in DOMAIN splits /\ patch + 1 \in 1 .. Len(splits)
      /\ Len(splits) \in Nat /\ s \in SplitEdges
 <2>1. splits \in Seq(SplitEdges) /\ patch \in 0 .. Len(splits) BY <1>1 DEF SplitsMade, TargetsPatched
 <2>2. patch + 1 \in DOMAIN splits /\ patch \in Nat BY <1>1, <2>1
 <2> QED BY <1>1, <2>1, <2>2, ElementType
<1>3. s.pred \in Block /\ s.succ \in Nat /\ s.label \in Nat BY <1>2 DEF SplitEdges
<1>4. label' = label /\ term' = term /\ phis' = phis BY <1>1 DEF function
<1>5. NrVisited' = NrVisited /\ Visited' = Visited BY <1>1, FunctionKept DEF NrVisited, Visited
<1>6. FunctionOK' /\ EdgesLeft' /\ CopiesInserted' /\ SplitsMade' /\ Phase'
 <2>1. FunctionOK' /\ EdgesLeft' BY <1>1, <1>4, <1>5, FunctionKept DEF EdgesLeft
 <2>2. CopiesInserted' BY <1>1, <1>4, <1>5, FunctionKept DEF CopiesInserted
 <2>3. SplitsMade' BY <1>1, <1>4, <1>5, FunctionKept DEF SplitsMade
 <2>4. Phase' BY <1>1 DEF Phase
 <2> QED BY <2>1, <2>2, <2>3, <2>4
<1> DEFINE nt == new_term[s.pred]
           rt == Retargeted(nt, s.succ, s.label)
           New(b) == IF b = s.pred THEN rt ELSE new_term[b]
<1>7. new_term \in [Block -> Terminators] BY <1>1 DEF TargetsPatched
<1>8. \A b \in Block : new_term[b] \in Terminators /\ new_term[b].targets \in Seq(Nat) BY <1>7 DEF Terminators
<1>9. /\ rt.kind = nt.kind
      /\ rt.targets = [k \in DOMAIN nt.targets |->
                         IF nt.targets[k] = s.succ THEN s.label ELSE nt.targets[k]]
      /\ rt \in Terminators
 <2>1. nt \in Terminators /\ nt.targets \in Seq(Nat) BY <1>3, <1>8
 <2> DEFINE ts == nt.targets
            us == [k \in DOMAIN ts |-> IF ts[k] = s.succ THEN s.label ELSE ts[k]]
 <2>2. PICK n \in Nat : n = Len(ts) BY <2>1
 <2>3. DOMAIN ts = 1 .. n /\ \A k \in 1 .. n : ts[k] \in Nat BY <2>1, <2>2
 <2>4. us \in Seq(Nat)
  <3> HIDE DEF ts, s
  <3>1. \A k \in 1 .. n : (IF ts[k] = s.succ THEN s.label ELSE ts[k]) \in Nat BY <1>3, <2>3
  <3> QED BY <2>3, <3>1
 <2>5. rt = [nt EXCEPT !.targets = us] BY DEF Retargeted
 <2> HIDE DEF us, nt, s
 <2>6. rt.kind = nt.kind /\ rt.targets = us /\ rt \in Terminators BY <2>1, <2>4, <2>5 DEF Terminators
 <2> QED BY <2>6 DEF us
<1>10. \A b \in Block : new_term'[b] = New(b)
 <2> HIDE DEF s
 <2> QED BY <1>1, <1>3, <1>7
<1>11. new_term' \in [Block -> Terminators]
 <2> HIDE DEF s, rt
 <2> QED BY <1>1, <1>3, <1>7, <1>9 DEF rt
<1> HIDE DEF s, rt, nt
<1>12. \A b \in Block : label[b] # s.label
 <2>1. s.label = FirstId + (patch + 1) - 1 BY <1>1, <1>2 DEF SplitsMade, s
 <2>2. FirstId \in Nat /\ \A b \in Block : label[b] < FirstId /\ label[b] \in Nat BY <1>1, FirstIdAbove DEF FunctionOK
 <2> QED BY <1>2, <2>1, <2>2
<1>13. \E b \in Block : s.succ = label[b] BY <1>1, <1>2 DEF SplitsMade, SplitOf, s
<1>14. \A j : j \in 1 .. patch' <=> j \in 1 .. patch \/ j = patch + 1 BY <1>1, <1>2
<1>15. ASSUME NEW b \in Block
       PROVE  /\ new_term'[b].kind = term[b].kind
              /\ DOMAIN new_term'[b].targets = DOMAIN term[b].targets
              /\ \A k \in DOMAIN term[b].targets :
                   \/ /\ new_term'[b].targets[k] = term[b].targets[k]
                      /\ \A j \in 1 .. patch' : ~Splits(splits[j], b, k)
                   \/ \E j \in 1 .. patch' :
                        Splits(splits[j], b, k) /\ new_term'[b].targets[k] = splits[j].label
 <2>1. /\ new_term[b].kind = term[b].kind
       /\ DOMAIN new_term[b].targets = DOMAIN term[b].targets BY <1>1 DEF TargetsPatched
 <2>2. /\ new_term'[b].kind = term[b].kind
       /\ DOMAIN new_term'[b].targets = DOMAIN term[b].targets
       /\ \A k \in DOMAIN term[b].targets :
            new_term'[b].targets[k] =
              IF b = s.pred /\ new_term[b].targets[k] = s.succ
              THEN s.label ELSE new_term[b].targets[k]
  <3>1. CASE b = s.pred
   <4>1. new_term'[b] = rt /\ nt = new_term[b] BY <1>10, <3>1 DEF nt
   <4> QED BY <1>9, <2>1, <3>1, <4>1
  <3>2. CASE b # s.pred BY <1>10, <2>1, <3>2
  <3> QED BY <3>1, <3>2
 <2> SUFFICES ASSUME NEW k \in DOMAIN term[b].targets
              PROVE  \/ /\ new_term'[b].targets[k] = term[b].targets[k]
                        /\ \A j \in 1 .. patch' : ~Splits(splits[j], b, k)
                     \/ \E j \in 1 .. patch' :
                          /\ Splits(splits[j], b, k)
                          /\ new_term'[b].targets[k] = splits[j].label BY <2>2
 <2>3. new_term'[b].targets[k] =
         IF b = s.pred /\ new_term[b].targets[k] = s.succ
         THEN s.label ELSE new_term[b].targets[k] BY <2>2
 <2>4. CASE /\ new_term[b].targets[k] = term[b].targets[k]
            /\ \A j \in 1 .. patch : ~Splits(splits[j], b, k)
  <3>1. CASE b = s.pred /\ term[b].targets[k] = s.succ
   <4>1. Splits(splits[patch + 1], b, k) /\ new_term'[b].targets[k] = splits[patch + 1].label BY <2>3, <2>4, <3>1 DEF Splits, s
   <4> QED BY <1>14, <4>1
  <3>2. CASE ~(b = s.pred /\ term[b].targets[k] = s.succ)
   <4>1. ~Splits(splits[patch + 1], b, k) BY <3>2 DEF Splits, s
   <4> QED BY <1>14, <2>3, <2>4, <3>2, <4>1
  <3> QED BY <3>1, <3>2
 <2>5. ASSUME NEW j \in 1 .. patch,
              Splits(splits[j], b, k), new_term[b].targets[k] = splits[j].label
       PROVE  new_term'[b].targets[k] = splits[j].label
  <3>1. j \in DOMAIN splits /\ j \in Nat /\ j >= 1
   <4>1. splits \in Seq(SplitEdges) BY <1>1 DEF SplitsMade
   <4> QED BY <1>2, <4>1
  <3>2. splits[j].label = FirstId + j - 1 BY <1>1, <3>1 DEF SplitsMade
  <3>3. FirstId \in Nat /\ \A c \in Block : label[c] < FirstId /\ label[c] \in Nat BY <1>1, FirstIdAbove DEF FunctionOK
  <3>4. splits[j].label # s.succ BY <1>13, <3>1, <3>2, <3>3
  <3> QED BY <2>3, <2>5, <3>4
 <2> QED
  <3>1. \/ /\ new_term[b].targets[k] = term[b].targets[k]
           /\ \A j \in 1 .. patch : ~Splits(splits[j], b, k)
        \/ \E j \in 1 .. patch :
             Splits(splits[j], b, k) /\ new_term[b].targets[k] = splits[j].label BY <1>1 DEF TargetsPatched
  <3> QED BY <1>14, <2>4, <2>5, <3>1
<1>16. TargetsPatched'
 <2>1. patch' \in 0 .. Len(splits') BY <1>1, <1>2
 <2>2. \A t, b, k : Splits(t, b, k)' <=> Splits(t, b, k) BY <1>1, FunctionKept
 <2>3. splits' = splits BY <1>1
 <2> QED BY <1>4, <1>11, <1>15, <2>1, <2>2, <2>3 DEF TargetsPatched
<1> QED BY <1>6, <1>16 DEF PlanInv

(* Running changes nothing of the plan. *)
LEMMA RunKeeps ==
  ASSUME PlanInv,
         UNCHANGED <<function, edges, inserts, splits, next_block_id, patch, new_term>>,
         Phase'
  PROVE  PlanInv'
<1>1. UNCHANGED function OBVIOUS
<1>2. label' = label /\ term' = term /\ phis' = phis BY <1>1 DEF function
<1>3. NrVisited' = NrVisited /\ Visited' = Visited BY <1>1, FunctionKept DEF NrVisited, Visited
<1>4. FunctionOK' /\ EdgesLeft' BY <1>1, <1>2, <1>3, FunctionKept DEF PlanInv, EdgesLeft
<1>5. CopiesInserted' BY <1>1, <1>2, <1>3, FunctionKept DEF PlanInv, CopiesInserted
<1>6. SplitsMade' BY <1>1, <1>2, <1>3, FunctionKept DEF PlanInv, SplitsMade
<1>7. TargetsPatched' BY <1>1, <1>2, <1>3, FunctionKept DEF PlanInv, TargetsPatched
<1> QED BY <1>4, <1>5, <1>6, <1>7 DEF PlanInv

-----------------------------------------------------------------------------
(* The lowered function: where the labels lead and what stands on the way. *)
LEMMA SplitsType ==
  ASSUME PlanInv
  PROVE  /\ Len(splits) \in Nat
         /\ DOMAIN splits = 1 .. Len(splits)
         /\ \A j \in DOMAIN splits : splits[j] \in SplitEdges
BY ElementType DEF PlanInv, SplitsMade

(* A position of the emitted stream is that of a block or of a split, with its
   label. *)
LEMMA Positions ==
  ASSUME PlanInv, NEW p \in Emitted
  PROVE  \/ ~IsSplit(p) /\ p - 1 \in Block /\ LabelAt(p) = label[p - 1]
         \/ /\ IsSplit(p) /\ p - N \in DOMAIN splits
            /\ LabelAt(p) = splits[p - N].label
            /\ LabelAt(p) = FirstId + (p - N) - 1
<1>1. p \in 1 .. N + Len(splits) /\ N \in Nat /\ Len(splits) \in Nat BY SplitsType, Blocks DEF Emitted
<1>2. CASE IsSplit(p)
 <2>1. p - N \in DOMAIN splits BY <1>1, <1>2, SplitsType DEF IsSplit
 <2>2. LabelAt(p) = splits[p - N].label BY <1>2 DEF LabelAt
 <2>3. splits[p - N].label = FirstId + (p - N) - 1 BY <2>1 DEF PlanInv, SplitsMade
 <2> QED BY <1>2, <2>1, <2>2, <2>3
<1>3. CASE ~IsSplit(p) BY <1>1, <1>3, Blocks DEF IsSplit, LabelAt
<1> QED BY <1>2, <1>3

LEMMA LabelsApart == PlanInv => LabelsUnique
<1> SUFFICES ASSUME PlanInv, NEW p \in Emitted, NEW q \in Emitted, LabelAt(p) = LabelAt(q)
             PROVE  p = q BY DEF LabelsUnique
<1>1. p \in Int /\ q \in Int /\ N \in Nat BY SplitsType, Blocks DEF Emitted
<1>2. FirstId \in Nat /\ \A b \in Block : label[b] < FirstId /\ label[b] \in Nat BY FirstIdAbove DEF PlanInv, FunctionOK
<1>3. \A b, c \in Block : label[b] = label[c] => b = c BY DEF PlanInv, FunctionOK, IsInjective
<1>4. \A r \in Emitted : IsSplit(r) => r - N \in Nat /\ r - N >= 1 BY SplitsType, Blocks DEF Emitted, IsSplit
<1>5. CASE ~IsSplit(p) /\ ~IsSplit(q)
 <2>1. p - 1 \in Block /\ q - 1 \in Block /\ label[p - 1] = label[q - 1] BY <1>5, Positions
 <2>2. p - 1 = q - 1 BY <1>3, <2>1
 <2> QED BY <1>1, <2>2
<1>6. CASE IsSplit(p) /\ IsSplit(q)
 <2>1. FirstId + (p - N) - 1 = FirstId + (q - N) - 1 BY <1>6, Positions
 <2> QED BY <1>1, <1>2, <2>1
<1>7. CASE IsSplit(p) /\ ~IsSplit(q)
 <2>1. FirstId + (p - N) - 1 = label[q - 1] /\ q - 1 \in Block BY <1>7, Positions
 <2>2. p - N \in Nat /\ p - N >= 1 BY <1>4, <1>7
 <2> QED BY <1>2, <2>1, <2>2
<1>8. CASE ~IsSplit(p) /\ IsSplit(q)
 <2>1. FirstId + (q - N) - 1 = label[p - 1] /\ p - 1 \in Block BY <1>8, Positions
 <2>2. q - N \in Nat /\ q - N >= 1 BY <1>4, <1>8
 <2> QED BY <1>2, <2>1, <2>2
<1> QED BY <1>5, <1>6, <1>7, <1>8

LEMMA BlockPosition ==
  ASSUME PlanInv, NEW t \in Block
  PROVE  t + 1 \in Emitted /\ ~IsSplit(t + 1) /\ LabelAt(t + 1) = label[t] /\ (t + 1) - 1 = t
<1>1. t \in 0 .. N - 1 /\ N \in Nat /\ Len(splits) \in Nat BY Blocks, SplitsType
<1>2. t + 1 \in Emitted /\ ~(t + 1 > N) /\ (t + 1) - 1 = t BY <1>1 DEF Emitted
<1> QED BY <1>2 DEF IsSplit, LabelAt

LEMMA SplitPosition ==
  ASSUME PlanInv, NEW j \in DOMAIN splits
  PROVE  /\ N + j \in Emitted /\ IsSplit(N + j) /\ (N + j) - N = j
         /\ LabelAt(N + j) = splits[j].label
<1>1. j \in 1 .. Len(splits) /\ N \in Nat /\ Len(splits) \in Nat BY Blocks, SplitsType
<1>2. N + j \in Emitted /\ N + j > N /\ (N + j) - N = j BY <1>1 DEF Emitted
<1> QED BY <1>2 DEF IsSplit, LabelAt

(* When all edges have been visited: a block that is left by one edge only ends
   with the copies of that edge, *)
LEMMA AllVisited == ASSUME PlanInv, pc # "place" PROVE \A b, p \in Block : Edge(b, p) \in Visited <=> IsEdge(b, p)
<1>1. FunctionOK /\ edges = <<>> BY DEF PlanInv, Phase
<1>2. EdgesToVisit \in Seq(Edges) BY <1>1, EdgesVisited
<1>3. NrVisited = Len(EdgesToVisit) /\ DOMAIN EdgesToVisit = 1 .. Len(EdgesToVisit) BY <1>1, <1>2 DEF NrVisited
<1>4. Visited = ToSet(EdgesToVisit) BY <1>3 DEF Visited, ToSet
<1> QED BY <1>1, <1>4, EdgesVisited

LEMMA VisitedIsEdge ==
  ASSUME PlanInv, NEW e \in Visited PROVE e.block \in Block /\ e.pred \in Block /\ IsEdge(e.block, e.pred)
<1>1. FunctionOK /\ EdgesLeft BY DEF PlanInv
<1>2. EdgesToVisit \in Seq(Edges) /\ edges \in Seq(Edges) BY <1>1, EdgesVisited DEF EdgesLeft
<1>3. PICK i \in 1 .. NrVisited : e = EdgesToVisit[i] BY DEF Visited
<1>4. i \in DOMAIN EdgesToVisit
 <2>1. Len(EdgesToVisit) \in Nat /\ Len(edges) \in Nat /\ DOMAIN EdgesToVisit = 1 .. Len(EdgesToVisit) BY <1>2
 <2> QED BY <1>3, <2>1 DEF NrVisited
<1>5. e \in Edges /\ e \in ToSet(EdgesToVisit) BY <1>2, <1>3, <1>4, ElementType DEF ToSet
<1>6. PICK b \in Block, p \in Block : e = Edge(b, p) BY <1>5 DEF Edges
<1>7. IsEdge(b, p) BY <1>1, <1>5, <1>6, EdgesVisited
<1> QED BY <1>6, <1>7 DEF Edge

LEMMA OnlySuccessor ==
  ASSUME FunctionOK, NEW b \in Block, NEW t, t \in ToSet(Successors(b)), SingleSuccessor(b)
  PROVE  ToSet(Successors(b)) = {t}
<1>1. Len(Successors(b)) = 1 /\ Successors(b) \in Seq(Block) BY CfgIs, SuccessorsOf
<1>2. DOMAIN Successors(b) = {1} BY <1>1
<1> QED BY <1>2 DEF ToSet

LEMMA InsertedCopies ==
  ASSUME PlanInv, pc # "place", NEW b \in Block, NEW t \in Block,
         t \in ToSet(Successors(b)), SingleSuccessor(b)
  PROVE  inserts[b] = Copies(t, b)
<1>1. FunctionOK /\ CopiesInserted BY DEF PlanInv
<1>2. CASE phis[t] = <<>>
 <2>1. Copies(t, b) = <<>> BY <1>1, <1>2, CopiesSound
 <2>2. ASSUME NEW e \in Visited, e.pred = b PROVE FALSE
  <3>1. IsEdge(e.block, b) BY <2>2, VisitedIsEdge
  <3>2. e.block = t BY <1>1, <3>1, OnlySuccessor DEF IsEdge
  <3> QED BY <1>2, <3>1, <3>2 DEF IsEdge
 <2>3. inserts[b] = <<>> BY <1>1, <2>2 DEF CopiesInserted
 <2> QED BY <2>1, <2>3
<1>3. CASE phis[t] # <<>>
 <2>1. Edge(t, b) \in Visited BY <1>3, AllVisited DEF IsEdge
 <2>2. Edge(t, b).block = t /\ Edge(t, b).pred = b BY DEF Edge
 <2> QED BY <1>1, <2>1, <2>2 DEF CopiesInserted
<1> QED BY <1>2, <1>3

(* and an edge out of a block with several has a split if it needs copies. *)
LEMMA SplitFound ==
  ASSUME PlanInv, pc # "place", NEW b \in Block, NEW t \in Block,
         t \in ToSet(Successors(b)), NeedsSplit(t, b)
  PROVE  \E j \in DOMAIN splits : SplitOf(splits[j], t, b)
<1>1. FunctionOK /\ SplitsMade BY DEF PlanInv
<1>2. phis[t] # <<>> BY <1>1, CopiesSound DEF NeedsSplit
<1>3. Edge(t, b) \in Visited BY <1>2, AllVisited DEF IsEdge
<1>4. Edge(t, b).block = t /\ Edge(t, b).pred = b BY DEF Edge
<1> QED BY <1>1, <1>3, <1>4 DEF SplitsMade

(* A patched target: the block it named, with the copies of the edge at the end
   of the block that is left, or a split made for that edge. *)
Direct(b, t, l) == l = label[t] /\ inserts[b] = Copies(t, b)
ThroughSplit(b, t, l) ==
  /\ inserts[b] = <<>>
  /\ \E j \in DOMAIN splits :
       SplitOf(splits[j], t, b) /\ l = splits[j].label

LEMMA TargetLeads ==
  ASSUME PlanInv, pc = "run", NEW b \in Block, NEW k \in DOMAIN term[b].targets,
         NEW t, t = BlockOf(term[b].targets[k])
  PROVE  /\ t \in Block \ {0} /\ label[t] = term[b].targets[k]
         /\ t \in ToSet(Successors(b))
         /\ Direct(b, t, new_term[b].targets[k]) \/ ThroughSplit(b, t, new_term[b].targets[k])
<1> DEFINE l == new_term[b].targets[k]
<1>0. FunctionOK /\ CopiesInserted /\ SplitsMade /\ TargetsPatched /\ patch = Len(splits) BY DEF PlanInv, Phase
<1>1. t \in Block \ {0} /\ label[t] = term[b].targets[k] BY <1>0, TargetBlock
<1>2. t \in ToSet(Successors(b))
 <2>1. term[b].kind # "fall"
  <3>1. term[b].targets # <<>> OBVIOUS
  <3> QED BY <1>0, <3>1 DEF FunctionOK
 <2>2. k \in DOMAIN Successors(b) /\ Successors(b)[k] = t BY <1>0, <2>1, SuccessorsOf
 <2> QED BY <2>2 DEF ToSet
<1>3. \A c \in Block : label[c] = label[t] => c = t BY <1>0, <1>1 DEF FunctionOK, IsInjective
<1>4. DOMAIN splits = 1 .. patch BY <1>0, SplitsType
<1>5. CASE /\ l = term[b].targets[k]
           /\ \A j \in 1 .. patch : ~Splits(splits[j], b, k)
 <2>1. CASE SingleSuccessor(b) BY <1>1, <1>2, <1>5, <2>1, InsertedCopies DEF Direct
 <2>2. CASE ~SingleSuccessor(b)
  <3>1. ~NeedsSplit(t, b)
   <4> SUFFICES ASSUME NeedsSplit(t, b) PROVE FALSE OBVIOUS
   <4>1. PICK j \in DOMAIN splits : SplitOf(splits[j], t, b) BY <1>1, <1>2, SplitFound
   <4>2. Splits(splits[j], b, k) BY <1>1, <4>1 DEF SplitOf, Splits
   <4> QED BY <1>4, <1>5, <4>2
  <3>2. inserts[b] = <<>> /\ Copies(t, b) = <<>> BY <1>0, <2>2, <3>1 DEF NeedsSplit, CopiesInserted
  <3> QED BY <1>1, <1>2, <1>5, <3>2 DEF Direct
 <2> QED BY <2>1, <2>2
<1>6. ASSUME NEW j \in 1 .. patch, Splits(splits[j], b, k), l = splits[j].label PROVE ThroughSplit(b, t, l)
 <2>1. PICK c \in Block, q \in Block : SplitOf(splits[j], c, q) /\ NeedsSplit(c, q) BY <1>0, <1>4, <1>6 DEF SplitsMade
 <2>2. q = b /\ label[c] = label[t] BY <1>1, <1>6, <2>1 DEF SplitOf, Splits
 <2>3. c = t BY <1>3, <2>2
 <2>4. inserts[b] = <<>> BY <1>0, <2>1, <2>2 DEF NeedsSplit, CopiesInserted
 <2> QED BY <1>4, <1>6, <2>1, <2>2, <2>3, <2>4 DEF ThroughSplit
<1> QED
 <2>1. \/ /\ l = term[b].targets[k]
          /\ \A j \in 1 .. patch : ~Splits(splits[j], b, k)
       \/ \E j \in 1 .. patch : Splits(splits[j], b, k) /\ l = splits[j].label BY <1>0 DEF TargetsPatched
 <2> QED BY <1>1, <1>2, <1>5, <1>6, <2>1

LEMMA EdgesCarry == PlanInv => EdgesCarryTheirCopies
<1> SUFFICES ASSUME PlanInv PROVE EdgesCarryTheirCopies OBVIOUS
<1>1. LabelsUnique BY LabelsApart
<1>2. ASSUME NEW p \in Emitted PROVE (CHOOSE q \in Emitted : LabelAt(q) = LabelAt(p)) = p BY <1>1 DEF LabelsUnique
<1>3. ASSUME pc = "run", NEW b \in Block, NEW k \in DOMAIN term[b].targets
      PROVE  Through(b, new_term[b].targets[k]) =
               [to |-> term[b].targets[k], copies |-> Copies(BlockOf(term[b].targets[k]), b)]
 <2> DEFINE t == BlockOf(term[b].targets[k])
            l == new_term[b].targets[k]
 <2>1. /\ t \in Block \ {0} /\ label[t] = term[b].targets[k]
       /\ Direct(b, t, l) \/ ThroughSplit(b, t, l) BY <1>3, TargetLeads
 <2>2. Copies(t, b) \in Seq(Copy) BY <2>1, CopiesOf DEF PlanInv
 <2> HIDE DEF t, l
 <2>3. CASE Direct(b, t, l)
  <3>1. /\ t + 1 \in Emitted /\ ~IsSplit(t + 1) /\ LabelAt(t + 1) = l BY <2>1, <2>3, BlockPosition DEF Direct
  <3>2. (CHOOSE q \in Emitted : LabelAt(q) = l) = t + 1 BY <1>2, <3>1
  <3>3. Through(b, l) = [to |-> l, copies |-> inserts[b]] BY <3>1, <3>2 DEF Through
  <3> QED BY <2>1, <2>3, <3>3 DEF Direct, t, l
 <2>4. CASE ThroughSplit(b, t, l)
  <3>1. PICK j \in DOMAIN splits : SplitOf(splits[j], t, b) /\ l = splits[j].label BY <2>4 DEF ThroughSplit
  <3>2. /\ N + j \in Emitted /\ IsSplit(N + j) /\ (N + j) - N = j /\ LabelAt(N + j) = l BY <3>1, SplitPosition
  <3>3. (CHOOSE q \in Emitted : LabelAt(q) = l) = N + j BY <1>2, <3>2
  <3>4. Through(b, l) = [to |-> splits[j].succ, copies |-> inserts[b] \o splits[j].copies] BY <3>2, <3>3 DEF Through
  <3>5. inserts[b] \o splits[j].copies = Copies(t, b)
   <4>1. <<>> \o Copies(t, b) = Copies(t, b) BY <2>2
   <4> QED BY <2>4, <3>1, <4>1 DEF ThroughSplit, SplitOf
  <3>6. splits[j].succ = term[b].targets[k] BY <2>1, <3>1 DEF SplitOf
  <3> QED BY <3>4, <3>5, <3>6 DEF t, l
 <2> QED BY <2>1, <2>3, <2>4
<1> QED BY <1>1, <1>3 DEF EdgesCarryTheirCopies

-----------------------------------------------------------------------------
(* The lowered function runs: in every block and split the moves start from the
   registers control arrives with. *)
BundlesRun ==
  /\ TypeOK /\ PendingSourcesIntact /\ EmittedAreFinal /\ TemporaryInv
  /\ first = NumVars
  /\ pc # "run" => Unmoved /\ copies = <<>>
  /\ pc = "run" => at \in Emitted /\ copies = Bundle(at)

PhiInv == PlanInv /\ BundlesRun

LEMMA InsertsAreCopies ==
  ASSUME PlanInv, NEW b \in Block PROVE inserts[b] = <<>> \/ \E t \in Block : inserts[b] = Copies(t, b)
<1>1. CopiesInserted BY DEF PlanInv
<1>2. CASE \E e \in Visited : e.pred = b
 <2>1. PICK e \in Visited : e.pred = b BY <1>2
 <2>2. e.block \in Block BY VisitedIsEdge
 <2> QED BY <1>1, <2>1, <2>2 DEF CopiesInserted
<1>3. CASE \A e \in Visited : e.pred # b BY <1>1, <1>3 DEF CopiesInserted
<1> QED BY <1>2, <1>3

LEMMA BundleFacts ==
  ASSUME PlanInv, NEW p \in Emitted
  PROVE  /\ Bundle(p) \in Seq(Copy)
         /\ DistinctDestinations(Bundle(p))
         /\ NoSelfCopy(Bundle(p))
         /\ Below(Bundle(p), NumVars)
<1>0. FunctionOK BY DEF PlanInv
<1>1. Bundle(p) = <<>> \/ \E b \in Block, q \in Block : Bundle(p) = Copies(b, q)
 <2>1. CASE IsSplit(p)
  <3>1. p - N \in DOMAIN splits /\ Bundle(p) = splits[p - N].copies BY <2>1, Positions DEF Bundle
  <3>2. PICK b \in Block, q \in Block : SplitOf(splits[p - N], b, q) BY <3>1 DEF PlanInv, SplitsMade
  <3> QED BY <3>1, <3>2 DEF SplitOf
 <2>2. CASE ~IsSplit(p)
  <3>1. p - 1 \in Block /\ Bundle(p) = inserts[p - 1] BY <2>2, Positions DEF Bundle
  <3> QED BY <3>1, InsertsAreCopies
 <2> QED BY <2>1, <2>2
<1>2. CASE Bundle(p) = <<>> BY <1>2 DEF DistinctDestinations, NoSelfCopy, Below
<1>3. ASSUME NEW b \in Block, NEW q \in Block, Bundle(p) = Copies(b, q)
      PROVE  /\ Bundle(p) \in Seq(Copy)
             /\ DistinctDestinations(Bundle(p))
             /\ NoSelfCopy(Bundle(p))
             /\ Below(Bundle(p), NumVars) BY <1>0, <1>3, CopiesOf, CopiesSound
<1> QED BY <1>1, <1>2, <1>3

LEMMA ArriveStarts ==
  ASSUME PlanInv, BundlesRun, NEW p \in Emitted, Arrive(p)
  PROVE  /\ TypeOK' /\ PendingSourcesIntact' /\ EmittedAreFinal' /\ TemporaryInv'
         /\ first' = NumVars /\ copies' = Bundle(p) /\ at' = p /\ env0' = env
<1>1. /\ at' = p /\ copies' = Bundle(p) /\ pending' = Bundle(p)
      /\ env0' = env /\ next_vreg' = first /\ env' = env /\ first' = first BY DEF Arrive
<1>2. /\ first = NumVars /\ first \in Nat /\ env \in [Reg -> Val] BY DEF BundlesRun, TypeOK
<1>3. Unmoved' BY <1>1 DEF Unmoved
<1>4. /\ Bundle(p) \in Seq(Copy)
      /\ DistinctDestinations(Bundle(p))
      /\ NoSelfCopy(Bundle(p))
      /\ Below(Bundle(p), NumVars) BY BundleFacts
<1>5. TypeOK' BY <1>1, <1>2, <1>4 DEF TypeOK
<1>6. NoSelfCopy(copies') BY <1>1, <1>4
<1>7. PendingSourcesIntact' /\ EmittedAreFinal' /\ TemporaryInv'
 <2>1. (Unmoved => PendingSourcesIntact /\ EmittedAreFinal)' BY UnmovedFacts, PTL
 <2>2. (TypeOK /\ Unmoved /\ NoSelfCopy(copies) => TemporaryInv)' BY UnmovedFacts, PTL
 <2> QED BY <1>3, <1>5, <1>6, <2>1, <2>2
<1> QED BY <1>1, <1>2, <1>5, <1>7

LEMMA PhiStarts == PlanInit => PhiInv
<1> SUFFICES ASSUME PlanInit PROVE PhiInv OBVIOUS
<1>1. PlanInv BY PlanStarts
<1>2. /\ env \in [Reg -> Val] /\ env0 = env /\ first = NumVars /\ next_vreg = first
      /\ copies = <<>> /\ pending = <<>> /\ pc = "place" BY FunctionsAssumption DEF PlanInit
<1>3. TypeOK /\ Unmoved /\ NoSelfCopy(copies)
  BY <1>2, SizesAssumption DEF TypeOK, Unmoved, NoSelfCopy, DistinctDestinations, Below
<1> QED BY <1>1, <1>2, <1>3, UnmovedFacts DEF PhiInv, BundlesRun

(* The bundles do not change when the plan does not. *)
LEMMA BundlesStay ==
  ASSUME UNCHANGED <<function, inserts, splits>> PROVE Emitted' = Emitted /\ \A p : Bundle(p)' = Bundle(p)
<1>1. inserts' = inserts /\ splits' = splits OBVIOUS
<1> QED BY <1>1 DEF Emitted, Bundle, IsSplit

LEMMA PlanningKeeps == ASSUME BundlesRun, pc # "run", pc' # "run", UNCHANGED moves PROVE BundlesRun'
<1>1. UNCHANGED vars BY DEF moves, vars
<1>2. TypeOK' /\ PendingSourcesIntact' /\ EmittedAreFinal' /\ TemporaryInv'
  BY <1>1, TypeStep, SourcesStep, FinalStep, TemporaryStep DEF BundlesRun
<1> QED BY <1>2 DEF BundlesRun, Unmoved, moves

LEMMA ArrivalKeeps ==
  ASSUME PlanInv, BundlesRun, NEW p \in Emitted, Arrive(p), pc' = "run",
         UNCHANGED <<function, inserts, splits>>
  PROVE  BundlesRun'
<1>1. /\ TypeOK' /\ PendingSourcesIntact' /\ EmittedAreFinal' /\ TemporaryInv'
      /\ first' = NumVars /\ copies' = Bundle(p) /\ at' = p BY ArriveStarts
<1>2. Emitted' = Emitted /\ \A q : Bundle(q)' = Bundle(q) BY BundlesStay
<1>3. Bundle(at)' = Bundle(p)
 <2>1. Bundle(at)' = Bundle(p)' BY <1>1 DEF Bundle, IsSplit
 <2> QED BY <1>2, <2>1
<1> QED BY <1>1, <1>2, <1>3 DEF BundlesRun

LEMMA MoveKeeps == ASSUME BundlesRun, Next, pc = "run", UNCHANGED <<function, plan, at>> PROVE BundlesRun'
<1>1. UNCHANGED args BY DEF Next, EmitReady, BreakCycle
<1>2. TypeOK' /\ PendingSourcesIntact' /\ EmittedAreFinal' /\ TemporaryInv'
  BY TypeStep, SourcesStep, FinalStep, TemporaryStep DEF BundlesRun
<1>3. Emitted' = Emitted /\ \A q : Bundle(q)' = Bundle(q) BY BundlesStay DEF plan
<1>4. Bundle(at)' = Bundle(at)
 <2>1. at' = at /\ inserts' = inserts /\ splits' = splits BY DEF plan
 <2> QED BY <2>1 DEF Bundle, IsSplit
<1> QED BY <1>1, <1>2, <1>3, <1>4 DEF BundlesRun, args, plan

LEMMA PhiStep == PhiInv /\ [PhiNext]_allVars => PhiInv'
<1> SUFFICES ASSUME PhiInv, [PhiNext]_allVars PROVE PhiInv' OBVIOUS
<1>0. PlanInv /\ BundlesRun BY DEF PhiInv
<1>1. CASE Place
 <2>1. PlanInv' BY <1>0, <1>1, PlaceKeeps
 <2>2. BundlesRun' BY <1>0, <1>1, PlanningKeeps DEF Place
 <2> QED BY <2>1, <2>2 DEF PhiInv
<1>2. CASE StartPatch
 <2>1. PlanInv' BY <1>0, <1>2, PatchStarts
 <2>2. BundlesRun' BY <1>0, <1>2, PlanningKeeps DEF StartPatch
 <2> QED BY <2>1, <2>2 DEF PhiInv
<1>3. CASE Patch
 <2>1. PlanInv' BY <1>0, <1>3, PatchKeeps
 <2>2. BundlesRun' BY <1>0, <1>3, PlanningKeeps DEF Patch
 <2> QED BY <2>1, <2>2 DEF PhiInv
<1>4. CASE StartRun
 <2>1. 1 \in Emitted BY <1>0, BlockPosition, Blocks
 <2>2. PlanInv'
  <3>1. Phase' BY <1>0, <1>4 DEF StartRun, PlanInv, Phase
  <3> QED BY <1>0, <1>4, <3>1, RunKeeps DEF StartRun
 <2>3. BundlesRun' BY <1>0, <1>4, <2>1, ArrivalKeeps DEF StartRun
 <2> QED BY <2>2, <2>3 DEF PhiInv
<1>5. ASSUME UNCHANGED <<function, plan>> PROVE PlanInv'
 <2>1. Phase' BY <1>0, <1>5 DEF PlanInv, Phase, plan, function
 <2> QED BY <1>0, <1>5, <2>1, RunKeeps DEF plan
<1>6. CASE Move BY <1>0, <1>5, <1>6, MoveKeeps DEF Move, PhiInv
<1>7. ASSUME NEW p \in Emitted, Arrive(p), pc = "run", UNCHANGED <<function, plan>>
      PROVE  PhiInv' BY <1>0, <1>5, <1>7, ArrivalKeeps DEF plan, PhiInv
<1>8. CASE LeaveBlock
 <2>1. \A l : \A p \in PositionsOf(l) : p \in Emitted BY DEF PositionsOf
 <2> QED BY <1>7, <1>8, <2>1 DEF LeaveBlock
<1>9. CASE LeaveSplit BY <1>7, <1>9 DEF LeaveSplit, PositionsOf
<1>10. CASE UNCHANGED allVars
 <2>1. UNCHANGED <<function, plan, at, moves>> /\ UNCHANGED vars BY <1>10 DEF allVars, moves, vars
 <2>2. TypeOK' /\ PendingSourcesIntact' /\ EmittedAreFinal' /\ TemporaryInv'
   BY <1>0, <2>1, TypeStep, SourcesStep, FinalStep, TemporaryStep DEF BundlesRun
 <2>3. Emitted' = Emitted /\ Bundle(at)' = Bundle(at) BY <2>1 DEF plan, Emitted, Bundle, IsSplit
 <2>4. BundlesRun' BY <1>0, <2>1, <2>2, <2>3 DEF BundlesRun, Unmoved, plan, moves
 <2> QED BY <1>5, <2>1, <2>4 DEF PhiInv
<1> QED BY <1>1, <1>2, <1>3, <1>4, <1>6, <1>8, <1>9, <1>10 DEF PhiNext

THEOREM PhiCorrect == PhiSpec => []PhiInv
BY PhiStarts, PhiStep, PTL DEF PhiSpec

(* Whatever the function, every label names one place, and following a target
   leads, past exactly the copies of that edge, to the successor it named: no
   copy is lost, doubled or put on an edge it was not made for, critical edges
   and double edges included. *)
THEOREM EdgesCarried == PhiSpec => []EdgesCarryTheirCopies
<1>1. PhiInv => EdgesCarryTheirCopies BY EdgesCarry DEF PhiInv
<1> QED BY <1>1, PhiCorrect, PTL

(* The guarantees about one bundle hold for every bundle of the running
   function. *)
THEOREM LoweredBundles == PhiSpec => [](PendingSourcesIntact /\ TemporariesBounded)
<1>1. PhiInv => PendingSourcesIntact /\ TemporariesBounded BY PaidIsBounded DEF PhiInv, BundlesRun
<1> QED BY <1>1, PhiCorrect, PTL

-----------------------------------------------------------------------------
(* The refinement: the lowered function does what the phis say. *)
SuccessorSets == [b \in Block |-> {Cfg.succs[b][k] : k \in DOMAIN Cfg.succs[b]}]
VarEnv == [v \in Var |-> env0[v]]

LEMMA MappedFunction == ASSUME UNCHANGED function PROVE SuccessorSets' = SuccessorSets /\ AbstractPhis' = AbstractPhis
<1>1. label' = label /\ term' = term /\ phis' = phis BY DEF function
<1>2. \A b : Successors(b)' = Successors(b) BY FunctionKept
<1>3. Cfg' = Cfg BY <1>2 DEF Cfg
<1>4. SuccessorSets' = SuccessorSets BY <1>3 DEF SuccessorSets
<1>5. AbstractPhis' = AbstractPhis BY <1>1 DEF AbstractPhis, PhiOf
<1> QED BY <1>4, <1>5

LEMMA SuccessorSetIs == ASSUME NEW b \in Block PROVE SuccessorSets[b] = ToSet(Successors(b))
<1>1. Cfg.succs[b] = Successors(b) BY CfgIs
<1>2. SuccessorSets[b] = {Successors(b)[k] : k \in DOMAIN Successors(b)} BY <1>1 DEF SuccessorSets
<1> QED BY <1>2 DEF ToSet

(* Behind the copies of an edge a phi's register has the value the phi lists
   for it, whether or not a copy was needed. *)
LEMMA PhiValue ==
  ASSUME PhiInv, Done, NEW t \in Block, NEW b \in Block, copies = Copies(t, b),
         NEW k \in DOMAIN phis[t], NEW v \in Var, phis[t][k].dst = Local(v)
  PROVE  env[v] = ValueOf(env0, Source(phis[t][k], label[b]))
<1> DEFINE phi == phis[t][k]
           c == PhiCopy(phi, b)
<1>0. FunctionOK /\ TypeOK /\ EmittedAreFinal /\ first = NumVars BY DEF PhiInv, PlanInv, BundlesRun
<1>1. c.dst = Local(v) /\ c.src = Source(phi, label[b]) BY <1>0, PhiCopyType
<1>2. v \in Reg /\ v < first /\ Local(v).id = v BY <1>0, VarsAreRegisters, SizesAssumption DEF Var, Local
<1> HIDE DEF c
<1>3. CASE Needed(c)
 <2>1. c \in ToSet(copies) BY <1>0, <1>3, CopiesOf DEF c
 <2>2. PICK j \in DOMAIN copies : copies[j] = c BY <2>1 DEF ToSet
 <2>3. env[copies[j].dst.id] = ValueOf(env0, copies[j].src) BY <1>0, <2>2 DEF EmittedAreFinal, Done
 <2> QED BY <1>1, <1>2, <2>2, <2>3
<1>4. CASE ~Needed(c)
 <2>1. ASSUME NEW j \in DOMAIN copies, copies[j].dst = Local(v) PROVE FALSE
  <3>1. copies[j] \in ToSet(Copies(t, b)) BY DEF ToSet
  <3>2. PICK i \in DOMAIN phis[t] :
          copies[j] = PhiCopy(phis[t][i], b) /\ Needed(copies[j]) BY <1>0, <3>1, CopiesOf
  <3>3. phis[t][i].dst = Local(v) BY <1>0, <2>1, <3>2, PhiCopyType
  <3>4. i = k BY <1>0, <3>3 DEF FunctionOK, DistinctDestinations
  <3> QED BY <1>4, <3>2, <3>4 DEF c
 <2>2. env[v] = env0[v] BY <1>0, <1>2, <2>1 DEF EmittedAreFinal
 <2>3. Source(phi, label[b]) = Local(v) BY <1>1, <1>4 DEF Needed
 <2> QED BY <2>2, <2>3 DEF ValueOf, Local
<1> QED BY <1>3, <1>4

(* A register no phi of the block writes keeps its value. *)
LEMMA OtherValue ==
  ASSUME PhiInv, NEW v \in Var, \A j \in DOMAIN copies : copies[j].dst # Local(v) PROVE env[v] = env0[v]
<1>1. v \in Reg /\ v < first BY VarsAreRegisters, SizesAssumption DEF Var, PhiInv, BundlesRun
<1> QED BY <1>1 DEF PhiInv, BundlesRun, EmittedAreFinal

LEMMA EdgeValues ==
  ASSUME PhiInv, Done, NEW t \in Block, NEW b \in Block, copies = Copies(t, b),
         NEW v \in Var
  PROVE  env[v] \in Ssa!Incoming(t, v, b)
<1> DEFINE D == {phis[t][k].dst.id : k \in DOMAIN phis[t]}
           P == AbstractPhis[t]
<1>0. FunctionOK /\ TypeOK BY DEF PhiInv, PlanInv, BundlesRun
<1>1. DOMAIN P = D BY DEF AbstractPhis
<1>2. Ssa!Incoming(t, v, b) =
        IF v \notin DOMAIN P THEN {VarEnv[v]}
        ELSE IF b \notin DOMAIN P[v] THEN Val
        ELSE IF P[v][b].kind = "Local" THEN {VarEnv[P[v][b].id]} ELSE {P[v][b].id} BY DEF Ssa!Incoming, VarEnv
<1>3. env[v] \in Val BY <1>0, VarsAreRegisters DEF TypeOK
<1>4. CASE v \notin D
 <2>1. ASSUME NEW j \in DOMAIN copies, copies[j].dst = Local(v) PROVE FALSE
  <3>1. copies[j] \in ToSet(Copies(t, b)) BY DEF ToSet
  <3>2. PICK i \in DOMAIN phis[t] : copies[j] = PhiCopy(phis[t][i], b) BY <1>0, <3>1, CopiesOf
  <3>3. phis[t][i].dst = Local(v) BY <1>0, <2>1, <3>2, PhiCopyType
  <3> QED BY <1>4, <3>3 DEF Local
 <2>2. env[v] = env0[v] BY <2>1, OtherValue
 <2>3. VarEnv[v] = env0[v] BY DEF VarEnv
 <2> QED BY <1>1, <1>2, <1>4, <2>2, <2>3
<1>5. CASE v \in D
 <2>1. PICK k \in DOMAIN phis[t] : phis[t][k].dst.id = v BY <1>5
 <2>2. phis[t][k].dst = Local(v)
  <3>1. PICK w \in Var : phis[t][k].dst = Local(w) BY <1>0, PhiCopyType
  <3> QED BY <2>1, <3>1 DEF Local
 <2>3. PhiOf(t, v) = k
  <3>1. \A i \in DOMAIN phis[t] : phis[t][i].dst = Local(v) => i = k BY <1>0, <2>2 DEF FunctionOK, DistinctDestinations
  <3> QED BY <2>2, <3>1 DEF PhiOf
 <2> DEFINE f == phis[t][k].incomings
 <2>4. P[v] = [p \in {q \in Block : label[q] \in DOMAIN f} |-> f[label[p]]] BY <1>5, <2>3 DEF AbstractPhis
 <2>5. env[v] = ValueOf(env0, Source(phis[t][k], label[b])) BY <2>2, PhiValue
 <2> HIDE DEF f
 <2>6. CASE label[b] \notin DOMAIN f BY <1>1, <1>2, <1>3, <1>5, <2>4, <2>6
 <2>7. CASE label[b] \in DOMAIN f
  <3>1. Source(phis[t][k], label[b]) = f[label[b]] BY <2>7 DEF Source, f
  <3>2. f[label[b]] \in VarOperand BY <1>0, <3>1, PhiCopyType
  <3>3. b \in DOMAIN P[v] /\ P[v][b] = f[label[b]] BY <2>4, <2>7
  <3>4. CASE f[label[b]].kind = "Local"
   <4>1. f[label[b]].id \in Var BY <3>2, <3>4, VarOperands
   <4>2. VarEnv[f[label[b]].id] = env0[f[label[b]].id] BY <4>1 DEF VarEnv
   <4>3. env[v] = env0[f[label[b]].id] BY <2>5, <3>1, <3>4 DEF ValueOf
   <4> QED BY <1>1, <1>2, <1>5, <3>3, <3>4, <4>2, <4>3
  <3>5. CASE f[label[b]].kind # "Local"
   <4>1. env[v] = f[label[b]].id BY <2>5, <3>1, <3>5 DEF ValueOf
   <4> QED BY <1>1, <1>2, <1>5, <3>3, <3>5, <4>1
  <3> QED BY <3>4, <3>5
 <2> QED BY <2>6, <2>7
<1> QED BY <1>4, <1>5

(* A jump behind the copies of an edge is the abstract step along it. *)
LEMMA StepTaken ==
  ASSUME PhiInv, Done, NEW b \in Block, NEW t \in Block, t \in ToSet(Successors(b)),
         copies = Copies(t, b), AbstractBlock = b, AbstractBlock' = t,
         env0' = env, UNCHANGED function
  PROVE  Ssa!Step
<1>1. b # Undefined BY Blocks DEF Undefined
<1>2. t \in SuccessorSets[b] BY SuccessorSetIs
<1>3. \A v \in Var : VarEnv'[v] = env[v] BY DEF VarEnv
<1>4. VarEnv' \in [Var -> Val]
 <2>1. \A v \in Var : env[v] \in Val BY VarsAreRegisters DEF PhiInv, BundlesRun, TypeOK
 <2>2. VarEnv' = [v \in Var |-> env[v]] BY DEF VarEnv
 <2> QED BY <2>1, <2>2
<1>5. \A v \in Var : VarEnv'[v] \in Ssa!Incoming(t, v, b) BY <1>3, EdgeValues
<1>6. SuccessorSets' = SuccessorSets /\ AbstractPhis' = AbstractPhis BY MappedFunction
<1> QED BY <1>1, <1>2, <1>4, <1>5, <1>6 DEF Ssa!Step, SuccessorSets, VarEnv

(* Everything the abstract state is made of. *)
Stands == AbstractBlock' = AbstractBlock /\ VarEnv' = VarEnv

LEMMA StandsStill == ASSUME Stands, UNCHANGED function PROVE UNCHANGED Ssa!vars
<1>1. SuccessorSets' = SuccessorSets /\ AbstractPhis' = AbstractPhis BY MappedFunction
<1> QED BY <1>1 DEF Stands, Ssa!vars, SuccessorSets, VarEnv

LEMMA InSplit ==
  ASSUME PlanInv, NEW p \in Emitted, IsSplit(p)
  PROVE  \E t, b \in Block :
           /\ SplitOf(splits[p - N], t, b) /\ Bundle(p) = Copies(t, b)
           /\ t \in ToSet(Successors(b))
<1>1. p - N \in DOMAIN splits BY Positions
<1>2. PICK t \in Block, b \in Block : SplitOf(splits[p - N], t, b) /\ IsEdge(t, b) BY <1>1 DEF PlanInv, SplitsMade
<1> QED BY <1>2 DEF SplitOf, IsEdge, Bundle

(* Control falls or jumps out of a block: to the block the edge leads to, with
   its copies made, or into the split that makes them. *)
LEMMA BlockLeft ==
  ASSUME PhiInv, Done, pc = "run", pc' = "run", ~IsSplit(at), UNCHANGED <<function, splits>>,
         NEW p \in Emitted, Arrive(p),
         NEW t \in Block, t \in ToSet(Successors(at - 1)),
         \/ LabelAt(p) = label[t] /\ inserts[at - 1] = Copies(t, at - 1)
         \/ ThroughSplit(at - 1, t, LabelAt(p))
  PROVE  Ssa!Step \/ Stands
<1> DEFINE b == at - 1
<1>0. PlanInv /\ at \in Emitted /\ copies = Bundle(at) BY DEF PhiInv, BundlesRun
<1>1. b \in Block /\ copies = inserts[b] /\ AbstractBlock = b BY <1>0, Positions DEF Bundle, AbstractBlock
<1>2. at' = p /\ env0' = env BY DEF Arrive
<1> HIDE DEF b
<1>3. CASE LabelAt(p) = label[t] /\ inserts[b] = Copies(t, b)
 <2>1. p = t + 1 /\ ~IsSplit(p) /\ p - 1 = t BY <1>0, <1>3, BlockPosition, LabelsApart DEF LabelsUnique
 <2>2. AbstractBlock' = t BY <1>2, <2>1 DEF AbstractBlock, IsSplit
 <2> QED BY <1>1, <1>2, <1>3, <2>2, StepTaken DEF b
<1>4. CASE ThroughSplit(b, t, LabelAt(p))
 <2>1. PICK j \in DOMAIN splits : SplitOf(splits[j], t, b) /\ LabelAt(p) = splits[j].label BY <1>4 DEF ThroughSplit
 <2>2. p = N + j /\ IsSplit(p) /\ p - N = j BY <1>0, <2>1, SplitPosition, LabelsApart DEF LabelsUnique
 <2>3. AbstractBlock' = b BY <1>2, <2>1, <2>2 DEF AbstractBlock, IsSplit, SplitOf
 <2>4. copies = <<>> BY <1>1, <1>4 DEF ThroughSplit
 <2>5. \A v \in Var : env[v] = env0[v] BY <2>4, OtherValue
 <2>6. VarEnv' = VarEnv BY <1>2, <2>5 DEF VarEnv
 <2> QED BY <1>1, <2>3, <2>6 DEF Stands
<1> QED BY <1>3, <1>4 DEF b

LEMMA LeaveBlockMaps == ASSUME PhiInv, LeaveBlock PROVE Ssa!Step \/ Stands
<1> DEFINE b == at - 1
<1>0. /\ PlanInv /\ FunctionOK /\ at \in Emitted /\ pc = "run" /\ ~IsSplit(at) /\ Done
      /\ UNCHANGED <<function, plan>> /\ pc' = "run" /\ UNCHANGED splits BY DEF PhiInv, PlanInv, BundlesRun, LeaveBlock, plan
<1>1. b \in Block /\ at = b + 1
 <2>1. b \in Block /\ at \in Int BY <1>0, Positions, SplitsType, Blocks DEF Emitted
 <2> QED BY <2>1
<1>2. /\ new_term[b].kind = term[b].kind
      /\ DOMAIN new_term[b].targets = DOMAIN term[b].targets BY <1>0, <1>1 DEF PlanInv, TargetsPatched
<1> HIDE DEF b
<1>3. CASE new_term[b].kind = "fall" /\ at + 1 \in Emitted /\ Arrive(at + 1)
 <2>1. /\ b + 1 \in Block /\ Successors(b) = <<b + 1>> BY <1>0, <1>1, <1>2, <1>3, SuccessorsOf
 <2>2. b + 1 \in ToSet(Successors(b)) /\ SingleSuccessor(b)
  <3>1. Len(<<b + 1>>) = 1 /\ b + 1 \in ToSet(<<b + 1>>) BY DEF ToSet
  <3> QED BY <1>1, <2>1, <3>1, CfgIs
 <2>3. inserts[b] = Copies(b + 1, b) BY <1>0, <1>1, <2>1, <2>2, InsertedCopies
 <2>4. LabelAt(at + 1) = label[b + 1] BY <1>0, <1>1, <2>1, BlockPosition
 <2> QED BY <1>0, <1>3, <2>1, <2>2, <2>3, <2>4, BlockLeft DEF b
<1>4. CASE \E k \in DOMAIN new_term[b].targets : \E p \in PositionsOf(new_term[b].targets[k]) : Arrive(p)
 <2>1. PICK k \in DOMAIN new_term[b].targets :
         \E p \in PositionsOf(new_term[b].targets[k]) : Arrive(p) BY <1>4
 <2>2. PICK p \in PositionsOf(new_term[b].targets[k]) : Arrive(p) BY <2>1
 <2>3. p \in Emitted /\ LabelAt(p) = new_term[b].targets[k] BY DEF PositionsOf
 <2> DEFINE t == BlockOf(term[b].targets[k])
 <2>4. k \in DOMAIN term[b].targets BY <1>2
 <2>5. /\ t \in Block /\ t \in ToSet(Successors(b))
       /\ \/ Direct(b, t, new_term[b].targets[k])
          \/ ThroughSplit(b, t, new_term[b].targets[k]) BY <1>0, <1>1, <2>4, TargetLeads
 <2> HIDE DEF t
 <2>6. \/ LabelAt(p) = label[t] /\ inserts[b] = Copies(t, b)
       \/ ThroughSplit(b, t, LabelAt(p)) BY <2>3, <2>5 DEF Direct
 <2> QED BY <1>0, <2>2, <2>3, <2>5, <2>6, BlockLeft DEF b
<1> QED BY <1>3, <1>4 DEF LeaveBlock, b

LEMMA LeaveSplitMaps == ASSUME PhiInv, LeaveSplit PROVE Ssa!Step
<1>0. /\ PlanInv /\ FunctionOK /\ at \in Emitted /\ pc = "run" /\ IsSplit(at) /\ Done
      /\ UNCHANGED <<function, plan>> /\ pc' = "run" /\ UNCHANGED splits
      /\ copies = Bundle(at) BY DEF PhiInv, PlanInv, BundlesRun, LeaveSplit, plan
<1>1. PICK t \in Block, b \in Block :
        /\ SplitOf(splits[at - N], t, b) /\ Bundle(at) = Copies(t, b)
        /\ t \in ToSet(Successors(b)) BY <1>0, InSplit
<1>2. PICK p \in PositionsOf(splits[at - N].succ) : Arrive(p) BY DEF LeaveSplit
<1>3. p \in Emitted /\ LabelAt(p) = label[t] BY <1>1 DEF PositionsOf, SplitOf
<1>4. p = t + 1 /\ ~IsSplit(p) /\ p - 1 = t BY <1>0, <1>3, BlockPosition, LabelsApart DEF LabelsUnique
<1>5. at' = p /\ env0' = env BY <1>2 DEF Arrive
<1>6. AbstractBlock = b /\ AbstractBlock' = t BY <1>0, <1>1, <1>4, <1>5 DEF AbstractBlock, IsSplit, SplitOf
<1> QED BY <1>0, <1>1, <1>5, <1>6, StepTaken

LEMMA StartRunMaps == ASSUME PhiInv, StartRun PROVE Ssa!Start
<1>1. /\ pc # "run" /\ pc' = "run" /\ at' = 1 /\ env0' = env /\ UNCHANGED function BY DEF StartRun, Arrive
<1>2. env = env0 BY <1>1 DEF PhiInv, BundlesRun, Unmoved
<1>3. VarEnv' = VarEnv BY <1>1, <1>2 DEF VarEnv
<1>4. AbstractBlock = Undefined BY <1>1 DEF AbstractBlock
<1>5. AbstractBlock' = 0 BY <1>1, SizesAssumption DEF AbstractBlock, IsSplit
<1>6. SuccessorSets' = SuccessorSets /\ AbstractPhis' = AbstractPhis BY <1>1, MappedFunction
<1> QED BY <1>3, <1>4, <1>5, <1>6 DEF Ssa!Start, SuccessorSets, VarEnv

(* Planning and the single moves are invisible. *)
LEMMA InvisibleSteps ==
  ASSUME PhiInv, Place \/ StartPatch \/ Patch \/ Move \/ UNCHANGED allVars PROVE UNCHANGED Ssa!vars
<1>1. UNCHANGED function BY DEF Place, StartPatch, Patch, Move, allVars
<1>2. CASE Place \/ StartPatch \/ Patch
 <2>1. pc # "run" /\ pc' # "run" /\ env0' = env0 BY <1>2 DEF Place, StartPatch, Patch, moves
 <2>2. Stands BY <2>1 DEF Stands, AbstractBlock, VarEnv
 <2> QED BY <1>1, <2>2, StandsStill
<1>3. CASE Move \/ UNCHANGED allVars
 <2>1. env0' = env0 BY <1>3 DEF Move, Next, EmitReady, BreakCycle, args, allVars, moves
 <2>2. pc' = pc /\ at' = at /\ splits' = splits BY <1>3 DEF Move, plan, allVars
 <2>3. Stands BY <2>1, <2>2 DEF Stands, AbstractBlock, VarEnv, IsSplit
 <2> QED BY <1>1, <2>3, StandsStill
<1> QED BY <1>2, <1>3

(* The lowered function, with its split blocks, its patched terminators and its
   sequences of moves, implements the function with phis: control takes the
   edges of the original flow graph, and all phis of the block entered have at
   once the values they list for the block that was left. *)
THEOREM LoweringRefinesSsa == PhiSpec => ImplementsSsa
<1>1. PlanInit => Ssa!Init
 <2> SUFFICES ASSUME PlanInit PROVE Ssa!Init OBVIOUS
 <2>1. AbstractBlock = Undefined BY DEF PlanInit, AbstractBlock
 <2>2. env0 \in [Reg -> Val] BY PhiStarts DEF PhiInv, BundlesRun, TypeOK
 <2>3. VarEnv \in [Var -> Val] BY <2>2, VarsAreRegisters DEF VarEnv
 <2> QED BY <2>1, <2>3 DEF Ssa!Init, VarEnv
<1>2. PhiInv /\ [PhiNext]_allVars => [Ssa!Next]_(Ssa!vars)
 <2> SUFFICES ASSUME PhiInv, [PhiNext]_allVars PROVE Ssa!Next \/ UNCHANGED Ssa!vars OBVIOUS
 <2>1. CASE Place \/ StartPatch \/ Patch \/ Move \/ UNCHANGED allVars BY <2>1, InvisibleSteps
 <2>2. CASE StartRun BY <2>2, StartRunMaps DEF Ssa!Next
 <2>3. CASE LeaveBlock
  <3>1. UNCHANGED function BY <2>3 DEF LeaveBlock
  <3> QED BY <2>3, <3>1, LeaveBlockMaps, StandsStill DEF Ssa!Next
 <2>4. CASE LeaveSplit BY <2>4, LeaveSplitMaps DEF Ssa!Next
 <2> QED BY <2>1, <2>2, <2>3, <2>4 DEF PhiNext
<1> QED BY <1>1, <1>2, PhiCorrect, PTL DEF PhiSpec, ImplementsSsa, Ssa!Spec
=============================================================================
