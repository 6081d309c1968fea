-------------------------- MODULE InterfaceProofs ---------------------------
(* What two sides of an interface agree on.  The declarations of a module: for
   all programs and headers, the registry gives one symbol to one function,
   layouts and slots neither overlap nor are misaligned, and laying out an
   accepted program does not fail.  A call: where arguments are put, for
   argument lists of any length and any number of argument registers, and that
   both sides find what is theirs. *)
EXTENDS Declarations, CallSequence, BasicLemmas

-----------------------------------------------------------------------------
(* Arithmetic. *)
Alignments == {1, 4, 8}

LEMMA AlignUpFacts ==
  ASSUME NEW x \in Nat, NEW a \in {1, 4, 8, 16}
  PROVE  /\ AlignUp(x, a) \in Nat
         /\ x <= AlignUp(x, a)
         /\ AlignUp(x, a) % a = 0
<1>1. CASE a = 1 BY <1>1 DEF AlignUp
<1>2. CASE a = 4
 <2>1. AlignUp(x, a) = ((x + 3) \div 4) * 4 BY <1>2 DEF AlignUp
 <2> QED BY <1>2, <2>1
<1>3. CASE a = 8
 <2>1. AlignUp(x, a) = ((x + 7) \div 8) * 8 BY <1>3 DEF AlignUp
 <2> QED BY <1>3, <2>1
<1>4. CASE a = 16
 <2>1. AlignUp(x, a) = ((x + 15) \div 16) * 16 BY <1>4 DEF AlignUp
 <2> QED BY <1>4, <2>1
<1> QED BY <1>1, <1>2, <1>3, <1>4

(* As many elements as one likes, each a multiple of the alignment. *)
LEMMA MultiplesOf ==
  ASSUME NEW c \in Nat, NEW s \in Nat, NEW a \in Alignments, s % a = 0 PROVE c * s \in Nat /\ (c * s) % a = 0
<1> DEFINE q == s \div a
<1>1. q \in Nat /\ s = a * q BY DEF Alignments
<1> HIDE DEF q
<1>2. c * q \in Nat /\ c * s = a * (c * q) BY <1>1 DEF Alignments
<1> QED BY <1>2 DEF Alignments

(* A slot ends where the aligned frame ended and is a multiple long. *)
LEMMA SlotStart ==
  ASSUME NEW end \in Nat, NEW bytes \in Nat, NEW a \in Alignments,
         end % a = 0, bytes % a = 0
  PROVE  (-(end + bytes)) % a = 0
BY DEF Alignments

-----------------------------------------------------------------------------
(* Layouts. *)
Layout == [size : Nat, align : Alignments, offsets : Seq(Nat)]

(* Some fields of a struct, where they have been placed. *)
PlacedAt(fields, at, end, align) ==
  /\ Len(at) <= Len(fields)
  /\ \A i \in DOMAIN at :
       /\ HasLayout(fields[i])
       /\ at[i] % AlignOf(fields[i]) = 0
       /\ AlignOf(fields[i]) <= align
       /\ at[i] + SizeOf(fields[i]) <= end
       /\ \A j \in DOMAIN at : i < j => at[i] + SizeOf(fields[i]) <= at[j]

LayoutType ==
  /\ structs \in Seq(Seq(Dtype))
  /\ layouts \in Seq(Layout)
  /\ offsets \in Seq(Nat) /\ offset \in Nat /\ max_align \in Alignments
  /\ failed \in BOOLEAN

FinishedSound ==
  \A k \in DOMAIN layouts :
    /\ layouts[k].size % layouts[k].align = 0
    /\ Len(layouts[k].offsets) = Len(structs[k])
    /\ PlacedAt(structs[k], layouts[k].offsets, layouts[k].size, layouts[k].align)

LayoutInv ==
  /\ LayoutType
  /\ Len(layouts) <= Len(structs)
  /\ FinishedSound
  /\ IF AllLaidOut THEN offsets = <<>> ELSE PlacedAt(Fields, offsets, offset, max_align)

(* What size_align_of finds. *)
LEMMA FoundLayout ==
  ASSUME LayoutType, FinishedSound, NEW d \in Dtype, HasLayout(d)
  PROVE  /\ Base(d).size \in Nat /\ AlignOf(d) \in Alignments
         /\ SizeOf(d) \in Nat /\ SizeOf(d) % AlignOf(d) = 0
<1>1. Base(d).size \in Nat /\ Base(d).align \in Alignments /\ Base(d).size % Base(d).align = 0
 <2>1. CASE d.base \in Scalars BY <2>1 DEF Base, Scalar, Scalars, I1, I32, Ptr, Alignments
 <2>2. CASE d.base \notin Scalars
  <3>1. d.base \in DOMAIN layouts /\ layouts[d.base] \in Layout BY <2>2 DEF HasLayout, LayoutType
  <3> QED BY <2>2, <3>1 DEF Base, Layout, FinishedSound
 <2> QED BY <2>1, <2>2
<1>2. d.count \in Nat BY DEF Dtype
<1> QED BY <1>1, <1>2, MultiplesOf DEF SizeOf, AlignOf

LEMMA FieldTypes ==
  ASSUME LayoutType, Len(layouts) < Len(structs)
  PROVE  /\ Len(layouts) + 1 \in DOMAIN structs
         /\ Fields \in Seq(Dtype) /\ Len(Fields) \in Nat /\ DOMAIN Fields = 1 .. Len(Fields)
<1>1. Len(layouts) \in Nat /\ Len(structs) \in Nat /\ DOMAIN structs = 1 .. Len(structs) BY DEF LayoutType
<1>2. Len(layouts) + 1 \in DOMAIN structs BY <1>1
<1>3. Fields \in Seq(Dtype) BY <1>2 DEF Fields, LayoutType
<1> QED BY <1>2, <1>3

LEMMA LayoutLengths ==
  ASSUME LayoutType
  PROVE  /\ Len(layouts) \in Nat /\ DOMAIN layouts = 1 .. Len(layouts)
         /\ Len(structs) \in Nat /\ DOMAIN structs = 1 .. Len(structs)
         /\ Len(offsets) \in Nat /\ DOMAIN offsets = 1 .. Len(offsets)
BY DEF LayoutType

LEMMA MoreStructs == ASSUME LayoutType, Len(layouts) <= Len(structs), ~AllLaidOut PROVE Len(layouts) < Len(structs)
<1>1. Len(layouts) \in Nat /\ Len(structs) \in Nat BY LayoutLengths
<1>2. Len(layouts) # Len(structs) BY DEF AllLaidOut
<1> QED BY <1>1, <1>2

(* A field is placed behind those before it. *)
LEMMA PlaceFieldKeeps == ASSUME LayoutInv, PlaceField PROVE LayoutInv'
<1>0. LayoutType /\ FinishedSound /\ Len(layouts) <= Len(structs) /\ ~AllLaidOut
      /\ PlacedAt(Fields, offsets, offset, max_align) BY DEF LayoutInv, PlaceField
<1>1. /\ Len(layouts) \in Nat /\ Len(structs) \in Nat /\ Len(layouts) < Len(structs)
      /\ Len(offsets) \in Nat /\ DOMAIN offsets = 1 .. Len(offsets) BY <1>0, LayoutLengths, MoreStructs
<1>2. Fields \in Seq(Dtype) /\ Len(Fields) \in Nat /\ DOMAIN Fields = 1 .. Len(Fields) BY <1>0, <1>1, FieldTypes
<1>3. Len(offsets) < Len(Fields) /\ UNCHANGED <<structs, layouts>> BY DEF PlaceField
<1>4. Field \in Dtype /\ Field = Fields[Len(offsets) + 1]
 <2>1. Len(offsets) + 1 \in DOMAIN Fields BY <1>1, <1>2, <1>3
 <2> QED BY <2>1, <1>2 DEF Field
<1>5. FinishedSound' /\ ~AllLaidOut' /\ (Len(layouts) <= Len(structs))'
  BY <1>0, <1>3 DEF FinishedSound, AllLaidOut, PlacedAt, HasLayout, Base, AlignOf, SizeOf
<1>6. CASE ~HasLayout(Field)
 <2>1. failed' = TRUE /\ UNCHANGED <<offsets, offset, max_align>> BY <1>6 DEF PlaceField
 <2> QED BY <2>1, <1>0, <1>3, <1>5
         DEF LayoutInv, LayoutType, AllLaidOut, PlacedAt, HasLayout, Base, AlignOf, SizeOf, Fields
<1>7. CASE HasLayout(Field)
 <2> DEFINE at == AlignUp(offset, AlignOf(Field))
            size == SizeOf(Field)
            align == AlignOf(Field)
 <2>1. /\ offsets' = Append(offsets, at) /\ offset' = at + size
       /\ max_align' = Larger(max_align, align) /\ failed' = failed BY <1>7 DEF PlaceField, MaxAlign
 <2>2. align \in Alignments /\ size \in Nat BY <1>0, <1>4, <1>7, FoundLayout
 <2>3. at \in Nat /\ offset <= at /\ at % align = 0 BY <1>0, <2>2, AlignUpFacts DEF LayoutType, Alignments
 <2> DEFINE n == Len(offsets)
 <2>4. /\ offsets' \in Seq(Nat) /\ DOMAIN offsets' = 1 .. n + 1 /\ Len(offsets') = n + 1
       /\ \A i \in 1 .. n : offsets'[i] = offsets[i]
       /\ offsets'[n + 1] = at BY <1>0, <1>1, <2>1, <2>3, AppendFacts DEF LayoutType
 <2>5. /\ max_align' \in Alignments /\ align <= max_align' /\ max_align <= max_align'
       /\ offset' \in Nat /\ offset <= offset' /\ offset' = at + size
   BY <1>0, <2>1, <2>2, <2>3 DEF LayoutType, Alignments, Larger
 <2>6. LayoutType' BY <1>0, <1>3, <2>1, <2>4, <2>5 DEF LayoutType
 <2>7. /\ Field = Fields[n + 1] /\ HasLayout(Field) /\ AlignOf(Field) = align /\ SizeOf(Field) = size BY <1>4, <1>7
 <2> HIDE DEF at, size, align
 <2>8. PlacedAt(Fields, offsets', offset', max_align')
  <3>1. \A i \in 1 .. n :
          /\ HasLayout(Fields[i])
          /\ offsets[i] % AlignOf(Fields[i]) = 0
          /\ AlignOf(Fields[i]) \in Alignments /\ AlignOf(Fields[i]) <= max_align
          /\ SizeOf(Fields[i]) \in Nat /\ offsets[i] \in Nat
          /\ offsets[i] + SizeOf(Fields[i]) <= offset
          /\ \A j \in 1 .. n : i < j => offsets[i] + SizeOf(Fields[i]) <= offsets[j]
   <4> SUFFICES ASSUME NEW i \in 1 .. n
                PROVE /\ HasLayout(Fields[i])
                      /\ offsets[i] % AlignOf(Fields[i]) = 0
                      /\ AlignOf(Fields[i]) \in Alignments /\ AlignOf(Fields[i]) <= max_align
                      /\ SizeOf(Fields[i]) \in Nat /\ offsets[i] \in Nat
                      /\ offsets[i] + SizeOf(Fields[i]) <= offset
                      /\ \A j \in 1 .. n : i < j => offsets[i] + SizeOf(Fields[i]) <= offsets[j] OBVIOUS
   <4>1. i \in DOMAIN Fields /\ Fields[i] \in Dtype /\ i \in DOMAIN offsets BY <1>1, <1>2, <1>3
   <4>2. HasLayout(Fields[i]) BY <1>0, <4>1 DEF PlacedAt
   <4>3. AlignOf(Fields[i]) \in Alignments /\ SizeOf(Fields[i]) \in Nat BY <1>0, <4>1, <4>2, FoundLayout
   <4>4. offsets[i] \in Nat BY <1>0, <4>1 DEF LayoutType
   <4>5. /\ offsets[i] % AlignOf(Fields[i]) = 0
         /\ AlignOf(Fields[i]) <= max_align
         /\ offsets[i] + SizeOf(Fields[i]) <= offset
         /\ \A j \in 1 .. n : i < j => offsets[i] + SizeOf(Fields[i]) <= offsets[j] BY <1>0, <1>1, <4>1 DEF PlacedAt
   <4> QED BY <4>2, <4>3, <4>4, <4>5
  <3>2. Len(offsets') <= Len(Fields) BY <1>1, <1>2, <1>3, <2>4
  <3>3. ASSUME NEW i \in 1 .. n + 1
        PROVE  /\ HasLayout(Fields[i])
               /\ offsets'[i] % AlignOf(Fields[i]) = 0
               /\ AlignOf(Fields[i]) <= max_align'
               /\ offsets'[i] + SizeOf(Fields[i]) <= offset'
               /\ \A j \in 1 .. n + 1 : i < j => offsets'[i] + SizeOf(Fields[i]) <= offsets'[j]
   <4>1. CASE i = n + 1
    <5>1. \A j \in 1 .. n + 1 : ~(i < j) BY <4>1, <1>1
    <5> QED BY <4>1, <5>1, <2>2, <2>3, <2>4, <2>5, <2>7
   <4>2. CASE i \in 1 .. n
    <5>1. /\ HasLayout(Fields[i])
          /\ offsets[i] % AlignOf(Fields[i]) = 0
          /\ AlignOf(Fields[i]) \in Int /\ AlignOf(Fields[i]) <= max_align
          /\ SizeOf(Fields[i]) \in Nat /\ offsets[i] \in Nat
          /\ offsets[i] + SizeOf(Fields[i]) <= offset
          /\ \A j \in 1 .. n : i < j => offsets[i] + SizeOf(Fields[i]) <= offsets[j] BY <3>1, <4>2 DEF Alignments
    <5>2. offset \in Nat /\ max_align \in Int /\ max_align' \in Int BY <1>0, <2>6 DEF LayoutType, Alignments
    <5>3. \A j \in 1 .. n + 1 : i < j => offsets'[i] + SizeOf(Fields[i]) <= offsets'[j]
     <6> SUFFICES ASSUME NEW j \in 1 .. n + 1, i < j PROVE offsets'[i] + SizeOf(Fields[i]) <= offsets'[j] OBVIOUS
     <6>1. CASE j = n + 1 BY <6>1, <4>2, <5>1, <5>2, <2>3, <2>4
     <6>2. CASE j # n + 1
      <7>1. j \in 1 .. n BY <6>2, <1>1
      <7> QED BY <7>1, <4>2, <5>1, <2>4
     <6> QED BY <6>1, <6>2
    <5>4. offsets'[i] = offsets[i] BY <4>2, <2>4
    <5>5. offsets[i] + SizeOf(Fields[i]) <= offset' /\ AlignOf(Fields[i]) <= max_align' BY <5>1, <5>2, <2>5
    <5> QED BY <5>1, <5>3, <5>4, <5>5
   <4> QED BY <4>1, <4>2, <1>1
  <3> QED BY <3>2, <3>3, <2>4 DEF PlacedAt
 <2>9. PlacedAt(Fields, offsets, offset, max_align)' BY <2>8, <1>3 DEF PlacedAt, HasLayout, Base, AlignOf, SizeOf, Fields
 <2> QED BY <2>6, <2>9, <1>5 DEF LayoutInv
<1> QED BY <1>6, <1>7

(* What has a layout keeps it. *)
LEMMA LayoutsKeep ==
  ASSUME LayoutType, NEW l, layouts' = Append(layouts, l)
  PROVE  \A d : HasLayout(d) =>
           /\ HasLayout(d)'
           /\ SizeOf(d)' = SizeOf(d) /\ AlignOf(d)' = AlignOf(d)
<1>1. /\ Len(layouts) \in Nat /\ DOMAIN layouts = 1 .. Len(layouts)
      /\ DOMAIN layouts' = 1 .. Len(layouts) + 1
      /\ \A k \in DOMAIN layouts : layouts'[k] = layouts[k] BY DEF LayoutType
<1> SUFFICES ASSUME NEW d, HasLayout(d)
             PROVE  HasLayout(d)' /\ SizeOf(d)' = SizeOf(d) /\ AlignOf(d)' = AlignOf(d) OBVIOUS
<1>2. CASE d.base \in Scalars BY <1>2 DEF HasLayout, SizeOf, AlignOf, Base
<1>3. CASE d.base \notin Scalars
 <2>1. d.base \in DOMAIN layouts /\ d.base \in DOMAIN layouts' /\ layouts'[d.base] = layouts[d.base] BY <1>1, <1>3 DEF HasLayout
 <2> QED BY <1>3, <2>1 DEF HasLayout, SizeOf, AlignOf, Base
<1> QED BY <1>2, <1>3

LEMMA PlacedStays ==
  ASSUME LayoutType, NEW l, layouts' = Append(layouts, l),
         NEW fields, NEW at, NEW end, NEW align, PlacedAt(fields, at, end, align)
  PROVE  PlacedAt(fields, at, end, align)'
BY LayoutsKeep DEF PlacedAt

(* All fields are placed: the size is padded, and the next struct begins. *)
LEMMA FinishStructKeeps == ASSUME LayoutInv, FinishStruct PROVE LayoutInv'
<1>0. LayoutType /\ FinishedSound /\ Len(layouts) <= Len(structs) /\ ~AllLaidOut
      /\ PlacedAt(Fields, offsets, offset, max_align) BY DEF LayoutInv, FinishStruct
<1> DEFINE n == Len(layouts)
           l == [size |-> PaddedSize, align |-> max_align, offsets |-> offsets]
<1>1. /\ n \in Nat /\ Len(structs) \in Nat /\ n < Len(structs)
      /\ DOMAIN layouts = 1 .. n /\ DOMAIN structs = 1 .. Len(structs) BY <1>0, LayoutLengths, MoreStructs
<1>2. Fields \in Seq(Dtype) /\ Len(Fields) \in Nat /\ DOMAIN Fields = 1 .. Len(Fields) BY <1>0, <1>1, FieldTypes
<1>3. /\ layouts' = Append(layouts, l)
      /\ offsets' = <<>> /\ offset' = 0 /\ max_align' = 1
      /\ UNCHANGED <<structs, failed>> /\ Len(offsets) = Len(Fields) BY DEF FinishStruct
<1>4. PaddedSize \in Nat /\ offset <= PaddedSize /\ PaddedSize % max_align = 0
  BY <1>0, AlignUpFacts DEF PaddedSize, LayoutType, Alignments
<1>5. l \in Layout BY <1>0, <1>4 DEF Layout, LayoutType
<1>6. /\ layouts' \in Seq(Layout) /\ Len(layouts') = n + 1 /\ DOMAIN layouts' = 1 .. n + 1
      /\ \A k \in 1 .. n : layouts'[k] = layouts[k]
      /\ layouts'[n + 1] = l
 <2> HIDE DEF l
 <2>1. layouts \in Seq(Layout) BY <1>0 DEF LayoutType
 <2> QED BY <1>1, <1>3, <1>5, <2>1, AppendFacts
<1>7. LayoutType'
 <2>1. layouts' \in Seq(Layout) /\ offsets' \in Seq(Nat) /\ offset' \in Nat /\ max_align' \in Alignments
   BY <1>3, <1>6 DEF Alignments
 <2> QED BY <1>0, <1>3, <2>1 DEF LayoutType
<1>8. PlacedAt(Fields, offsets, PaddedSize, max_align)
 <2>1. \A i \in DOMAIN offsets : offsets[i] + SizeOf(Fields[i]) <= PaddedSize
  <3> SUFFICES ASSUME NEW i \in DOMAIN offsets PROVE offsets[i] + SizeOf(Fields[i]) <= PaddedSize OBVIOUS
  <3>1. i \in DOMAIN Fields /\ Fields[i] \in Dtype /\ HasLayout(Fields[i]) /\ offsets[i] \in Nat
    BY <1>0, <1>2, <1>3, LayoutLengths DEF PlacedAt, LayoutType
  <3>2. SizeOf(Fields[i]) \in Nat BY <1>0, <3>1, FoundLayout
  <3>3. offsets[i] + SizeOf(Fields[i]) <= offset BY <1>0 DEF PlacedAt
  <3>4. offset \in Nat BY <1>0 DEF LayoutType
  <3> QED BY <1>4, <3>1, <3>2, <3>3, <3>4
 <2> QED BY <1>0, <2>1 DEF PlacedAt
<1>9. FinishedSound'
 <2> SUFFICES ASSUME NEW k \in 1 .. n + 1
              PROVE  /\ layouts'[k].size % layouts'[k].align = 0
                     /\ Len(layouts'[k].offsets) = Len(structs[k])
                     /\ PlacedAt(structs[k], layouts[k].offsets, layouts[k].size, layouts[k].align)'
   BY <1>3, <1>6 DEF FinishedSound
 <2>1. PICK a \in Seq(Nat), s \in Nat, al \in Alignments :
         /\ layouts'[k].offsets = a /\ layouts'[k].size = s /\ layouts'[k].align = al
         /\ s % al = 0 /\ Len(a) = Len(structs[k]) /\ PlacedAt(structs[k], a, s, al)
  <3>1. CASE k \in 1 .. n
   <4>1. layouts'[k] = layouts[k] /\ layouts[k] \in Layout BY <1>0, <1>1, <1>6, <3>1 DEF LayoutType
   <4>2. /\ layouts[k].offsets \in Seq(Nat) /\ layouts[k].size \in Nat /\ layouts[k].align \in Alignments BY <4>1 DEF Layout
   <4>3. /\ layouts[k].size % layouts[k].align = 0
         /\ Len(layouts[k].offsets) = Len(structs[k])
         /\ PlacedAt(structs[k], layouts[k].offsets, layouts[k].size, layouts[k].align) BY <1>0, <1>1, <3>1 DEF FinishedSound
   <4> QED BY <4>1, <4>2, <4>3
  <3>2. CASE k = n + 1
   <4>1. /\ layouts'[k].offsets = offsets /\ layouts'[k].size = PaddedSize
         /\ layouts'[k].align = max_align BY <1>6, <3>2
   <4>2. structs[k] = Fields BY <3>2 DEF Fields
   <4>3. offsets \in Seq(Nat) /\ max_align \in Alignments BY <1>0 DEF LayoutType
   <4> QED BY <1>3, <1>4, <1>8, <4>1, <4>2, <4>3
  <3> QED BY <1>1, <3>1, <3>2
 <2>2. PICK fields : fields = structs[k] OBVIOUS
 <2>3. PlacedAt(fields, a, s, al)'
  <3> HIDE DEF l
  <3> QED BY <1>0, <1>3, <2>1, <2>2, PlacedStays
 <2>4. structs'[k] = fields BY <1>3, <2>2
 <2> QED BY <2>1, <2>3, <2>4
<1>10. (Len(layouts) <= Len(structs))' BY <1>1, <1>3, <1>6
<1>11. (IF AllLaidOut THEN offsets = <<>> ELSE PlacedAt(Fields, offsets, offset, max_align))'
 <2>1. CASE AllLaidOut' BY <1>3, <2>1
 <2>2. CASE ~AllLaidOut'
  <3>1. Fields' \in Seq(Dtype)
   <4>1. n + 1 # Len(structs) BY <1>3, <1>6, <2>2 DEF AllLaidOut
   <4>2. (n + 1) + 1 \in DOMAIN structs
    <5>1. \A a, b \in Nat : a < b /\ a + 1 # b => (a + 1) + 1 \in 1 .. b OBVIOUS
    <5> QED BY <1>1, <4>1, <5>1
   <4>3. Fields' = structs[(n + 1) + 1] BY <1>3, <1>6 DEF Fields
   <4> QED BY <1>0, <4>2, <4>3 DEF LayoutType
  <3>2. Len(Fields') \in Nat /\ offsets' = <<>> /\ Len(offsets') = 0 /\ DOMAIN offsets' = {} BY <1>3, <3>1
  <3>3. PlacedAt(Fields, offsets, offset, max_align)' BY <3>2 DEF PlacedAt
  <3> QED BY <2>2, <3>3
 <2> QED BY <2>1, <2>2
<1> QED BY <1>7, <1>9, <1>10, <1>11 DEF LayoutInv

(* The two halves of LayoutsSound that are about numbers. *)
LEMMA LayoutInvMeans == ASSUME LayoutInv PROVE FieldsApart /\ ElementsAligned
<1>0. LayoutType /\ FinishedSound /\ Len(layouts) <= Len(structs) BY DEF LayoutInv
<1> SUFFICES ASSUME NEW k \in DOMAIN layouts
             PROVE  /\ Len(layouts[k].offsets) = Len(structs[k])
                    /\ \A i \in DOMAIN layouts[k].offsets :
                         /\ layouts[k].offsets[i] % AlignOf(structs[k][i]) = 0
                         /\ layouts[k].offsets[i] + SizeOf(structs[k][i]) <= layouts[k].size
                         /\ \A j \in DOMAIN layouts[k].offsets : i < j =>
                              layouts[k].offsets[i] + SizeOf(structs[k][i]) <= layouts[k].offsets[j]
                    /\ layouts[k].size % layouts[k].align = 0
                    /\ \A i \in DOMAIN structs[k] : AlignOf(structs[k][i]) <= layouts[k].align
  BY DEF FieldsApart, ElementsAligned
<1>1. /\ layouts[k].size % layouts[k].align = 0
      /\ Len(layouts[k].offsets) = Len(structs[k])
      /\ PlacedAt(structs[k], layouts[k].offsets, layouts[k].size, layouts[k].align) BY <1>0 DEF FinishedSound
<1>2. DOMAIN structs[k] = DOMAIN layouts[k].offsets
 <2>1. k \in DOMAIN structs BY <1>0, LayoutLengths
 <2>2. structs[k] \in Seq(Dtype) /\ layouts[k] \in Layout BY <1>0, <2>1 DEF LayoutType
 <2>3. layouts[k].offsets \in Seq(Nat) BY <2>2 DEF Layout
 <2> QED BY <1>1, <2>2, <2>3
<1> QED BY <1>1, <1>2 DEF PlacedAt

-----------------------------------------------------------------------------
(* The frame: slots are stacked downward, the last one ends the frame. *)
SlotType == [at : Int, bytes : Nat, align : Alignments]

SlotsInv ==
  /\ slots \in Seq(SlotType) /\ frame_size \in Nat
  /\ \A k \in DOMAIN slots :
       /\ slots[k].at % slots[k].align = 0
       /\ -frame_size <= slots[k].at /\ slots[k].at + slots[k].bytes <= 0
       /\ \A j \in DOMAIN slots : j < k => slots[k].at + slots[k].bytes <= slots[j].at

FrameInv ==
  /\ SlotsInv
  /\ spills \in Seq(SpillBytes)
  /\ waiting \subseteq DOMAIN allocas /\ \A v \in waiting : allocas[v] \in Dtype

LEMMA AllocSlotKeeps ==
  ASSUME SlotsInv, NEW bytes \in Nat, NEW align \in Alignments, bytes % align = 0,
         AllocSlot(bytes, align)
  PROVE  SlotsInv'
<1>0. /\ slots \in Seq(SlotType) /\ frame_size \in Nat
      /\ \A k \in DOMAIN slots :
           /\ slots[k].at % slots[k].align = 0
           /\ -frame_size <= slots[k].at /\ slots[k].at + slots[k].bytes <= 0
           /\ \A j \in DOMAIN slots : j < k => slots[k].at + slots[k].bytes <= slots[j].at BY DEF SlotsInv
<1> DEFINE end == AlignUp(frame_size, align)
           slot == [at |-> -(end + bytes), bytes |-> bytes, align |-> align]
           n == Len(slots)
<1>1. end \in Nat /\ frame_size <= end /\ end % align = 0
 <2>1. align \in {1, 4, 8, 16} BY DEF Alignments
 <2> QED BY <1>0, <2>1, AlignUpFacts
<1>2. (-(end + bytes)) % align = 0 BY <1>1, SlotStart
<1>3. slots' = Append(slots, slot) /\ frame_size' = end + bytes BY DEF AllocSlot, SlotAt
<1> HIDE DEF end
<1>4. /\ slot \in SlotType
      /\ slot.at = -(end + bytes) /\ slot.bytes = bytes /\ slot.align = align BY <1>1 DEF SlotType
<1> HIDE DEF slot
<1>5. /\ slots' \in Seq(SlotType) /\ n \in Nat /\ DOMAIN slots = 1 .. n
      /\ DOMAIN slots' = 1 .. n + 1
      /\ \A k \in 1 .. n : slots'[k] = slots[k]
      /\ slots'[n + 1] = slot BY <1>0, <1>3, <1>4, AppendFacts
<1> HIDE DEF n
<1>6. \A k \in 1 .. n : slots[k].at \in Int /\ slots[k].bytes \in Nat
 <2>1. \A k \in 1 .. n : slots[k] \in SlotType BY <1>0, <1>5
 <2> QED BY <2>1 DEF SlotType
<1>7. frame_size' \in Nat /\ frame_size <= frame_size' BY <1>0, <1>1, <1>3
<1>8. ASSUME NEW k \in 1 .. n + 1
      PROVE  /\ slots'[k].at % slots'[k].align = 0
             /\ -frame_size' <= slots'[k].at /\ slots'[k].at + slots'[k].bytes <= 0
             /\ \A j \in 1 .. n + 1 : j < k => slots'[k].at + slots'[k].bytes <= slots'[j].at
 <2>1. CASE k \in 1 .. n
  <3>1. slots'[k] = slots[k] BY <1>5, <2>1
  <3>2. /\ slots[k].at % slots[k].align = 0
        /\ -frame_size <= slots[k].at /\ slots[k].at + slots[k].bytes <= 0
        /\ \A j \in 1 .. n : j < k => slots[k].at + slots[k].bytes <= slots[j].at BY <1>0, <1>5, <2>1
  <3>3. \A j \in 1 .. n + 1 : j < k => j \in 1 .. n BY <1>5, <2>1
  <3>4. -frame_size' <= slots[k].at BY <1>0, <1>6, <1>7, <2>1, <3>2
  <3> QED BY <1>5, <3>1, <3>2, <3>3, <3>4
 <2>2. CASE k = n + 1
  <3>1. slots'[k] = slot BY <1>5, <2>2
  <3>2. slot.at + slot.bytes = -end /\ -end <= 0 BY <1>1, <1>4
  <3>3. -frame_size' <= slot.at BY <1>1, <1>3, <1>4
  <3>4. ASSUME NEW j \in 1 .. n PROVE slot.at + slot.bytes <= slots'[j].at
   <4>1. slots'[j] = slots[j] /\ slots[j].at \in Int /\ -frame_size <= slots[j].at BY <1>0, <1>5, <1>6
   <4> QED BY <1>0, <1>1, <3>2, <4>1
  <3>5. \A j \in 1 .. n + 1 : j < k => j \in 1 .. n BY <1>5, <2>2
  <3> QED BY <1>2, <1>4, <3>1, <3>2, <3>3, <3>4, <3>5
 <2> QED BY <1>5, <2>1, <2>2
<1> QED BY <1>5, <1>7, <1>8 DEF SlotsInv

LEMMA AllocAllocaKeeps == ASSUME LayoutInv, FrameInv, AllocAlloca PROVE LayoutInv' /\ FrameInv'
<1>1. PICK v \in waiting :
        IF HasLayout(allocas[v])
        THEN /\ AllocSlot(SizeOf(allocas[v]), AlignOf(allocas[v]))
             /\ waiting' = waiting \ {v}
             /\ UNCHANGED failed
        ELSE failed' = TRUE /\ UNCHANGED <<frame_size, slots, waiting>> BY DEF AllocAlloca
<1>2. UNCHANGED <<structs, layouts, offsets, offset, max_align, allocas, spills>> BY DEF AllocAlloca
<1>3. LayoutType /\ FinishedSound BY DEF LayoutInv
<1>4. failed' \in BOOLEAN BY <1>1, <1>3 DEF LayoutType
<1>5. LayoutInv' BY <1>2, <1>4 DEF LayoutInv, LayoutType, FinishedSound, AllLaidOut, Fields, PlacedAt,
                    HasLayout, SizeOf, AlignOf, Base
<1>6. SlotsInv'
 <2>1. CASE HasLayout(allocas[v])
  <3>1. PICK bytes, align : bytes = SizeOf(allocas[v]) /\ align = AlignOf(allocas[v]) OBVIOUS
  <3>2. bytes \in Nat /\ align \in Alignments /\ bytes % align = 0 BY <1>3, <2>1, <3>1, FoundLayout DEF FrameInv
  <3>3. AllocSlot(bytes, align) BY <1>1, <2>1, <3>1
  <3> QED BY <3>2, <3>3, AllocSlotKeeps DEF FrameInv
 <2>2. CASE ~HasLayout(allocas[v]) BY <1>1, <2>2 DEF FrameInv, SlotsInv
 <2> QED BY <2>1, <2>2
<1>7. waiting' \subseteq waiting BY <1>1
<1> QED BY <1>2, <1>5, <1>6, <1>7 DEF FrameInv

LEMMA AllocSpillKeeps == ASSUME LayoutInv, FrameInv, AllocSpill PROVE LayoutInv' /\ FrameInv'
<1>1. /\ spills # <<>> /\ AllocSlot(Head(spills), Head(spills)) /\ spills' = Tail(spills)
      /\ UNCHANGED <<layoutVars, allocas, waiting>> BY DEF AllocSpill
<1>2. spills \in Seq(SpillBytes) BY DEF FrameInv
<1>3. Head(spills) \in SpillBytes /\ Tail(spills) \in Seq(SpillBytes) BY <1>1, <1>2, TailFacts
<1>4. PICK bytes \in SpillBytes : bytes = Head(spills) BY <1>3
<1>5. bytes \in Nat /\ bytes \in Alignments /\ bytes % bytes = 0 BY DEF SpillBytes, Alignments
<1>6. SlotsInv' BY <1>1, <1>4, <1>5, AllocSlotKeeps DEF FrameInv
<1>7. LayoutInv'
 <2>1. UNCHANGED <<structs, layouts, offsets, offset, max_align, failed>> BY <1>1 DEF layoutVars
 <2> QED BY <2>1 DEF LayoutInv, LayoutType, FinishedSound, AllLaidOut, Fields, PlacedAt,
                       HasLayout, SizeOf, AlignOf, Base
<1> QED BY <1>1, <1>3, <1>6, <1>7 DEF FrameInv

LEMMA FrameStepKeeps == ASSUME LayoutInv, FrameInv, FrameNext PROVE LayoutInv' /\ FrameInv'
<1>1. CASE LayoutNext /\ UNCHANGED frameVars
 <2>1. LayoutInv' BY <1>1, PlaceFieldKeeps, FinishStructKeeps DEF LayoutNext
 <2>2. FrameInv' BY <1>1 DEF frameVars, FrameInv, SlotsInv
 <2> QED BY <2>1, <2>2
<1>2. CASE AllocAlloca BY <1>2, AllocAllocaKeeps
<1>3. CASE AllocSpill BY <1>3, AllocSpillKeeps
<1> QED BY <1>1, <1>2, <1>3 DEF FrameNext

LEMMA FrameInvMeans == ASSUME FrameInv PROVE FrameSound
<1>1. frame_size \in Nat /\ slots \in Seq(SlotType) BY DEF FrameInv, SlotsInv
<1>2. Reserved \in Nat /\ frame_size <= Reserved /\ Reserved % FrameAlignment = 0
  BY <1>1, AlignUpFacts DEF Reserved, FrameAlignment
<1>3. \A k \in DOMAIN slots : -Reserved <= slots[k].at
 <2> SUFFICES ASSUME NEW k \in DOMAIN slots PROVE -Reserved <= slots[k].at OBVIOUS
 <2>1. slots[k] \in SlotType /\ -frame_size <= slots[k].at BY <1>1 DEF FrameInv, SlotsInv
 <2>2. slots[k].at \in Int BY <2>1 DEF SlotType
 <2> QED BY <1>1, <1>2, <2>1, <2>2
<1>4. SlotsApart BY <1>3 DEF FrameInv, SlotsInv, SlotsApart
<1>5. SlotsAligned BY <1>2 DEF FrameInv, SlotsInv, SlotsAligned
<1> QED BY <1>4, <1>5 DEF FrameSound

-----------------------------------------------------------------------------
(* Static evaluation.  The three recursive functions are what their equations
   say, because operands are less deep than their operators. *)
Binary == Arith \cup Compare \cup Logic

LEMMA Operands ==
  ASSUME NEW e \in Expressions
  PROVE  /\ e.op \in Binary \cup {"num", "name", "not"}
         /\ Depth[e] \in Nat
         /\ e.op = "num" => e.n \in Int /\ e.n \in Word
         /\ e.op \in Binary \cup {"not"} => e.l \in Expressions /\ Depth[e.l] < Depth[e]
         /\ e.op \in Binary => e.r \in Expressions /\ Depth[e.r] < Depth[e]
         /\ e.op \in Logic \cup {"not"} => e.l.op \in Boolean
         /\ e.op \in Logic => e.r.op \in Boolean
<1>1. /\ Depth[e] \in Nat
      /\ e.op \in Binary \cup {"num", "name", "not"} BY ExpressionsAssumption DEF Numeric, Boolean, Binary
<1>2. e.op = "num" => e.n \in Int /\ e.n \in Word BY ExpressionsAssumption, LimitAssumption DEF Word
<1>3. /\ e.op \in Binary \cup {"not"} => e.op \notin {"num", "name"}
      /\ e.op \in Binary => e.op \notin {"num", "name", "not"}
      /\ e.op \in Logic \cup {"not"} => e.op \notin Arith \cup Compare BY DEF Binary, Arith, Compare, Logic
<1> QED BY <1>1, <1>2, <1>3, ExpressionsAssumption DEF Binary

Errors == {"none", "IntegerOverflow", "DivisionByZero", "InvalidExprUnit"}
Results == [v : Int, error : Errors]

LEMMA Remainder ==
  ASSUME NEW x \in Int, NEW m \in Nat \ {0}
  PROVE  /\ x % m \in Nat /\ x % m < m
         /\ x \in 0 .. m - 1 => x % m = x
OBVIOUS

LEMMA WrapFacts == ASSUME NEW x \in Int PROVE Wrap(x) \in Int /\ (x \in Word => Wrap(x) = x)
<1>1. x + Limit \in Int /\ 2 * Limit \in Nat \ {0} BY LimitAssumption
<1>2. /\ (x + Limit) % (2 * Limit) \in Nat
      /\ x + Limit \in 0 .. 2 * Limit - 1 => (x + Limit) % (2 * Limit) = x + Limit BY <1>1, Remainder
<1>3. x \in Word => x + Limit \in 0 .. 2 * Limit - 1 BY LimitAssumption DEF Word
<1> QED BY <1>2, <1>3, LimitAssumption DEF Wrap

LEMMA TruncatedType == ASSUME NEW l \in Int, NEW r \in Int, r # 0 PROVE Truncated(l, r) \in Int
<1>1. Magnitude(l) \in Nat /\ Magnitude(r) \in Nat \ {0} BY DEF Magnitude
<1>2. \A a \in Nat, b \in Nat \ {0} : a \div b \in Nat OBVIOUS
<1> QED BY <1>1, <1>2 DEF Truncated

LEMMA ResultTypes ==
  /\ \A x \in Int, e \in Errors : Ok(x) \in Results /\ Err(e) \in Results /\ Checked(x, e) \in Results
  /\ \A c \in Results : Negated(c) \in Results
  /\ \A op \in Binary, l, r \in Results : Combined(op, l, r) \in Results
  /\ \A op \in Binary, l, r \in Int : Run(op, l, r) \in Int
<1>1. \A x \in Int, e \in Errors : Ok(x) \in Results /\ Err(e) \in Results /\ Checked(x, e) \in Results
  BY DEF Ok, Err, Checked, Results, Errors
<1>2. \A b \in BOOLEAN : Bit(b) \in Int BY DEF Bit
<1>3. \A b \in BOOLEAN : Ok(Bit(b)) \in Results BY <1>1, <1>2 DEF Errors
<1>4. \A c \in Results : Negated(c) \in Results BY <1>3 DEF Negated
<1>5. ASSUME NEW op \in Arith, NEW l \in Int, NEW r \in Int PROVE ArithBiop(op, l, r) \in Results
 <2>1. r # 0 => Truncated(l, r) \in Int BY TruncatedType
 <2>2. "IntegerOverflow" \in Errors /\ "DivisionByZero" \in Errors BY DEF Errors
 <2>3. CASE op = "add"
  <3>1. ArithBiop(op, l, r) = Checked(l + r, "IntegerOverflow") /\ l + r \in Int BY <2>3 DEF ArithBiop
  <3> QED BY <1>1, <2>2, <3>1
 <2>4. CASE op = "sub"
  <3>1. ArithBiop(op, l, r) = Checked(l - r, "IntegerOverflow") /\ l - r \in Int BY <2>4 DEF ArithBiop
  <3> QED BY <1>1, <2>2, <3>1
 <2>5. CASE op = "mul"
  <3>1. ArithBiop(op, l, r) = Checked(l * r, "IntegerOverflow") /\ l * r \in Int BY <2>5 DEF ArithBiop
  <3> QED BY <1>1, <2>2, <3>1
 <2>6. CASE op = "div"
  <3>1. ArithBiop(op, l, r) = IF r = 0 THEN Err("DivisionByZero") ELSE Checked(Truncated(l, r), "DivisionByZero")
    BY <2>6 DEF ArithBiop
  <3>2. 0 \in Int OBVIOUS
  <3> QED BY <1>1, <2>1, <2>2, <3>1, <3>2
 <2> QED BY <2>3, <2>4, <2>5, <2>6 DEF Arith
<1>6. ASSUME NEW op \in Binary, NEW l \in Results, NEW r \in Results PROVE Combined(op, l, r) \in Results
 <2>1. l.v \in Int /\ r.v \in Int BY DEF Results
 <2>2. op \in Arith => ArithBiop(op, l.v, r.v) \in Results BY <1>5, <2>1
 <2>3. BoolBiop(op, l.v, r.v) \in BOOLEAN BY DEF BoolBiop
 <2>4. op \in Compare => ComOp(op, l.v, r.v) \in BOOLEAN
  <3>1. \A x, y \in Int : \A c \in BOOLEAN :
          /\ ComOp("lt", x, y) \in BOOLEAN /\ ComOp("gt", x, y) \in BOOLEAN
          /\ ComOp("le", x, y) \in BOOLEAN /\ ComOp("ge", x, y) \in BOOLEAN
          /\ ComOp("eq", x, y) \in BOOLEAN /\ ComOp("ne", x, y) \in BOOLEAN BY DEF ComOp
  <3> QED BY <2>1, <3>1 DEF Compare
 <2>5. op \notin Arith /\ op \notin Logic => op \in Compare BY DEF Binary
 <2>6. op \notin Arith =>
         Ok(Bit(IF op \in Logic THEN BoolBiop(op, l.v, r.v) ELSE ComOp(op, l.v, r.v))) \in Results BY <1>3, <2>3, <2>4, <2>5
 <2> QED BY <2>2, <2>6 DEF Combined
<1>7. \A op \in Binary, l, r \in Int : Run(op, l, r) \in Int
  BY WrapFacts, TruncatedType DEF Binary, Arith, Compare, Logic, Run, Bit
<1> QED BY <1>1, <1>4, <1>6, <1>7

LEMMA StaticIs ==
  ASSUME NEW e \in Expressions
  PROVE  /\ Static[e] \in Results
         /\ Static[e] = IF e.op = "num" THEN Ok(e.n)
                        ELSE IF e.op = "name" THEN Err("InvalidExprUnit")
                        ELSE IF e.op = "not" THEN Negated(Static[e.l])
                        ELSE Combined(e.op, Static[e.l], Static[e.r])
<1> DEFINE D == Expressions
           Entry(f, x) == IF x.op = "num" THEN Ok(x.n)
                          ELSE IF x.op = "name" THEN Err("InvalidExprUnit")
                          ELSE IF x.op = "not" THEN Negated(f[x.l])
                          ELSE Combined(x.op, f[x.l], f[x.r])
           F == [f \in [D -> Results] |-> [x \in D |-> Entry(f, x)]]
<1>1. ASSUME NEW f, NEW x \in D,
             x.op \in Binary \cup {"not"} => f[x.l] \in Results,
             x.op \in Binary => f[x.r] \in Results
      PROVE  Entry(f, x) \in Results
 <2>1. CASE x.op = "num"
  <3>1. Entry(f, x) = Ok(x.n) /\ x.n \in Int /\ "none" \in Errors BY <2>1, Operands DEF Errors
  <3> QED BY <3>1, ResultTypes
 <2>2. CASE x.op = "name"
  <3>1. Entry(f, x) = Err("InvalidExprUnit") /\ "InvalidExprUnit" \in Errors /\ 0 \in Int BY <2>2 DEF Errors
  <3> QED BY <3>1, ResultTypes
 <2>3. CASE x.op = "not"
  <3>1. Entry(f, x) = Negated(f[x.l]) /\ f[x.l] \in Results BY <1>1, <2>3
  <3> QED BY <3>1, ResultTypes
 <2>4. CASE x.op \in Binary
  <3>1. x.op \notin {"num", "name", "not"} BY <2>4 DEF Binary, Arith, Compare, Logic
  <3>2. Entry(f, x) = Combined(x.op, f[x.l], f[x.r]) /\ f[x.l] \in Results /\ f[x.r] \in Results BY <1>1, <2>4, <3>1
  <3> QED BY <2>4, <3>2, ResultTypes
 <2> QED BY <2>1, <2>2, <2>3, <2>4, Operands
<1>2. ASSUME NEW f \in [D -> Results], NEW h \in [D -> Results], NEW x \in D,
             \A y \in D : Depth[y] < Depth[x] => f[y] = h[y]
      PROVE  F[f][x] = F[h][x]
 <2>1. /\ x.op \in Binary \cup {"not"} => f[x.l] = h[x.l]
       /\ x.op \in Binary => f[x.r] = h[x.r] BY <1>2, Operands
 <2>2. Entry(f, x) = Entry(h, x) BY <2>1, Operands
 <2> QED BY <2>2
<1>3. F \in [[D -> Results] -> [D -> Results]]
 <2> HIDE DEF Entry
 <2>1. \A f \in [D -> Results] : [x \in D |-> Entry(f, x)] \in [D -> Results] BY <1>1, Operands
 <2> QED BY <2>1
<1>4. Results # {}
 <2>1. [v |-> 0, error |-> "none"] \in Results BY DEF Results, Errors
 <2> QED BY <2>1
<1>5. \E f \in [D -> Results] : f = F[f]
 <2>1. \A f, h \in [D -> Results] : \A x \in D :
         (\A y \in D : Depth[y] < Depth[x] => f[y] = h[y]) => F[f][x] = F[h][x] BY <1>2
 <2>2. Depth \in [D -> Nat] BY ExpressionsAssumption
 <2> HIDE DEF D, F
 <2>3. IsRanked(D, Results, Depth, F) BY <1>3, <1>4, <2>1, <2>2 DEF IsRanked
 <2> QED BY <2>3, RankedRecursion
<1>6. \E f : f = [x \in D |-> Entry(f, x)] BY <1>5
<1>7. Static = [x \in D |-> Entry(Static, x)] BY <1>6 DEF Static
<1>8. \A x \in D : Static[x] = Entry(Static, x)
 <2> HIDE DEF Entry
 <2> QED BY <1>7
<1>9. \A x \in D : Static[x] \in Results
 <2> DEFINE S == {n \in Nat : \A x \in D : Depth[x] = n => Static[x] \in Results}
 <2> HIDE DEF Entry
 <2>1. ASSUME NEW n \in Nat, \A m \in Nat : m < n => m \in S PROVE n \in S
  <3> SUFFICES ASSUME NEW x \in D, Depth[x] = n PROVE Static[x] \in Results OBVIOUS
  <3>1. \A y \in D : Depth[y] < n => Static[y] \in Results BY <2>1, Operands
  <3>2. /\ x.op \in Binary \cup {"not"} => Static[x.l] \in Results
        /\ x.op \in Binary => Static[x.r] \in Results BY <3>1, Operands
  <3>3. Entry(Static, x) \in Results BY <1>1, <3>2
  <3> QED BY <1>8, <3>3
 <2> HIDE DEF S
 <2>2. Nat \subseteq S BY <2>1, StrongInduction
 <2> QED BY <2>2, Operands DEF S
<1> QED BY <1>8, <1>9

LEMMA ExecutedIs ==
  ASSUME NEW e \in Expressions
  PROVE  /\ Executed[e] \in Int
         /\ Executed[e] = IF e.op = "num" THEN e.n
                          ELSE IF e.op = "name" THEN 0
                          ELSE IF e.op = "not" THEN 1 - Executed[e.l]
                          ELSE Run(e.op, Executed[e.l], Executed[e.r])
<1> DEFINE D == Expressions
           Entry(f, x) == IF x.op = "num" THEN x.n
                          ELSE IF x.op = "name" THEN 0
                          ELSE IF x.op = "not" THEN 1 - f[x.l]
                          ELSE Run(x.op, f[x.l], f[x.r])
           F == [f \in [D -> Int] |-> [x \in D |-> Entry(f, x)]]
<1>1. ASSUME NEW f, NEW x \in D,
             x.op \in Binary \cup {"not"} => f[x.l] \in Int,
             x.op \in Binary => f[x.r] \in Int
      PROVE  Entry(f, x) \in Int
 <2>1. x.op \in Binary => x.op \notin {"num", "name", "not"} BY DEF Binary, Arith, Compare, Logic
 <2>2. x.op \in Binary => Run(x.op, f[x.l], f[x.r]) \in Int BY <1>1, ResultTypes
 <2>3. x.op = "num" => x.n \in Int BY Operands
 <2>4. x.op \in Binary \cup {"num", "name", "not"} BY Operands
 <2> QED BY <1>1, <2>1, <2>2, <2>3, <2>4
<1>2. ASSUME NEW f \in [D -> Int], NEW h \in [D -> Int], NEW x \in D,
             \A y \in D : Depth[y] < Depth[x] => f[y] = h[y]
      PROVE  F[f][x] = F[h][x]
 <2>1. /\ x.op \in Binary \cup {"not"} => f[x.l] = h[x.l]
       /\ x.op \in Binary => f[x.r] = h[x.r] BY <1>2, Operands
 <2>2. Entry(f, x) = Entry(h, x) BY <2>1, Operands
 <2> QED BY <2>2
<1>3. F \in [[D -> Int] -> [D -> Int]]
 <2> HIDE DEF Entry
 <2>1. \A f \in [D -> Int] : [x \in D |-> Entry(f, x)] \in [D -> Int] BY <1>1, Operands
 <2> QED BY <2>1
<1>4. \E f \in [D -> Int] : f = F[f]
 <2>1. \A f, h \in [D -> Int] : \A x \in D :
         (\A y \in D : Depth[y] < Depth[x] => f[y] = h[y]) => F[f][x] = F[h][x] BY <1>2
 <2>2. Depth \in [D -> Nat] /\ Int # {} BY ExpressionsAssumption
 <2> HIDE DEF D, F
 <2>3. IsRanked(D, Int, Depth, F) BY <1>3, <2>1, <2>2 DEF IsRanked
 <2> QED BY <2>3, RankedRecursion
<1>5. \E f : f = [x \in D |-> Entry(f, x)] BY <1>4
<1>6. Executed = [x \in D |-> Entry(Executed, x)] BY <1>5 DEF Executed
<1>7. \A x \in D : Executed[x] = Entry(Executed, x)
 <2> HIDE DEF Entry
 <2> QED BY <1>6
<1>8. \A x \in D : Executed[x] \in Int
 <2> DEFINE S == {n \in Nat : \A x \in D : Depth[x] = n => Executed[x] \in Int}
 <2> HIDE DEF Entry
 <2>1. ASSUME NEW n \in Nat, \A m \in Nat : m < n => m \in S PROVE n \in S
  <3> SUFFICES ASSUME NEW x \in D, Depth[x] = n PROVE Executed[x] \in Int OBVIOUS
  <3>1. \A y \in D : Depth[y] < n => Executed[y] \in Int BY <2>1, Operands
  <3>2. /\ x.op \in Binary \cup {"not"} => Executed[x.l] \in Int
        /\ x.op \in Binary => Executed[x.r] \in Int BY <3>1, Operands
  <3>3. Entry(Executed, x) \in Int BY <1>1, <3>2
  <3> QED BY <1>7, <3>3
 <2> HIDE DEF S
 <2>2. Nat \subseteq S BY <2>1, StrongInduction
 <2> QED BY <2>2, Operands DEF S
<1> QED BY <1>7, <1>8

LEMMA SubtermsIs ==
  ASSUME NEW e \in Expressions
  PROVE  /\ Subterms[e] \subseteq Expressions
         /\ Subterms[e] = {e} \cup IF e.op \in {"num", "name"} THEN {}
                                    ELSE IF e.op = "not" THEN Subterms[e.l]
                                    ELSE Subterms[e.l] \cup Subterms[e.r]
<1> DEFINE D == Expressions
           T == SUBSET D
           Entry(f, x) == {x} \cup IF x.op \in {"num", "name"} THEN {}
                                   ELSE IF x.op = "not" THEN f[x.l]
                                   ELSE f[x.l] \cup f[x.r]
           F == [f \in [D -> T] |-> [x \in D |-> Entry(f, x)]]
<1>1. ASSUME NEW f, NEW x \in D,
             x.op \in Binary \cup {"not"} => f[x.l] \in T,
             x.op \in Binary => f[x.r] \in T
      PROVE  Entry(f, x) \in T
 <2>1. x.op \in Binary \cup {"num", "name", "not"} BY Operands
 <2> QED BY <1>1, <2>1
<1>2. ASSUME NEW f \in [D -> T], NEW h \in [D -> T], NEW x \in D,
             \A y \in D : Depth[y] < Depth[x] => f[y] = h[y]
      PROVE  F[f][x] = F[h][x]
 <2>1. /\ x.op \in Binary \cup {"not"} => f[x.l] = h[x.l]
       /\ x.op \in Binary => f[x.r] = h[x.r] BY <1>2, Operands
 <2>2. Entry(f, x) = Entry(h, x) BY <2>1, Operands
 <2> QED BY <2>2
<1>3. F \in [[D -> T] -> [D -> T]]
 <2> HIDE DEF Entry, T
 <2>1. \A f \in [D -> T] : [x \in D |-> Entry(f, x)] \in [D -> T] BY <1>1, Operands
 <2> QED BY <2>1
<1>4. \E f \in [D -> T] : f = F[f]
 <2>1. \A f, h \in [D -> T] : \A x \in D :
         (\A y \in D : Depth[y] < Depth[x] => f[y] = h[y]) => F[f][x] = F[h][x] BY <1>2
 <2>2. Depth \in [D -> Nat] /\ T # {} BY ExpressionsAssumption
 <2> HIDE DEF D, F, T
 <2>3. IsRanked(D, T, Depth, F) BY <1>3, <2>1, <2>2 DEF IsRanked
 <2> QED BY <2>3, RankedRecursion
<1>5. \E f : f = [x \in D |-> Entry(f, x)] BY <1>4
<1>6. Subterms = [x \in D |-> Entry(Subterms, x)] BY <1>5 DEF Subterms
<1>7. \A x \in D : Subterms[x] = Entry(Subterms, x)
 <2> HIDE DEF Entry
 <2> QED BY <1>6
<1>8. \A x \in D : Subterms[x] \in T
 <2> DEFINE S == {n \in Nat : \A x \in D : Depth[x] = n => Subterms[x] \in T}
 <2> HIDE DEF Entry, T
 <2>1. ASSUME NEW n \in Nat, \A m \in Nat : m < n => m \in S PROVE n \in S
  <3> SUFFICES ASSUME NEW x \in D, Depth[x] = n PROVE Subterms[x] \in T OBVIOUS
  <3>1. \A y \in D : Depth[y] < n => Subterms[y] \in T BY <2>1, Operands
  <3>2. /\ x.op \in Binary \cup {"not"} => Subterms[x.l] \in T
        /\ x.op \in Binary => Subterms[x.r] \in T BY <3>1, Operands
  <3>3. Entry(Subterms, x) \in T BY <1>1, <3>2
  <3> QED BY <1>7, <3>3
 <2> HIDE DEF S
 <2>2. Nat \subseteq S BY <2>1, StrongInduction
 <2> QED BY <2>2, Operands DEF S
<1> QED BY <1>7, <1>8

HasValue(e) == e.op # "name" /\ ~DividesByZero(e) /\ ~Overflows(e)

LEMMA EvaluableIs ==
  ASSUME NEW e \in Expressions
  PROVE  /\ e.op = "num" => Evaluable(e)
         /\ e.op = "name" => ~Evaluable(e)
         /\ e.op = "not" => (Evaluable(e) <=> Evaluable(e.l))
         /\ e.op \in Binary => (Evaluable(e) <=> HasValue(e) /\ Evaluable(e.l) /\ Evaluable(e.r))
<1>1. Subterms[e] = {e} \cup IF e.op \in {"num", "name"} THEN {}
                             ELSE IF e.op = "not" THEN Subterms[e.l]
                             ELSE Subterms[e.l] \cup Subterms[e.r] BY SubtermsIs
<1>2. \A x : Evaluable(x) <=> \A y \in Subterms[x] : HasValue(y) BY DEF Evaluable, HasValue
<1>3. e.op \in {"num", "not"} => HasValue(e) BY DEF HasValue, DividesByZero, Overflows
<1>4. e.op = "name" => ~HasValue(e) BY DEF HasValue
<1>5. e.op \in Binary => e.op \notin {"num", "name", "not"} BY DEF Binary, Arith, Compare, Logic
<1> HIDE DEF HasValue, Evaluable
<1>6. e.op = "num" => Evaluable(e) BY <1>1, <1>2, <1>3
<1>7. e.op = "name" => ~Evaluable(e) BY <1>1, <1>2, <1>4
<1>8. e.op = "not" => (Evaluable(e) <=> Evaluable(e.l)) BY <1>1, <1>2, <1>3
<1>9. e.op \in Binary => Subterms[e] = {e} \cup (Subterms[e.l] \cup Subterms[e.r]) BY <1>1, <1>5
<1>10. e.op \in Binary => (Evaluable(e) <=> HasValue(e) /\ Evaluable(e.l) /\ Evaluable(e.r)) BY <1>2, <1>9
<1> QED BY <1>6, <1>7, <1>8, <1>10

(* What is computed is what execution computes, and no error is found in vain. *)
Agrees(e) ==
  /\ Static[e].error = "none" <=> Evaluable(e)
  /\ Static[e].error = "none" =>
       Static[e].v = Executed[e] /\ (e.op \in Boolean => Executed[e] \in {0, 1})

(* One operator on two values. *)
LEMMA ArithAgrees ==
  ASSUME NEW op \in Arith, NEW l \in Int, NEW r \in Int
  PROVE  LET sound == /\ ~(op = "div" /\ r = 0)
                      /\ op = "add" => l + r \in Word
                      /\ op = "sub" => l - r \in Word
                      /\ op = "mul" => l * r \in Word
                      /\ op = "div" /\ r # 0 => Truncated(l, r) \in Word
         IN  /\ ArithBiop(op, l, r).error = "none" <=> sound
             /\ sound => ArithBiop(op, l, r).v = Run(op, l, r)
<1>1. \A x : /\ Ok(x).v = x /\ Ok(x).error = "none"
             /\ \A e \in {"IntegerOverflow", "DivisionByZero"} :
                  Err(e).error # "none" /\ (Checked(x, e).error = "none" <=> x \in Word)
             /\ \A e : x \in Word => Checked(x, e).v = x BY DEF Ok, Err, Checked
<1>2. \A x \in Int : x \in Word => Wrap(x) = x BY WrapFacts
<1>3. l + r \in Int /\ l - r \in Int /\ l * r \in Int OBVIOUS
<1>4. CASE op = "add"
 <2>1. ArithBiop(op, l, r) = Checked(l + r, "IntegerOverflow") /\ Run(op, l, r) = Wrap(l + r) BY <1>4 DEF ArithBiop, Run
 <2> QED BY <1>1, <1>2, <1>3, <1>4, <2>1
<1>5. CASE op = "sub"
 <2>1. ArithBiop(op, l, r) = Checked(l - r, "IntegerOverflow") /\ Run(op, l, r) = Wrap(l - r) BY <1>5 DEF ArithBiop, Run
 <2> QED BY <1>1, <1>2, <1>3, <1>5, <2>1
<1>6. CASE op = "mul"
 <2>1. ArithBiop(op, l, r) = Checked(l * r, "IntegerOverflow") /\ Run(op, l, r) = Wrap(l * r) BY <1>6 DEF ArithBiop, Run
 <2> DEFINE p == l * r
 <2>2. p \in Int OBVIOUS
 <2> HIDE DEF p
 <2>3. /\ Checked(p, "IntegerOverflow").error = "none" <=> p \in Word
       /\ p \in Word => Checked(p, "IntegerOverflow").v = Wrap(p) BY <1>1, <1>2, <2>2
 <2> QED BY <1>6, <2>1, <2>3 DEF p
<1>7. CASE op = "div" /\ r = 0
 <2>1. ArithBiop(op, l, r) = Err("DivisionByZero") BY <1>7 DEF ArithBiop
 <2> QED BY <1>1, <1>7, <2>1
<1>8. CASE op = "div" /\ r # 0
 <2>1. ArithBiop(op, l, r) = Checked(Truncated(l, r), "DivisionByZero") /\ Run(op, l, r) = Wrap(Truncated(l, r))
   BY <1>8 DEF ArithBiop, Run
 <2> DEFINE q == Truncated(l, r)
 <2>2. q \in Int BY <1>8, TruncatedType
 <2> HIDE DEF q
 <2>3. /\ Checked(q, "DivisionByZero").error = "none" <=> q \in Word
       /\ q \in Word => Checked(q, "DivisionByZero").v = Wrap(q) BY <1>1, <1>2, <2>2
 <2> QED BY <1>8, <2>1, <2>3 DEF q
<1> QED BY <1>4, <1>5, <1>6, <1>7, <1>8 DEF Arith

LEMMA CompareAgrees ==
  ASSUME NEW op \in Compare, NEW l \in Int, NEW r \in Int
  PROVE  Bit(ComOp(op, l, r)) = Run(op, l, r) /\ Run(op, l, r) \in {0, 1}
<1>1. l <= r <=> ~(r < l) OBVIOUS
<1>2. l >= r <=> ~(l < r) OBVIOUS
<1>3. l > r <=> r < l OBVIOUS
<1> QED BY <1>1, <1>2, <1>3 DEF Compare, ComOp, Run, Bit

LEMMA LogicAgrees ==
  ASSUME NEW op \in Logic, NEW l \in {0, 1}, NEW r \in {0, 1}
  PROVE  Bit(BoolBiop(op, l, r)) = Run(op, l, r) /\ Run(op, l, r) \in {0, 1}
BY DEF Logic, BoolBiop, Run, Bit

LEMMA CombinedAgrees == ASSUME NEW e \in Expressions, e.op \in Binary, Agrees(e.l), Agrees(e.r) PROVE Agrees(e)
<1> DEFINE l == Static[e.l]
           r == Static[e.r]
           x == Executed[e.l]
           y == Executed[e.r]
<1>1. e.op \notin {"num", "name", "not"} BY DEF Binary, Arith, Compare, Logic
<1>2. e.l \in Expressions /\ e.r \in Expressions BY Operands
<1>3. Static[e] = Combined(e.op, l, r) /\ Executed[e] = Run(e.op, x, y) BY <1>1, StaticIs, ExecutedIs
<1>4. Evaluable(e) <=> HasValue(e) /\ l.error = "none" /\ r.error = "none" BY EvaluableIs DEF Agrees
<1>5. x \in Int /\ y \in Int BY <1>2, ExecutedIs
<1>6. CASE l.error # "none" \/ r.error # "none"
 <2>1. Static[e].error # "none" BY <1>3, <1>6 DEF Combined
 <2> QED BY <1>4, <1>6, <2>1 DEF Agrees
<1>7. CASE l.error = "none" /\ r.error = "none"
 <2>1. l.v = x /\ r.v = y BY <1>7 DEF Agrees
 <2>2. Evaluable(e) <=> HasValue(e) BY <1>4, <1>7
 <2>3. CASE e.op \in Arith
  <3>1. Static[e] = ArithBiop(e.op, x, y) BY <1>3, <1>7, <2>1, <2>3 DEF Combined
  <3>2. HasValue(e) <=> /\ ~(e.op = "div" /\ y = 0)
                        /\ e.op = "add" => x + y \in Word
                        /\ e.op = "sub" => x - y \in Word
                        /\ e.op = "mul" => x * y \in Word
                        /\ e.op = "div" /\ y # 0 => Truncated(x, y) \in Word BY <1>1 DEF HasValue, DividesByZero, Overflows
  <3> DEFINE op == e.op
  <3> HIDE DEF x, y, op
  <3>3. /\ ArithBiop(op, x, y).error = "none" <=>
             /\ ~(op = "div" /\ y = 0)
             /\ op = "add" => x + y \in Word
             /\ op = "sub" => x - y \in Word
             /\ op = "mul" => x * y \in Word
             /\ op = "div" /\ y # 0 => Truncated(x, y) \in Word
        /\ ArithBiop(op, x, y).error = "none" => ArithBiop(op, x, y).v = Run(op, x, y)
   <4>1. op \in Arith BY <2>3 DEF op
   <4> QED BY <1>5, <4>1, ArithAgrees
  <3>4. Static[e].error = "none" <=> HasValue(e) BY <3>1, <3>2, <3>3 DEF op
  <3>5. Static[e].error = "none" => Static[e].v = Executed[e] BY <1>3, <3>1, <3>3 DEF op
  <3>6. e.op \notin Boolean BY <2>3 DEF Arith, Boolean, Compare, Logic
  <3> QED BY <2>2, <3>4, <3>5, <3>6 DEF Agrees
 <2>4. CASE e.op \notin Arith
  <3>1. e.op \in Compare \/ e.op \in Logic BY <2>4 DEF Binary
  <3>2. Static[e] = Ok(Bit(IF e.op \in Logic THEN BoolBiop(e.op, x, y) ELSE ComOp(e.op, x, y)))
    BY <1>3, <1>7, <2>1, <2>4 DEF Combined
  <3>3. e.op \in Logic => x \in {0, 1} /\ y \in {0, 1} BY <1>7, Operands DEF Agrees
  <3>4. Bit(IF e.op \in Logic THEN BoolBiop(e.op, x, y) ELSE ComOp(e.op, x, y)) = Run(e.op, x, y)
        /\ Run(e.op, x, y) \in {0, 1}
   <4>1. CASE e.op \in Logic BY <3>3, <4>1, LogicAgrees
   <4>2. CASE e.op \notin Logic BY <1>5, <3>1, <4>2, CompareAgrees
   <4> QED BY <4>1, <4>2
  <3>5. HasValue(e) BY <1>1, <2>4 DEF HasValue, DividesByZero, Overflows, Arith
  <3>6. Static[e].error = "none" /\ Static[e].v = Executed[e] /\ Executed[e] \in {0, 1} BY <1>3, <3>2, <3>4 DEF Ok
  <3> QED BY <2>2, <3>5, <3>6 DEF Agrees
 <2> QED BY <2>3, <2>4
<1> QED BY <1>6, <1>7

(* A global's initializer has a value at compile time exactly if each of its
   operations has one, and then it is the value of execution. *)
THEOREM StaticAgrees == \A e \in Expressions : Agrees(e)
<1> DEFINE S == {n \in Nat : \A e \in Expressions : Depth[e] = n => Agrees(e)}
<1>1. ASSUME NEW n \in Nat, \A m \in Nat : m < n => m \in S PROVE n \in S
 <2> SUFFICES ASSUME NEW e \in Expressions, Depth[e] = n PROVE Agrees(e) OBVIOUS
 <2>1. \A x \in Expressions : Depth[x] < n => Agrees(x) BY <1>1, Operands
 <2>2. CASE e.op = "num"
  <3>1. Static[e] = Ok(e.n) /\ Executed[e] = e.n /\ Evaluable(e) BY <2>2, StaticIs, ExecutedIs, EvaluableIs
  <3>2. e.op \notin Boolean BY <2>2 DEF Boolean, Compare, Logic
  <3> QED BY <3>1, <3>2 DEF Agrees, Ok
 <2>3. CASE e.op = "name"
  <3>1. Static[e] = Err("InvalidExprUnit") /\ ~Evaluable(e) BY <2>3, StaticIs, EvaluableIs
  <3> QED BY <3>1 DEF Agrees, Err
 <2>4. CASE e.op = "not"
  <3>1. e.l \in Expressions /\ Agrees(e.l) /\ e.l.op \in Boolean BY <2>1, <2>4, Operands
  <3>2. Static[e] = Negated(Static[e.l]) /\ Executed[e] = 1 - Executed[e.l]
        /\ (Evaluable(e) <=> Evaluable(e.l)) BY <2>4, StaticIs, ExecutedIs, EvaluableIs
  <3>3. CASE Static[e.l].error # "none" BY <3>1, <3>2, <3>3 DEF Agrees, Negated
  <3>4. CASE Static[e.l].error = "none"
   <4>1. Executed[e.l] \in {0, 1} /\ Static[e.l].v = Executed[e.l] BY <3>1, <3>4 DEF Agrees
   <4>2. Static[e] = Ok(Bit(Executed[e.l] = 0)) BY <3>2, <3>4, <4>1 DEF Negated
   <4>3. Bit(Executed[e.l] = 0) = Executed[e] /\ Executed[e] \in {0, 1} BY <3>2, <4>1 DEF Bit
   <4> QED BY <3>1, <3>2, <3>4, <4>2, <4>3 DEF Agrees, Ok
  <3> QED BY <3>3, <3>4
 <2>5. CASE e.op \in Binary
  <3>1. Agrees(e.l) /\ Agrees(e.r) BY <2>1, <2>5, Operands
  <3> QED BY <2>5, <3>1, CombinedAgrees
 <2> QED BY <2>2, <2>3, <2>4, <2>5, Operands
<1> HIDE DEF S
<1>2. Nat \subseteq S BY <1>1, StrongInduction
<1> QED BY <1>2, Operands DEF S

-----------------------------------------------------------------------------
(* Registration: what the registry holds is what the elements handled so far
   say.  They are handled import by import, declaration by declaration and
   element by element. *)
Header(l) == Headers[program.uses[l]]
Opened(l) == phase # "uses" \/ l < next \/ (l = next /\ pending # <<>>)
Read(l, j) == phase = "uses" /\ l = next => j + Len(pending) <= Len(Header(l)) + 1
ElementDone(j) == phase \in {"bodies", "done", "assembly"} \/ (phase = "elements" /\ j < next)
BodyDone(j) == phase \in {"done", "assembly"} \/ (phase = "bodies" /\ j < next)

ImportedFn(l, d) == [name |-> <<program.uses[l], d.x>>, sig |-> d.sig]
OwnFn(j) == [name |-> Own(program.elements[j].x), sig |-> program.elements[j].sig]
FnPlaces == Places("fn_decl") \cup Places("fn_def")

SaidSoFar(f) ==
  \/ \E l \in DOMAIN program.uses :
       /\ Opened(l)
       /\ \E j \in DOMAIN Header(l) :
            Read(l, j) /\ Header(l)[j].k = "fn_decl" /\ f = ImportedFn(l, Header(l)[j])
  \/ \E j \in FnPlaces : ElementDone(j) /\ f = OwnFn(j)

UsesInv ==
  /\ \A l \in DOMAIN program.uses : Opened(l) => program.uses[l] \in DOMAIN Headers \ Malformed
  /\ pending # <<>> =>
       /\ phase = "uses" /\ next \in DOMAIN program.uses
       /\ \E c \in 0 .. Len(Header(next)) :
            pending = SubSeq(Header(next) \o <<[k |-> "eof"]>>, c + 1, Len(Header(next)) + 1)

FunctionsInv ==
  /\ \A n \in DOMAIN function_types : [name |-> n, sig |-> function_types[n]] \in Functions
  /\ \A f \in Functions : SaidSoFar(f) =>
       f.name \in DOMAIN function_types /\ function_types[f.name] = f.sig /\ f.sig \notin Refused

GlobalsInv ==
  /\ DOMAIN global_list = {program.elements[j].x : j \in {l \in Places("var") : ElementDone(l)}}
  /\ \A i, j \in Places("var") :
       ElementDone(i) /\ ElementDone(j) /\ program.elements[i].x = program.elements[j].x => i = j
  /\ \A j \in Places("var") : ElementDone(j) =>
       /\ Initial(program.elements[j].init).error = "none"
       /\ global_list[program.elements[j].x] = Initial(program.elements[j].init).v

StructsInv ==
  /\ struct_order \in Seq(Nat \ {0})
  /\ \A p, q \in DOMAIN struct_order : struct_order[p] = struct_order[q] => p = q
  /\ DOMAIN struct_types = {struct_order[p] : p \in DOMAIN struct_order}
  /\ DOMAIN struct_types = {program.elements[j].s : j \in {l \in Places("struct") : ElementDone(l)}}
  /\ \A s \in DOMAIN struct_types : struct_types[s] \in Seq(Dtype)
  /\ \A j \in Places("struct") : ElementDone(j) =>
       \A m \in StructsIn(program.elements[j].members) :
         \E l \in Places("struct") : l < j /\ program.elements[l].s = m
  /\ NoStructTwice =>
       \A p \in DOMAIN struct_order : \A m \in StructsIn(struct_types[struct_order[p]]) :
         \E q \in DOMAIN struct_order : q < p /\ struct_order[q] = m

BodiesInv ==
  /\ \A n \in DOMAIN bodies :
       \/ bodies[n] = NoBody
       \/ \E j \in Places("fn_def") : Own(program.elements[j].x) = n /\ bodies[n] = program.elements[j].n
  /\ \A j \in Places("fn_def") : BodyDone(j) =>
       /\ program.elements[j].calls \subseteq DOMAIN function_types
       /\ Own(program.elements[j].x) \in DOMAIN bodies
       /\ \E i \in Places("fn_def") :
            /\ Own(program.elements[i].x) = Own(program.elements[j].x)
            /\ bodies[Own(program.elements[j].x)] = program.elements[i].n
  /\ called \subseteq {link_names[n] : n \in DOMAIN link_names}

NamesInv ==
  /\ DOMAIN link_names = DOMAIN function_types
  /\ \A n \in DOMAIN link_names : link_names[n] = n[2]
  /\ SymbolsDistinct

RegistryInv ==
  /\ program \in Programs /\ next \in Nat \ {0}
  /\ phase \in {"uses", "elements", "bodies", "done", "assembly"}
  /\ NamesInv
  /\ IF error # "none" THEN phase = "done" /\ ~(Consistent /\ StructsGrounded)
     ELSE UsesInv /\ FunctionsInv /\ GlobalsInv /\ StructsInv /\ BodiesInv

(* Before assembly nothing is laid out; then it is what the registry says. *)
AssemblyInv ==
  IF phase # "assembly"
  THEN structs = <<>> /\ layouts = <<>> /\ waiting = {} /\ spills = <<>> /\ ~failed
  ELSE /\ error = "none"
       /\ structs = [p \in DOMAIN struct_order |-> AllNumbered(struct_types[struct_order[p]])]
       /\ allocas = AllNumbered(program.locals)
       /\ NoStructTwice /\ LocalsKnown => ~failed

DeclInv == RegistryInv /\ LayoutInv /\ FrameInv /\ AssemblyInv

-----------------------------------------------------------------------------
(* What a program is, and what depends on it alone. *)
LEMMA ProgramFacts ==
  ASSUME program \in Programs
  PROVE  /\ Len(program.elements) \in Nat /\ DOMAIN program.elements = 1 .. Len(program.elements)
         /\ Len(program.uses) \in Nat /\ DOMAIN program.uses = 1 .. Len(program.uses)
<1>1. IsSequence(program.uses) /\ IsSequence(program.elements) BY SourceAssumption
<1> QED BY <1>1 DEF IsSequence

LEMMA HeaderFacts ==
  ASSUME NEW m \in DOMAIN Headers
  PROVE  /\ Headers[m] \in Seq({Headers[m][j] : j \in DOMAIN Headers[m]})
         /\ Len(Headers[m]) \in Nat /\ DOMAIN Headers[m] = 1 .. Len(Headers[m])
         /\ \A j \in DOMAIN Headers[m] : Headers[m][j].k # "eof"
<1>1. IsSequence(Headers[m]) /\ \A j \in DOMAIN Headers[m] : Headers[m][j].k # "eof" BY SourceAssumption
<1>2. Headers[m] \in Seq({Headers[m][j] : j \in DOMAIN Headers[m]}) BY <1>1 DEF IsSequence
<1> QED BY <1>1, <1>2

LEMMA ProgramOnly ==
  ASSUME program' = program
  PROVE  /\ Functions' = Functions /\ Consistent' = Consistent /\ StructsGrounded' = StructsGrounded
         /\ NoStructTwice' = NoStructTwice
         /\ \A k : Places(k)' = Places(k)
<1>1. \A k : Places(k)' = Places(k) BY DEF Places
<1>2. Functions' = Functions BY <1>1 DEF Functions, Imports
<1>3. Consistent' = Consistent BY <1>1, <1>2 DEF Consistent
<1>4. StructsGrounded' = StructsGrounded BY <1>1 DEF StructsGrounded
<1>5. NoStructTwice' = NoStructTwice BY <1>1 DEF NoStructTwice
<1> QED BY <1>1, <1>2, <1>3, <1>4, <1>5

LEMMA PlacesFacts ==
  ASSUME program \in Programs, NEW k, NEW j \in Places(k)
  PROVE  j \in Nat /\ j \in DOMAIN program.elements /\ program.elements[j].k = k
BY ProgramFacts DEF Places

LEMMA FunctionFacts ==
  /\ \A f \in Functions : f = [name |-> f.name, sig |-> f.sig]
  /\ \A j \in FnPlaces : OwnFn(j) \in Functions
  /\ \A l \in DOMAIN program.uses : program.uses[l] \in DOMAIN Headers =>
       \A i \in DOMAIN Header(l) : Header(l)[i].k = "fn_decl" => ImportedFn(l, Header(l)[i]) \in Functions
<1>1. \A f \in Functions : f = [name |-> f.name, sig |-> f.sig] BY DEF Functions, Imports
<1>2. \A j \in FnPlaces : OwnFn(j) \in Functions BY DEF FnPlaces, OwnFn, Functions
<1>3. ASSUME NEW l \in DOMAIN program.uses, program.uses[l] \in DOMAIN Headers,
             NEW i \in DOMAIN Header(l), Header(l)[i].k = "fn_decl"
      PROVE  ImportedFn(l, Header(l)[i]) \in Imports
 <2>1. Header(l)[i] \in {e \in {Header(l)[j] : j \in DOMAIN Header(l)} : e.k = "fn_decl"} BY <1>3
 <2>2. ImportedFn(l, Header(l)[i]) \in
         {[name |-> <<program.uses[l], d.x>>, sig |-> d.sig] :
            d \in {e \in {Header(l)[j] : j \in DOMAIN Header(l)} : e.k = "fn_decl"}} BY <2>1 DEF ImportedFn
 <2>3. l \in {k \in DOMAIN program.uses : program.uses[k] \in DOMAIN Headers} BY <1>3
 <2> QED BY <2>2, <2>3 DEF Imports, Header
<1> QED BY <1>1, <1>2, <1>3 DEF Functions

(* Once all imports are read and all elements seen, all functions are said. *)
LEMMA AllSaid == ASSUME phase \in {"bodies", "done", "assembly"}, NEW f \in Functions PROVE SaidSoFar(f)
<1>1. CASE f \in Imports
 <2>1. PICK l \in DOMAIN program.uses : \E i \in DOMAIN Header(l) :
         Header(l)[i].k = "fn_decl" /\ f = ImportedFn(l, Header(l)[i]) BY <1>1 DEF Imports, Header, ImportedFn
 <2> QED BY <2>1 DEF SaidSoFar, Opened, Read
<1>2. CASE f \notin Imports
 <2>1. PICK j \in FnPlaces : f = OwnFn(j) BY <1>2 DEF Functions, FnPlaces, OwnFn
 <2> QED BY <2>1 DEF SaidSoFar, ElementDone
<1> QED BY <1>1, <1>2
-----------------------------------------------------------------------------
(* What stays true because nothing it is about has changed. *)
LEMMA GlobalsStay ==
  ASSUME GlobalsInv, program' = program, global_list' = global_list,
         \A j \in Places("var") : ElementDone(j)' <=> ElementDone(j)
  PROVE  GlobalsInv'
<1>1. Places("var")' = Places("var") BY ProgramOnly
<1>2. {l \in Places("var") : ElementDone(l)}' = {l \in Places("var") : ElementDone(l)} BY <1>1
<1> QED BY <1>1, <1>2 DEF GlobalsInv, Initial

LEMMA StructsStay ==
  ASSUME StructsInv, program' = program, UNCHANGED structDefs,
         \A j \in Places("struct") : ElementDone(j)' <=> ElementDone(j)
  PROVE  StructsInv'
<1>1. Places("struct")' = Places("struct") /\ NoStructTwice' = NoStructTwice BY ProgramOnly
<1>2. {l \in Places("struct") : ElementDone(l)}' = {l \in Places("struct") : ElementDone(l)} BY <1>1
<1>3. struct_types' = struct_types /\ struct_order' = struct_order BY DEF structDefs
<1>6. (DOMAIN struct_types = {program.elements[j].s : j \in {l \in Places("struct") : ElementDone(l)}})'
  BY <1>2, <1>3 DEF StructsInv
<1>7. (\A j \in Places("struct") : ElementDone(j) =>
         \A m \in StructsIn(program.elements[j].members) :
           \E l \in Places("struct") : l < j /\ program.elements[l].s = m)' BY <1>1 DEF StructsInv, StructsIn
<1>8. (NoStructTwice =>
         \A p \in DOMAIN struct_order : \A m \in StructsIn(struct_types[struct_order[p]]) :
           \E q \in DOMAIN struct_order : q < p /\ struct_order[q] = m)' BY <1>1, <1>3 DEF StructsInv, StructsIn
<1>9. (/\ struct_order \in Seq(Nat \ {0})
       /\ \A p, q \in DOMAIN struct_order : struct_order[p] = struct_order[q] => p = q
       /\ DOMAIN struct_types = {struct_order[p] : p \in DOMAIN struct_order}
       /\ \A s \in DOMAIN struct_types : struct_types[s] \in Seq(Dtype))'
 <2>1. /\ struct_order \in Seq(Nat \ {0})
       /\ \A p, q \in DOMAIN struct_order : struct_order[p] = struct_order[q] => p = q
       /\ DOMAIN struct_types = {struct_order[p] : p \in DOMAIN struct_order}
       /\ \A s \in DOMAIN struct_types : struct_types[s] \in Seq(Dtype) BY DEF StructsInv
 <2> QED BY <1>3, <2>1
<1> QED BY <1>6, <1>7, <1>8, <1>9 DEF StructsInv

LEMMA FunctionsStay ==
  ASSUME FunctionsInv, program' = program, function_types' = function_types,
         \A f \in Functions : SaidSoFar(f)' => SaidSoFar(f)
  PROVE  FunctionsInv'
<1>1. Functions' = Functions BY ProgramOnly
<1> QED BY <1>1 DEF FunctionsInv

LEMMA BodiesStay ==
  ASSUME BodiesInv, program' = program, UNCHANGED registry, called' = called,
         \A j \in Places("fn_def") : BodyDone(j)' <=> BodyDone(j)
  PROVE  BodiesInv'
<1>1. Places("fn_def")' = Places("fn_def") BY ProgramOnly
<1> QED BY <1>1 DEF BodiesInv, registry, Own

LEMMA NamesStay == ASSUME NamesInv, UNCHANGED <<function_types, link_names>> PROVE NamesInv'
BY DEF NamesInv, SymbolsDistinct

(* An error that is not found in vain. *)
LEMMA FailKeeps ==
  ASSUME RegistryInv, error' # "none", phase' = "done",
         UNCHANGED <<program, next, function_types, link_names>>,
         ~(Consistent /\ StructsGrounded)
  PROVE  RegistryInv'
<1>1. NamesInv' BY NamesStay DEF RegistryInv
<1>2. ~(Consistent' /\ StructsGrounded') BY ProgramOnly
<1> QED BY <1>1, <1>2 DEF RegistryInv

-----------------------------------------------------------------------------
(* handle_fn_decl: an error is one of the program. *)
LEMMA DeclErrorFound ==
  ASSUME RegistryInv, error = "none", NEW name, NEW sig,
         [name |-> name, sig |-> sig] \in Functions, DeclError(name, sig) # "none"
  PROVE  ~Consistent
<1> SUFFICES ASSUME Consistent PROVE FALSE OBVIOUS
<1> DEFINE f == [name |-> name, sig |-> sig]
           g(n) == [name |-> n, sig |-> function_types[n]]
<1>1. /\ \A n \in DOMAIN function_types : g(n) \in Functions
      /\ DOMAIN link_names = DOMAIN function_types
      /\ \A n \in DOMAIN link_names : link_names[n] = n[2] BY DEF RegistryInv, FunctionsInv, NamesInv
<1>2. sig \notin Refused BY DEF Consistent
<1>3. \A h \in Functions : h.name[2] = name[2] => h = f BY DEF Consistent
<1>4. CASE name \in DOMAIN function_types
 <2>1. g(name) = f BY <1>1, <1>3, <1>4
 <2>2. function_types[name] = sig BY <2>1
 <2> QED BY <1>2, <1>4, <2>2 DEF DeclError
<1>5. CASE name \notin DOMAIN function_types
 <2>1. LinkTaken(name[2]) BY <1>2, <1>5 DEF DeclError, ComputeLinkName
 <2>2. PICK n \in DOMAIN link_names : link_names[n] = name[2] BY <2>1 DEF LinkTaken
 <2>3. g(n) \in Functions /\ g(n).name[2] = name[2] BY <1>1, <2>2
 <2>4. g(n) = f BY <1>3, <2>3
 <2>5. n = name BY <2>4
 <2> QED BY <1>1, <1>5, <2>2, <2>5
<1> QED BY <1>4, <1>5

Registered1(f) ==
  f.name \in DOMAIN function_types /\ function_types[f.name] = f.sig /\ f.sig \notin Refused

LEMMA RegisterKeeps ==
  ASSUME RegistryInv, error = "none", NEW name, NEW sig,
         [name |-> name, sig |-> sig] \in Functions, DeclError(name, sig) = "none",
         Register(name, sig), program' = program
  PROVE  /\ NamesInv'
         /\ \A n \in DOMAIN function_types' : [name |-> n, sig |-> function_types'[n]] \in Functions
         /\ \A f \in Functions : Registered1(f) \/ f = [name |-> name, sig |-> sig] => Registered1(f)'
         /\ \A n \in DOMAIN bodies' : bodies'[n] = NoBody \/ (n \in DOMAIN bodies /\ bodies'[n] = bodies[n])
         /\ {link_names[n] : n \in DOMAIN link_names} \subseteq {link_names'[n] : n \in DOMAIN link_names'}
         /\ DOMAIN function_types \subseteq DOMAIN function_types'
<1>1. /\ function_types' = KeepOld(function_types, name, sig)
      /\ link_names' = KeepOld(link_names, name, name[2])
      /\ bodies' = KeepOld(bodies, name, NoBody) BY DEF Register, ComputeLinkName
<1>2. NamesInv /\ FunctionsInv BY DEF RegistryInv
<1>3. SignatureError(sig) # "none" BY DEF SignatureError
<1>4. /\ sig \notin Refused
      /\ name \in DOMAIN function_types => function_types[name] = sig
      /\ name \notin DOMAIN function_types => ~LinkTaken(name[2]) BY <1>3 DEF DeclError, ComputeLinkName
<1>5. /\ DOMAIN function_types' = DOMAIN function_types \cup {name}
      /\ \A n \in DOMAIN function_types : function_types'[n] = function_types[n]
      /\ function_types'[name] = sig BY <1>1, <1>4 DEF KeepOld, With
<1>6. /\ DOMAIN link_names' = DOMAIN link_names \cup {name}
      /\ \A n \in DOMAIN link_names : link_names'[n] = link_names[n]
      /\ name \notin DOMAIN link_names => link_names'[name] = name[2] BY <1>1 DEF KeepOld, With
<1>7. NamesInv'
 <2>1. DOMAIN link_names' = DOMAIN function_types' BY <1>2, <1>5, <1>6 DEF NamesInv
 <2>2. \A n \in DOMAIN link_names' : link_names'[n] = n[2] BY <1>2, <1>6 DEF NamesInv
 <2>3. SymbolsDistinct'
  <3> SUFFICES ASSUME NEW m \in DOMAIN link_names', NEW n \in DOMAIN link_names',
                      link_names'[m] = link_names'[n]
               PROVE  m = n BY DEF SymbolsDistinct
  <3>1. CASE m \in DOMAIN link_names /\ n \in DOMAIN link_names BY <1>2, <1>6, <3>1 DEF NamesInv, SymbolsDistinct
  <3>2. CASE m \in DOMAIN link_names /\ n \notin DOMAIN link_names
   <4>1. n = name /\ ~LinkTaken(name[2]) /\ link_names[m] = name[2] BY <1>2, <1>4, <1>6, <3>2 DEF NamesInv
   <4> QED BY <3>2, <4>1 DEF LinkTaken
  <3>3. CASE m \notin DOMAIN link_names /\ n \in DOMAIN link_names
   <4>1. m = name /\ ~LinkTaken(name[2]) /\ link_names[n] = name[2] BY <1>2, <1>4, <1>6, <3>3 DEF NamesInv
   <4> QED BY <3>3, <4>1 DEF LinkTaken
  <3>4. CASE m \notin DOMAIN link_names /\ n \notin DOMAIN link_names BY <1>6, <3>4
  <3> QED BY <3>1, <3>2, <3>3, <3>4
 <2> QED BY <2>1, <2>2, <2>3 DEF NamesInv
<1>8. \A n \in DOMAIN function_types' : [name |-> n, sig |-> function_types'[n]] \in Functions BY <1>2, <1>5 DEF FunctionsInv
<1>9. \A f \in Functions : Registered1(f) \/ f = [name |-> name, sig |-> sig] => Registered1(f)' BY <1>4, <1>5 DEF Registered1
<1>10. \A n \in DOMAIN bodies' : bodies'[n] = NoBody \/ (n \in DOMAIN bodies /\ bodies'[n] = bodies[n])
 <2>1. CASE name \in DOMAIN bodies BY <1>1, <2>1 DEF KeepOld
 <2>2. CASE name \notin DOMAIN bodies BY <1>1, <2>2 DEF KeepOld, With
 <2> QED BY <2>1, <2>2
<1>11. {link_names[n] : n \in DOMAIN link_names} \subseteq {link_names'[n] : n \in DOMAIN link_names'} BY <1>6
<1> QED BY <1>5, <1>7, <1>8, <1>9, <1>10, <1>11

-----------------------------------------------------------------------------
(* Reading imports. *)
LEMMA SuffixFacts ==
  ASSUME NEW S, NEW s \in Seq(S), NEW c \in 0 .. Len(s) - 1
  PROVE  /\ SubSeq(s, c + 1, Len(s)) \in Seq(S) /\ Len(SubSeq(s, c + 1, Len(s))) = Len(s) - c
         /\ SubSeq(s, c + 1, Len(s)) # <<>>
         /\ Head(SubSeq(s, c + 1, Len(s))) = s[c + 1]
         /\ Tail(SubSeq(s, c + 1, Len(s))) = SubSeq(s, c + 2, Len(s))
<1> DEFINE t == SubSeq(s, c + 1, Len(s))
           u == SubSeq(s, c + 2, Len(s))
<1>1. /\ t \in Seq(S) /\ Len(t) = Len(s) - c
      /\ \A j \in 1 .. Len(s) - c : t[j] = s[c + j] OBVIOUS
<1>2. /\ u \in Seq(S) /\ Len(u) = Len(s) - c - 1
      /\ \A j \in 1 .. Len(s) - c - 1 : u[j] = s[c + 1 + j] OBVIOUS
<1> HIDE DEF t, u
<1>3. t # <<>> /\ Head(t) = s[c + 1] BY <1>1
<1>4. /\ Tail(t) \in Seq(S) /\ Len(Tail(t)) = Len(s) - c - 1
      /\ \A j \in 1 .. Len(s) - c - 1 : Tail(t)[j] = s[c + (j + 1)] BY <1>1, <1>3
<1>5. \A j \in 1 .. Len(s) - c - 1 : Tail(t)[j] = u[j]
 <2>1. \A j \in 1 .. Len(s) - c - 1 : c + (j + 1) = c + 1 + j OBVIOUS
 <2> QED BY <1>2, <1>4, <2>1
<1>6. Tail(t) = u
 <2>1. Len(Tail(t)) = Len(u) /\ \A j \in 1 .. Len(u) : Tail(t)[j] = u[j] BY <1>2, <1>4, <1>5
 <2> QED BY <1>2, <1>4, <2>1, SeqEqual
<1> QED BY <1>1, <1>3, <1>6 DEF t, u

WithEnd(l) == Header(l) \o <<[k |-> "eof"]>>

LEMMA WithEndFacts ==
  ASSUME NEW l \in DOMAIN program.uses, program.uses[l] \in DOMAIN Headers
  PROVE  /\ Len(Header(l)) \in Nat /\ DOMAIN Header(l) = 1 .. Len(Header(l))
         /\ \E S : WithEnd(l) \in Seq(S)
         /\ Len(WithEnd(l)) = Len(Header(l)) + 1
         /\ \A j \in DOMAIN Header(l) : WithEnd(l)[j] = Header(l)[j] /\ Header(l)[j].k # "eof"
         /\ WithEnd(l)[Len(Header(l)) + 1].k = "eof"
<1> DEFINE h == Header(l)
           end == [k |-> "eof"]
<1>1. PICK H : h \in Seq(H) BY HeaderFacts DEF Header
<1>2. /\ Len(h) \in Nat /\ DOMAIN h = 1 .. Len(h)
      /\ \A j \in DOMAIN h : h[j].k # "eof" BY HeaderFacts DEF Header
<1>3. end.k = "eof" OBVIOUS
<1>4. WithEnd(l) = h \o <<end>> BY DEF WithEnd
<1> HIDE DEF h, end
<1>5. h \in Seq(H \cup {end}) /\ <<end>> \in Seq(H \cup {end}) BY <1>1
<1>6. /\ h \o <<end>> \in Seq(H \cup {end})
      /\ Len(h \o <<end>>) = Len(h) + 1
      /\ \A j \in 1 .. Len(h) : (h \o <<end>>)[j] = h[j]
      /\ (h \o <<end>>)[Len(h) + 1] = end BY <1>2, <1>5
<1> QED BY <1>2, <1>3, <1>4, <1>6 DEF h

(* What is left to be read of a header. *)
LEMMA PendingFacts ==
  ASSUME RegistryInv, error = "none", pending # <<>>
  PROVE  /\ phase = "uses" /\ next \in DOMAIN program.uses /\ Use = program.uses[next]
         /\ Use \in DOMAIN Headers
         /\ \E c \in 0 .. Len(Header(next)) :
              /\ Len(pending) = Len(Header(next)) + 1 - c
              /\ Head(pending) = WithEnd(next)[c + 1]
              /\ Tail(pending) = SubSeq(WithEnd(next), c + 2, Len(Header(next)) + 1)
<1>1. /\ phase = "uses" /\ next \in DOMAIN program.uses
      /\ \E c \in 0 .. Len(Header(next)) :
           pending = SubSeq(WithEnd(next), c + 1, Len(Header(next)) + 1) BY DEF RegistryInv, UsesInv, WithEnd
<1>2. program.uses[next] \in DOMAIN Headers BY <1>1 DEF RegistryInv, UsesInv, Opened
<1>3. PICK c \in 0 .. Len(Header(next)) :
        pending = SubSeq(WithEnd(next), c + 1, Len(Header(next)) + 1) BY <1>1
<1>4. PICK S : WithEnd(next) \in Seq(S) BY <1>1, <1>2, WithEndFacts
<1>5. Len(Header(next)) \in Nat /\ Len(WithEnd(next)) = Len(Header(next)) + 1 BY <1>1, <1>2, WithEndFacts
<1>6. c \in 0 .. Len(WithEnd(next)) - 1 BY <1>5
<1>7. /\ Len(pending) = Len(Header(next)) + 1 - c
      /\ Head(pending) = WithEnd(next)[c + 1]
      /\ Tail(pending) = SubSeq(WithEnd(next), c + 2, Len(Header(next)) + 1) BY <1>3, <1>4, <1>5, <1>6, SuffixFacts
<1> QED BY <1>1, <1>2, <1>7 DEF Use

(* Steps of the first pass: only functions are registered. *)
LEMMA UsesStep ==
  ASSUME RegistryInv, error = "none", phase = "uses", phase' = "uses", error' = "none",
         program' = program, next' \in Nat \ {0}, UNCHANGED <<called, global_list, structDefs>>,
         UsesInv', NamesInv', FunctionsInv',
         \A n \in DOMAIN bodies' : bodies'[n] = NoBody \/ (n \in DOMAIN bodies /\ bodies'[n] = bodies[n]),
         {link_names[n] : n \in DOMAIN link_names} \subseteq {link_names'[n] : n \in DOMAIN link_names'}
  PROVE  RegistryInv'
<1>1. \A j : /\ ~ElementDone(j) /\ ~ElementDone(j)'
             /\ ~BodyDone(j) /\ ~BodyDone(j)' BY DEF ElementDone, BodyDone
<1>2. GlobalsInv' /\ StructsInv' BY <1>1, GlobalsStay, StructsStay DEF RegistryInv
<1>3. BodiesInv'
 <2>1. BodiesInv /\ Places("fn_def")' = Places("fn_def") BY ProgramOnly DEF RegistryInv
 <2>2. \A n \in DOMAIN bodies' :
         \/ bodies'[n] = NoBody
         \/ \E j \in Places("fn_def") : Own(program.elements[j].x) = n /\ bodies'[n] = program.elements[j].n
   BY <2>1 DEF BodiesInv
 <2>3. called \subseteq {link_names'[n] : n \in DOMAIN link_names'} BY <2>1 DEF BodiesInv
 <2> QED BY <1>1, <2>1, <2>2, <2>3 DEF BodiesInv, Own
<1> QED BY <1>2, <1>3 DEF RegistryInv

LEMMA OpenHeaderKeeps == ASSUME RegistryInv, OpenHeader PROVE RegistryInv'
<1>1. /\ error = "none" /\ phase = "uses" /\ pending = <<>> /\ next \in Nat \ {0}
      /\ program \in Programs /\ UsesInv /\ FunctionsInv /\ NamesInv BY DEF RegistryInv, OpenHeader
<1>2. next \in DOMAIN program.uses BY <1>1, ProgramFacts DEF OpenHeader
<1>3. CASE Use \notin DOMAIN Headers \/ Use \in Malformed
 <2>1. ~Consistent BY <1>2, <1>3 DEF Consistent, Use
 <2>2. /\ error' # "none" /\ phase' = "done"
       /\ UNCHANGED <<program, next, function_types, link_names>> BY <1>3 DEF OpenHeader, Fail, registry
 <2> QED BY <2>1, <2>2, FailKeeps
<1>4. CASE Use \in DOMAIN Headers \ Malformed
 <2>1. /\ pending' = WithEnd(next)
       /\ UNCHANGED <<program, phase, next, error, function_types, link_names, bodies,
                      called, global_list, structDefs>> BY <1>4 DEF OpenHeader, Use, WithEnd, Header, registry
 <2>2. program.uses[next] \in DOMAIN Headers \ Malformed BY <1>4 DEF Use
 <2>3. PICK S : WithEnd(next) \in Seq(S) BY <1>2, <2>2, WithEndFacts
 <2>4. Len(Header(next)) \in Nat /\ Len(WithEnd(next)) = Len(Header(next)) + 1 BY <1>2, <2>2, WithEndFacts
 <2>5. pending' = SubSeq(WithEnd(next), 0 + 1, Len(Header(next)) + 1) /\ pending' # <<>>
  <3>1. SubSeq(WithEnd(next), 1, Len(WithEnd(next))) = WithEnd(next) BY <2>3
  <3> QED BY <2>1, <2>3, <2>4, <3>1
 <2>6. UsesInv'
  <3>1. \A l \in DOMAIN program.uses : Opened(l)' => Opened(l) \/ l = next BY <1>1, <2>1 DEF Opened
  <3>2. \A l \in DOMAIN program.uses : Opened(l)' => program.uses[l] \in DOMAIN Headers \ Malformed
    BY <1>1, <2>2, <3>1 DEF UsesInv
  <3>3. 0 \in 0 .. Len(Header(next)) BY <2>4
  <3> QED BY <1>1, <1>2, <2>1, <2>5, <3>2, <3>3 DEF UsesInv, WithEnd, Header
 <2>7. FunctionsInv'
  <3>1. ASSUME NEW f \in Functions, SaidSoFar(f)' PROVE SaidSoFar(f)
   <4>1. \A j : ElementDone(j)' <=> ElementDone(j) BY <2>1 DEF ElementDone
   <4>2. CASE \E j \in FnPlaces' : ElementDone(j)' /\ f = OwnFn(j)'
     BY <4>1, <4>2, <2>1 DEF SaidSoFar, FnPlaces, Places, OwnFn, Own
   <4>3. CASE \E l \in DOMAIN program.uses : Opened(l)' /\
                \E j \in DOMAIN Header(l) : Read(l, j)' /\ Header(l)[j].k = "fn_decl"
                                            /\ f = ImportedFn(l, Header(l)[j])
    <5>1. PICK l \in DOMAIN program.uses : Opened(l)' /\
               \E j \in DOMAIN Header(l) : Read(l, j)' /\ Header(l)[j].k = "fn_decl"
                                           /\ f = ImportedFn(l, Header(l)[j]) BY <4>3
    <5>2. l # next
     <6> SUFFICES ASSUME l = next PROVE FALSE OBVIOUS
     <6>1. PICK j \in DOMAIN Header(l) : Read(l, j)' BY <5>1
     <6>2. PICK n \in Nat : n = Len(Header(l)) /\ j \in 1 .. n BY <1>2, <2>2, WithEndFacts
     <6>3. Len(pending') = n + 1 BY <2>1, <2>4, <6>2
     <6>4. j + Len(pending') <= n + 1 BY <1>1, <2>1, <6>1, <6>2 DEF Read, Header
     <6> QED BY <6>2, <6>3, <6>4
    <5>3. Opened(l) BY <1>1, <2>1, <5>1, <5>2 DEF Opened
    <5>4. \A j : Read(l, j) BY <5>2 DEF Read
    <5> QED BY <5>1, <5>3, <5>4 DEF SaidSoFar
   <4> QED BY <2>1, <3>1, <4>2, <4>3 DEF SaidSoFar, Header, ImportedFn
  <3> QED BY <1>1, <2>1, <3>1, FunctionsStay
 <2>8. NamesInv' BY <1>1, <2>1, NamesStay
 <2> QED BY <1>1, <2>1, <2>6, <2>7, <2>8, UsesStep
<1> QED BY <1>3, <1>4

(* How far a header is read, with one declaration more or none left. *)
LEMMA ImportDeclKeeps == ASSUME RegistryInv, ImportDecl PROVE RegistryInv'
<1>1. /\ error = "none" /\ phase = "uses" /\ pending # <<>> /\ next \in Nat \ {0}
      /\ program \in Programs /\ UsesInv /\ FunctionsInv /\ NamesInv BY DEF RegistryInv, ImportDecl
<1>2. /\ next \in DOMAIN program.uses /\ Use = program.uses[next] /\ Use \in DOMAIN Headers BY <1>1, PendingFacts
<1>3. PICK c \in 0 .. Len(Header(next)) :
        /\ Len(pending) = Len(Header(next)) + 1 - c
        /\ Head(pending) = WithEnd(next)[c + 1]
        /\ Tail(pending) = SubSeq(WithEnd(next), c + 2, Len(Header(next)) + 1) BY <1>1, PendingFacts
<1>4. PICK n \in Nat : n = Len(Header(next)) /\ DOMAIN Header(next) = 1 .. n BY <1>2, WithEndFacts
<1>5. c + 1 \in DOMAIN Header(next) /\ Head(pending) = Header(next)[c + 1] /\ Head(pending).k = "fn_decl"
 <2>1. Head(pending).k = "fn_decl" BY DEF ImportDecl
 <2>2. c # n BY <1>2, <1>3, <1>4, <2>1, WithEndFacts
 <2>3. c + 1 \in DOMAIN Header(next) BY <1>3, <1>4, <2>2
 <2> QED BY <1>2, <1>3, <2>1, <2>3, WithEndFacts
<1> DEFINE d == Head(pending)
           name == <<Use, d.x>>
<1>6. ImportedFn(next, d) = [name |-> name, sig |-> d.sig] /\ ImportedFn(next, d) \in Functions
  BY <1>2, <1>5, FunctionFacts DEF ImportedFn
<1>7. CASE DeclError(name, d.sig) # "none"
 <2>1. ~Consistent BY <1>1, <1>6, <1>7, DeclErrorFound
 <2>2. /\ error' # "none" /\ phase' = "done"
       /\ UNCHANGED <<program, next, function_types, link_names>> BY <1>7 DEF ImportDecl, HandleFnDecl, Fail, registry
 <2> QED BY <2>1, <2>2, FailKeeps
<1>8. CASE DeclError(name, d.sig) = "none"
 <2>1. /\ Register(name, d.sig) /\ pending' = Tail(pending)
       /\ UNCHANGED <<program, phase, next, error, called, global_list, structDefs>> BY <1>8 DEF ImportDecl, HandleFnDecl
 <2>2. /\ NamesInv'
       /\ \A m \in DOMAIN function_types' : [name |-> m, sig |-> function_types'[m]] \in Functions
       /\ \A f \in Functions : Registered1(f) \/ f = [name |-> name, sig |-> d.sig] => Registered1(f)'
       /\ \A m \in DOMAIN bodies' : bodies'[m] = NoBody \/ (m \in DOMAIN bodies /\ bodies'[m] = bodies[m])
       /\ {link_names[m] : m \in DOMAIN link_names} \subseteq {link_names'[m] : m \in DOMAIN link_names'}
  <3> HIDE DEF d, name
  <3>1. [name |-> name, sig |-> d.sig] \in Functions BY <1>6
  <3> QED BY <1>1, <1>8, <2>1, <3>1, RegisterKeeps
 <2>3. /\ pending' = SubSeq(WithEnd(next), (c + 1) + 1, n + 1)
       /\ c + 1 \in 0 .. n /\ Len(pending) = n + 1 - c /\ Len(pending') = n - c /\ pending' # <<>>
  <3>1. /\ c + 1 \in 1 .. n /\ pending' = SubSeq(WithEnd(next), (c + 1) + 1, n + 1) BY <1>3, <1>4, <1>5, <2>1
  <3>2. PICK S : WithEnd(next) \in Seq(S) BY <1>2, WithEndFacts
  <3>3. Len(WithEnd(next)) = n + 1 BY <1>2, <1>4, WithEndFacts
  <3>4. Len(pending') = (n + 1) - (c + 1) /\ pending' # <<>>
   <4>1. c + 1 \in 0 .. Len(WithEnd(next)) - 1 BY <3>1, <3>3
   <4> QED BY <3>1, <3>2, <3>3, <4>1, SuffixFacts
  <3> QED BY <1>3, <1>4, <3>1, <3>4
 <2>4. UsesInv'
  <3>1. \A l : Opened(l)' => Opened(l) BY <1>1, <2>1 DEF Opened
  <3>2. \A l \in DOMAIN program.uses : Opened(l)' => program.uses[l] \in DOMAIN Headers \ Malformed BY <1>1, <3>1 DEF UsesInv
  <3> QED BY <1>1, <1>2, <1>4, <2>1, <2>3, <3>2 DEF UsesInv, WithEnd, Header
 <2>5. \A f \in Functions : SaidSoFar(f)' => SaidSoFar(f) \/ f = ImportedFn(next, d)
  <3> SUFFICES ASSUME NEW f \in Functions, SaidSoFar(f)' PROVE SaidSoFar(f) \/ f = ImportedFn(next, d) OBVIOUS
  <3>1. CASE \E j \in FnPlaces' : ElementDone(j)' /\ f = OwnFn(j)' BY <1>1, <2>1, <3>1 DEF ElementDone
  <3>2. CASE \E l \in DOMAIN program.uses : Opened(l)' /\
               \E j \in DOMAIN Header(l) : Read(l, j)' /\ Header(l)[j].k = "fn_decl"
                                           /\ f = ImportedFn(l, Header(l)[j])
   <4>0. PICK l \in DOMAIN program.uses : Opened(l)' /\
           \E j \in DOMAIN Header(l) : Read(l, j)' /\ Header(l)[j].k = "fn_decl"
                                       /\ f = ImportedFn(l, Header(l)[j]) BY <3>2
   <4>1. PICK j \in DOMAIN Header(l) :
           Opened(l)' /\ Read(l, j)' /\ Header(l)[j].k = "fn_decl" /\ f = ImportedFn(l, Header(l)[j]) BY <4>0
   <4>2. Opened(l) BY <1>1, <2>1, <4>1 DEF Opened
   <4>3. CASE l # next \/ j # c + 1
    <5>1. Read(l, j)
     <6>1. CASE l # next BY <6>1 DEF Read
     <6>2. CASE l = next /\ j # c + 1
      <7>1. j + (n - c) <= n + 1 /\ j \in 1 .. n BY <1>1, <1>4, <2>1, <2>3, <4>1, <6>2 DEF Read, Header
      <7>2. j + (n + 1 - c) <= n + 1 BY <1>3, <1>4, <6>2, <7>1
      <7> QED BY <1>4, <2>3, <6>2, <7>2 DEF Read
     <6> QED BY <4>3, <6>1, <6>2
    <5> QED BY <4>1, <4>2, <5>1 DEF SaidSoFar
   <4>4. CASE l = next /\ j = c + 1 BY <1>5, <4>1, <4>4
   <4> QED BY <4>3, <4>4
  <3> QED BY <2>1, <3>1, <3>2 DEF SaidSoFar, Header, ImportedFn
 <2>6. FunctionsInv'
  <3>1. Functions' = Functions BY <2>1, ProgramOnly
  <3>2. \A f \in Functions : SaidSoFar(f)' => Registered1(f)'
   <4>1. \A f \in Functions : SaidSoFar(f) => Registered1(f) BY <1>1 DEF FunctionsInv, Registered1
   <4> QED BY <1>6, <2>2, <2>5, <4>1
  <3> QED BY <2>2, <3>1, <3>2 DEF FunctionsInv, Registered1
 <2> QED BY <1>1, <2>1, <2>2, <2>4, <2>6, UsesStep
<1> QED BY <1>7, <1>8

LEMMA SkipElementKeeps == ASSUME RegistryInv, SkipElement PROVE RegistryInv'
<1>1. /\ error = "none" /\ phase = "uses" /\ pending # <<>> /\ next \in Nat \ {0}
      /\ program \in Programs /\ UsesInv /\ FunctionsInv /\ NamesInv BY DEF RegistryInv, SkipElement
<1>2. /\ next \in DOMAIN program.uses /\ Use = program.uses[next] /\ Use \in DOMAIN Headers BY <1>1, PendingFacts
<1>3. PICK c \in 0 .. Len(Header(next)) :
        /\ Len(pending) = Len(Header(next)) + 1 - c
        /\ Head(pending) = WithEnd(next)[c + 1]
        /\ Tail(pending) = SubSeq(WithEnd(next), c + 2, Len(Header(next)) + 1) BY <1>1, PendingFacts
<1>4. PICK n \in Nat : n = Len(Header(next)) /\ DOMAIN Header(next) = 1 .. n BY <1>2, WithEndFacts
<1>5. c + 1 \in DOMAIN Header(next) /\ Header(next)[c + 1].k # "fn_decl"
 <2>1. Head(pending).k \notin {"fn_decl", "eof"} BY DEF SkipElement
 <2>2. c # n BY <1>2, <1>3, <1>4, <2>1, WithEndFacts
 <2>3. c + 1 \in DOMAIN Header(next) BY <1>3, <1>4, <2>2
 <2> QED BY <1>2, <1>3, <2>1, <2>3, WithEndFacts
<1>6. /\ pending' = Tail(pending)
      /\ UNCHANGED <<program, phase, next, error, function_types, link_names, bodies,
                     called, global_list, structDefs>> BY DEF SkipElement, registry
<1>7. /\ pending' = SubSeq(WithEnd(next), (c + 1) + 1, n + 1)
      /\ c + 1 \in 0 .. n /\ Len(pending) = n + 1 - c /\ Len(pending') = n - c /\ pending' # <<>>
 <2>1. /\ c + 1 \in 1 .. n /\ pending' = SubSeq(WithEnd(next), (c + 1) + 1, n + 1) BY <1>3, <1>4, <1>5, <1>6
 <2>2. PICK S : WithEnd(next) \in Seq(S) BY <1>2, WithEndFacts
 <2>3. Len(WithEnd(next)) = n + 1 BY <1>2, <1>4, WithEndFacts
 <2>4. Len(pending') = (n + 1) - (c + 1) /\ pending' # <<>>
  <3>1. c + 1 \in 0 .. Len(WithEnd(next)) - 1 BY <2>1, <2>3
  <3> QED BY <2>1, <2>2, <2>3, <3>1, SuffixFacts
 <2> QED BY <1>3, <1>4, <2>1, <2>4
<1>8. UsesInv'
 <2>1. \A l : Opened(l)' => Opened(l) BY <1>1, <1>6 DEF Opened
 <2>2. \A l \in DOMAIN program.uses : Opened(l)' => program.uses[l] \in DOMAIN Headers \ Malformed BY <1>1, <2>1 DEF UsesInv
 <2> QED BY <1>1, <1>2, <1>4, <1>6, <1>7, <2>2 DEF UsesInv, WithEnd, Header
<1>9. ASSUME NEW f \in Functions, SaidSoFar(f)' PROVE SaidSoFar(f)
 <2>1. CASE \E j \in FnPlaces' : ElementDone(j)' /\ f = OwnFn(j)' BY <1>1, <1>6, <2>1 DEF ElementDone
 <2>2. CASE \E l \in DOMAIN program.uses : Opened(l)' /\
              \E j \in DOMAIN Header(l) : Read(l, j)' /\ Header(l)[j].k = "fn_decl"
                                          /\ f = ImportedFn(l, Header(l)[j])
  <3>1. PICK l \in DOMAIN program.uses : Opened(l)' /\
          \E j \in DOMAIN Header(l) : Read(l, j)' /\ Header(l)[j].k = "fn_decl"
                                      /\ f = ImportedFn(l, Header(l)[j]) BY <2>2
  <3>2. PICK j \in DOMAIN Header(l) :
          Opened(l)' /\ Read(l, j)' /\ Header(l)[j].k = "fn_decl" /\ f = ImportedFn(l, Header(l)[j]) BY <3>1
  <3>3. Opened(l) BY <1>1, <1>6, <3>2 DEF Opened
  <3>4. l # next \/ j # c + 1 BY <1>5, <3>2
  <3>5. Read(l, j)
   <4>1. CASE l # next BY <4>1 DEF Read
   <4>2. CASE l = next /\ j # c + 1
    <5>1. j + (n - c) <= n + 1 /\ j \in 1 .. n BY <1>1, <1>4, <1>6, <1>7, <3>2, <4>2 DEF Read, Header
    <5>2. j + (n + 1 - c) <= n + 1 BY <1>3, <1>4, <4>2, <5>1
    <5> QED BY <1>4, <1>7, <4>2, <5>2 DEF Read
   <4> QED BY <3>4, <4>1, <4>2
  <3> QED BY <3>2, <3>3, <3>5 DEF SaidSoFar
 <2> QED BY <1>6, <1>9, <2>1, <2>2 DEF SaidSoFar, Header, ImportedFn
<1>10. FunctionsInv' /\ NamesInv' BY <1>1, <1>6, <1>9, FunctionsStay, NamesStay
<1> QED BY <1>1, <1>6, <1>8, <1>10, UsesStep

LEMMA CloseHeaderKeeps == ASSUME RegistryInv, CloseHeader PROVE RegistryInv'
<1>1. /\ error = "none" /\ phase = "uses" /\ pending # <<>> /\ next \in Nat \ {0}
      /\ program \in Programs /\ UsesInv /\ FunctionsInv /\ NamesInv BY DEF RegistryInv, CloseHeader
<1>2. /\ next \in DOMAIN program.uses /\ Use = program.uses[next] /\ Use \in DOMAIN Headers BY <1>1, PendingFacts
<1>3. PICK c \in 0 .. Len(Header(next)) :
        /\ Len(pending) = Len(Header(next)) + 1 - c
        /\ Head(pending) = WithEnd(next)[c + 1] BY <1>1, PendingFacts
<1>4. PICK n \in Nat : n = Len(Header(next)) /\ DOMAIN Header(next) = 1 .. n BY <1>2, WithEndFacts
<1>5. Len(pending) = 1
 <2>1. Head(pending).k = "eof" BY DEF CloseHeader
 <2>2. c + 1 \notin DOMAIN Header(next) BY <1>2, <1>3, <2>1, WithEndFacts
 <2> QED BY <1>3, <1>4, <2>2
<1>6. /\ pending' = <<>> /\ next' = next + 1 /\ next' \in Nat \ {0}
      /\ UNCHANGED <<program, phase, error, function_types, link_names, bodies,
                     called, global_list, structDefs>> BY <1>1 DEF CloseHeader, registry
<1>7. \A l \in DOMAIN program.uses : l \in Nat BY <1>1, ProgramFacts
<1>8. \A l \in DOMAIN program.uses : Opened(l)' => Opened(l) BY <1>1, <1>6, <1>7 DEF Opened
<1>9. UsesInv' BY <1>1, <1>6, <1>8 DEF UsesInv
<1>10. ASSUME NEW f \in Functions, SaidSoFar(f)' PROVE SaidSoFar(f)
 <2>1. CASE \E j \in FnPlaces' : ElementDone(j)' /\ f = OwnFn(j)' BY <1>1, <1>6, <2>1 DEF ElementDone
 <2>2. CASE \E l \in DOMAIN program.uses : Opened(l)' /\
              \E j \in DOMAIN Header(l) : Header(l)[j].k = "fn_decl"
                                          /\ f = ImportedFn(l, Header(l)[j])
  <3>1. PICK l \in DOMAIN program.uses : Opened(l)' /\
          \E j \in DOMAIN Header(l) : Header(l)[j].k = "fn_decl"
                                      /\ f = ImportedFn(l, Header(l)[j]) BY <2>2
  <3>2. PICK j \in DOMAIN Header(l) : Header(l)[j].k = "fn_decl" /\ f = ImportedFn(l, Header(l)[j]) BY <3>1
  <3>3. Opened(l) BY <1>8, <3>1
  <3>4. Read(l, j)
   <4>1. CASE l # next BY <4>1 DEF Read
   <4>2. CASE l = next
    <5>1. j \in 1 .. n BY <1>4, <4>2
    <5>2. j + 1 <= n + 1 BY <1>4, <5>1
    <5> QED BY <1>4, <1>5, <4>2, <5>2 DEF Read
   <4> QED BY <4>1, <4>2
  <3> QED BY <3>2, <3>3, <3>4 DEF SaidSoFar
 <2> QED BY <1>6, <1>10, <2>1, <2>2 DEF SaidSoFar, Header, ImportedFn
<1>11. FunctionsInv' /\ NamesInv' BY <1>1, <1>6, <1>10, FunctionsStay, NamesStay
<1> QED BY <1>1, <1>6, <1>9, <1>11, UsesStep

-----------------------------------------------------------------------------
(* From pass to pass: what is registered stays, and what the new pass counts as
   handled was handled. *)
LEMMA PassKeeps ==
  ASSUME RegistryInv, error = "none", error' = "none", pending = <<>>, pending' = <<>>,
         phase' \in {"uses", "elements", "bodies", "done", "assembly"}, next' \in Nat \ {0},
         UNCHANGED <<program, registry, called, global_list, structDefs>>,
         \A l \in DOMAIN program.uses : Opened(l)' => Opened(l) /\ \A j : Read(l, j),
         \A j \in DOMAIN program.elements :
           (ElementDone(j)' <=> ElementDone(j)) /\ (j \in Places("fn_def") => (BodyDone(j)' <=> BodyDone(j)))
  PROVE  RegistryInv'
<1>1. /\ UsesInv /\ FunctionsInv /\ GlobalsInv /\ StructsInv /\ BodiesInv /\ NamesInv
      /\ program \in Programs BY DEF RegistryInv
<1>2. \A k : \A j \in Places(k) : j \in DOMAIN program.elements BY DEF Places
<1>3. UNCHANGED <<function_types, link_names, bodies>> BY DEF registry
<1>4. GlobalsInv' /\ StructsInv' /\ BodiesInv' BY <1>1, <1>2, GlobalsStay, StructsStay, BodiesStay
<1>5. NamesInv' BY <1>1, <1>3, NamesStay
<1>6. FunctionsInv'
 <2>1. ASSUME NEW f \in Functions, SaidSoFar(f)' PROVE SaidSoFar(f)
  <3>1. CASE \E j \in FnPlaces' : ElementDone(j)' /\ f = OwnFn(j)'
   <4>1. PICK j \in FnPlaces' : ElementDone(j)' /\ f = OwnFn(j)' BY <3>1
   <4>2. j \in FnPlaces /\ f = OwnFn(j) BY <4>1, ProgramOnly DEF FnPlaces, OwnFn, Own
   <4>3. ElementDone(j) BY <1>2, <4>1, <4>2 DEF FnPlaces
   <4> QED BY <4>2, <4>3 DEF SaidSoFar
  <3>2. CASE \E l \in DOMAIN program.uses : Opened(l)' /\
               \E j \in DOMAIN Header(l) : Header(l)[j].k = "fn_decl" /\ f = ImportedFn(l, Header(l)[j])
   <4>1. PICK l \in DOMAIN program.uses : Opened(l)' /\
           \E j \in DOMAIN Header(l) : Header(l)[j].k = "fn_decl" /\ f = ImportedFn(l, Header(l)[j]) BY <3>2
   <4>2. Opened(l) /\ \A j : Read(l, j) BY <4>1
   <4> QED BY <4>1, <4>2 DEF SaidSoFar
  <3> QED BY <2>1, <3>1, <3>2 DEF SaidSoFar, Header, ImportedFn
 <2> QED BY <1>1, <1>3, <2>1, FunctionsStay
<1>7. UsesInv' BY <1>1 DEF UsesInv
<1> QED BY <1>1, <1>4, <1>5, <1>6, <1>7 DEF RegistryInv

LEMMA NothingPending == ASSUME RegistryInv, error = "none", phase # "uses" PROVE pending = <<>>
BY DEF RegistryInv, UsesInv

LEMMA NextPassKeeps ==
  ASSUME RegistryInv,
         \/ NextPass("uses", "elements", Len(program.uses))
         \/ NextPass("elements", "bodies", Len(program.elements))
         \/ NextPass("bodies", "done", Len(program.elements))
  PROVE  RegistryInv'
<1>1. /\ phase \in {"uses", "elements", "bodies"} /\ pending = <<>> /\ next' = 1
      /\ UNCHANGED <<program, pending, error, registry, called, global_list, structDefs>> BY DEF NextPass
<1>2. error = "none" /\ next \in Nat \ {0} /\ program \in Programs BY <1>1 DEF RegistryInv
<1>3. PICK n \in Nat : n = Len(program.elements) /\ DOMAIN program.elements = 1 .. n BY <1>2, ProgramFacts
<1>4. PICK m \in Nat : m = Len(program.uses) /\ DOMAIN program.uses = 1 .. m BY <1>2, ProgramFacts
<1>5. CASE NextPass("uses", "elements", Len(program.uses))
 <2>1. phase = "uses" /\ phase' = "elements" /\ next > m BY <1>4, <1>5 DEF NextPass
 <2>2. \A l \in DOMAIN program.uses : Opened(l) /\ \A j : Read(l, j) BY <1>2, <1>4, <2>1 DEF Opened, Read
 <2>3. \A j \in DOMAIN program.elements :
         ~ElementDone(j) /\ ~ElementDone(j)' /\ ~BodyDone(j) /\ ~BodyDone(j)' BY <1>1, <1>3, <2>1 DEF ElementDone, BodyDone
 <2> QED BY <1>1, <1>2, <2>1, <2>2, <2>3, PassKeeps
<1>6. CASE NextPass("elements", "bodies", Len(program.elements))
 <2>1. phase = "elements" /\ phase' = "bodies" /\ next > n BY <1>3, <1>6 DEF NextPass
 <2>2. \A l \in DOMAIN program.uses : Opened(l) /\ \A j : Read(l, j) BY <2>1 DEF Opened, Read
 <2>3. \A j \in DOMAIN program.elements :
         ElementDone(j) /\ ElementDone(j)' /\ ~BodyDone(j) /\ ~BodyDone(j)' BY <1>1, <1>2, <1>3, <2>1 DEF ElementDone, BodyDone
 <2> QED BY <1>1, <1>2, <2>1, <2>2, <2>3, PassKeeps
<1>7. CASE NextPass("bodies", "done", Len(program.elements))
 <2>1. phase = "bodies" /\ phase' = "done" /\ next > n BY <1>3, <1>7 DEF NextPass
 <2>2. \A l \in DOMAIN program.uses : Opened(l) /\ \A j : Read(l, j) BY <2>1 DEF Opened, Read
 <2>3. \A j \in DOMAIN program.elements :
         ElementDone(j) /\ ElementDone(j)' /\ BodyDone(j) /\ BodyDone(j)' BY <1>2, <1>3, <2>1 DEF ElementDone, BodyDone
 <2> QED BY <1>1, <1>2, <2>1, <2>2, <2>3, PassKeeps
<1> QED BY <1>5, <1>6, <1>7

(* The second pass handles one element in a step. *)
LEMMA ElementStep ==
  ASSUME RegistryInv, error = "none", phase = "elements", next <= Len(program.elements),
         UNCHANGED <<program, phase, pending, error>>, next' = next + 1
  PROVE  /\ next \in DOMAIN program.elements /\ next' \in Nat \ {0} /\ UsesInv'
         /\ \A k : \A j \in Places(k) : ElementDone(j)' <=> ElementDone(j) \/ j = next
         /\ \A j : ~BodyDone(j) /\ ~BodyDone(j)'
         /\ \A f \in Functions : SaidSoFar(f)' => SaidSoFar(f) \/ (next \in FnPlaces /\ f = OwnFn(next))
<1>1. /\ program \in Programs /\ UsesInv /\ next \in Nat \ {0} /\ pending = <<>> BY NothingPending DEF RegistryInv
<1>2. PICK n \in Nat : n = Len(program.elements) /\ DOMAIN program.elements = 1 .. n BY <1>1, ProgramFacts
<1>3. next \in DOMAIN program.elements /\ next' \in Nat \ {0} BY <1>1, <1>2
<1>4. \A k : \A j \in Places(k) : ElementDone(j)' <=> ElementDone(j) \/ j = next BY <1>1, <1>2 DEF Places, ElementDone
<1>5. UsesInv' BY <1>1 DEF UsesInv, Opened
<1>6. \A j : ~BodyDone(j) /\ ~BodyDone(j)' BY DEF BodyDone
<1>7. ASSUME NEW f \in Functions, SaidSoFar(f)' PROVE SaidSoFar(f) \/ (next \in FnPlaces /\ f = OwnFn(next))
 <2>1. CASE \E j \in FnPlaces' : ElementDone(j)' /\ f = OwnFn(j)'
  <3>1. PICK j \in FnPlaces' : ElementDone(j)' /\ f = OwnFn(j)' BY <2>1
  <3>2. j \in FnPlaces /\ f = OwnFn(j) BY <3>1, ProgramOnly DEF FnPlaces, OwnFn, Own
  <3>3. ElementDone(j) \/ j = next BY <1>4, <3>1, <3>2 DEF FnPlaces
  <3> QED BY <3>2, <3>3 DEF SaidSoFar
 <2>2. CASE \E l \in DOMAIN program.uses :
              \E j \in DOMAIN Header(l) : Header(l)[j].k = "fn_decl" /\ f = ImportedFn(l, Header(l)[j])
  <3>1. \A l : Opened(l) /\ \A j : Read(l, j) BY DEF Opened, Read
  <3> QED BY <2>2, <3>1 DEF SaidSoFar
 <2> QED BY <1>7, <2>1, <2>2 DEF SaidSoFar, Header, ImportedFn
<1> QED BY <1>3, <1>4, <1>5, <1>6, <1>7

(* An element that is not a function leaves the functions alone. *)
LEMMA OtherElementStep ==
  ASSUME RegistryInv, error = "none", phase = "elements", next <= Len(program.elements),
         UNCHANGED <<program, phase, pending, error, called, registry>>, next' = next + 1,
         next \notin FnPlaces, GlobalsInv', StructsInv'
  PROVE  RegistryInv'
<1>1. /\ program \in Programs /\ FunctionsInv /\ BodiesInv /\ NamesInv BY DEF RegistryInv
<1>2. UNCHANGED <<function_types, link_names, bodies>> BY DEF registry
<1>3. \A j : ~BodyDone(j) /\ ~BodyDone(j)' BY ElementStep
<1>4. BodiesInv' BY <1>1, <1>3, BodiesStay
<1>5. \A f \in Functions : SaidSoFar(f)' => SaidSoFar(f) BY ElementStep
<1>6. FunctionsInv' /\ NamesInv' BY <1>1, <1>2, <1>5, FunctionsStay, NamesStay
<1>7. UsesInv' /\ next' \in Nat \ {0} BY ElementStep
<1> QED BY <1>1, <1>4, <1>6, <1>7 DEF RegistryInv

-----------------------------------------------------------------------------
(* register_global: an initializer has a value exactly if it may. *)
LEMMA InitialFound ==
  ASSUME program \in Programs, NEW j \in Places("var")
  PROVE  LET init == program.elements[j].init IN
           /\ Initial(init).error = "none" <=> init = Uninitialized \/ (init # StructInit /\ Evaluable(init))
           /\ init # Uninitialized /\ Initial(init).error = "none" => Initial(init).v = Executed[init]
<1> DEFINE init == program.elements[j].init
<1>1. init \in Expressions \cup {Uninitialized, StructInit} BY PlacesFacts, SourceAssumption
<1> HIDE DEF init
<1>2. CASE init = Uninitialized BY <1>2 DEF Initial, Ok, Uninitialized, init
<1>3. CASE init = StructInit BY <1>3 DEF Initial, Err, Uninitialized, StructInit, init
<1>4. CASE init \in Expressions
 <2>1. init.op \notin {"none", "struct"}
  <3>1. init.op \in Numeric \cup Boolean BY <1>4, ExpressionsAssumption
  <3> QED BY <3>1 DEF Numeric, Boolean, Arith, Compare, Logic
 <2>2. init # Uninitialized /\ init # StructInit BY <2>1 DEF Uninitialized, StructInit
 <2>3. Initial(init) = Static[init] BY <2>1 DEF Initial
 <2>4. Agrees(init) BY <1>4, StaticAgrees
 <2> QED BY <2>2, <2>3, <2>4 DEF Agrees, init
<1> QED BY <1>1, <1>2, <1>3, <1>4

LEMMA RegisterGlobalKeeps == ASSUME RegistryInv, RegisterGlobal PROVE RegistryInv'
<1>1. /\ phase = "elements" /\ next <= Len(program.elements) /\ Element.k = "var" BY DEF RegisterGlobal, Registering
<1>2. /\ error = "none" /\ program \in Programs /\ GlobalsInv /\ StructsInv /\ next \in Nat \ {0} BY <1>1 DEF RegistryInv
<1>3. next \in DOMAIN program.elements BY <1>1, <1>2, ProgramFacts
<1>4. next \in Places("var") /\ next \notin FnPlaces /\ next \notin Places("struct") BY <1>1, <1>3 DEF Places, FnPlaces, Element
<1> DEFINE x == program.elements[next].x
           value == Initial(program.elements[next].init)
<1>5. CASE value.error # "none"
 <2>1. ~Consistent BY <1>2, <1>4, <1>5, InitialFound DEF Consistent
 <2>2. /\ error' # "none" /\ phase' = "done"
       /\ UNCHANGED <<program, next, function_types, link_names>> BY <1>5 DEF RegisterGlobal, Fail, Element, registry
 <2> QED BY <2>1, <2>2, FailKeeps
<1>6. CASE value.error = "none" /\ x \in DOMAIN global_list
 <2>1. PICK j \in Places("var") : ElementDone(j) /\ program.elements[j].x = x BY <1>2, <1>6 DEF GlobalsInv
 <2>2. j # next BY <1>1, <1>2, <2>1 DEF ElementDone
 <2>3. ~Consistent BY <1>4, <2>1, <2>2 DEF Consistent
 <2>4. /\ error' # "none" /\ phase' = "done"
       /\ UNCHANGED <<program, next, function_types, link_names>> BY <1>6 DEF RegisterGlobal, Fail, Element, registry
 <2> QED BY <2>3, <2>4, FailKeeps
<1>7. CASE value.error = "none" /\ x \notin DOMAIN global_list
 <2>1. /\ global_list' = With(global_list, x, value.v) /\ next' = next + 1
       /\ UNCHANGED <<program, phase, pending, error, called, registry, structDefs>>
   BY <1>7 DEF RegisterGlobal, Element, Registered
 <2>2. \A k : \A j \in Places(k) : ElementDone(j)' <=> ElementDone(j) \/ j = next BY <1>1, <1>2, <2>1, ElementStep
 <2>3. \A k : Places(k)' = Places(k) BY <2>1, ProgramOnly
 <2>4. StructsInv' BY <1>2, <1>4, <2>1, <2>2, StructsStay
 <2>5. GlobalsInv'
  <3>1. {l \in Places("var") : ElementDone(l)}' = {l \in Places("var") : ElementDone(l)} \cup {next} BY <1>4, <2>2, <2>3
  <3>2. DOMAIN global_list' = DOMAIN global_list \cup {x} BY <2>1 DEF With
  <3>3. (DOMAIN global_list = {program.elements[j].x : j \in {l \in Places("var") : ElementDone(l)}})'
    BY <1>2, <2>1, <3>1, <3>2 DEF GlobalsInv
  <3>4. \A j \in Places("var") : ElementDone(j) => program.elements[j].x \in DOMAIN global_list BY <1>2 DEF GlobalsInv
  <3>5. (\A i, j \in Places("var") :
           ElementDone(i) /\ ElementDone(j) /\ program.elements[i].x = program.elements[j].x => i = j)'
   <4>1. \A i, j \in Places("var") :
           (ElementDone(i) \/ i = next) /\ (ElementDone(j) \/ j = next)
             /\ program.elements[i].x = program.elements[j].x => i = j BY <1>2, <1>7, <3>4 DEF GlobalsInv
   <4> QED BY <2>1, <2>2, <2>3, <4>1
  <3>6. \A j \in Places("var") : ElementDone(j) \/ j = next =>
          /\ Initial(program.elements[j].init).error = "none"
          /\ global_list'[program.elements[j].x] = Initial(program.elements[j].init).v
   <4> SUFFICES ASSUME NEW j \in Places("var"), ElementDone(j) \/ j = next
                PROVE  /\ Initial(program.elements[j].init).error = "none"
                       /\ global_list'[program.elements[j].x] = Initial(program.elements[j].init).v OBVIOUS
   <4>1. CASE j = next BY <1>7, <2>1, <4>1 DEF With
   <4>2. CASE ElementDone(j)
    <5>1. program.elements[j].x \in DOMAIN global_list /\ program.elements[j].x # x BY <1>7, <3>4, <4>2
    <5>2. global_list'[program.elements[j].x] = global_list[program.elements[j].x] BY <2>1, <5>1 DEF With
    <5> QED BY <1>2, <4>2, <5>2 DEF GlobalsInv
   <4> QED BY <4>1, <4>2
  <3>7. (\A j \in Places("var") : ElementDone(j) =>
           /\ Initial(program.elements[j].init).error = "none"
           /\ global_list[program.elements[j].x] = Initial(program.elements[j].init).v)' BY <2>1, <2>2, <2>3, <3>6 DEF Initial
  <3> QED BY <3>3, <3>5, <3>7 DEF GlobalsInv
 <2> QED BY <1>1, <1>2, <1>4, <2>1, <2>4, <2>5, OtherElementStep
<1> QED BY <1>5, <1>6, <1>7

-----------------------------------------------------------------------------
(* handle_fn_decl and handle_fn_def. *)
LEMMA RegisterStep ==
  ASSUME RegistryInv, error = "none", NEW name, NEW sig,
         [name |-> name, sig |-> sig] \in Functions, DeclError(name, sig) = "none",
         Register(name, sig), UNCHANGED <<program, called>>,
         \A f \in Functions : SaidSoFar(f)' => SaidSoFar(f) \/ f = [name |-> name, sig |-> sig],
         \A j : ~BodyDone(j) /\ ~BodyDone(j)'
  PROVE  NamesInv' /\ FunctionsInv' /\ BodiesInv'
<1>1. /\ NamesInv'
      /\ \A m \in DOMAIN function_types' : [name |-> m, sig |-> function_types'[m]] \in Functions
      /\ \A f \in Functions : Registered1(f) \/ f = [name |-> name, sig |-> sig] => Registered1(f)'
      /\ \A m \in DOMAIN bodies' : bodies'[m] = NoBody \/ (m \in DOMAIN bodies /\ bodies'[m] = bodies[m])
      /\ {link_names[m] : m \in DOMAIN link_names} \subseteq {link_names'[m] : m \in DOMAIN link_names'} BY RegisterKeeps
<1>2. FunctionsInv /\ BodiesInv /\ Functions' = Functions /\ Places("fn_def")' = Places("fn_def") BY ProgramOnly DEF RegistryInv
<1>3. FunctionsInv'
 <2>1. \A f \in Functions : SaidSoFar(f) => Registered1(f) BY <1>2 DEF FunctionsInv, Registered1
 <2>2. \A f \in Functions : SaidSoFar(f)' => Registered1(f)' BY <1>1, <2>1
 <2> QED BY <1>1, <1>2, <2>2 DEF FunctionsInv, Registered1
<1>4. BodiesInv'
 <2>1. \A n \in DOMAIN bodies' :
         \/ bodies'[n] = NoBody
         \/ \E j \in Places("fn_def") : Own(program.elements[j].x) = n /\ bodies'[n] = program.elements[j].n
   BY <1>1, <1>2 DEF BodiesInv
 <2>2. called \subseteq {link_names'[n] : n \in DOMAIN link_names'} BY <1>1, <1>2 DEF BodiesInv
 <2> QED BY <1>2, <2>1, <2>2 DEF BodiesInv, Own
<1> QED BY <1>1, <1>3, <1>4

LEMMA OwnDeclKeeps ==
  ASSUME RegistryInv, phase = "elements", next <= Len(program.elements), next \in FnPlaces,
         HandleFnDecl(Own(Element.x), Element.sig, Registered /\ UNCHANGED <<global_list, structDefs>>)
  PROVE  RegistryInv'
<1>1. error = "none" /\ program \in Programs /\ GlobalsInv /\ StructsInv BY DEF RegistryInv
<1> DEFINE name == Own(Element.x)
           sig == Element.sig
<1>2. OwnFn(next) = [name |-> name, sig |-> sig] /\ OwnFn(next) \in Functions BY FunctionFacts DEF OwnFn, Element
<1>3. next \notin Places("var") /\ next \notin Places("struct") BY DEF FnPlaces, Places
<1>4. CASE DeclError(name, sig) # "none"
 <2>1. ~Consistent BY <1>1, <1>2, <1>4, DeclErrorFound
 <2>2. /\ error' # "none" /\ phase' = "done"
       /\ UNCHANGED <<program, next, function_types, link_names>> BY <1>4 DEF HandleFnDecl, Fail, registry
 <2> QED BY <2>1, <2>2, FailKeeps
<1>5. CASE DeclError(name, sig) = "none"
 <2>1. /\ Register(name, sig) /\ next' = next + 1
       /\ UNCHANGED <<program, phase, pending, error, called, global_list, structDefs>> BY <1>5 DEF HandleFnDecl, Registered
 <2>2. /\ next' \in Nat \ {0} /\ UsesInv'
       /\ \A k : \A j \in Places(k) : ElementDone(j)' <=> ElementDone(j) \/ j = next
       /\ \A j : ~BodyDone(j) /\ ~BodyDone(j)'
       /\ \A f \in Functions : SaidSoFar(f)' => SaidSoFar(f) \/ f = OwnFn(next) BY <1>1, <2>1, ElementStep
 <2>3. GlobalsInv' /\ StructsInv' BY <1>1, <1>3, <2>1, <2>2, GlobalsStay, StructsStay
 <2>4. NamesInv' /\ FunctionsInv' /\ BodiesInv'
  <3> HIDE DEF name, sig
  <3>1. [name |-> name, sig |-> sig] \in Functions BY <1>2
  <3>2. \A f \in Functions : SaidSoFar(f)' => SaidSoFar(f) \/ f = [name |-> name, sig |-> sig] BY <1>2, <2>2
  <3> QED BY <1>1, <1>5, <2>1, <2>2, <3>1, <3>2, RegisterStep
 <2> QED BY <1>1, <2>1, <2>2, <2>3, <2>4 DEF RegistryInv
<1> QED BY <1>4, <1>5

LEMMA RegisterFnDeclKeeps == ASSUME RegistryInv, RegisterFnDecl PROVE RegistryInv'
<1>1. phase = "elements" /\ next <= Len(program.elements) /\ Element.k = "fn_decl" BY DEF RegisterFnDecl, Registering
<1>2. error = "none" /\ program \in Programs /\ next \in Nat \ {0} BY <1>1 DEF RegistryInv
<1>3. next \in FnPlaces BY <1>1, <1>2, ProgramFacts DEF FnPlaces, Places, Element
<1> QED BY <1>1, <1>3, OwnDeclKeeps DEF RegisterFnDecl

LEMMA RegisterFnDefKeeps == ASSUME RegistryInv, RegisterFnDef PROVE RegistryInv'
<1>1. phase = "elements" /\ next <= Len(program.elements) /\ Element.k = "fn_def" BY DEF RegisterFnDef, Registering
<1>2. /\ error = "none" /\ program \in Programs /\ next \in Nat \ {0}
      /\ FunctionsInv /\ GlobalsInv /\ StructsInv /\ BodiesInv /\ NamesInv BY <1>1 DEF RegistryInv
<1>3. next \in FnPlaces BY <1>1, <1>2, ProgramFacts DEF FnPlaces, Places, Element
<1>4. next \notin Places("var") /\ next \notin Places("struct") BY <1>3 DEF FnPlaces, Places
<1>5. OwnFn(next) = [name |-> Own(Element.x), sig |-> Element.sig] /\ OwnFn(next) \in Functions
  BY <1>3, FunctionFacts DEF OwnFn, Element
<1> DEFINE name == Own(Element.x)
           sig == Element.sig
           old == [name |-> name, sig |-> function_types[name]]
<1>6. CASE name \notin DOMAIN function_types BY <1>1, <1>3, <1>6, OwnDeclKeeps DEF RegisterFnDef
<1>7. CASE name \in DOMAIN function_types /\ (sig \in Refused \/ function_types[name] # sig)
 <2>1. ~Consistent
  <3> SUFFICES ASSUME Consistent PROVE FALSE OBVIOUS
  <3>1. sig \notin Refused BY <1>5 DEF Consistent
  <3>2. old \in Functions /\ old.name = name /\ old.sig = function_types[name] BY <1>2, <1>7 DEF FunctionsInv
  <3>3. old = OwnFn(next) BY <1>5, <3>2 DEF Consistent
  <3> QED BY <1>5, <1>7, <3>1, <3>2, <3>3
 <2>2. SignatureError(sig) # "none" BY DEF SignatureError
 <2>3. /\ error' # "none" /\ phase' = "done"
       /\ UNCHANGED <<program, next, function_types, link_names>> BY <1>7, <2>2 DEF RegisterFnDef, Mismatch, Fail, registry
 <2> QED BY <2>1, <2>3, FailKeeps
<1>8. CASE name \in DOMAIN function_types /\ sig \notin Refused /\ function_types[name] = sig
 <2>1. /\ next' = next + 1
       /\ UNCHANGED <<program, phase, pending, error, called, registry, global_list, structDefs>>
   BY <1>8 DEF RegisterFnDef, Mismatch, Registered
 <2>2. /\ next' \in Nat \ {0} /\ UsesInv'
       /\ \A k : \A j \in Places(k) : ElementDone(j)' <=> ElementDone(j) \/ j = next
       /\ \A j : ~BodyDone(j) /\ ~BodyDone(j)'
       /\ \A f \in Functions : SaidSoFar(f)' => SaidSoFar(f) \/ f = OwnFn(next) BY <1>1, <1>2, <2>1, ElementStep
 <2>3. GlobalsInv' /\ StructsInv' /\ BodiesInv' BY <1>2, <1>4, <2>1, <2>2, GlobalsStay, StructsStay, BodiesStay
 <2>4. UNCHANGED <<function_types, link_names>> BY <2>1 DEF registry
 <2>5. NamesInv' BY <1>2, <2>4, NamesStay
 <2>6. FunctionsInv'
  <3>1. Functions' = Functions BY <2>1, ProgramOnly
  <3>2. \A f \in Functions : SaidSoFar(f) \/ f = OwnFn(next) =>
          f.name \in DOMAIN function_types /\ function_types[f.name] = f.sig /\ f.sig \notin Refused
    BY <1>2, <1>5, <1>8 DEF FunctionsInv
  <3> QED BY <1>2, <2>2, <2>4, <3>1, <3>2 DEF FunctionsInv
 <2> QED BY <1>2, <2>1, <2>2, <2>3, <2>5, <2>6 DEF RegistryInv
<1> QED BY <1>6, <1>7, <1>8

-----------------------------------------------------------------------------
(* handle_struct_def. *)
LEMMA InsertedFacts ==
  ASSUME StructsInv, NEW s \in Nat \ {0}
  PROVE  \E n \in Nat, order \in Seq(Nat \ {0}) :
           /\ DOMAIN struct_order = 1 .. n /\ order = InsertedKeys(s)
           /\ \A p, q \in DOMAIN order : order[p] = order[q] => p = q
           /\ {order[p] : p \in DOMAIN order} = DOMAIN struct_types \cup {s}
           /\ s \notin DOMAIN struct_types =>
                /\ DOMAIN order = 1 .. n + 1 /\ order[n + 1] = s
                /\ \A p \in 1 .. n : order[p] = struct_order[p]
<1> DEFINE order == InsertedKeys(s)
<1>1. /\ struct_order \in Seq(Nat \ {0})
      /\ \A p, q \in DOMAIN struct_order : struct_order[p] = struct_order[q] => p = q
      /\ DOMAIN struct_types = {struct_order[p] : p \in DOMAIN struct_order} BY DEF StructsInv
<1>2. PICK n \in Nat : n = Len(struct_order) /\ DOMAIN struct_order = 1 .. n BY <1>1
<1>3. CASE s \in DOMAIN struct_types
 <2>1. order = struct_order BY <1>3 DEF InsertedKeys
 <2> HIDE DEF order
 <2>2. order \in Seq(Nat \ {0}) /\ \A p, q \in DOMAIN order : order[p] = order[q] => p = q BY <1>1, <2>1
 <2>3. {order[p] : p \in DOMAIN order} = DOMAIN struct_types \cup {s} BY <1>1, <1>3, <2>1
 <2> QED BY <1>2, <1>3, <2>2, <2>3 DEF order
<1>4. CASE s \notin DOMAIN struct_types
 <2>1. order = Append(struct_order, s) BY <1>4 DEF InsertedKeys
 <2>2. /\ order \in Seq(Nat \ {0}) /\ Len(order) = n + 1 /\ DOMAIN order = 1 .. n + 1
       /\ order[n + 1] = s /\ \A p \in 1 .. n : order[p] = struct_order[p] BY <1>1, <1>2, <2>1
 <2> HIDE DEF order
 <2>3. \A p \in 1 .. n + 1 : p \in 1 .. n \/ p = n + 1 BY <1>2
 <2>4. \A p \in 1 .. n : struct_order[p] # s BY <1>1, <1>2, <1>4
 <2>5. \A p, q \in DOMAIN order : order[p] = order[q] => p = q BY <1>1, <1>2, <2>2, <2>3, <2>4
 <2>6. {order[p] : p \in DOMAIN order} = {struct_order[p] : p \in 1 .. n} \cup {s}
  <3>1. n + 1 \in 1 .. n + 1 /\ 1 .. n \subseteq 1 .. n + 1 BY <1>2
  <3> QED BY <2>2, <2>3, <3>1
 <2>7. {order[p] : p \in DOMAIN order} = DOMAIN struct_types \cup {s} BY <1>1, <1>2, <2>6
 <2>8. order = InsertedKeys(s) BY DEF order
 <2>9. DOMAIN struct_order = 1 .. n /\ order \in Seq(Nat \ {0}) BY <1>2, <2>2
 <2> QED BY <1>4, <2>2, <2>5, <2>7, <2>8, <2>9
<1> QED BY <1>3, <1>4

LEMMA RegisterStructKeeps == ASSUME RegistryInv, RegisterStruct PROVE RegistryInv'
<1>1. /\ phase = "elements" /\ next <= Len(program.elements) /\ Element.k = "struct" BY DEF RegisterStruct, Registering
<1>2. /\ error = "none" /\ program \in Programs /\ GlobalsInv /\ StructsInv /\ next \in Nat \ {0} BY <1>1 DEF RegistryInv
<1>3. next \in DOMAIN program.elements BY <1>1, <1>2, ProgramFacts
<1>4. next \in Places("struct") /\ next \notin FnPlaces /\ next \notin Places("var") BY <1>1, <1>3 DEF Places, FnPlaces, Element
<1> DEFINE s == program.elements[next].s
           members == program.elements[next].members
<1>5. s \in Nat \ {0} /\ members \in Seq(Dtype) BY <1>1, <1>2, <1>3, SourceAssumption, ProgramsAssumption DEF Element
<1>6. DOMAIN struct_types = {program.elements[j].s : j \in {l \in Places("struct") : l < next}}
 <2>1. {l \in Places("struct") : ElementDone(l)} = {l \in Places("struct") : l < next} BY <1>1 DEF ElementDone
 <2> QED BY <1>2, <2>1 DEF StructsInv
<1>7. CASE ~MembersKnown(members)
 <2>1. PICK m \in StructsIn(members) : m \notin DOMAIN struct_types BY <1>7 DEF MembersKnown
 <2>2. \A l \in Places("struct") : l < next => program.elements[l].s # m BY <1>6, <2>1
 <2>3. ~StructsGrounded BY <1>4, <2>1, <2>2 DEF StructsGrounded
 <2>4. /\ error' # "none" /\ phase' = "done"
       /\ UNCHANGED <<program, next, function_types, link_names>> BY <1>7 DEF RegisterStruct, Fail, Element, registry
 <2> QED BY <2>3, <2>4, FailKeeps
<1>8. CASE MembersKnown(members)
 <2>1. /\ struct_types' = With(struct_types, s, members) /\ struct_order' = InsertedKeys(s)
       /\ next' = next + 1
       /\ UNCHANGED <<program, phase, pending, error, called, registry, global_list>>
   BY <1>8 DEF RegisterStruct, Element, Registered
 <2>2. \A k : \A j \in Places(k) : ElementDone(j)' <=> ElementDone(j) \/ j = next BY <1>1, <1>2, <2>1, ElementStep
 <2>3. \A k : Places(k)' = Places(k) BY <2>1, ProgramOnly
 <2>4. GlobalsInv' BY <1>2, <1>4, <2>1, <2>2, GlobalsStay
 <2> HIDE DEF s, members
 <2>5. PICK n \in Nat, order \in Seq(Nat \ {0}) :
          /\ DOMAIN struct_order = 1 .. n /\ order = InsertedKeys(s)
          /\ \A p, q \in DOMAIN order : order[p] = order[q] => p = q
          /\ {order[p] : p \in DOMAIN order} = DOMAIN struct_types \cup {s}
          /\ s \notin DOMAIN struct_types =>
               /\ DOMAIN order = 1 .. n + 1 /\ order[n + 1] = s
               /\ \A p \in 1 .. n : order[p] = struct_order[p] BY <1>2, <1>5, InsertedFacts
 <2>6. /\ struct_order' \in Seq(Nat \ {0})
       /\ \A p, q \in DOMAIN struct_order' : struct_order'[p] = struct_order'[q] => p = q
       /\ {struct_order'[p] : p \in DOMAIN struct_order'} = DOMAIN struct_types \cup {s}
       /\ s \notin DOMAIN struct_types =>
            /\ DOMAIN struct_order' = 1 .. n + 1 /\ struct_order'[n + 1] = s
            /\ \A p \in 1 .. n : struct_order'[p] = struct_order[p] BY <2>1, <2>5
 <2>7. /\ DOMAIN struct_types' = DOMAIN struct_types \cup {s}
       /\ struct_types'[s] = members
       /\ \A m \in DOMAIN struct_types : m # s => struct_types'[m] = struct_types[m] BY <2>1 DEF With
 <2>8. StructsInv'
  <3>1. (DOMAIN struct_types = {program.elements[j].s : j \in {l \in Places("struct") : ElementDone(l)}})'
   <4>1. {l \in Places("struct") : ElementDone(l)}' = {l \in Places("struct") : ElementDone(l)} \cup {next} BY <1>4, <2>2, <2>3
   <4>2. DOMAIN struct_types = {program.elements[j].s : j \in {l \in Places("struct") : ElementDone(l)}} BY <1>2 DEF StructsInv
   <4> QED BY <2>1, <2>7, <4>1, <4>2 DEF s
  <3>2. \A m \in DOMAIN struct_types' : struct_types'[m] \in Seq(Dtype) BY <1>2, <1>5, <2>7 DEF StructsInv
  <3>3. \A j \in Places("struct") : ElementDone(j) \/ j = next =>
          \A m \in StructsIn(program.elements[j].members) :
            \E l \in Places("struct") : l < j /\ program.elements[l].s = m
   <4>1. \A m \in StructsIn(members) : m \in DOMAIN struct_types BY <1>8 DEF MembersKnown
   <4>2. \A m \in StructsIn(members) :
           \E l \in Places("struct") : l < next /\ program.elements[l].s = m BY <1>6, <4>1
   <4>3. \A j \in Places("struct") : ElementDone(j) =>
           \A m \in StructsIn(program.elements[j].members) :
             \E l \in Places("struct") : l < j /\ program.elements[l].s = m BY <1>2 DEF StructsInv
   <4> QED BY <4>2, <4>3 DEF members
  <3>4. (\A j \in Places("struct") : ElementDone(j) =>
           \A m \in StructsIn(program.elements[j].members) :
             \E l \in Places("struct") : l < j /\ program.elements[l].s = m)' BY <2>1, <2>2, <2>3, <3>3 DEF StructsIn
  <3>5. ASSUME NoStructTwice
        PROVE  \A p \in DOMAIN struct_order' : \A m \in StructsIn(struct_types'[struct_order'[p]]) :
                 \E q \in DOMAIN struct_order' : q < p /\ struct_order'[q] = m
   <4>1. s \notin DOMAIN struct_types
    <5> SUFFICES ASSUME s \in DOMAIN struct_types PROVE FALSE OBVIOUS
    <5>1. PICK l \in Places("struct") : l < next /\ program.elements[l].s = s BY <1>6
    <5>2. l = next BY <1>4, <3>5, <5>1 DEF NoStructTwice, s
    <5> QED BY <1>2, <5>1, <5>2
   <4>0. DOMAIN struct_order' = 1 .. n + 1 BY <2>6, <4>1
   <4>2. SUFFICES ASSUME NEW p \in 1 .. n + 1, NEW m \in StructsIn(struct_types'[struct_order'[p]])
                  PROVE  \E q \in 1 .. n + 1 : q < p /\ struct_order'[q] = m BY <4>0
   <4>3. DOMAIN struct_types = {struct_order[q] : q \in 1 .. n} BY <1>2, <2>5 DEF StructsInv
   <4>4. CASE p \in 1 .. n
    <5>1. struct_order'[p] = struct_order[p] /\ struct_order[p] \in DOMAIN struct_types BY <2>6, <4>1, <4>3, <4>4
    <5>2. m \in StructsIn(struct_types[struct_order[p]]) BY <2>7, <4>1, <4>2, <5>1
    <5>3. PICK q \in 1 .. n : q < p /\ struct_order[q] = m
     <6>1. \A i \in DOMAIN struct_order : \A b \in StructsIn(struct_types[struct_order[i]]) :
             \E q \in DOMAIN struct_order : q < i /\ struct_order[q] = b BY <1>2, <3>5 DEF StructsInv
     <6>2. p \in DOMAIN struct_order BY <2>5, <4>4
     <6>3. \E q \in DOMAIN struct_order : q < p /\ struct_order[q] = m BY <5>2, <6>1, <6>2
     <6> QED BY <2>5, <6>3
    <5>4. q \in 1 .. n + 1 /\ struct_order'[q] = m BY <2>6, <4>1, <5>3
    <5> QED BY <5>3, <5>4
   <4>5. CASE p = n + 1
    <5>1. m \in DOMAIN struct_types BY <1>8, <2>6, <2>7, <4>1, <4>2, <4>5 DEF MembersKnown
    <5>2. PICK q \in 1 .. n : struct_order[q] = m BY <4>3, <5>1
    <5>3. q \in 1 .. n + 1 /\ q < p /\ struct_order'[q] = m BY <2>6, <4>1, <4>5, <5>2
    <5> QED BY <5>3
   <4>6. p \in 1 .. n \/ p = n + 1 BY <4>2
   <4> QED BY <4>4, <4>5, <4>6
  <3>6. (NoStructTwice =>
           \A p \in DOMAIN struct_order : \A m \in StructsIn(struct_types[struct_order[p]]) :
             \E q \in DOMAIN struct_order : q < p /\ struct_order[q] = m)'
   <4>1. NoStructTwice' = NoStructTwice BY <2>1, ProgramOnly
   <4> QED BY <3>5, <4>1 DEF StructsIn
  <3>7. DOMAIN struct_types' = {struct_order'[p] : p \in DOMAIN struct_order'} BY <2>6, <2>7
  <3> QED BY <2>6, <3>1, <3>2, <3>4, <3>6, <3>7 DEF StructsInv
 <2> QED BY <1>1, <1>2, <1>4, <2>1, <2>4, <2>8, OtherElementStep
<1> QED BY <1>7, <1>8

-----------------------------------------------------------------------------
(* The third pass: every function that is called is there. *)
LEMMA GenerateBodyKeeps == ASSUME RegistryInv, GenerateBody PROVE RegistryInv'
<1>1. /\ phase = "bodies" /\ next <= Len(program.elements)
      /\ UNCHANGED <<program, pending, function_types, link_names, global_list, structDefs>> BY DEF GenerateBody
<1>2. /\ error = "none" /\ program \in Programs /\ next \in Nat \ {0} /\ pending = <<>>
      /\ UsesInv /\ FunctionsInv /\ GlobalsInv /\ StructsInv /\ BodiesInv /\ NamesInv BY <1>1, NothingPending DEF RegistryInv
<1>3. next \in DOMAIN program.elements BY <1>1, <1>2, ProgramFacts
<1>4. \A l \in DOMAIN program.uses : Opened(l) /\ \A j : Read(l, j) BY <1>1 DEF Opened, Read
<1>5. \A f \in Functions : f.name \in DOMAIN function_types BY <1>1, <1>2, AllSaid DEF FunctionsInv
<1>6. CASE Element.k # "fn_def"
 <2>1. next' = next + 1 /\ phase' = phase /\ error' = error /\ UNCHANGED <<registry, called>>
   BY <1>1, <1>6 DEF GenerateBody, registry
 <2>2. next \notin Places("fn_def") BY <1>6 DEF Places, Element
 <2>3. \A j \in DOMAIN program.elements :
         /\ ElementDone(j) /\ ElementDone(j)'
         /\ j \in Places("fn_def") => (BodyDone(j)' <=> BodyDone(j))
   BY <1>1, <1>2, <2>1, <2>2, ProgramFacts DEF ElementDone, BodyDone
 <2> QED BY <1>1, <1>2, <1>4, <2>1, <2>3, PassKeeps
<1>7. CASE Element.k = "fn_def" /\ \E n \in Element.calls : n \notin DOMAIN function_types
 <2>1. next \in Places("fn_def") BY <1>3, <1>7 DEF Places, Element
 <2>2. ~Consistent BY <1>5, <1>7, <2>1 DEF Consistent, Element
 <2>3. error' # "none" /\ phase' = "done" /\ next' = next BY <1>7 DEF GenerateBody
 <2> QED BY <1>1, <2>2, <2>3, FailKeeps
<1>8. CASE Element.k = "fn_def" /\ \A n \in Element.calls : n \in DOMAIN function_types
 <2>1. next \in Places("fn_def") BY <1>3, <1>8 DEF Places, Element
 <2> DEFINE e == program.elements[next]
            x == Own(e.x)
 <2>2. /\ bodies' = With(bodies, x, e.n) /\ called' = called \cup {link_names[n] : n \in e.calls}
       /\ next' = next + 1 /\ next' \in Nat \ {0} /\ error' = error /\ phase' = phase
   BY <1>2, <1>8 DEF GenerateBody, Attach, Element
 <2>3. /\ \A k : Places(k)' = Places(k)
       /\ \A j \in DOMAIN program.elements : ElementDone(j) /\ ElementDone(j)'
       /\ \A j \in DOMAIN program.elements : BodyDone(j)' <=> BodyDone(j) \/ j = next
   BY <1>1, <1>2, <2>2, ProgramOnly, ProgramFacts DEF ElementDone, BodyDone
 <2>4. \A k : \A j \in Places(k) : j \in DOMAIN program.elements BY DEF Places
 <2>5. GlobalsInv' /\ StructsInv' BY <1>1, <1>2, <2>3, <2>4, GlobalsStay, StructsStay
 <2>6. NamesInv' BY <1>1, <1>2, NamesStay
 <2>7. FunctionsInv'
  <3>1. \A f \in Functions : SaidSoFar(f) BY <1>1, AllSaid
  <3> QED BY <1>1, <1>2, <3>1, FunctionsStay
 <2>8. UsesInv' BY <1>1, <1>2, <2>2 DEF UsesInv, Opened
 <2>9. BodiesInv'
  <3>1. /\ DOMAIN bodies' = DOMAIN bodies \cup {x} /\ bodies'[x] = e.n
        /\ \A n \in DOMAIN bodies : n # x => bodies'[n] = bodies[n] BY <2>2 DEF With
  <3> HIDE DEF x
  <3>2. \A n \in DOMAIN bodies' :
          \/ bodies'[n] = NoBody
          \/ \E j \in Places("fn_def") : Own(program.elements[j].x) = n /\ bodies'[n] = program.elements[j].n
   <4> SUFFICES ASSUME NEW n \in DOMAIN bodies'
                PROVE  \/ bodies'[n] = NoBody
                       \/ \E j \in Places("fn_def") :
                            Own(program.elements[j].x) = n /\ bodies'[n] = program.elements[j].n OBVIOUS
   <4>1. CASE n = x BY <2>1, <3>1, <4>1 DEF x
   <4>2. CASE n # x BY <1>2, <3>1, <4>2 DEF BodiesInv
   <4> QED BY <4>1, <4>2
  <3>3. \A j \in Places("fn_def") : BodyDone(j) \/ j = next =>
          /\ program.elements[j].calls \subseteq DOMAIN function_types
          /\ Own(program.elements[j].x) \in DOMAIN bodies'
          /\ \E i \in Places("fn_def") :
               /\ Own(program.elements[i].x) = Own(program.elements[j].x)
               /\ bodies'[Own(program.elements[j].x)] = program.elements[i].n
   <4> SUFFICES ASSUME NEW j \in Places("fn_def"), BodyDone(j) \/ j = next
                PROVE  /\ program.elements[j].calls \subseteq DOMAIN function_types
                       /\ Own(program.elements[j].x) \in DOMAIN bodies'
                       /\ \E i \in Places("fn_def") :
                            /\ Own(program.elements[i].x) = Own(program.elements[j].x)
                            /\ bodies'[Own(program.elements[j].x)] = program.elements[i].n OBVIOUS
   <4>1. program.elements[j].calls \subseteq DOMAIN function_types BY <1>2, <1>8 DEF BodiesInv, Element
   <4>2. CASE Own(program.elements[j].x) = x BY <2>1, <3>1, <4>1, <4>2 DEF x
   <4>3. CASE Own(program.elements[j].x) # x
    <5>1. BodyDone(j) BY <4>3 DEF x
    <5>2. PICK i \in Places("fn_def") :
            /\ Own(program.elements[i].x) = Own(program.elements[j].x)
            /\ bodies[Own(program.elements[j].x)] = program.elements[i].n BY <1>2, <5>1 DEF BodiesInv
    <5>3. /\ Own(program.elements[j].x) \in DOMAIN bodies'
          /\ bodies'[Own(program.elements[j].x)] = bodies[Own(program.elements[j].x)] BY <1>2, <3>1, <4>3, <5>1 DEF BodiesInv
    <5> QED BY <4>1, <5>2, <5>3
   <4> QED BY <4>2, <4>3
  <3>4. called' \subseteq {link_names[n] : n \in DOMAIN link_names} BY <1>2, <1>8, <2>2 DEF BodiesInv, NamesInv, Element
  <3>5. (\A j \in Places("fn_def") : BodyDone(j) =>
           /\ program.elements[j].calls \subseteq DOMAIN function_types
           /\ Own(program.elements[j].x) \in DOMAIN bodies
           /\ \E i \in Places("fn_def") :
                /\ Own(program.elements[i].x) = Own(program.elements[j].x)
                /\ bodies[Own(program.elements[j].x)] = program.elements[i].n)' BY <1>1, <2>3, <2>4, <3>3 DEF Own
  <3> QED BY <1>1, <2>3, <3>2, <3>4, <3>5 DEF BodiesInv, Own
 <2> QED BY <1>1, <1>2, <2>2, <2>5, <2>6, <2>7, <2>8, <2>9 DEF RegistryInv
<1> QED BY <1>6, <1>7, <1>8

-----------------------------------------------------------------------------
(* From the registry to the layouts: a struct has the number of its place. *)
LEMMA PositionFacts ==
  ASSUME StructsInv
  PROVE  /\ \A s : Position(s) \in Nat \ {0}
         /\ \A s \in DOMAIN struct_types : Position(s) \in DOMAIN struct_order
         /\ \A q \in DOMAIN struct_order : Position(struct_order[q]) = q
<1>1. /\ struct_order \in Seq(Nat \ {0})
      /\ \A p, q \in DOMAIN struct_order : struct_order[p] = struct_order[q] => p = q
      /\ DOMAIN struct_types = {struct_order[p] : p \in DOMAIN struct_order} BY DEF StructsInv
<1>2. PICK n \in Nat : n = Len(struct_order) /\ DOMAIN struct_order = 1 .. n BY <1>1
<1>3. \A s \in DOMAIN struct_types :
        Position(s) \in DOMAIN struct_order /\ struct_order[Position(s)] = s BY <1>1 DEF Position
<1>4. \A s : Position(s) \in Nat \ {0}
 <2> TAKE s
 <2>1. CASE s \in DOMAIN struct_types BY <1>2, <1>3, <2>1
 <2>2. CASE s \notin DOMAIN struct_types BY <1>2, <2>2 DEF Position
 <2> QED BY <2>1, <2>2
<1>5. \A q \in DOMAIN struct_order : Position(struct_order[q]) = q BY <1>1, <1>3
<1> QED BY <1>3, <1>4, <1>5

LEMMA NumberedType ==
  ASSUME StructsInv
  PROVE  /\ \A d \in Dtype : Numbered(d) \in Dtype
         /\ \A ds \in Seq(Dtype) : AllNumbered(ds) \in Seq(Dtype) /\ DOMAIN AllNumbered(ds) = DOMAIN ds
<1>1. \A d \in Dtype : Numbered(d) \in Dtype
 <2> TAKE d \in Dtype
 <2>1. CASE d.base \in Scalars BY <2>1 DEF Numbered
 <2>2. CASE d.base \notin Scalars
  <3>1. Position(d.base) \in Nat \ {0} BY PositionFacts
  <3>2. Numbered(d) = [d EXCEPT !.base = Position(d.base)] BY <2>2 DEF Numbered
  <3> QED BY <3>1, <3>2 DEF Dtype
 <2> QED BY <2>1, <2>2
<1>2. ASSUME NEW ds \in Seq(Dtype) PROVE AllNumbered(ds) \in Seq(Dtype) /\ DOMAIN AllNumbered(ds) = DOMAIN ds
 <2>1. \A j \in DOMAIN ds : ds[j] \in Dtype OBVIOUS
 <2>2. PICK n \in Nat : DOMAIN ds = 1 .. n OBVIOUS
 <2>3. AllNumbered(ds) = [j \in 1 .. n |-> Numbered(ds[j])] BY <2>2 DEF AllNumbered
 <2> QED BY <1>1, <2>1, <2>2, <2>3
<1> QED BY <1>1, <1>2

LEMMA GenerateAssemblyKeeps == ASSUME DeclInv, GenerateAssembly PROVE DeclInv'
<1>1. /\ phase = "done" /\ error = "none" /\ phase' = "assembly"
      /\ structs' = [p \in DOMAIN struct_order |-> AllNumbered(struct_types[struct_order[p]])]
      /\ allocas' = AllNumbered(program.locals)
      /\ waiting' = DOMAIN program.locals
      /\ spills' = program.spills
      /\ UNCHANGED <<program, next, pending, error, registry, called, global_list, structDefs,
                     layouts, offsets, offset, max_align, failed, frame_size, slots>> BY DEF GenerateAssembly
<1>2. /\ RegistryInv /\ StructsInv /\ program \in Programs /\ pending = <<>> /\ next \in Nat \ {0}
      /\ structs = <<>> /\ layouts = <<>> /\ ~failed
      /\ LayoutInv /\ FrameInv BY <1>1, NothingPending DEF DeclInv, RegistryInv, AssemblyInv
<1>3. RegistryInv'
 <2>1. \A l \in DOMAIN program.uses : Opened(l) /\ \A j : Read(l, j) BY <1>1 DEF Opened, Read
 <2>2. \A j \in DOMAIN program.elements :
         ElementDone(j) /\ ElementDone(j)' /\ BodyDone(j) /\ BodyDone(j)' BY <1>1 DEF ElementDone, BodyDone
 <2> QED BY <1>1, <1>2, <2>1, <2>2, PassKeeps
<1>4. structs' \in Seq(Seq(Dtype))
 <2>1. struct_order \in Seq(Nat \ {0}) BY <1>2 DEF StructsInv
 <2>2. PICK n \in Nat : DOMAIN struct_order = 1 .. n BY <2>1
 <2>3. \A p \in 1 .. n : struct_types[struct_order[p]] \in Seq(Dtype) BY <1>2, <2>2 DEF StructsInv
 <2>4. \A p \in 1 .. n : AllNumbered(struct_types[struct_order[p]]) \in Seq(Dtype) BY <1>2, <2>3, NumberedType
 <2> QED BY <1>1, <2>2, <2>4
<1>5. LayoutInv'
 <2>1. LayoutType /\ offsets = <<>> BY <1>2 DEF LayoutInv, AllLaidOut
 <2>2. LayoutType' BY <1>1, <1>4, <2>1 DEF LayoutType
 <2>3. Len(layouts') = 0 /\ Len(structs') \in Nat BY <1>1, <1>2, <1>4
 <2>4. FinishedSound' BY <1>1, <1>2 DEF FinishedSound
 <2>5. ~AllLaidOut' => PlacedAt(Fields, offsets, offset, max_align)'
  <3> SUFFICES ASSUME ~AllLaidOut' PROVE PlacedAt(Fields, offsets, offset, max_align)' OBVIOUS
  <3>1. 1 \in DOMAIN structs' BY <1>4, <2>3 DEF AllLaidOut
  <3>2. structs'[1] \in Seq(Dtype) /\ Fields' = structs'[1] BY <1>4, <2>3, <3>1 DEF Fields
  <3>3. Len(offsets') = 0 /\ DOMAIN offsets' = {} /\ Len(Fields') \in Nat BY <1>1, <2>1, <3>2
  <3> QED BY <3>3 DEF PlacedAt
 <2> QED BY <1>1, <2>1, <2>2, <2>3, <2>4, <2>5 DEF LayoutInv
<1>6. FrameInv'
 <2>1. SlotsInv' BY <1>1, <1>2 DEF FrameInv, SlotsInv
 <2>2. spills' \in Seq(SpillBytes) /\ \A v \in DOMAIN program.locals : program.locals[v] \in Dtype
   BY <1>1, <1>2, ProgramsAssumption
 <2>3. DOMAIN allocas' = DOMAIN program.locals BY <1>1 DEF AllNumbered
 <2>4. \A v \in waiting' : allocas'[v] \in Dtype BY <1>1, <1>2, <2>2, NumberedType DEF AllNumbered
 <2> QED BY <1>1, <2>1, <2>2, <2>3, <2>4 DEF FrameInv
<1>7. AssemblyInv'
 <2>1. (structs = [p \in DOMAIN struct_order |-> AllNumbered(struct_types[struct_order[p]])])'
   BY <1>1 DEF structDefs, AllNumbered, Numbered, Position
 <2>2. (allocas = AllNumbered(program.locals))' BY <1>1 DEF structDefs, AllNumbered, Numbered, Position
 <2> QED BY <1>1, <1>2, <2>1, <2>2 DEF AssemblyInv
<1> QED BY <1>3, <1>5, <1>6, <1>7 DEF DeclInv

(* A struct is behind those it needs, so no layout is missing. *)
LEMMA LayoutThere ==
  ASSUME DeclInv, phase = "assembly", NoStructTwice
  PROVE  /\ ~AllLaidOut /\ Len(offsets) < Len(Fields) => HasLayout(Field)
         /\ AllLaidOut /\ LocalsKnown => \A v \in waiting : HasLayout(allocas[v])
<1>1. /\ StructsInv /\ LayoutInv /\ FrameInv /\ LayoutType
      /\ structs = [p \in DOMAIN struct_order |-> AllNumbered(struct_types[struct_order[p]])]
      /\ allocas = AllNumbered(program.locals) BY DEF DeclInv, RegistryInv, AssemblyInv, LayoutInv
<1>2. DOMAIN structs = DOMAIN struct_order BY <1>1
<1>3. PICK n, m \in Nat : /\ n = Len(layouts) /\ DOMAIN layouts = 1 .. n
                          /\ m = Len(structs) /\ DOMAIN structs = 1 .. m BY <1>1, LayoutLengths
<1>4. \A d \in Dtype : (d.base \notin Scalars => Position(d.base) \in DOMAIN layouts)
                         => HasLayout(Numbered(d))
 <2> SUFFICES ASSUME NEW d \in Dtype, d.base \notin Scalars => Position(d.base) \in DOMAIN layouts
              PROVE  HasLayout(Numbered(d)) OBVIOUS
 <2>1. CASE d.base \in Scalars BY <2>1 DEF Numbered, HasLayout
 <2>2. CASE d.base \notin Scalars
  <3>1. Numbered(d) = [d EXCEPT !.base = Position(d.base)] BY <2>2 DEF Numbered
  <3>2. Numbered(d).base = Position(d.base) BY <3>1 DEF Dtype
  <3> QED BY <2>2, <3>2 DEF HasLayout
 <2> QED BY <2>1, <2>2
<1>5. ASSUME ~AllLaidOut, Len(offsets) < Len(Fields) PROVE HasLayout(Field)
 <2>1. n < m BY <1>1, <1>3, <1>5, MoreStructs DEF LayoutInv
 <2>2. n + 1 \in DOMAIN struct_order BY <1>2, <1>3, <2>1
 <2> DEFINE members == struct_types[struct_order[n + 1]]
 <2>3. members \in Seq(Dtype) BY <1>1, <2>2 DEF StructsInv
 <2>4. Fields = AllNumbered(members) /\ DOMAIN Fields = DOMAIN members BY <1>1, <1>3, <2>2 DEF Fields, AllNumbered
 <2>5. Fields \in Seq(Dtype) BY <1>1, <1>3, <2>1, FieldTypes
 <2>6. Len(offsets) + 1 \in DOMAIN Fields BY <1>1, <1>5, <2>5, LayoutLengths
 <2>7. PICK i \in DOMAIN members : i = Len(offsets) + 1 BY <2>4, <2>6
 <2>8. Field = Numbered(members[i]) /\ members[i] \in Dtype BY <2>3, <2>4, <2>7 DEF Field, AllNumbered
 <2>9. members[i].base \notin Scalars => Position(members[i].base) \in DOMAIN layouts
  <3> SUFFICES ASSUME members[i].base \notin Scalars PROVE Position(members[i].base) \in DOMAIN layouts OBVIOUS
  <3>1. members[i].base \in Nat \ {0} BY <2>8 DEF Dtype
  <3>2. members[i].base \in StructsIn(members) BY <3>1 DEF StructsIn
  <3>3. \A p \in DOMAIN struct_order : \A b \in StructsIn(struct_types[struct_order[p]]) :
          \E q \in DOMAIN struct_order : q < p /\ struct_order[q] = b BY <1>1 DEF StructsInv
  <3>4. PICK q \in DOMAIN struct_order : q < n + 1 /\ struct_order[q] = members[i].base BY <2>2, <3>2, <3>3
  <3>5. Position(members[i].base) = q BY <1>1, <3>4, PositionFacts
  <3>6. q \in 1 .. n BY <1>2, <1>3, <3>4
  <3> QED BY <1>3, <3>5, <3>6
 <2> QED BY <1>4, <2>8, <2>9
<1>6. ASSUME AllLaidOut, LocalsKnown, NEW v \in waiting PROVE HasLayout(allocas[v])
 <2>1. v \in DOMAIN program.locals /\ allocas[v] = Numbered(program.locals[v]) BY <1>1 DEF FrameInv, AllNumbered
 <2>2. program.locals[v] \in Dtype BY <2>1, ProgramsAssumption DEF DeclInv, RegistryInv
 <2>3. program.locals[v].base \notin Scalars => Position(program.locals[v].base) \in DOMAIN layouts
  <3> SUFFICES ASSUME program.locals[v].base \notin Scalars
               PROVE  Position(program.locals[v].base) \in DOMAIN layouts OBVIOUS
  <3>1. program.locals[v].base \in Nat \ {0} BY <2>2 DEF Dtype
  <3>2. program.locals[v].base \in StructsIn(program.locals) BY <2>1, <3>1 DEF StructsIn
  <3>3. Position(program.locals[v].base) \in DOMAIN struct_order BY <1>1, <1>6, <3>2, PositionFacts DEF LocalsKnown
  <3>4. n = m BY <1>3, <1>6 DEF AllLaidOut
  <3> QED BY <1>2, <1>3, <3>3, <3>4
 <2> QED BY <1>4, <2>1, <2>2, <2>3
<1> QED BY <1>5, <1>6

LEMMA RegistryStays == ASSUME RegistryInv, UNCHANGED registrationVars PROVE RegistryInv'
<1>0. /\ program' = program /\ phase' = phase /\ next' = next /\ pending' = pending /\ error' = error
      /\ UNCHANGED <<function_types, link_names, bodies, called, global_list, struct_types, struct_order>>
  BY DEF registrationVars, registry, structDefs
<1>1. UNCHANGED <<registry, structDefs>> BY <1>0 DEF registry, structDefs
<1>2. /\ \A j : (ElementDone(j)' <=> ElementDone(j)) /\ (BodyDone(j)' <=> BodyDone(j))
      /\ Functions' = Functions BY <1>0, ProgramOnly DEF ElementDone, BodyDone
<1>3. GlobalsInv => GlobalsInv' BY <1>0, <1>2, GlobalsStay
<1>4. StructsInv => StructsInv' BY <1>0, <1>1, <1>2, StructsStay
<1>5. BodiesInv => BodiesInv' BY <1>0, <1>1, <1>2, BodiesStay
<1>6. FunctionsInv => FunctionsInv'
 <2>1. \A f \in Functions : SaidSoFar(f)' => SaidSoFar(f)
  <3>1. FnPlaces' = FnPlaces /\ \A j : OwnFn(j)' = OwnFn(j) BY <1>0, ProgramOnly DEF FnPlaces, OwnFn, Own
  <3>2. \A l : (Opened(l)' <=> Opened(l)) /\ \A j : Read(l, j)' <=> Read(l, j) BY <1>0 DEF Opened, Read, Header
  <3> QED BY <1>0, <1>2, <3>1, <3>2 DEF SaidSoFar, Header, ImportedFn
 <2> QED BY <1>0, <2>1, FunctionsStay
<1>7. UsesInv => UsesInv' BY <1>0 DEF UsesInv, Opened, Header
<1>8. NamesInv' BY <1>0, NamesStay DEF RegistryInv
<1>9. Consistent' = Consistent /\ StructsGrounded' = StructsGrounded BY <1>0, ProgramOnly
<1> QED BY <1>0, <1>3, <1>4, <1>5, <1>6, <1>7, <1>8, <1>9 DEF RegistryInv

LEMMA FrameStepAssembly == ASSUME DeclInv, FrameNext, UNCHANGED registrationVars PROVE DeclInv'
<1>1. /\ program' = program /\ phase' = phase /\ next' = next /\ pending' = pending /\ error' = error
      /\ UNCHANGED <<function_types, link_names, bodies, called, global_list, struct_types, struct_order>>
  BY DEF registrationVars, registry, structDefs
<1>2. RegistryInv' BY RegistryStays DEF DeclInv
<1>3. LayoutInv' /\ FrameInv' BY FrameStepKeeps DEF DeclInv
<1>4. LayoutInv /\ LayoutType BY DEF DeclInv, LayoutInv
<1>5. AssemblyInv'
 <2>1. CASE phase # "assembly"
  <3>1. structs = <<>> /\ layouts = <<>> /\ waiting = {} /\ spills = <<>> /\ ~failed BY <2>1 DEF DeclInv, AssemblyInv
  <3>2. AllLaidOut BY <3>1 DEF AllLaidOut
  <3>3. FALSE BY <3>1, <3>2 DEF FrameNext, LayoutNext, PlaceField, FinishStruct, AllocAlloca, AllocSpill
  <3> QED BY <3>3
 <2>2. CASE phase = "assembly"
  <3>1. structs' = structs /\ allocas' = allocas
    BY DEF FrameNext, LayoutNext, PlaceField, FinishStruct, AllocAlloca, AllocSpill, layoutVars, frameVars
  <3>2. NoStructTwice /\ LocalsKnown => ~failed'
   <4> SUFFICES ASSUME NoStructTwice, LocalsKnown PROVE ~failed' OBVIOUS
   <4>1. ~failed BY <2>2 DEF DeclInv, AssemblyInv
   <4>2. CASE PlaceField
    <5>1. HasLayout(Field) BY <2>2, <4>2, LayoutThere DEF PlaceField
    <5> QED BY <4>1, <4>2, <5>1 DEF PlaceField
   <4>3. CASE FinishStruct BY <4>1, <4>3 DEF FinishStruct
   <4>4. CASE AllocAlloca
    <5>1. \A v \in waiting : HasLayout(allocas[v]) BY <2>2, <4>4, LayoutThere DEF AllocAlloca
    <5> QED BY <4>1, <4>4, <5>1 DEF AllocAlloca
   <4>5. CASE AllocSpill BY <4>1, <4>5 DEF AllocSpill, layoutVars
   <4> QED BY <4>2, <4>3, <4>4, <4>5 DEF FrameNext, LayoutNext
  <3>3. NoStructTwice' = NoStructTwice /\ LocalsKnown' = LocalsKnown BY <1>1, ProgramOnly DEF LocalsKnown, StructsIn
  <3>4. /\ error = "none" /\ allocas = AllNumbered(program.locals)
        /\ structs = [p \in DOMAIN struct_order |-> AllNumbered(struct_types[struct_order[p]])] BY <2>2 DEF DeclInv, AssemblyInv
  <3>5. (structs = [p \in DOMAIN struct_order |-> AllNumbered(struct_types[struct_order[p]])])'
    BY <1>1, <3>1, <3>4 DEF AllNumbered, Numbered, Position
  <3>6. (allocas = AllNumbered(program.locals))' BY <1>1, <3>1, <3>4 DEF AllNumbered, Numbered, Position
  <3> QED BY <1>1, <2>2, <3>2, <3>3, <3>4, <3>5, <3>6 DEF AssemblyInv
 <2> QED BY <2>1, <2>2
<1> QED BY <1>2, <1>3, <1>5 DEF DeclInv

-----------------------------------------------------------------------------
LEMMA RegistrationStep == ASSUME DeclInv, RegistrationNext, UNCHANGED <<layoutVars, frameVars>> PROVE DeclInv'
<1>1. RegistryInv /\ LayoutInv /\ FrameInv /\ AssemblyInv BY DEF DeclInv
<1>2. RegistryInv'
 <2>1. CASE OpenHeader BY <1>1, <2>1, OpenHeaderKeeps
 <2>2. CASE ImportDecl BY <1>1, <2>2, ImportDeclKeeps
 <2>3. CASE SkipElement BY <1>1, <2>3, SkipElementKeeps
 <2>4. CASE CloseHeader BY <1>1, <2>4, CloseHeaderKeeps
 <2>5. CASE RegisterGlobal BY <1>1, <2>5, RegisterGlobalKeeps
 <2>6. CASE RegisterFnDecl BY <1>1, <2>6, RegisterFnDeclKeeps
 <2>7. CASE RegisterFnDef BY <1>1, <2>7, RegisterFnDefKeeps
 <2>8. CASE RegisterStruct BY <1>1, <2>8, RegisterStructKeeps
 <2>9. CASE GenerateBody BY <1>1, <2>9, GenerateBodyKeeps
 <2>10. CASE \/ NextPass("uses", "elements", Len(program.uses))
             \/ NextPass("elements", "bodies", Len(program.elements))
             \/ NextPass("bodies", "done", Len(program.elements)) BY <1>1, <2>10, NextPassKeeps
 <2> QED BY <2>1, <2>2, <2>3, <2>4, <2>5, <2>6, <2>7, <2>8, <2>9, <2>10 DEF RegistrationNext
<1>3. UNCHANGED <<structs, layouts, offsets, offset, max_align, failed, allocas, waiting, spills,
                  frame_size, slots>> BY DEF layoutVars, frameVars
<1>4. LayoutInv' BY <1>1, <1>3 DEF LayoutInv, LayoutType, FinishedSound, AllLaidOut, Fields, PlacedAt,
                    HasLayout, SizeOf, AlignOf, Base
<1>5. FrameInv' BY <1>1, <1>3 DEF FrameInv, SlotsInv
<1>6. phase # "assembly" /\ phase' # "assembly"
 <2>1. \A name, sig, Go : HandleFnDecl(name, sig, Go) => phase' = "done" \/ Go BY DEF HandleFnDecl, Fail
 <2>2. CASE OpenHeader BY <2>2 DEF OpenHeader, Fail
 <2>3. CASE ImportDecl BY <2>1, <2>3 DEF ImportDecl
 <2>4. CASE SkipElement \/ CloseHeader BY <2>4 DEF SkipElement, CloseHeader
 <2>5. CASE RegisterGlobal \/ RegisterStruct BY <2>5 DEF RegisterGlobal, RegisterStruct, Registering, Registered, Fail
 <2>6. CASE RegisterFnDecl BY <2>1, <2>6 DEF RegisterFnDecl, Registering, Registered
 <2>7. CASE RegisterFnDef BY <2>1, <2>7 DEF RegisterFnDef, Registering, Registered, Fail
 <2>8. CASE GenerateBody BY <2>8 DEF GenerateBody
 <2>9. CASE \/ NextPass("uses", "elements", Len(program.uses))
            \/ NextPass("elements", "bodies", Len(program.elements))
            \/ NextPass("bodies", "done", Len(program.elements)) BY <2>9 DEF NextPass
 <2> QED BY <2>2, <2>3, <2>4, <2>5, <2>6, <2>7, <2>8, <2>9 DEF RegistrationNext
<1>7. AssemblyInv' BY <1>1, <1>3, <1>6 DEF AssemblyInv
<1> QED BY <1>2, <1>4, <1>5, <1>7 DEF DeclInv

LEMMA DeclInvInit == Init => DeclInv
<1> SUFFICES ASSUME Init PROVE DeclInv OBVIOUS
<1>1. /\ program \in Programs /\ phase = "uses" /\ next = 1 /\ pending = <<>> /\ error = "none"
      /\ function_types = <<>> /\ link_names = <<>> /\ bodies = <<>> /\ called = {}
      /\ global_list = <<>> /\ struct_types = <<>> /\ struct_order = <<>>
      /\ structs = <<>> /\ layouts = <<>> /\ offsets = <<>> /\ offset = 0 /\ max_align = 1 /\ failed = FALSE
      /\ allocas = <<>> /\ waiting = {} /\ spills = <<>> /\ frame_size = 0 /\ slots = <<>>
  BY DEF Init, RegistrationInit, FrameInit, LayoutInit
<1>2. DOMAIN function_types = {} /\ DOMAIN link_names = {} /\ DOMAIN bodies = {} /\ DOMAIN global_list = {}
      /\ DOMAIN struct_types = {} /\ DOMAIN struct_order = {} /\ DOMAIN layouts = {} /\ DOMAIN slots = {} BY <1>1
<1>3. \A j : ~ElementDone(j) /\ ~BodyDone(j) BY <1>1 DEF ElementDone, BodyDone
<1>4. \A l \in DOMAIN program.uses : ~Opened(l) BY <1>1, ProgramFacts DEF Opened
<1>5. \A f : ~SaidSoFar(f) BY <1>3, <1>4 DEF SaidSoFar
<1>6. UsesInv /\ FunctionsInv /\ GlobalsInv BY <1>1, <1>2, <1>3, <1>4, <1>5 DEF UsesInv, FunctionsInv, GlobalsInv
<1>7. StructsInv /\ BodiesInv /\ NamesInv BY <1>1, <1>2, <1>3 DEF StructsInv, BodiesInv, NamesInv, SymbolsDistinct
<1>8. RegistryInv BY <1>1, <1>6, <1>7 DEF RegistryInv
<1>9. LayoutInv
 <2>1. Len(layouts) = 0 /\ Len(structs) = 0 BY <1>1
 <2>2. LayoutType
  <3>1. <<>> \in Seq(Seq(Dtype)) /\ <<>> \in Seq(Layout) /\ <<>> \in Seq(Nat) OBVIOUS
  <3> QED BY <1>1, <3>1 DEF LayoutType, Alignments
 <2> QED BY <1>1, <1>2, <2>1, <2>2 DEF LayoutInv, FinishedSound, AllLaidOut
<1>10. FrameInv BY <1>1, <1>2 DEF FrameInv, SlotsInv
<1>11. AssemblyInv BY <1>1 DEF AssemblyInv
<1> QED BY <1>8, <1>9, <1>10, <1>11 DEF DeclInv

LEMMA DeclInvNext == DeclInv /\ [Next]_vars => DeclInv'
<1> SUFFICES ASSUME DeclInv, [Next]_vars PROVE DeclInv' OBVIOUS
<1>1. CASE RegistrationNext /\ UNCHANGED <<layoutVars, frameVars>> BY <1>1, RegistrationStep
<1>2. CASE GenerateAssembly BY <1>2, GenerateAssemblyKeeps
<1>3. CASE FrameNext /\ UNCHANGED registrationVars BY <1>3, FrameStepAssembly
<1>4. CASE UNCHANGED vars
 <2>1. RegistryInv' BY <1>4, RegistryStays DEF vars, DeclInv
 <2>2. UNCHANGED <<structs, layouts, offsets, offset, max_align, failed, allocas, waiting, spills,
                   frame_size, slots>> BY <1>4 DEF vars, layoutVars, frameVars
 <2>3. LayoutInv' BY <2>2 DEF DeclInv, LayoutInv, LayoutType, FinishedSound, AllLaidOut, Fields, PlacedAt,
               HasLayout, SizeOf, AlignOf, Base
 <2>4. FrameInv' BY <2>2 DEF DeclInv, FrameInv, SlotsInv
 <2>5. AssemblyInv'
  <3>1. UNCHANGED <<program, phase, error, struct_types, struct_order>> BY <1>4 DEF vars, registrationVars, structDefs
  <3>2. NoStructTwice' = NoStructTwice /\ LocalsKnown' = LocalsKnown BY <3>1, ProgramOnly DEF LocalsKnown, StructsIn
  <3>3. \A ds : AllNumbered(ds)' = AllNumbered(ds) BY <3>1 DEF AllNumbered, Numbered, Position
  <3>4. AssemblyInv BY DEF DeclInv
  <3>5. CASE phase # "assembly" BY <2>2, <3>1, <3>4, <3>5 DEF AssemblyInv
  <3>6. CASE phase = "assembly"
   <4>1. /\ error = "none" /\ (NoStructTwice /\ LocalsKnown => ~failed)
         /\ structs = [p \in DOMAIN struct_order |-> AllNumbered(struct_types[struct_order[p]])]
         /\ allocas = AllNumbered(program.locals) BY <3>4, <3>6 DEF AssemblyInv
   <4>2. (structs = [p \in DOMAIN struct_order |-> AllNumbered(struct_types[struct_order[p]])])'
     BY <2>2, <3>1, <4>1 DEF AllNumbered, Numbered, Position
   <4>3. (allocas = AllNumbered(program.locals))' BY <2>2, <3>1, <4>1 DEF AllNumbered, Numbered, Position
   <4> QED BY <2>2, <3>1, <3>2, <3>6, <4>1, <4>2, <4>3 DEF AssemblyInv
  <3> QED BY <3>5, <3>6
 <2> QED BY <2>1, <2>3, <2>4, <2>5 DEF DeclInv
<1> QED BY <1>1, <1>2, <1>3, <1>4 DEF Next, Halted

(* What the registry, the layouts and the frame are, in every state. *)
THEOREM DeclarationsInvariant == Spec => []DeclInv
<1>1. Init => DeclInv BY DeclInvInit
<1>2. DeclInv /\ [Next]_vars => DeclInv' BY DeclInvNext
<1> QED BY <1>1, <1>2, PTL DEF Spec

(* The frame of every function, whatever the order of a HashMap: slots are
   apart, inside the frame and aligned for what they hold. *)
THEOREM FramesSound == Spec => []FrameSound
<1>1. DeclInv => FrameSound BY FrameInvMeans DEF DeclInv
<1> QED BY <1>1, DeclarationsInvariant, PTL

(* The layout of every struct: fields are apart and aligned, elements of arrays
   are too, and no struct is missing one unless it was defined twice or is not
   defined. *)
THEOREM LayoutsAreSound == Spec => []LayoutsSound
<1>1. DeclInv => LayoutsSound BY LayoutInvMeans DEF DeclInv, AssemblyInv, LayoutsSound
<1> QED BY <1>1, DeclarationsInvariant, PTL

(* A program is accepted exactly if its elements agree with each other. *)
LEMMA RegistryInvMeans == ASSUME RegistryInv, phase = "done", error = "none" PROVE Consistent /\ StructsGrounded
<1>1. /\ program \in Programs
      /\ UsesInv /\ FunctionsInv /\ GlobalsInv /\ StructsInv /\ BodiesInv /\ NamesInv BY DEF RegistryInv
<1>2. /\ \A j : ElementDone(j) /\ BodyDone(j)
      /\ \A l : Opened(l) BY DEF ElementDone, BodyDone, Opened
<1>3. \A f \in Functions :
        f.name \in DOMAIN function_types /\ function_types[f.name] = f.sig /\ f.sig \notin Refused
  BY <1>1, AllSaid DEF FunctionsInv
<1>4. \A j \in DOMAIN program.uses : program.uses[j] \in DOMAIN Headers \ Malformed BY <1>1, <1>2 DEF UsesInv
<1>5. \A f, g \in Functions : f.name[2] = g.name[2] => f = g
 <2> SUFFICES ASSUME NEW f \in Functions, NEW g \in Functions, f.name[2] = g.name[2] PROVE f = g OBVIOUS
 <2>1. link_names[f.name] = link_names[g.name] /\ f.name \in DOMAIN link_names /\ g.name \in DOMAIN link_names
   BY <1>1, <1>3 DEF NamesInv
 <2>2. f.name = g.name BY <1>1, <2>1 DEF NamesInv, SymbolsDistinct
 <2>3. f.sig = g.sig BY <1>3, <2>2
 <2>4. f = [name |-> f.name, sig |-> f.sig] /\ g = [name |-> g.name, sig |-> g.sig] BY FunctionFacts
 <2> QED BY <2>2, <2>3, <2>4
<1>6. \A i, j \in Places("var") : program.elements[i].x = program.elements[j].x => i = j BY <1>1, <1>2 DEF GlobalsInv
<1>7. \A j \in Places("var") :
        \/ program.elements[j].init = Uninitialized
        \/ program.elements[j].init # StructInit /\ Evaluable(program.elements[j].init)
  BY <1>1, <1>2, InitialFound DEF GlobalsInv
<1>8. \A j \in Places("fn_def") : program.elements[j].calls \subseteq {f.name : f \in Functions}
 <2>1. \A n \in DOMAIN function_types : n \in {f.name : f \in Functions}
  <3> TAKE n \in DOMAIN function_types
  <3>1. [name |-> n, sig |-> function_types[n]] \in Functions BY <1>1 DEF FunctionsInv
  <3>2. [name |-> n, sig |-> function_types[n]].name = n OBVIOUS
  <3> QED BY <3>1, <3>2
 <2>2. \A j \in Places("fn_def") : program.elements[j].calls \subseteq DOMAIN function_types BY <1>1, <1>2 DEF BodiesInv
 <2> QED BY <2>1, <2>2
<1>9. StructsGrounded BY <1>1, <1>2 DEF StructsInv, StructsGrounded
<1> QED BY <1>3, <1>4, <1>5, <1>6, <1>7, <1>8, <1>9 DEF Consistent

(* generate reports an error exactly for the programs whose elements do not
   agree, although it finds out in three passes and one table at a time. *)
THEOREM AcceptedExactly == Spec => []ExactlyConsistent
<1>1. DeclInv => ExactlyConsistent
 <2> SUFFICES ASSUME DeclInv, phase = "done" PROVE error = "none" <=> Consistent /\ StructsGrounded BY DEF ExactlyConsistent
 <2>1. RegistryInv BY DEF DeclInv
 <2> QED BY <2>1, RegistryInvMeans DEF RegistryInv
<1> QED BY <1>1, DeclarationsInvariant, PTL

(* One symbol names one function, defined functions come out with a body of
   theirs, and what they call exists. *)
THEOREM Linkage == Spec => []LinkageSound
<1>1. DeclInv => LinkageSound
 <2> SUFFICES ASSUME DeclInv PROVE LinkageSound OBVIOUS
 <2>1. SymbolsDistinct BY DEF DeclInv, RegistryInv, NamesInv
 <2>2. DefinedAreEmitted
  <3> SUFFICES ASSUME Accepted PROVE DefinedAreEmitted BY DEF DefinedAreEmitted
  <3>1. BodiesInv BY DEF DeclInv, RegistryInv, Accepted
  <3>2. \A j : BodyDone(j) BY DEF BodyDone, Accepted
  <3>3. ASSUME NEW n \in DOMAIN bodies,
               \E j \in Places("fn_def") : Own(program.elements[j].x) = n
        PROVE  \E j \in Places("fn_def") : Own(program.elements[j].x) = n /\ bodies[n] = program.elements[j].n
    BY <3>1, <3>2, <3>3 DEF BodiesInv
  <3>4. ASSUME NEW n \in DOMAIN bodies,
               ~\E j \in Places("fn_def") : Own(program.elements[j].x) = n
        PROVE  bodies[n] = NoBody BY <3>1, <3>4 DEF BodiesInv
  <3>5. called \subseteq {link_names[n] : n \in DOMAIN link_names} BY <3>1 DEF BodiesInv
  <3> QED BY <3>3, <3>4, <3>5 DEF DefinedAreEmitted
 <2> QED BY <2>1, <2>2 DEF LinkageSound
<1> QED BY <1>1, DeclarationsInvariant, PTL

(* A global holds what the generated code would have computed for it: no i32
   operation wraps, and what && and || would skip has no effect. *)
THEOREM GlobalsAsExecuted == Spec => []SameAsExecuted
<1>1. DeclInv => SameAsExecuted
 <2> SUFFICES ASSUME DeclInv, Accepted, NEW j \in Places("var"), program.elements[j].init # Uninitialized
              PROVE  global_list[program.elements[j].x] = Executed[program.elements[j].init] BY DEF SameAsExecuted
 <2>1. GlobalsInv /\ program \in Programs BY DEF DeclInv, RegistryInv, Accepted
 <2>2. ElementDone(j) BY DEF ElementDone, Accepted
 <2> QED BY <2>1, <2>2, InitialFound DEF GlobalsInv
<1> QED BY <1>1, DeclarationsInvariant, PTL
-----------------------------------------------------------------------------
(* align_up to 16: the next multiple, less than 16 away. *)
LEMMA Aligned16 ==
  ASSUME NEW x \in Nat
  PROVE  /\ ((x + 15) \div 16) * 16 \in Nat
         /\ (((x + 15) \div 16) * 16) % 16 = 0
         /\ x <= ((x + 15) \div 16) * 16
         /\ ((x + 15) \div 16) * 16 < x + 16
OBVIOUS

Locations == {Gpr(n) : n \in Nat} \cup {Fpr(n) : n \in Nat} \cup {Stack(8 * n) : n \in Nat}

(* The walk: each cursor is behind everything given out in its kind of place,
   so that the next location is new, and the stack cursor is the end of the
   last slot. *)
WalkTypes ==
  /\ classes \in Seq(Class)
  /\ locs \in Seq(Locations) /\ Len(locs) <= Len(classes)
  /\ ngrn \in 0 .. NumIntArgRegs /\ nsrn \in 0 .. NumFpArgRegs
  /\ stack_off \in Nat /\ \E n \in Nat : stack_off = 8 * n
  /\ stack_off <= 8 * Len(locs)

BelowCursors ==
  \A k \in DOMAIN locs :
    /\ locs[k].kind = "gpr" => classes[k] = "int" /\ locs[k].at < ngrn
    /\ locs[k].kind = "fpr" => classes[k] = "float" /\ locs[k].at < nsrn
    /\ locs[k].kind = "stack" =>
         /\ locs[k].at + SlotBytes <= stack_off
         /\ classes[k] = "int" => ngrn = NumIntArgRegs
         /\ classes[k] = "float" => nsrn = NumFpArgRegs

LastSlotEnds ==
  stack_off # 0 =>
    \E k \in DOMAIN locs : locs[k].kind = "stack" /\ locs[k].at + SlotBytes = stack_off

ClassifyInv == WalkTypes /\ BelowCursors /\ LastSlotEnds /\ LocationsDistinct

LEMMA LocationFacts ==
  ASSUME NEW l \in Locations
  PROVE  /\ l.kind \in {"gpr", "fpr", "stack"} /\ l.at \in Nat
         /\ l.kind = "stack" => l.at % 8 = 0
BY DEF Locations, Gpr, Fpr, Stack

LEMMA StackLocation == ASSUME NEW l \in Locations, l.kind = "stack" PROVE l = Stack(l.at)
BY DEF Locations, Gpr, Fpr, Stack

LEMMA RegisterLocation == ASSUME NEW l \in Locations, l.kind = "gpr" PROVE l = Gpr(l.at)
BY DEF Locations, Gpr, Fpr, Stack

LEMMA PlacedFacts ==
  ASSUME WalkTypes, NEW k \in DOMAIN locs
  PROVE  /\ locs[k] \in Locations
         /\ locs[k].kind \in {"gpr", "fpr", "stack"} /\ locs[k].at \in Nat
         /\ locs[k].kind = "stack" => locs[k].at % 8 = 0
<1>1. locs[k] \in Locations BY ElementType DEF WalkTypes
<1> QED BY <1>1, LocationFacts

(* One argument more, in a place behind its cursor. *)
LEMMA ClassifyStep == ASSUME ClassifyInv, Classify PROVE ClassifyInv'
<1>1. /\ classes \in Seq(Class) /\ locs \in Seq(Locations)
      /\ Len(locs) \in Nat /\ Len(classes) \in Nat /\ Len(locs) + 1 <= Len(classes)
      /\ DOMAIN locs = 1 .. Len(locs)
      /\ ngrn \in 0 .. NumIntArgRegs /\ nsrn \in 0 .. NumFpArgRegs
      /\ stack_off \in Nat /\ stack_off <= 8 * Len(locs)
      /\ NumIntArgRegs \in Nat /\ NumFpArgRegs \in Nat BY ArgumentAssumption DEF ClassifyInv, WalkTypes, Classify, Classified
<1>2. ThisClass \in Class /\ ThisClass = classes[Len(locs) + 1] BY <1>1 DEF ThisClass
<1>3. \A k \in DOMAIN locs : locs[k].at \in Nat BY PlacedFacts DEF ClassifyInv
<1>4. ASSUME NEW l \in Locations, locs' = Append(locs, l)
      PROVE  /\ locs' \in Seq(Locations) /\ Len(locs') = Len(locs) + 1
             /\ DOMAIN locs' = 1 .. Len(locs) + 1
             /\ \A k \in DOMAIN locs : locs'[k] = locs[k]
             /\ locs'[Len(locs) + 1] = l BY <1>1, <1>4, AppendFacts
<1>5. ASSUME NEW l \in Locations, locs' = Append(locs, l), \A k \in DOMAIN locs : locs[k] # l
      PROVE  LocationsDistinct' BY <1>1, <1>4, <1>5 DEF LocationsDistinct, ClassifyInv
<1>6. CASE TakeGpr
 <2> DEFINE l == Gpr(ngrn)
 <2>1. /\ ThisClass = "int" /\ ngrn < NumIntArgRegs /\ locs' = Append(locs, l)
       /\ ngrn' = ngrn + 1 /\ UNCHANGED <<classes, nsrn, stack_off>> BY <1>6 DEF TakeGpr, RegisterFree
 <2>2. l \in Locations /\ l.kind = "gpr" /\ l.at = ngrn BY <1>1 DEF Gpr, Locations
 <2> HIDE DEF l
 <2>3. \A k \in DOMAIN locs : locs[k] # l BY <1>1, <1>3, <2>2 DEF ClassifyInv, BelowCursors
 <2>4. WalkTypes' BY <1>1, <1>4, <2>1, <2>2 DEF WalkTypes, ClassifyInv
 <2>5. BelowCursors'
  <3> SUFFICES ASSUME NEW k \in 1 .. Len(locs) + 1
               PROVE  /\ locs'[k].kind = "gpr" => classes[k] = "int" /\ locs'[k].at < ngrn + 1
                      /\ locs'[k].kind = "fpr" => classes[k] = "float" /\ locs'[k].at < nsrn
                      /\ locs'[k].kind = "stack" =>
                           /\ locs'[k].at + SlotBytes <= stack_off
                           /\ classes[k] = "int" => ngrn + 1 = NumIntArgRegs
                           /\ classes[k] = "float" => nsrn = NumFpArgRegs BY <1>4, <2>1, <2>2 DEF BelowCursors
  <3>1. CASE k = Len(locs) + 1
   <4>1. locs'[k] = l /\ classes[k] = ThisClass BY <1>2, <1>4, <2>1, <2>2, <3>1
   <4> QED BY <1>1, <2>1, <2>2, <4>1
  <3>2. CASE k # Len(locs) + 1
   <4>1. k \in DOMAIN locs /\ locs'[k] = locs[k] /\ locs[k].at \in Nat
    <5>1. k \in DOMAIN locs BY <1>1, <3>2
    <5> QED BY <1>3, <1>4, <2>1, <2>2, <5>1
   <4> QED BY <1>1, <2>1, <4>1 DEF ClassifyInv, BelowCursors
  <3> QED BY <3>1, <3>2
 <2>6. LastSlotEnds' BY <1>1, <1>4, <2>1, <2>2 DEF LastSlotEnds, ClassifyInv
 <2> QED BY <1>5, <2>1, <2>2, <2>3, <2>4, <2>5, <2>6 DEF ClassifyInv
<1>7. CASE TakeFpr
 <2> DEFINE l == Fpr(nsrn)
 <2>1. /\ ThisClass = "float" /\ nsrn < NumFpArgRegs /\ locs' = Append(locs, l)
       /\ nsrn' = nsrn + 1 /\ UNCHANGED <<classes, ngrn, stack_off>> BY <1>7 DEF TakeFpr, RegisterFree
 <2>2. l \in Locations /\ l.kind = "fpr" /\ l.at = nsrn BY <1>1 DEF Fpr, Locations
 <2> HIDE DEF l
 <2>3. \A k \in DOMAIN locs : locs[k] # l BY <1>1, <1>3, <2>2 DEF ClassifyInv, BelowCursors
 <2>4. WalkTypes' BY <1>1, <1>4, <2>1, <2>2 DEF WalkTypes, ClassifyInv
 <2>5. BelowCursors'
  <3> SUFFICES ASSUME NEW k \in 1 .. Len(locs) + 1
               PROVE  /\ locs'[k].kind = "gpr" => classes[k] = "int" /\ locs'[k].at < ngrn
                      /\ locs'[k].kind = "fpr" => classes[k] = "float" /\ locs'[k].at < nsrn + 1
                      /\ locs'[k].kind = "stack" =>
                           /\ locs'[k].at + SlotBytes <= stack_off
                           /\ classes[k] = "int" => ngrn = NumIntArgRegs
                           /\ classes[k] = "float" => nsrn + 1 = NumFpArgRegs BY <1>4, <2>1, <2>2 DEF BelowCursors
  <3>1. CASE k = Len(locs) + 1
   <4>1. locs'[k] = l /\ classes[k] = ThisClass BY <1>2, <1>4, <2>1, <2>2, <3>1
   <4> QED BY <1>1, <2>1, <2>2, <4>1
  <3>2. CASE k # Len(locs) + 1
   <4>1. k \in DOMAIN locs /\ locs'[k] = locs[k] /\ locs[k].at \in Nat
    <5>1. k \in DOMAIN locs BY <1>1, <3>2
    <5> QED BY <1>3, <1>4, <2>1, <2>2, <5>1
   <4> QED BY <1>1, <2>1, <4>1 DEF ClassifyInv, BelowCursors
  <3> QED BY <3>1, <3>2
 <2>6. LastSlotEnds' BY <1>1, <1>4, <2>1, <2>2 DEF LastSlotEnds, ClassifyInv
 <2> QED BY <1>5, <2>1, <2>2, <2>3, <2>4, <2>5, <2>6 DEF ClassifyInv
<1>8. CASE SpillToStack
 <2> DEFINE l == Stack(stack_off)
 <2>1. /\ ThisClass = "int" => ngrn = NumIntArgRegs
       /\ ThisClass # "int" => nsrn = NumFpArgRegs
       /\ locs' = Append(locs, l)
       /\ stack_off' = stack_off + 8 /\ UNCHANGED <<classes, ngrn, nsrn>>
   BY <1>1, <1>8 DEF SpillToStack, RegisterFree, CursorAdvanced, SlotBytes
 <2>2. l \in Locations /\ l.kind = "stack" /\ l.at = stack_off BY DEF Stack, Locations, ClassifyInv, WalkTypes
 <2> HIDE DEF l
 <2>3. \A k \in DOMAIN locs : locs[k] # l BY <1>1, <1>3, <2>2 DEF ClassifyInv, BelowCursors, SlotBytes
 <2>4. WalkTypes'
  <3>1. PICK n \in Nat : stack_off = 8 * n BY DEF ClassifyInv, WalkTypes
  <3>2. stack_off + 8 = 8 * (n + 1) /\ n + 1 \in Nat BY <3>1
  <3>3. stack_off + 8 \in Nat /\ stack_off + 8 <= 8 * (Len(locs) + 1) BY <1>1
  <3> QED BY <1>1, <1>4, <2>1, <2>2, <3>2, <3>3 DEF WalkTypes
 <2>5. BelowCursors'
  <3> SUFFICES ASSUME NEW k \in 1 .. Len(locs) + 1
               PROVE  /\ locs'[k].kind = "gpr" => classes[k] = "int" /\ locs'[k].at < ngrn
                      /\ locs'[k].kind = "fpr" => classes[k] = "float" /\ locs'[k].at < nsrn
                      /\ locs'[k].kind = "stack" =>
                           /\ locs'[k].at + SlotBytes <= stack_off + 8
                           /\ classes[k] = "int" => ngrn = NumIntArgRegs
                           /\ classes[k] = "float" => nsrn = NumFpArgRegs BY <1>4, <2>1, <2>2 DEF BelowCursors
  <3>1. CASE k = Len(locs) + 1 BY <1>1, <1>2, <1>4, <2>1, <2>2, <3>1 DEF SlotBytes
  <3>2. CASE k # Len(locs) + 1
   <4>1. k \in DOMAIN locs /\ locs'[k] = locs[k] /\ locs[k].at \in Nat
    <5>1. k \in DOMAIN locs BY <1>1, <3>2
    <5> QED BY <1>3, <1>4, <2>1, <2>2, <5>1
   <4> QED BY <1>1, <2>1, <4>1 DEF ClassifyInv, BelowCursors, SlotBytes
  <3> QED BY <3>1, <3>2
 <2>6. LastSlotEnds'
  <3>1. Len(locs) + 1 \in DOMAIN locs' BY <1>1, <1>4, <2>1, <2>2
  <3> QED BY <1>4, <2>1, <2>2, <3>1 DEF LastSlotEnds, SlotBytes
 <2> QED BY <1>5, <2>1, <2>2, <2>3, <2>4, <2>5, <2>6 DEF ClassifyInv
<1> QED BY <1>6, <1>7, <1>8 DEF Classify

(* The reserved area is the stack cursor, rounded up. *)
LEMMA OutgoingArea == ASSUME ClassifyInv PROVE OutgoingStackBytes(locs) = ((stack_off + 15) \div 16) * 16
<1>1. /\ locs \in Seq(Locations) /\ stack_off \in Nat
      /\ \A k \in DOMAIN locs : locs[k].at \in Nat BY PlacedFacts DEF ClassifyInv, WalkTypes
<1>2. \A e \in StackEnds(locs) : e \in Nat /\ 8 <= e /\ e <= stack_off
  BY <1>1 DEF StackEnds, ClassifyInv, BelowCursors, SlotBytes
<1>3. BytesNeeded(locs) = stack_off
 <2>1. CASE stack_off = 0 BY <1>2, <2>1 DEF BytesNeeded
 <2>2. CASE stack_off # 0
  <3>1. stack_off \in StackEnds(locs) BY <2>2 DEF ClassifyInv, LastSlotEnds, StackEnds
  <3>2. \A e \in StackEnds(locs) : (\A f \in StackEnds(locs) : f <= e) => e = stack_off BY <1>1, <1>2, <3>1
  <3>3. \E e \in StackEnds(locs) : \A f \in StackEnds(locs) : f <= e BY <1>2, <3>1
  <3> QED BY <3>1, <3>2, <3>3 DEF BytesNeeded
 <2> QED BY <2>1, <2>2
<1> QED BY <1>1, <1>3 DEF OutgoingStackBytes, SpAlignment

LEMMA WalkIsSound == ClassifyInv => LocationsSound
<1> SUFFICES ASSUME ClassifyInv PROVE LocationsSound OBVIOUS
<1>1. /\ locs \in Seq(Locations) /\ stack_off \in Nat
      /\ ngrn \in 0 .. NumIntArgRegs /\ nsrn \in 0 .. NumFpArgRegs BY DEF ClassifyInv, WalkTypes
<1>2. LocationsLegal
 <2> SUFFICES ASSUME NEW k \in DOMAIN locs
              PROVE  \/ locs[k].kind = "gpr" /\ classes[k] = "int" /\ locs[k].at < NumIntArgRegs
                     \/ locs[k].kind = "fpr" /\ classes[k] = "float" /\ locs[k].at < NumFpArgRegs
                     \/ /\ locs[k].kind = "stack" /\ locs[k].at % SlotBytes = 0
                        /\ classes[k] = "int" => ngrn = NumIntArgRegs
                        /\ classes[k] = "float" => nsrn = NumFpArgRegs BY DEF LocationsLegal
 <2>1. /\ locs[k].kind \in {"gpr", "fpr", "stack"} /\ locs[k].at \in Nat
       /\ locs[k].kind = "stack" => locs[k].at % SlotBytes = 0 BY PlacedFacts DEF SlotBytes, ClassifyInv
 <2> QED BY <1>1, <2>1, ArgumentAssumption DEF ClassifyInv, BelowCursors
<1>3. OutgoingAreaFits
 <2>1. \A k \in DOMAIN locs : locs[k].at \in Nat BY PlacedFacts DEF ClassifyInv
 <2>2. \A k \in DOMAIN locs : locs[k].kind = "stack" => locs[k].at + 8 <= stack_off BY DEF ClassifyInv, BelowCursors, SlotBytes
 <2> DEFINE b == ((stack_off + 15) \div 16) * 16
 <2>3. b \in Nat /\ b % 16 = 0 /\ stack_off <= b /\ b < stack_off + 16 BY <1>1, Aligned16
 <2>4. OutgoingStackBytes(locs) = b BY OutgoingArea
 <2> HIDE DEF b
 <2>5. ASSUME NEW k \in DOMAIN locs, locs[k].kind = "stack" PROVE 0 <= locs[k].at /\ locs[k].at + 8 <= b
  <3>1. locs[k].at \in Nat /\ locs[k].at + 8 <= stack_off BY <2>1, <2>2, <2>5
  <3> QED BY <1>1, <2>3, <3>1
 <2> QED BY <2>3, <2>4, <2>5 DEF OutgoingAreaFits, SpAlignment, SlotBytes
<1> QED BY <1>2, <1>3 DEF LocationsSound, ClassifyInv

LEMMA ClassifyInvariant == CallSpec => []ClassifyInv
<1>1. CallInit => ClassifyInv
 <2> SUFFICES ASSUME CallInit PROVE ClassifyInv OBVIOUS
 <2>1. /\ classes \in Seq(Class) /\ ngrn = 0 /\ nsrn = 0 /\ stack_off = 0 /\ locs = <<>>
   BY ArgumentAssumption DEF CallInit, ClassifyInit
 <2>2. stack_off = 8 * 0 /\ stack_off <= 8 * Len(locs) BY <2>1
 <2> QED BY <2>1, <2>2, ArgumentAssumption
   DEF ClassifyInv, WalkTypes, BelowCursors, LastSlotEnds, LocationsDistinct
<1>2. ClassifyInv /\ [CallNext]_callVars => ClassifyInv'
 <2> SUFFICES ASSUME ClassifyInv, [CallNext]_callVars PROVE ClassifyInv' OBVIOUS
 <2>1. CASE UNCHANGED classifyVars
   BY <2>1 DEF classifyVars, ClassifyInv, WalkTypes, BelowCursors, LastSlotEnds, LocationsDistinct
 <2>2. CASE Classify BY <2>2, ClassifyStep
 <2>3. [CallNext]_callVars => UNCHANGED classifyVars \/ Classify
   BY DEF CallNext, callVars, Emit, Machine, CallEnded, Advance, Save, Restore, SubSp, AddSp, StoreArg,
     LoadArg, Bl, Prologue, TakeArg, Body, Ret, Result
 <2> QED BY <2>1, <2>2, <2>3
<1> QED BY <1>1, <1>2, PTL DEF CallSpec

(* Whatever the mix of integer and floating-point arguments and however many
   there are: they travel apart, each in a place its class may use, registers
   first, and the outgoing area is as large as they need. *)
THEOREM ArgumentsApart == CallSpec => []LocationsSound
BY ClassifyInvariant, WalkIsSound, PTL

-----------------------------------------------------------------------------
(* The machine during the call.  From the caller's sp downward lie the saved
   bands, the outgoing arguments, the callee's fp/lr pair and its frame. *)
CallerSp == Top - call.frame
BandsEnd == CallerSp - BandBytes * Len(Bands)
ArgBase == BandsEnd - OutgoingStackBytes(locs)
CalleeFp == ArgBase - 16
CalleeSp == CalleeFp - call.callee_frame

FrameKept == \A a \in Address : a >= CallerSp => mem[a] = start.mem[a]

BandSlot(k, j) == CallerSp - BandBytes * k + 8 * (j - 1)
BandsSaved ==
  \A k \in DOMAIN Bands : \A j \in DOMAIN Bands[k] :
    mem[BandSlot(k, j)] = start.regs[Bands[k][j]]

(* An argument is where the callee will look for it, a parameter has it. *)
ArgAt(k) == IF locs[k].kind = "gpr" THEN regs[locs[k].at] ELSE mem[ArgBase + locs[k].at]
ArgThere(k) == ArgAt(k) = InitialValue(call.args[k])
ParamThere(k) == Value(call.params[k]) = InitialValue(call.args[k])

(* What holds when the i-th instruction of a part of the code is next. *)
ReservedArea == IF OutgoingStackBytes(locs) > 0 THEN 1 ELSE 0

Done(k, i) ==
  \/ \E j \in DOMAIN OnStack : k = OnStack[j] /\ i > 1 + ReservedArea + j
  \/ \E j \in DOMAIN InRegisters : k = InRegisters[j] /\ i > 1 + ReservedArea + Len(OnStack) + j

InCaller(i) ==
  /\ FrameKept
  /\ regs[FP] = Top
  /\ regs[SP] = IF i = 1 THEN CallerSp ELSE IF i <= 1 + ReservedArea THEN BandsEnd ELSE ArgBase
  /\ \A r \in Allocatable : regs[r] = start.regs[r]
  /\ i > 1 => BandsSaved
  /\ \A k \in DOMAIN locs : Done(k, i) => ArgThere(k)

InCallee(i) ==
  /\ FrameKept /\ BandsSaved
  /\ regs[FP] = IF i = 1 THEN Top ELSE CalleeFp
  /\ regs[SP] = IF i = 1 THEN ArgBase ELSE CalleeSp
  /\ i = 1 => regs[LR] = CallSite
  /\ i > 1 => mem[CalleeFp] = Top /\ mem[CalleeFp + 8] = CallSite
  /\ i <= Len(locs) + 2 =>
       \A k \in DOMAIN locs : IF i <= k + 1 THEN ArgThere(k) ELSE ParamThere(k)
  /\ i = Len(locs) + 3 => regs[0] = Returned

BackInCaller(i) ==
  /\ regs[FP] = Top
  /\ regs[SP] = IF i <= ReservedArea THEN ArgBase ELSE IF i = ReservedArea + 1 THEN BandsEnd ELSE CallerSp
  /\ i <= ReservedArea + 1 => BandsSaved
  /\ i <= ReservedArea + 2 => FrameKept /\ regs[0] = Returned
  /\ i = ReservedArea + 2 => \A r \in Allocatable : regs[r] = start.regs[r]
  /\ i = ReservedArea + 3 => CallerStateRestored

Rest(s, i) == SubSeq(s, i, Len(s))

MachineTypes ==
  /\ call \in Calls /\ classes = call.classes
  /\ regs \in [RegNumber -> Int] /\ mem \in [Address -> Int]
  /\ start.regs \in [RegNumber -> Int] /\ start.mem \in [Address -> Int]
  /\ start.regs[FP] = Top /\ start.regs[SP] = CallerSp

NotEmitted == code = <<>> /\ after = <<>> /\ regs = start.regs /\ mem = start.mem
Running ==
  /\ Classified /\ after = AfterBl
  /\ \A k \in DOMAIN locs : locs[k].kind # "fpr"
  /\ \/ \E i \in 1 .. Len(BeforeBl) : code = Rest(BeforeBl, i) /\ InCaller(i)
     \/ \E i \in 1 .. Len(CalleeCode) : code = Rest(CalleeCode, i) /\ InCallee(i)
     \/ \E i \in 1 .. Len(AfterBl) + 1 : code = Rest(AfterBl, i) /\ BackInCaller(i)

CallInv == MachineTypes /\ (NotEmitted \/ Running)

-----------------------------------------------------------------------------
(* A part of a sequence from i on: its head and its tail. *)
LEMMA RestFacts ==
  ASSUME NEW S, NEW s \in Seq(S)
  PROVE  /\ Rest(s, 1) = s
         /\ Rest(s, Len(s) + 1) = <<>>
         /\ \A i \in 1 .. Len(s) :
              /\ Rest(s, i) # <<>>
              /\ Head(Rest(s, i)) = s[i]
              /\ Tail(Rest(s, i)) = Rest(s, i + 1)
<1>1. Len(s) \in Nat OBVIOUS
<1>2. Rest(s, 1) = s /\ Rest(s, Len(s) + 1) = <<>> BY <1>1 DEF Rest
<1>3. ASSUME NEW i \in 1 .. Len(s)
      PROVE  /\ Rest(s, i) # <<>> /\ Head(Rest(s, i)) = s[i]
             /\ Tail(Rest(s, i)) = Rest(s, i + 1)
 <2> DEFINE r == Rest(s, i)
 <2>1. /\ r \in Seq(S) /\ Len(r) = Len(s) - i + 1 /\ Len(r) \in Nat \ {0}
       /\ \A k \in 1 .. Len(r) : r[k] = s[i + k - 1] BY <1>1 DEF Rest
 <2>2. /\ Rest(s, i + 1) \in Seq(S) /\ Len(Rest(s, i + 1)) = Len(s) - i
       /\ \A k \in 1 .. Len(s) - i : Rest(s, i + 1)[k] = s[i + k] BY <1>1 DEF Rest
 <2> HIDE DEF r
 <2>3. r # <<>> /\ Head(r) = s[i] BY <1>1, <2>1
 <2>4. /\ Tail(r) \in Seq(S) /\ Len(Tail(r)) = Len(s) - i
       /\ \A k \in 1 .. Len(s) - i : Tail(r)[k] = s[i + k]
  <3>1. /\ Tail(r) \in Seq(S) /\ DOMAIN Tail(r) = 1 .. Len(r) - 1
        /\ \A k \in DOMAIN Tail(r) : Tail(r)[k] = r[k + 1] BY <2>1, <2>3, TailFacts
  <3>2. Len(Tail(r)) = Len(r) - 1 BY <2>1, <2>3
  <3>3. \A k \in 1 .. Len(s) - i : k \in DOMAIN Tail(r) /\ k + 1 \in 1 .. Len(r) BY <1>1, <2>1, <3>1
  <3>4. \A k \in 1 .. Len(s) - i : Tail(r)[k] = r[k + 1] /\ r[k + 1] = s[i + (k + 1) - 1] BY <2>1, <3>1, <3>3
  <3>5. \A k \in 1 .. Len(s) - i : i + (k + 1) - 1 = i + k BY <1>1
  <3>6. Len(r) - 1 = Len(s) - i BY <1>1, <2>1
  <3> QED BY <3>1, <3>2, <3>4, <3>5, <3>6
 <2>5. Tail(r) = Rest(s, i + 1)
  <3> DEFINE u == Tail(r)  v == Rest(s, i + 1)
  <3>1. /\ u \in Seq(S) /\ v \in Seq(S) /\ Len(u) = Len(v)
        /\ \A k \in 1 .. Len(u) : u[k] = v[k] BY <2>2, <2>4
  <3> HIDE DEF u, v
  <3>2. u = v BY <3>1
  <3> QED BY <3>2 DEF u, v
 <2> QED BY <2>3, <2>5 DEF r
<1> QED BY <1>2, <1>3

(* Both callers' and callees' addresses lie in order, each a multiple of the
   alignment, and the stack has room for them all. *)
LEMMA StackLayout ==
  ASSUME ClassifyInv, MachineTypes
  PROVE  /\ CallerSp \in Int /\ BandsEnd \in Int /\ ArgBase \in Int /\ CalleeFp \in Int
         /\ CalleeSp \in Int /\ Top \in Nat /\ Len(Bands) \in Nat
         /\ CallerSp = Top - call.frame /\ call.frame \in Nat /\ call.callee_frame \in Nat
         /\ BandsEnd = CallerSp - 16 * Len(Bands)
         /\ OutgoingStackBytes(locs) \in Nat
         /\ ArgBase = BandsEnd - OutgoingStackBytes(locs)
         /\ CalleeFp = ArgBase - 16 /\ CalleeSp = CalleeFp - call.callee_frame
         /\ 0 <= CalleeSp /\ BandsEnd <= CallerSp /\ CallerSp <= Top
         /\ CalleeSp <= CalleeFp /\ CalleeFp <= ArgBase /\ ArgBase <= BandsEnd
         /\ 0 <= CallerSp
         /\ CallerSp % 16 = 0 /\ BandsEnd % 16 = 0 /\ ArgBase % 16 = 0
         /\ CalleeFp % 16 = 0 /\ CalleeSp % 16 = 0
         /\ call.frame % 16 = 0 /\ call.callee_frame % 16 = 0
<1> DEFINE O == OutgoingStackBytes(locs)  F == call.frame  C == call.callee_frame
<1>1. /\ locs \in Seq(Locations) /\ Len(locs) \in Nat /\ Len(classes) \in Nat
      /\ Len(locs) <= Len(classes) /\ stack_off \in Nat /\ stack_off <= 8 * Len(locs) BY DEF ClassifyInv, WalkTypes
<1>2. O \in Nat /\ O % 16 = 0 /\ O < stack_off + 16 BY <1>1, Aligned16, OutgoingArea
<1>3. /\ call \in Calls /\ classes = call.classes
      /\ F \in Nat /\ F % 16 = 0 /\ C \in Nat /\ C % 16 = 0
      /\ Top \in Nat /\ Top % 16 = 0 BY CallAssumption DEF MachineTypes, SpAlignment
<1>4. Len(Bands) \in Nat BY BandAssumption
<1>5. Top >= F + 16 * Len(Bands) + 8 * Len(classes) + 16 + 16 + C BY <1>3, RoomAssumption DEF BandBytes, SlotBytes, SpAlignment
<1> HIDE DEF O, F, C
<1>6. /\ CallerSp = Top - F /\ BandsEnd = CallerSp - 16 * Len(Bands)
      /\ ArgBase = BandsEnd - O /\ CalleeFp = ArgBase - 16
      /\ CalleeSp = CalleeFp - C BY DEF CallerSp, BandsEnd, ArgBase, CalleeFp, CalleeSp, O, F, C, BandBytes
<1>7. /\ CallerSp \in Int /\ BandsEnd \in Int /\ ArgBase \in Int /\ CalleeFp \in Int
      /\ CalleeSp \in Int
      /\ 0 <= CalleeSp /\ BandsEnd <= CallerSp /\ CallerSp <= Top
      /\ CallerSp % 16 = 0 /\ BandsEnd % 16 = 0 /\ ArgBase % 16 = 0
      /\ CalleeFp % 16 = 0 /\ CalleeSp % 16 = 0
 <2>1. \A x, y \in Int : x % 16 = 0 /\ y % 16 = 0 => x - y \in Int /\ (x - y) % 16 = 0 OBVIOUS
 <2>2. CallerSp \in Int /\ CallerSp % 16 = 0
  <3>1. Top - F \in Int /\ (Top - F) % 16 = 0 BY <1>3, <2>1
  <3> QED BY <1>6, <3>1
 <2>3. BandsEnd \in Int /\ BandsEnd % 16 = 0
  <3>1. 16 * Len(Bands) \in Int /\ (16 * Len(Bands)) % 16 = 0 BY <1>4
  <3> QED BY <1>6, <2>1, <2>2, <3>1
 <2>4. ArgBase \in Int /\ ArgBase % 16 = 0
  <3>1. BandsEnd - O \in Int /\ (BandsEnd - O) % 16 = 0 BY <1>2, <2>1, <2>3
  <3> QED BY <1>6, <3>1
 <2>5. CalleeFp \in Int /\ CalleeFp % 16 = 0
  <3>1. 16 \in Int /\ 16 % 16 = 0 OBVIOUS
  <3> QED BY <1>6, <2>1, <2>4, <3>1
 <2>6. CalleeSp \in Int /\ CalleeSp % 16 = 0
  <3>1. CalleeFp - C \in Int /\ (CalleeFp - C) % 16 = 0 BY <1>3, <2>1, <2>5
  <3> QED BY <1>6, <3>1
 <2>7. BandsEnd <= CallerSp /\ CallerSp <= Top BY <1>3, <1>4, <1>6, <2>2, <2>3
 <2>8. 0 <= CalleeSp
  <3>1. CalleeSp = Top - F - 16 * Len(Bands) - O - 16 - C BY <1>6
  <3> DEFINE m == 8 * Len(classes)  w == 16 * Len(Bands)
  <3>2. m \in Nat /\ w \in Nat /\ O < m + 16 BY <1>1, <1>2, <1>4
  <3>3. Top >= F + w + m + 16 + 16 + C BY <1>5
  <3>4. CalleeSp = Top - F - w - O - 16 - C BY <3>1
  <3> HIDE DEF m, w
  <3>5. \A t, f, o, c \in Nat :
          t >= f + w + m + 16 + 16 + c /\ o < m + 16 => 0 <= t - f - w - o - 16 - c BY <3>2
  <3> QED BY <1>2, <1>3, <3>2, <3>3, <3>4, <3>5
 <2> QED BY <2>2, <2>3, <2>4, <2>5, <2>6, <2>7, <2>8
<1>8. CalleeSp <= CalleeFp /\ CalleeFp <= ArgBase /\ ArgBase <= BandsEnd
 <2>1. CalleeFp <= ArgBase BY <1>6, <1>7
 <2> QED BY <1>2, <1>3, <1>6, <1>7, <2>1
<1>9. 0 <= CallerSp BY <1>7, <1>8
<1> QED BY <1>2, <1>3, <1>4, <1>6, <1>7, <1>8, <1>9 DEF O, F, C

(* Everything in between, and what the caller has from its sp to its fp, is
   memory. *)
LEMMA AddressFacts ==
  ASSUME ClassifyInv, MachineTypes
  PROVE  /\ \A a \in Int : CalleeSp <= a /\ a <= Top /\ a % 8 = 0 => a \in Address
         /\ Address \subseteq Int
<1>1. \A a \in Int : a \in 0 .. Top + 32 /\ a % 8 = 0 => a \in Address BY DEF Address
<1>2. CalleeSp \in Int /\ 0 <= CalleeSp /\ Top \in Nat BY StackLayout
<1> QED BY <1>1, <1>2 DEF Address

(* The two passes of emit_call: each picks the arguments of one kind, all of
   them and no other. *)
IsPick(kind, n, s) ==
  /\ s \in Seq(DOMAIN locs)
  /\ \A j \in DOMAIN s : locs[s[j]].kind = kind
  /\ \A k \in DOMAIN locs : k <= n /\ locs[k].kind = kind => \E j \in DOMAIN s : s[j] = k

LEMMA PickedFacts == ASSUME ClassifyInv, NEW kind PROVE IsPick(kind, Len(locs), Picked(kind))
<1> DEFINE D == 0 .. Len(locs)
           T == Seq(DOMAIN locs)
           Entry(f, n) == IF n = 0 THEN <<>>
                         ELSE IF locs[n].kind = kind THEN Append(f[n - 1], n) ELSE f[n - 1]
           F == [f \in [D -> T] |-> [n \in D |-> Entry(f, n)]]
           rank == [n \in D |-> n]
           upto == CHOOSE f : f = [n \in D |-> Entry(f, n)]
<1>1. Len(locs) \in Nat /\ DOMAIN locs = 1 .. Len(locs) BY DEF ClassifyInv, WalkTypes
<1>2. ASSUME NEW f \in [D -> T], NEW n \in D PROVE Entry(f, n) \in T
 <2>1. CASE n = 0 BY <2>1
 <2>2. CASE n # 0
  <3>1. n - 1 \in D /\ n \in DOMAIN locs /\ f[n - 1] \in T BY <1>1, <2>2
  <3>2. Append(f[n - 1], n) \in T BY <3>1, AppendProperties
  <3> QED BY <2>2, <3>1, <3>2
 <2> QED BY <2>1, <2>2
<1>3. F \in [[D -> T] -> [D -> T]]
 <2> HIDE DEF Entry
 <2>1. \A f \in [D -> T] : [n \in D |-> Entry(f, n)] \in [D -> T] BY <1>2
 <2> QED BY <2>1
<1>4. ASSUME NEW f \in [D -> T], NEW h \in [D -> T], NEW n \in D,
             \A m \in D : rank[m] < rank[n] => f[m] = h[m]
      PROVE  F[f][n] = F[h][n]
 <2>1. n # 0 => n - 1 \in D /\ f[n - 1] = h[n - 1] BY <1>1, <1>4
 <2>2. Entry(f, n) = Entry(h, n) BY <2>1
 <2> QED BY <2>2
<1>5. T # {} /\ rank \in [D -> Nat]
 <2>1. <<>> \in T OBVIOUS
 <2>2. \A n \in D : n \in Nat BY <1>1
 <2> QED BY <2>1, <2>2
<1>6. \E f \in [D -> T] : f = F[f]
 <2>1. \A f, h \in [D -> T] : \A n \in D :
         (\A m \in D : rank[m] < rank[n] => f[m] = h[m]) => F[f][n] = F[h][n] BY <1>4
 <2> HIDE DEF D, T, F, rank
 <2>2. IsRanked(D, T, rank, F) BY <1>3, <1>5, <2>1 DEF IsRanked
 <2> QED BY <2>2, RankedRecursion
<1>7. \E f \in [D -> T] : f = [n \in D |-> Entry(f, n)] BY <1>6
<1>8. upto = [n \in D |-> Entry(upto, n)] BY <1>7
<1>9. Picked(kind) = upto[Len(locs)] BY DEF Picked
<1> HIDE DEF upto
<1>10. /\ upto[0] = <<>>
       /\ \A n \in DOMAIN locs :
            upto[n] = IF locs[n].kind = kind THEN Append(upto[n - 1], n) ELSE upto[n - 1]
 <2>1. 0 \in D /\ \A n \in DOMAIN locs : n \in D /\ n # 0 BY <1>1
 <2>2. \A n \in D : upto[n] = Entry(upto, n)
  <3> HIDE DEF Entry
  <3> QED BY <1>8
 <2> QED BY <2>1, <2>2
<1> DEFINE S == {n \in Nat : n <= Len(locs) => IsPick(kind, n, upto[n])}
<1>11. 0 \in S
 <2>1. IsPick(kind, 0, <<>>)
  <3>1. \A k \in DOMAIN locs : ~(k <= 0) BY <1>1
  <3> QED BY <3>1 DEF IsPick
 <2> QED BY <1>10, <2>1
<1>12. ASSUME NEW n \in Nat, n \in S PROVE n + 1 \in S
 <2> SUFFICES ASSUME n + 1 <= Len(locs) PROVE IsPick(kind, n + 1, upto[n + 1]) OBVIOUS
 <2> DEFINE s == upto[n]
 <2>1. IsPick(kind, n, s) /\ n + 1 \in DOMAIN locs BY <1>1, <1>12
 <2>2. upto[n + 1] = IF locs[n + 1].kind = kind THEN Append(s, n + 1) ELSE s BY <1>10, <2>1
 <2> HIDE DEF s
 <2>3. CASE locs[n + 1].kind = kind
  <3>1. s \in Seq(DOMAIN locs) BY <2>1 DEF IsPick
  <3>2. /\ Append(s, n + 1) \in Seq(DOMAIN locs) /\ Len(s) \in Nat
        /\ DOMAIN s = 1 .. Len(s) /\ DOMAIN Append(s, n + 1) = 1 .. Len(s) + 1
        /\ \A k \in DOMAIN s : Append(s, n + 1)[k] = s[k]
        /\ Append(s, n + 1)[Len(s) + 1] = n + 1 BY <2>1, <3>1, AppendFacts
  <3> DEFINE t == Append(s, n + 1)
  <3> HIDE DEF t
  <3>3. \A j \in DOMAIN t : locs[t[j]].kind = kind BY <2>1, <2>3, <3>2 DEF IsPick, t
  <3>4. ASSUME NEW k \in DOMAIN locs, k <= n + 1, locs[k].kind = kind PROVE \E j \in DOMAIN t : t[j] = k
   <4>1. CASE k = n + 1 BY <3>2, <4>1 DEF t
   <4>2. CASE k # n + 1
    <5>1. k <= n BY <1>1, <3>4, <4>2
    <5>2. PICK j \in DOMAIN s : s[j] = k BY <2>1, <3>4, <5>1 DEF IsPick
    <5> QED BY <3>2, <5>2 DEF t
   <4> QED BY <4>1, <4>2
  <3> QED BY <2>2, <2>3, <3>2, <3>3, <3>4 DEF IsPick, t
 <2>4. CASE locs[n + 1].kind # kind
  <3>1. \A k \in DOMAIN locs : k <= n + 1 /\ locs[k].kind = kind => k <= n BY <1>1, <2>4
  <3> QED BY <2>1, <2>2, <2>4, <3>1 DEF IsPick
 <2> QED BY <2>3, <2>4
<1>13. Nat \subseteq S
 <2> HIDE DEF S
 <2> QED BY <1>11, <1>12, SetInduction
<1> QED BY <1>1, <1>9, <1>13

-----------------------------------------------------------------------------
(* Sequences one behind the other, by index. *)
LEMMA ConcatFacts ==
  ASSUME NEW S, NEW s \in Seq(S), NEW t \in Seq(S)
  PROVE  /\ s \o t \in Seq(S) /\ Len(s \o t) = Len(s) + Len(t)
         /\ Len(s) \in Nat /\ Len(t) \in Nat
         /\ \A k \in 1 .. Len(s) : (s \o t)[k] = s[k]
         /\ \A k \in 1 .. Len(t) : (s \o t)[Len(s) + k] = t[k]
OBVIOUS

LEMMA ThreeParts ==
  ASSUME NEW S, NEW s1 \in Seq(S), NEW s2 \in Seq(S), NEW s3 \in Seq(S)
  PROVE  /\ s1 \o s2 \o s3 \in Seq(S)
         /\ Len(s1 \o s2 \o s3) = Len(s1) + Len(s2) + Len(s3)
         /\ Len(s1) \in Nat /\ Len(s2) \in Nat /\ Len(s3) \in Nat
         /\ \A k \in 1 .. Len(s1) : (s1 \o s2 \o s3)[k] = s1[k]
         /\ \A k \in 1 .. Len(s2) : (s1 \o s2 \o s3)[Len(s1) + k] = s2[k]
         /\ \A k \in 1 .. Len(s3) : (s1 \o s2 \o s3)[Len(s1) + Len(s2) + k] = s3[k]
<1> DEFINE p == s1 \o s2
<1>1. /\ p \in Seq(S) /\ Len(p) = Len(s1) + Len(s2)
      /\ Len(s1) \in Nat /\ Len(s2) \in Nat
      /\ \A k \in 1 .. Len(s1) : p[k] = s1[k]
      /\ \A k \in 1 .. Len(s2) : p[Len(s1) + k] = s2[k] BY ConcatFacts
<1> HIDE DEF p
<1> DEFINE q == p \o s3
<1>2. /\ q \in Seq(S) /\ Len(q) = Len(p) + Len(s3)
      /\ Len(p) \in Nat /\ Len(s3) \in Nat
      /\ \A k \in 1 .. Len(p) : q[k] = p[k]
      /\ \A k \in 1 .. Len(s3) : q[Len(p) + k] = s3[k]
 <2>1. p \in Seq(S) BY <1>1
 <2> QED BY <2>1, ConcatFacts
<1> HIDE DEF q
<1>3. \A k \in 1 .. Len(s1) : q[k] = s1[k]
 <2>1. \A k \in 1 .. Len(s1) : k \in 1 .. Len(p) BY <1>1
 <2> QED BY <1>1, <1>2, <2>1
<1>4. \A k \in 1 .. Len(s2) : q[Len(s1) + k] = s2[k]
 <2>1. \A k \in 1 .. Len(s2) : Len(s1) + k \in 1 .. Len(p) BY <1>1
 <2> QED BY <1>1, <1>2, <2>1
<1> QED BY <1>1, <1>2, <1>3, <1>4 DEF p, q

(* The code on both sides, instruction by instruction. *)
Operand ==
  Int \cup Locations \cup {call.args[k] : k \in DOMAIN locs}
    \cup {call.params[k] : k \in DOMAIN locs} \cup {call.result}
Op == {"save", "sub_sp", "store_arg", "load_arg", "bl", "prologue", "take_arg", "body", "ret",
       "add_sp", "restore", "result"}
Instruction == {Ins(op, a, b) : op \in Op, a \in Operand, b \in Operand}

LEMMA InstructionType ==
  ASSUME NEW op \in Op, NEW a \in Operand, NEW b \in Operand PROVE Ins(op, a, b) \in Instruction
BY DEF Instruction

LEMMA Singleton == ASSUME NEW S, NEW e \in S PROVE <<e>> \in Seq(S) /\ Len(<<e>>) = 1 /\ <<e>>[1] = e
OBVIOUS

LEMMA BracketFacts ==
  ASSUME NEW op \in Op, ClassifyInv, MachineTypes
  PROVE  /\ ReservedArea \in {0, 1}
         /\ Bracket(op, OutgoingStackBytes(locs)) \in Seq(Instruction)
         /\ Len(Bracket(op, OutgoingStackBytes(locs))) = ReservedArea
         /\ ReservedArea = 1 => Bracket(op, OutgoingStackBytes(locs))[1]
                              = Ins(op, OutgoingStackBytes(locs), 0)
         /\ ReservedArea = 0 => OutgoingStackBytes(locs) = 0
<1> DEFINE O == OutgoingStackBytes(locs)
<1>1. O \in Nat BY StackLayout
<1> HIDE DEF O
<1>2. Ins(op, O, 0) \in Instruction
 <2>1. O \in Operand /\ 0 \in Operand BY <1>1 DEF Operand
 <2> QED BY <2>1, InstructionType
<1> DEFINE one == <<Ins(op, O, 0)>>
<1>3. one \in Seq(Instruction) /\ Len(one) = 1 /\ one[1] = Ins(op, O, 0) BY <1>2, Singleton
<1> HIDE DEF one
<1>4. Bracket(op, O) = IF O > 0 THEN one ELSE <<>> BY DEF Bracket, one
<1>5. ReservedArea = IF O > 0 THEN 1 ELSE 0 BY DEF ReservedArea, O
<1>6. /\ ReservedArea \in {0, 1} /\ Bracket(op, O) \in Seq(Instruction)
      /\ Len(Bracket(op, O)) = ReservedArea
      /\ ReservedArea = 1 => Bracket(op, O)[1] = Ins(op, O, 0)
      /\ ReservedArea = 0 => O = 0
 <2>1. CASE O > 0 BY <1>3, <1>4, <1>5, <2>1
 <2>2. CASE O = 0
  <3>1. ReservedArea = 0 /\ Bracket(op, O) = <<>> BY <1>4, <1>5, <2>2
  <3>2. <<>> \in Seq(Instruction) /\ Len(<<>>) = 0 OBVIOUS
  <3> DEFINE none == <<>>
  <3>3. Bracket(op, O) = none /\ none \in Seq(Instruction) /\ Len(none) = 0 BY <3>1, <3>2
  <3> HIDE DEF none
  <3>4. ReservedArea = 0 BY <1>5, <2>2
  <3>5. Bracket(op, O) \in Seq(Instruction) /\ Len(Bracket(op, O)) = ReservedArea BY <3>3, <3>4
  <3>6. 0 # 1 OBVIOUS
  <3> QED BY ONLY <2>2, <3>4, <3>5, <3>6, Zenon
 <2> QED BY <1>1, <2>1, <2>2
<1> QED BY <1>6 DEF O

LEMMA AfterBlAt ==
  ASSUME ClassifyInv, MachineTypes
  PROVE  /\ AfterBl \in Seq(Instruction)
         /\ Len(AfterBl) = ReservedArea + 2
         /\ ReservedArea = 1 => AfterBl[1] = Ins("add_sp", OutgoingStackBytes(locs), 0)
         /\ AfterBl[ReservedArea + 1] = Ins("restore", 0, 0)
         /\ AfterBl[ReservedArea + 2] = Ins("result", call.result, 0)
<1> DEFINE s1 == Bracket("add_sp", OutgoingStackBytes(locs))
           s2 == <<Ins("restore", 0, 0)>>
           s3 == <<Ins("result", call.result, 0)>>
<1>1. /\ s1 \in Seq(Instruction) /\ Len(s1) = ReservedArea /\ ReservedArea \in {0, 1}
      /\ ReservedArea = 1 => s1[1] = Ins("add_sp", OutgoingStackBytes(locs), 0)
 <2>1. "add_sp" \in Op BY DEF Op
 <2> QED BY <2>1, BracketFacts
<1>2. s2 \in Seq(Instruction) /\ Len(s2) = 1 /\ s2[1] = Ins("restore", 0, 0)
 <2>1. "restore" \in Op /\ 0 \in Operand BY DEF Op, Operand
 <2>2. Ins("restore", 0, 0) \in Instruction BY <2>1, InstructionType
 <2> QED BY <2>2, Singleton
<1>3. s3 \in Seq(Instruction) /\ Len(s3) = 1 /\ s3[1] = Ins("result", call.result, 0)
 <2>1. "result" \in Op /\ 0 \in Operand /\ call.result \in Operand BY DEF Op, Operand
 <2>2. Ins("result", call.result, 0) \in Instruction BY <2>1, InstructionType
 <2> QED BY <2>2, Singleton
<1>4. AfterBl = s1 \o s2 \o s3 BY DEF AfterBl
<1> HIDE DEF s1, s2, s3
<1>5. /\ AfterBl \in Seq(Instruction) /\ Len(AfterBl) = Len(s1) + Len(s2) + Len(s3)
      /\ \A k \in 1 .. Len(s1) : AfterBl[k] = s1[k]
      /\ \A k \in 1 .. Len(s2) : AfterBl[Len(s1) + k] = s2[k]
      /\ \A k \in 1 .. Len(s3) : AfterBl[Len(s1) + Len(s2) + k] = s3[k]
 <2>1. s1 \in Seq(Instruction) /\ s2 \in Seq(Instruction) /\ s3 \in Seq(Instruction) BY <1>1, <1>2, <1>3
 <2> QED BY <1>4, <2>1, ThreeParts
<1>6. 1 \in 1 .. Len(s2) /\ 1 \in 1 .. Len(s3) /\ (ReservedArea = 1 => 1 \in 1 .. Len(s1)) BY <1>1, <1>2, <1>3
<1>7. AfterBl[ReservedArea + 1] = s2[1] /\ AfterBl[ReservedArea + 1 + 1] = s3[1] BY <1>1, <1>2, <1>5, <1>6
<1>8. (ReservedArea + 1) + 1 = ReservedArea + 2 BY <1>1
<1> QED BY <1>1, <1>2, <1>3, <1>5, <1>6, <1>7, <1>8

LEMMA InstructionList ==
  ASSUME NEW n \in Nat, NEW f, \A k \in 1 .. n : f[k] \in Instruction,
         f = [k \in 1 .. n |-> f[k]]
  PROVE  f \in Seq(Instruction) /\ Len(f) = n
<1>1. f \in [1 .. n -> Instruction] OBVIOUS
<1> QED BY <1>1

LEMMA CalleeCodeAt ==
  ASSUME ClassifyInv, MachineTypes
  PROVE  /\ CalleeCode \in Seq(Instruction)
         /\ Len(CalleeCode) = Len(locs) + 3
         /\ CalleeCode[1] = Ins("prologue", call.callee_frame, 0)
         /\ \A k \in DOMAIN locs :
              CalleeCode[k + 1] = Ins("take_arg", locs[k], call.params[k])
         /\ CalleeCode[Len(locs) + 2] = Ins("body", 0, 0)
         /\ CalleeCode[Len(locs) + 3] = Ins("ret", 0, 0)
<1> DEFINE s1 == <<Ins("prologue", call.callee_frame, 0)>>
           s2 == [k \in DOMAIN locs |-> Ins("take_arg", locs[k], call.params[k])]
           s3 == <<Ins("body", 0, 0), Ins("ret", 0, 0)>>
<1>0. Len(locs) \in Nat /\ DOMAIN locs = 1 .. Len(locs) BY DEF ClassifyInv, WalkTypes
<1>1. /\ s1 \in Seq(Instruction) /\ Len(s1) = 1
      /\ s1[1] = Ins("prologue", call.callee_frame, 0)
 <2>1. "prologue" \in Op /\ 0 \in Operand /\ call.callee_frame \in Operand
  <3>1. call.callee_frame \in Nat BY StackLayout
  <3>2. call.callee_frame \in Operand BY <3>1 DEF Operand
  <3> QED BY <3>2 DEF Op, Operand
 <2>2. Ins("prologue", call.callee_frame, 0) \in Instruction BY <2>1, InstructionType
 <2> QED BY <2>2, Singleton
<1>2. /\ s2 \in Seq(Instruction) /\ Len(s2) = Len(locs)
      /\ \A k \in DOMAIN locs : s2[k] = Ins("take_arg", locs[k], call.params[k])
 <2>1. ASSUME NEW k \in DOMAIN locs PROVE Ins("take_arg", locs[k], call.params[k]) \in Instruction
  <3>1. "take_arg" \in Op /\ locs[k] \in Operand /\ call.params[k] \in Operand BY PlacedFacts DEF Op, Operand, ClassifyInv
  <3> QED BY <3>1, InstructionType
 <2>2. \A k \in DOMAIN locs : s2[k] = Ins("take_arg", locs[k], call.params[k]) OBVIOUS
 <2>3. s2 = [k \in 1 .. Len(locs) |-> s2[k]] BY <1>0
 <2> HIDE DEF s2
 <2> QED BY <1>0, <2>1, <2>2, <2>3, InstructionList
<1>3. /\ s3 \in Seq(Instruction) /\ Len(s3) = 2
      /\ s3[1] = Ins("body", 0, 0) /\ s3[2] = Ins("ret", 0, 0)
 <2>1. "body" \in Op /\ "ret" \in Op /\ 0 \in Operand BY DEF Op, Operand
 <2>2. Ins("body", 0, 0) \in Instruction /\ Ins("ret", 0, 0) \in Instruction BY <2>1, InstructionType
 <2> QED BY <2>2
<1>4. CalleeCode = s1 \o s2 \o s3 BY DEF CalleeCode
<1> HIDE DEF s1, s2, s3
<1>5. /\ CalleeCode \in Seq(Instruction) /\ Len(CalleeCode) = Len(s1) + Len(s2) + Len(s3)
      /\ \A k \in 1 .. Len(s1) : CalleeCode[k] = s1[k]
      /\ \A k \in 1 .. Len(s2) : CalleeCode[Len(s1) + k] = s2[k]
      /\ \A k \in 1 .. Len(s3) : CalleeCode[Len(s1) + Len(s2) + k] = s3[k]
 <2>1. s1 \in Seq(Instruction) /\ s2 \in Seq(Instruction) /\ s3 \in Seq(Instruction) BY <1>1, <1>2, <1>3
 <2> QED BY <1>4, <2>1, ThreeParts
<1>6. \A k \in DOMAIN locs : CalleeCode[1 + k] = s2[k] /\ 1 + k = k + 1 BY <1>0, <1>1, <1>2, <1>5
<1>7. /\ CalleeCode[1] = s1[1] /\ CalleeCode[1 + Len(locs) + 1] = s3[1]
      /\ CalleeCode[1 + Len(locs) + 2] = s3[2]
 <2>1. 1 \in 1 .. Len(s1) /\ 1 \in 1 .. Len(s3) /\ 2 \in 1 .. Len(s3) BY <1>1, <1>3
 <2> QED BY <1>1, <1>2, <1>5, <2>1
<1>8. 1 + Len(locs) + 1 = Len(locs) + 2 /\ 1 + Len(locs) + 2 = Len(locs) + 3 BY <1>0
<1>9. Len(CalleeCode) = Len(locs) + 3 BY <1>0, <1>1, <1>2, <1>3, <1>5
<1> QED BY <1>1, <1>2, <1>3, <1>5, <1>6, <1>7, <1>8, <1>9

LEMMA BeforeBlAt ==
  ASSUME ClassifyInv, MachineTypes
  PROVE  LET A == ReservedArea + 1
             B == A + Len(OnStack)
             C == B + Len(InRegisters)
         IN  /\ BeforeBl \in Seq(Instruction) /\ Len(BeforeBl) = C + 1
             /\ Len(OnStack) \in Nat /\ Len(InRegisters) \in Nat /\ ReservedArea \in {0, 1}
             /\ BeforeBl[1] = Ins("save", 0, 0)
             /\ ReservedArea = 1 => BeforeBl[2] = Ins("sub_sp", OutgoingStackBytes(locs), 0)
             /\ \A j \in 1 .. Len(OnStack) : BeforeBl[A + j]
                  = Ins("store_arg", call.args[OnStack[j]], locs[OnStack[j]].at)
             /\ \A j \in 1 .. Len(InRegisters) : BeforeBl[B + j]
                  = Ins("load_arg", call.args[InRegisters[j]], locs[InRegisters[j]].at)
             /\ BeforeBl[C + 1] = Ins("bl", 0, 0)
<1> DEFINE s1 == <<Ins("save", 0, 0)>>
           s2 == Bracket("sub_sp", OutgoingStackBytes(locs))
           s3 == StackStores(OnStack)
           s4 == RegisterMoves(InRegisters)
           s5 == <<Ins("bl", 0, 0)>>
<1>1. s1 \in Seq(Instruction) /\ Len(s1) = 1 /\ s1[1] = Ins("save", 0, 0)
 <2>1. "save" \in Op /\ 0 \in Operand BY DEF Op, Operand
 <2>2. Ins("save", 0, 0) \in Instruction BY <2>1, InstructionType
 <2> QED BY <2>2, Singleton
<1>2. /\ s2 \in Seq(Instruction) /\ Len(s2) = ReservedArea /\ ReservedArea \in {0, 1}
      /\ ReservedArea = 1 => s2[1] = Ins("sub_sp", OutgoingStackBytes(locs), 0)
 <2>1. "sub_sp" \in Op BY DEF Op
 <2> QED BY <2>1, BracketFacts
<1>3. ASSUME NEW op \in Op, NEW kinds \in Seq(DOMAIN locs), NEW f,
             f = [k \in DOMAIN kinds |-> Ins(op, call.args[kinds[k]], locs[kinds[k]].at)]
      PROVE  /\ Len(kinds) \in Nat /\ f \in Seq(Instruction) /\ Len(f) = Len(kinds)
             /\ \A k \in 1 .. Len(kinds) :
                  f[k] = Ins(op, call.args[kinds[k]], locs[kinds[k]].at)
 <2>1. Len(kinds) \in Nat /\ DOMAIN kinds = 1 .. Len(kinds) OBVIOUS
 <2>2. ASSUME NEW k \in 1 .. Len(kinds) PROVE Ins(op, call.args[kinds[k]], locs[kinds[k]].at) \in Instruction
  <3>1. kinds[k] \in DOMAIN locs BY <2>1
  <3>2. locs[kinds[k]].at \in Operand /\ call.args[kinds[k]] \in Operand BY <3>1, PlacedFacts DEF Operand, ClassifyInv
  <3> QED BY <3>2, InstructionType
 <2>3. /\ \A k \in 1 .. Len(kinds) : f[k] = Ins(op, call.args[kinds[k]], locs[kinds[k]].at)
       /\ f = [k \in 1 .. Len(kinds) |-> f[k]] BY <1>3, <2>1
 <2> QED BY <2>1, <2>2, <2>3, InstructionList
<1>4. /\ Len(OnStack) \in Nat /\ s3 \in Seq(Instruction) /\ Len(s3) = Len(OnStack)
      /\ \A k \in 1 .. Len(OnStack) :
           s3[k] = Ins("store_arg", call.args[OnStack[k]], locs[OnStack[k]].at)
 <2>1. OnStack \in Seq(DOMAIN locs) BY PickedFacts DEF OnStack, IsPick
 <2>2. "store_arg" \in Op BY DEF Op
 <2>3. s3 = [k \in DOMAIN OnStack |->
               Ins("store_arg", call.args[OnStack[k]], locs[OnStack[k]].at)] BY DEF StackStores
 <2> HIDE DEF s3
 <2> QED BY <1>3, <2>1, <2>2, <2>3
<1>5. /\ Len(InRegisters) \in Nat /\ s4 \in Seq(Instruction) /\ Len(s4) = Len(InRegisters)
      /\ \A k \in 1 .. Len(InRegisters) :
           s4[k] = Ins("load_arg", call.args[InRegisters[k]], locs[InRegisters[k]].at)
 <2>1. InRegisters \in Seq(DOMAIN locs) BY PickedFacts DEF InRegisters, IsPick
 <2>2. "load_arg" \in Op BY DEF Op
 <2>3. s4 = [k \in DOMAIN InRegisters |->
               Ins("load_arg", call.args[InRegisters[k]], locs[InRegisters[k]].at)] BY DEF RegisterMoves
 <2> HIDE DEF s4
 <2> QED BY <1>3, <2>1, <2>2, <2>3
<1>6. s5 \in Seq(Instruction) /\ Len(s5) = 1 /\ s5[1] = Ins("bl", 0, 0)
 <2>1. "bl" \in Op /\ 0 \in Operand BY DEF Op, Operand
 <2>2. Ins("bl", 0, 0) \in Instruction BY <2>1, InstructionType
 <2> QED BY <2>2, Singleton
<1> DEFINE p == s1 \o s2 \o s3
<1>7. BeforeBl = p \o s4 \o s5 BY DEF BeforeBl
<1> HIDE DEF s1, s2, s3, s4, s5
<1>8. /\ p \in Seq(Instruction) /\ Len(p) = Len(s1) + Len(s2) + Len(s3)
      /\ \A k \in 1 .. Len(s1) : p[k] = s1[k]
      /\ \A k \in 1 .. Len(s2) : p[Len(s1) + k] = s2[k]
      /\ \A k \in 1 .. Len(s3) : p[Len(s1) + Len(s2) + k] = s3[k]
 <2>1. s1 \in Seq(Instruction) /\ s2 \in Seq(Instruction) /\ s3 \in Seq(Instruction) BY <1>1, <1>2, <1>4
 <2> QED BY <2>1, ThreeParts
<1> HIDE DEF p
<1>9. /\ BeforeBl \in Seq(Instruction) /\ Len(BeforeBl) = Len(p) + Len(s4) + Len(s5)
      /\ \A k \in 1 .. Len(p) : BeforeBl[k] = p[k]
      /\ \A k \in 1 .. Len(s4) : BeforeBl[Len(p) + k] = s4[k]
      /\ \A k \in 1 .. Len(s5) : BeforeBl[Len(p) + Len(s4) + k] = s5[k]
 <2>1. p \in Seq(Instruction) /\ s4 \in Seq(Instruction) /\ s5 \in Seq(Instruction) BY <1>5, <1>6, <1>8
 <2> QED BY <1>7, <2>1, ThreeParts
<1>10. /\ Len(p) = ReservedArea + 1 + Len(OnStack)
       /\ Len(BeforeBl) = ReservedArea + 1 + Len(OnStack) + Len(InRegisters) + 1 BY <1>1, <1>2, <1>4, <1>5, <1>6, <1>8, <1>9
<1>11. BeforeBl[1] = Ins("save", 0, 0)
 <2>1. 1 \in 1 .. Len(s1) /\ 1 \in 1 .. Len(p) BY <1>1, <1>2, <1>4, <1>10
 <2> QED BY <1>1, <1>8, <1>9, <2>1
<1>12. ReservedArea = 1 => BeforeBl[2] = Ins("sub_sp", OutgoingStackBytes(locs), 0)
 <2> SUFFICES ASSUME ReservedArea = 1 PROVE BeforeBl[2] = Ins("sub_sp", OutgoingStackBytes(locs), 0) OBVIOUS
 <2>1. 1 \in 1 .. Len(s2) /\ 2 \in 1 .. Len(p) /\ Len(s1) + 1 = 2 BY <1>1, <1>2, <1>4, <1>10
 <2>2. BeforeBl[2] = p[2] /\ p[2] = s2[1] BY <1>8, <1>9, <2>1
 <2> QED BY <1>2, <2>2
<1>13. ASSUME NEW j \in 1 .. Len(OnStack)
       PROVE  BeforeBl[ReservedArea + 1 + j]
                = Ins("store_arg", call.args[OnStack[j]], locs[OnStack[j]].at)
 <2>1. /\ j \in 1 .. Len(s3) /\ ReservedArea + 1 + j \in 1 .. Len(p)
       /\ Len(s1) + Len(s2) + j = ReservedArea + 1 + j
  <3>1. Len(s1) = 1 /\ Len(s2) = ReservedArea /\ Len(s3) = Len(OnStack) BY <1>1, <1>2, <1>4
  <3>2. Len(p) = ReservedArea + 1 + Len(OnStack) BY <1>10
  <3>3. ReservedArea \in Nat /\ Len(OnStack) \in Nat /\ j \in 1 .. Len(OnStack) BY <1>2, <1>4
  <3> QED BY <3>1, <3>2, <3>3
 <2>2. BeforeBl[ReservedArea + 1 + j] = p[ReservedArea + 1 + j] BY <1>9, <2>1
 <2>3. p[ReservedArea + 1 + j] = s3[j] BY <1>8, <2>1
 <2>4. s3[j] = Ins("store_arg", call.args[OnStack[j]], locs[OnStack[j]].at) BY <1>4, <2>1
 <2> QED BY <2>2, <2>3, <2>4
<1>14. ASSUME NEW j \in 1 .. Len(InRegisters)
       PROVE  BeforeBl[ReservedArea + 1 + Len(OnStack) + j]
                = Ins("load_arg", call.args[InRegisters[j]], locs[InRegisters[j]].at)
 <2>1. j \in 1 .. Len(s4) /\ Len(p) + j = ReservedArea + 1 + Len(OnStack) + j BY <1>5, <1>10
 <2> QED BY <1>5, <1>9, <2>1
<1>15. BeforeBl[ReservedArea + 1 + Len(OnStack) + Len(InRegisters) + 1] = Ins("bl", 0, 0)
 <2>1. 1 \in 1 .. Len(s5) /\ Len(p) + Len(s4) = ReservedArea + 1 + Len(OnStack) + Len(InRegisters) BY <1>5, <1>6, <1>10
 <2> QED BY <1>6, <1>9, <2>1
<1> QED BY <1>2, <1>4, <1>5, <1>9, <1>10, <1>11, <1>12, <1>13, <1>14, <1>15

(* The instruction that is next tells which part of the code runs and how far
   it is. *)
AtCaller(i) == InCaller(i) /\ Head(code) = BeforeBl[i] /\ Tail(code) = Rest(BeforeBl, i + 1)
AtCallee(i) == InCallee(i) /\ Head(code) = CalleeCode[i] /\ Tail(code) = Rest(CalleeCode, i + 1)
AtBack(i) == BackInCaller(i) /\ Head(code) = AfterBl[i] /\ Tail(code) = Rest(AfterBl, i + 1)

LEMMA OpField == ASSUME NEW op, NEW a, NEW b PROVE Ins(op, a, b).op = op /\ Ins(op, a, b).a = a /\ Ins(op, a, b).b = b
BY DEF Ins

Next0 == ReservedArea + 1
Next1 == Next0 + Len(OnStack)
Next2 == Next1 + Len(InRegisters)

LEMMA ParamPosition ==
  ASSUME ClassifyInv, CallInv, code # <<>>
  PROVE  /\ Running
         /\ \/ /\ Head(code).op = "save" /\ AtCaller(1)
            \/ Head(code).op = "sub_sp" /\ ReservedArea = 1 /\ AtCaller(2)
            \/ Head(code).op = "store_arg" /\ \E j \in 1 .. Len(OnStack) : AtCaller(Next0 + j)
            \/ Head(code).op = "load_arg" /\ \E j \in 1 .. Len(InRegisters) : AtCaller(Next1 + j)
            \/ Head(code).op = "bl" /\ AtCaller(Next2 + 1)
            \/ Head(code).op = "prologue" /\ AtCallee(1)
            \/ Head(code).op = "take_arg" /\ \E k \in DOMAIN locs : AtCallee(k + 1)
            \/ Head(code).op = "body" /\ AtCallee(Len(locs) + 2)
            \/ Head(code).op = "ret" /\ AtCallee(Len(locs) + 3)
            \/ Head(code).op = "add_sp" /\ ReservedArea = 1 /\ AtBack(1)
            \/ Head(code).op = "restore" /\ AtBack(ReservedArea + 1)
            \/ Head(code).op = "result" /\ AtBack(ReservedArea + 2)
<1>1. Running /\ MachineTypes BY DEF CallInv, NotEmitted
<1>2. CASE \E i \in 1 .. Len(BeforeBl) : code = Rest(BeforeBl, i) /\ InCaller(i)
 <2>1. PICK i \in 1 .. Len(BeforeBl) : code = Rest(BeforeBl, i) /\ InCaller(i) BY <1>2
 <2>2. /\ BeforeBl \in Seq(Instruction) /\ Len(BeforeBl) = Next2 + 1
       /\ Len(OnStack) \in Nat /\ Len(InRegisters) \in Nat /\ ReservedArea \in {0, 1}
       /\ BeforeBl[1] = Ins("save", 0, 0)
       /\ ReservedArea = 1 => BeforeBl[2] = Ins("sub_sp", OutgoingStackBytes(locs), 0)
       /\ \A j \in 1 .. Len(OnStack) : BeforeBl[Next0 + j]
            = Ins("store_arg", call.args[OnStack[j]], locs[OnStack[j]].at)
       /\ \A j \in 1 .. Len(InRegisters) : BeforeBl[Next1 + j]
            = Ins("load_arg", call.args[InRegisters[j]], locs[InRegisters[j]].at)
       /\ BeforeBl[Next2 + 1] = Ins("bl", 0, 0) BY <1>1, BeforeBlAt DEF Next0, Next1, Next2
 <2>3. AtCaller(i) BY <2>1, <2>2, RestFacts DEF AtCaller
 <2>4. /\ Head(code) = BeforeBl[i] /\ i \in Nat
       /\ Next0 = ReservedArea + 1 /\ Next1 = Next0 + Len(OnStack)
       /\ Next2 = Next1 + Len(InRegisters) BY <2>2, <2>3 DEF AtCaller, Next0, Next1, Next2
 <2>5. \/ i = 1
       \/ ReservedArea = 1 /\ i = 2
       \/ \E j \in 1 .. Len(OnStack) : i = Next0 + j
       \/ \E j \in 1 .. Len(InRegisters) : i = Next1 + j
       \/ i = Next2 + 1
  <3>1. CASE i <= Next0 BY <2>1, <2>2, <2>4, <3>1
  <3>2. CASE Next0 < i /\ i <= Next1
   <4>1. i - Next0 \in 1 .. Len(OnStack) /\ i = Next0 + (i - Next0) BY <2>2, <2>4, <3>2
   <4> QED BY <4>1
  <3>3. CASE Next1 < i /\ i <= Next2
   <4>1. i - Next1 \in 1 .. Len(InRegisters) /\ i = Next1 + (i - Next1) BY <2>2, <2>4, <3>3
   <4> QED BY <4>1
  <3>4. CASE Next2 < i BY <2>1, <2>2, <2>4, <3>4
  <3> QED BY <2>2, <2>4, <3>1, <3>2, <3>3, <3>4
 <2>6. CASE i = 1 BY <1>1, <2>2, <2>3, <2>4, <2>6, OpField
 <2>7. CASE ReservedArea = 1 /\ i = 2 BY <1>1, <2>2, <2>3, <2>4, <2>7, OpField
 <2>8. CASE \E j \in 1 .. Len(OnStack) : i = Next0 + j BY <1>1, <2>2, <2>3, <2>4, <2>8, OpField
 <2>9. CASE \E j \in 1 .. Len(InRegisters) : i = Next1 + j BY <1>1, <2>2, <2>3, <2>4, <2>9, OpField
 <2>10. CASE i = Next2 + 1 BY <1>1, <2>2, <2>3, <2>4, <2>10, OpField
 <2> QED BY <2>5, <2>6, <2>7, <2>8, <2>9, <2>10
<1>3. CASE \E i \in 1 .. Len(CalleeCode) : code = Rest(CalleeCode, i) /\ InCallee(i)
 <2>1. PICK i \in 1 .. Len(CalleeCode) : code = Rest(CalleeCode, i) /\ InCallee(i) BY <1>3
 <2>2. /\ CalleeCode \in Seq(Instruction)
       /\ Len(CalleeCode) = Len(locs) + 3
       /\ CalleeCode[1] = Ins("prologue", call.callee_frame, 0)
       /\ \A k \in DOMAIN locs :
            CalleeCode[k + 1] = Ins("take_arg", locs[k], call.params[k])
       /\ CalleeCode[Len(locs) + 2] = Ins("body", 0, 0)
       /\ CalleeCode[Len(locs) + 3] = Ins("ret", 0, 0) BY <1>1, CalleeCodeAt
 <2>3. AtCallee(i) BY <2>1, <2>2, RestFacts DEF AtCallee
 <2>4. Head(code) = CalleeCode[i] /\ i \in Nat /\ Len(locs) \in Nat /\ DOMAIN locs = 1 .. Len(locs)
   BY <2>2, <2>3 DEF AtCallee, ClassifyInv, WalkTypes
 <2>5. i = 1 \/ (\E k \in DOMAIN locs : i = k + 1) \/ i = Len(locs) + 2 \/ i = Len(locs) + 3
  <3>1. CASE i > 1 /\ i <= Len(locs) + 1
   <4>1. i - 1 \in DOMAIN locs /\ i = (i - 1) + 1 BY <2>4, <3>1
   <4> QED BY <4>1
  <3>2. CASE i = 1 \/ i > Len(locs) + 1 BY <2>1, <2>2, <2>4, <3>2
  <3> QED BY <2>1, <2>2, <2>4, <3>1, <3>2
 <2>6. CASE i = 1 BY <1>1, <2>2, <2>3, <2>4, <2>6, OpField
 <2>7. CASE \E k \in DOMAIN locs : i = k + 1 BY <1>1, <2>2, <2>3, <2>4, <2>7, OpField
 <2>8. CASE i = Len(locs) + 2 BY <1>1, <2>2, <2>3, <2>4, <2>8, OpField
 <2>9. CASE i = Len(locs) + 3 BY <1>1, <2>2, <2>3, <2>4, <2>9, OpField
 <2> QED BY <2>5, <2>6, <2>7, <2>8, <2>9
<1>4. CASE \E i \in 1 .. Len(AfterBl) + 1 : code = Rest(AfterBl, i) /\ BackInCaller(i)
 <2>1. PICK i \in 1 .. Len(AfterBl) + 1 : code = Rest(AfterBl, i) /\ BackInCaller(i) BY <1>4
 <2>2. /\ AfterBl \in Seq(Instruction)
       /\ Len(AfterBl) = ReservedArea + 2 /\ ReservedArea \in {0, 1}
       /\ ReservedArea = 1 => AfterBl[1] = Ins("add_sp", OutgoingStackBytes(locs), 0)
       /\ AfterBl[ReservedArea + 1] = Ins("restore", 0, 0)
       /\ AfterBl[ReservedArea + 2] = Ins("result", call.result, 0) BY <1>1, AfterBlAt, BeforeBlAt
 <2>3. i \in 1 .. Len(AfterBl) BY <2>1, <2>2, RestFacts
 <2>4. AtBack(i) BY <2>1, <2>2, <2>3, RestFacts DEF AtBack
 <2>5. Head(code) = AfterBl[i] BY <2>4 DEF AtBack
 <2>6. (ReservedArea = 1 /\ i = 1) \/ i = ReservedArea + 1 \/ i = ReservedArea + 2 BY <2>2, <2>3
 <2>7. CASE ReservedArea = 1 /\ i = 1 BY <1>1, <2>2, <2>4, <2>5, <2>7, OpField
 <2>8. CASE i = ReservedArea + 1 BY <1>1, <2>2, <2>4, <2>5, <2>8, OpField
 <2>9. CASE i = ReservedArea + 2 BY <1>1, <2>2, <2>4, <2>5, <2>9, OpField
 <2> QED BY <2>6, <2>7, <2>8, <2>9
<1> QED BY <1>1, <1>2, <1>3, <1>4 DEF Running

-----------------------------------------------------------------------------
(* What no instruction changes: the plan of the call, and the addresses and the
   code that follow from it. *)
PlanKept == UNCHANGED <<classifyVars, call, start>>

LEMMA SamePlan ==
  ASSUME PlanKept
  PROVE  /\ locs' = locs /\ classes' = classes /\ call' = call /\ start' = start
         /\ ClassifyInv' = ClassifyInv
         /\ CallerSp' = CallerSp /\ BandsEnd' = BandsEnd /\ ArgBase' = ArgBase
         /\ CalleeFp' = CalleeFp /\ CalleeSp' = CalleeSp /\ ReservedArea' = ReservedArea
         /\ OnStack' = OnStack /\ InRegisters' = InRegisters
         /\ BeforeBl' = BeforeBl /\ CalleeCode' = CalleeCode /\ AfterBl' = AfterBl
         /\ \A k, i : Done(k, i)' = Done(k, i)
<1>1. /\ locs' = locs /\ classes' = classes /\ call' = call /\ start' = start
      /\ ngrn' = ngrn /\ nsrn' = nsrn /\ stack_off' = stack_off BY DEF PlanKept, classifyVars
<1>2. ClassifyInv' = ClassifyInv BY <1>1 DEF ClassifyInv, WalkTypes, BelowCursors, LastSlotEnds, LocationsDistinct
<1>3. OutgoingStackBytes(locs)' = OutgoingStackBytes(locs) BY <1>1 DEF OutgoingStackBytes, BytesNeeded, StackEnds
<1>4. /\ CallerSp' = CallerSp /\ BandsEnd' = BandsEnd /\ ArgBase' = ArgBase
      /\ CalleeFp' = CalleeFp /\ CalleeSp' = CalleeSp /\ ReservedArea' = ReservedArea
  BY <1>1, <1>3 DEF CallerSp, BandsEnd, ArgBase, CalleeFp, CalleeSp, ReservedArea
<1>5. OnStack' = OnStack /\ InRegisters' = InRegisters BY <1>1 DEF OnStack, InRegisters, Picked
<1>6. BeforeBl' = BeforeBl BY <1>1, <1>3, <1>5 DEF BeforeBl, StackStores, RegisterMoves
<1>7. CalleeCode' = CalleeCode BY <1>1 DEF CalleeCode
<1>8. AfterBl' = AfterBl BY <1>1, <1>3 DEF AfterBl
<1>9. \A k, i : Done(k, i)' = Done(k, i) BY <1>4, <1>5 DEF Done
<1> QED BY <1>1, <1>2, <1>4, <1>5, <1>6, <1>7, <1>8, <1>9

(* The machine after an instruction is what the invariant says of the next one. *)
TypesNow == regs \in [RegNumber -> Int] /\ mem \in [Address -> Int]

LEMMA NextInstruction ==
  ASSUME MachineTypes, Running, PlanKept, after' = after, TypesNow'
  PROVE  /\ \A i \in 1 .. Len(BeforeBl) :
              code' = Rest(BeforeBl, i) /\ InCaller(i)' => CallInv'
         /\ \A i \in 1 .. Len(CalleeCode) :
              code' = Rest(CalleeCode, i) /\ InCallee(i)' => CallInv'
         /\ \A i \in 1 .. Len(AfterBl) + 1 :
              code' = Rest(AfterBl, i) /\ BackInCaller(i)' => CallInv'
<1>1. MachineTypes' BY SamePlan DEF MachineTypes, TypesNow
<1>2. /\ Classified' /\ after' = AfterBl'
      /\ (\A k \in DOMAIN locs : locs[k].kind # "fpr")' BY SamePlan DEF Running, Classified
<1>3. ASSUME NEW i \in 1 .. Len(BeforeBl), code' = Rest(BeforeBl, i), InCaller(i)' PROVE CallInv'
 <2>1. code' = Rest(BeforeBl, i)' /\ i \in 1 .. Len(BeforeBl') BY <1>3, SamePlan DEF Rest
 <2>2. Running' BY <1>2, <1>3, <2>1 DEF Running
 <2> QED BY <1>1, <2>2 DEF CallInv
<1>4. ASSUME NEW i \in 1 .. Len(CalleeCode), code' = Rest(CalleeCode, i), InCallee(i)' PROVE CallInv'
 <2>1. code' = Rest(CalleeCode, i)' /\ i \in 1 .. Len(CalleeCode') BY <1>4, SamePlan DEF Rest
 <2>2. Running' BY <1>2, <1>4, <2>1 DEF Running
 <2> QED BY <1>1, <2>2 DEF CallInv
<1>5. ASSUME NEW i \in 1 .. Len(AfterBl) + 1, code' = Rest(AfterBl, i), BackInCaller(i)' PROVE CallInv'
 <2>1. code' = Rest(AfterBl, i)' /\ i \in 1 .. Len(AfterBl') + 1 BY <1>5, SamePlan DEF Rest
 <2>2. Running' BY <1>2, <1>5, <2>1 DEF Running
 <2> QED BY <1>1, <2>2 DEF CallInv
<1> QED BY <1>3, <1>4, <1>5

(* Registers: those that are allocated have no other use. *)
LEMMA RegisterFacts ==
  /\ Allocatable \subseteq RegNumber /\ Allocatable \subseteq Nat
  /\ \A r \in Allocatable : r # 0 /\ r # 16 /\ r # 29 /\ r # 30 /\ r # 31 /\ ~(r < NumIntArgRegs)
  /\ 0 \in RegNumber /\ 16 \in RegNumber /\ 29 \in RegNumber /\ 30 \in RegNumber /\ 31 \in RegNumber
  /\ \A r \in Nat : r < NumIntArgRegs => r \in RegNumber /\ r < 16
<1>1. NumIntArgRegs \in Nat /\ NumIntArgRegs <= 16 BY ArgumentAssumption, BandAssumption DEF SCRATCH0
<1>2. Allocatable \subseteq Nat
 <2> SUFFICES ASSUME NEW r \in Allocatable PROVE r \in Nat OBVIOUS
 <2>1. PICK k \in DOMAIN Bands : \E j \in DOMAIN Bands[k] : r = Bands[k][j] BY DEF Allocatable
 <2>2. PICK j \in DOMAIN Bands[k] : r = Bands[k][j] BY <2>1
 <2>3. Bands[k] \in Seq(Nat) BY <2>1, BandAssumption
 <2> QED BY <2>2, <2>3
<1>3. Allocatable \cap ((0 .. NumIntArgRegs - 1) \cup {0, 16, 29, 30, 31}) = {} BY BandAssumption DEF SCRATCH0, FP, LR, SP
<1>4. \A r \in Allocatable : r # 0 /\ r # 16 /\ r # 29 /\ r # 30 /\ r # 31 /\ ~(r < NumIntArgRegs) BY <1>1, <1>2, <1>3
<1>5. \A r \in Nat : r < NumIntArgRegs => r \in 0 .. NumIntArgRegs - 1 /\ r < 16 BY <1>1
<1> QED BY <1>2, <1>4, <1>5 DEF RegNumber, SCRATCH0, FP, LR, SP

LEMMA PlaceFacts ==
  ASSUME NEW frame \in Nat, frame % 16 = 0, NEW p \in FramePlaces(frame)
  PROVE  \/ p.kind = "reg" /\ p.id \in Allocatable /\ p = InReg(p.id)
         \/ /\ p.kind = "frame" /\ p = InFrame(p.id) /\ p.id \in Int
            /\ 0 - frame <= p.id /\ p.id <= -8 /\ p.id % 8 = 0
<1>1. CASE p \in {InReg(r) : r \in Allocatable} BY <1>1 DEF InReg
<1>2. CASE p \in {InFrame(-8 * k) : k \in 1 .. frame \div 8}
 <2>1. PICK k \in 1 .. frame \div 8 : p = InFrame(-8 * k) BY <1>2
 <2>2. p.kind = "frame" /\ p.id = -8 * k BY <2>1 DEF InFrame
 <2>3. /\ -8 * k \in Int /\ 0 - frame <= -8 * k /\ -8 * k <= -8 /\ (-8 * k) % 8 = 0 OBVIOUS
 <2> QED BY <2>1, <2>2, <2>3
<1> QED BY <1>1, <1>2 DEF FramePlaces

(* The value of an argument, as long as the caller's registers and frame are
   what they were. *)
LEMMA ArgumentValues ==
  ASSUME ClassifyInv, MachineTypes, Classified, FrameKept, regs[FP] = Top,
         \A r \in Allocatable : regs[r] = start.regs[r], NEW k \in DOMAIN locs
  PROVE  Value(call.args[k]) = InitialValue(call.args[k]) /\ InitialValue(call.args[k]) \in Int
<1> DEFINE p == call.args[k]  frame == call.frame
<1>1. /\ call \in Calls /\ classes = call.classes /\ frame \in Nat /\ frame % 16 = 0
      /\ CallerSp = Top - frame /\ Top \in Nat /\ 0 <= CallerSp
      /\ CallerSp \in Int /\ CallerSp % 16 = 0 BY StackLayout DEF MachineTypes
<1>2. k \in DOMAIN call.args
 <2>1. DOMAIN call.args = DOMAIN call.classes BY <1>1, CallAssumption
 <2>2. DOMAIN locs = 1 .. Len(locs) /\ DOMAIN classes = 1 .. Len(classes) BY DEF ClassifyInv, WalkTypes
 <2> QED BY <1>1, <2>1, <2>2 DEF Classified
<1>3. \/ p \in FramePlaces(frame)
      \/ p.id \in Int /\ p \in {AddressOf(p.id), Constant(p.id)} BY <1>1, <1>2, CallAssumption
<1> HIDE DEF p, frame
<1>4. CASE p \in FramePlaces(frame) /\ p.kind = "reg"
 <2>1. p.id \in Allocatable /\ p.id \in RegNumber BY <1>1, <1>4, PlaceFacts, RegisterFacts
 <2>2. Value(p) = regs[p.id] /\ InitialValue(p) = start.regs[p.id] BY <1>4 DEF Value, InitialValue
 <2> QED BY <2>1, <2>2 DEF MachineTypes, p
<1>5. CASE p \in FramePlaces(frame) /\ p.kind # "reg"
 <2>1. /\ p.kind = "frame" /\ p.id \in Int
       /\ 0 - frame <= p.id /\ p.id <= -8 /\ p.id % 8 = 0 BY <1>1, <1>5, PlaceFacts
 <2>2. Top + p.id \in Int /\ CallerSp <= Top + p.id /\ Top + p.id <= Top BY <1>1, <2>1
 <2>3. (Top + p.id) % 8 = 0
  <3>1. Top % 8 = 0 BY <1>1, CallAssumption DEF SpAlignment
  <3> QED BY <1>1, <2>1, <3>1
 <2>4. Top + p.id \in Address
  <3>1. 0 <= Top + p.id BY <1>1, <2>2
  <3> QED BY <1>1, <2>1, <2>2, <2>3, <3>1 DEF Address
 <2>5. Value(p) = mem[Top + p.id] /\ InitialValue(p) = start.mem[Top + p.id] BY <2>1 DEF Value, InitialValue
 <2> QED BY <2>2, <2>4, <2>5 DEF FrameKept, MachineTypes, p
<1>6. CASE p \in {AddressOf(p.id), Constant(p.id)} /\ p.id \in Int BY <1>1, <1>6 DEF AddressOf, Constant, Value, InitialValue, p
<1> QED BY <1>3, <1>4, <1>5, <1>6

(* Memory: the slots of the bands lie above those of the arguments, apart from
   each other. *)
LEMMA BandShape ==
  ASSUME NEW k \in DOMAIN Bands, NEW j \in DOMAIN Bands[k]
  PROVE  /\ k \in 1 .. Len(Bands) /\ Len(Bands) \in Nat /\ j \in {1, 2}
         /\ Bands[k][j] \in Allocatable
<1>1. Bands[k] \in Seq(Nat) /\ Len(Bands[k]) <= 2 /\ k \in 1 .. Len(Bands) /\ Len(Bands) \in Nat BY BandAssumption
<1>2. j \in {1, 2} BY <1>1
<1> QED BY <1>1, <1>2 DEF Allocatable

LEMMA BandSlots ==
  ASSUME ClassifyInv, MachineTypes, NEW k \in DOMAIN Bands, NEW j \in DOMAIN Bands[k]
  PROVE  /\ BandSlot(k, j) \in Address /\ BandsEnd <= BandSlot(k, j)
         /\ BandSlot(k, j) < CallerSp
<1>1. k \in 1 .. Len(Bands) /\ Len(Bands) \in Nat /\ j \in {1, 2} BY BandShape
<1>2. /\ CallerSp \in Int /\ CallerSp % 16 = 0 /\ CallerSp <= Top /\ Top \in Nat
      /\ BandsEnd = CallerSp - 16 * Len(Bands) /\ BandsEnd \in Int
      /\ CalleeSp \in Int /\ CalleeSp <= BandsEnd
 <2>1. CalleeSp <= BandsEnd
  <3>1. /\ CalleeSp <= CalleeFp /\ CalleeFp <= ArgBase /\ ArgBase <= BandsEnd
        /\ CalleeSp \in Int /\ CalleeFp \in Int /\ ArgBase \in Int /\ BandsEnd \in Int BY StackLayout
  <3> QED BY <3>1
 <2> QED BY <2>1, StackLayout
<1>3. BandSlot(k, j) = CallerSp - 16 * k + 8 * (j - 1) BY DEF BandSlot, BandBytes
<1>4. \A s \in Int : s % 16 = 0 =>
        /\ s - 16 * k + 8 * (j - 1) \in Int /\ s - 16 * k + 8 * (j - 1) < s
        /\ (s - 16 * k + 8 * (j - 1)) % 8 = 0
        /\ s - 16 * Len(Bands) <= s - 16 * k + 8 * (j - 1) BY <1>1
<1>5. /\ BandSlot(k, j) \in Int /\ BandSlot(k, j) < CallerSp /\ BandSlot(k, j) % 8 = 0
      /\ BandsEnd <= BandSlot(k, j) BY <1>2, <1>3, <1>4
<1>6. CalleeSp <= BandSlot(k, j) /\ BandSlot(k, j) <= Top BY <1>2, <1>5
<1> QED BY <1>5, <1>6, AddressFacts

LEMMA SlotNumbers ==
  ASSUME NEW k \in Nat, NEW l \in Nat, NEW j \in {1, 2}, NEW i \in {1, 2},
         2 * (k - l) = j - i
  PROVE  k = l /\ j = i
<1>1. CASE k = l BY <1>1
<1>2. CASE k < l
 <2>1. 2 * (k - l) <= -2 BY <1>2
 <2> QED BY <2>1
<1>3. CASE l < k
 <2>1. 2 <= 2 * (k - l) BY <1>3
 <2> QED BY <2>1
<1> QED BY <1>1, <1>2, <1>3

LEMMA BandSlotsApart ==
  ASSUME ClassifyInv, MachineTypes, NEW k \in DOMAIN Bands, NEW j \in DOMAIN Bands[k],
         NEW l \in DOMAIN Bands, NEW i \in DOMAIN Bands[l], BandSlot(k, j) = BandSlot(l, i)
  PROVE  k = l /\ j = i
<1>1. k \in Nat /\ j \in {1, 2} /\ l \in Nat /\ i \in {1, 2} BY BandShape
<1>2. CallerSp \in Int BY StackLayout
<1>3. CallerSp - 16 * k + 8 * (j - 1) = CallerSp - 16 * l + 8 * (i - 1) BY DEF BandSlot, BandBytes
<1>4. \A s \in Int : s - 16 * k + 8 * (j - 1) = s - 16 * l + 8 * (i - 1) => k = l /\ j = i
 <2> SUFFICES ASSUME NEW s \in Int, s - 16 * k + 8 * (j - 1) = s - 16 * l + 8 * (i - 1) PROVE k = l /\ j = i OBVIOUS
 <2>1. 2 * (k - l) = j - i BY <1>1
 <2> QED BY <1>1, <2>1, SlotNumbers
<1> QED BY <1>2, <1>3, <1>4

LEMMA ArgSlots ==
  ASSUME ClassifyInv, MachineTypes, NEW k \in DOMAIN locs, locs[k].kind = "stack"
  PROVE  /\ locs[k].at \in Nat /\ ArgBase + locs[k].at \in Address
         /\ ArgBase + locs[k].at >= ArgBase /\ ArgBase + locs[k].at < BandsEnd
<1> DEFINE O == OutgoingStackBytes(locs)
<1>1. locs[k].at \in Nat /\ locs[k].at % 8 = 0 BY PlacedFacts DEF ClassifyInv
<1>2. locs[k].at + 8 <= O BY WalkIsSound DEF LocationsSound, OutgoingAreaFits, SlotBytes
<1>3. /\ O \in Nat /\ ArgBase = BandsEnd - O /\ ArgBase \in Int /\ BandsEnd \in Int
      /\ ArgBase % 16 = 0 /\ CalleeSp \in Int /\ Top \in Nat BY StackLayout
<1>4. CalleeSp <= ArgBase /\ BandsEnd <= Top
 <2>1. /\ CalleeSp <= CalleeFp /\ CalleeFp <= ArgBase /\ BandsEnd <= CallerSp /\ CallerSp <= Top
       /\ CalleeSp \in Int /\ CalleeFp \in Int /\ ArgBase \in Int /\ BandsEnd \in Int
       /\ CallerSp \in Int /\ Top \in Nat BY StackLayout
 <2> QED BY <2>1
<1> HIDE DEF O
<1>5. \A x \in Int, n \in Nat : x % 16 = 0 /\ n % 8 = 0 => (x + n) % 8 = 0 /\ x + n \in Int OBVIOUS
<1>6. (ArgBase + locs[k].at) % 8 = 0 /\ ArgBase + locs[k].at \in Int BY <1>1, <1>3, <1>5
<1>7. ArgBase + locs[k].at >= ArgBase /\ ArgBase + locs[k].at < BandsEnd BY <1>1, <1>2, <1>3
<1>8. CalleeSp <= ArgBase + locs[k].at /\ ArgBase + locs[k].at <= Top BY <1>3, <1>4, <1>6, <1>7
<1> QED BY <1>1, <1>6, <1>7, <1>8, AddressFacts

(* A write below an address leaves what is above it. *)
LEMMA KeptAbove ==
  ASSUME ClassifyInv, MachineTypes, PlanKept, NEW x \in Int,
         \A a \in Address : a >= x => mem'[a] = mem[a]
  PROVE  /\ x <= CallerSp /\ FrameKept => FrameKept'
         /\ x <= BandsEnd /\ BandsSaved => BandsSaved'
         /\ x <= ArgBase => \A k \in DOMAIN locs : locs[k].kind = "stack" =>
              mem'[ArgBase + locs[k].at] = mem[ArgBase + locs[k].at]
<1>1. ASSUME x <= CallerSp, FrameKept PROVE FrameKept'
 <2>1. \A a \in Address : a \in Int /\ CallerSp \in Int BY StackLayout, AddressFacts
 <2> QED BY <1>1, <2>1, SamePlan DEF FrameKept
<1>2. ASSUME x <= BandsEnd, BandsSaved PROVE BandsSaved'
 <2>1. ASSUME NEW k \in DOMAIN Bands, NEW j \in DOMAIN Bands[k]
       PROVE  BandSlot(k, j) \in Address /\ BandSlot(k, j) >= x
  <3>1. BandSlot(k, j) \in Address /\ BandsEnd <= BandSlot(k, j) /\ BandSlot(k, j) \in Int BY BandSlots, AddressFacts
  <3>2. BandsEnd \in Int BY StackLayout
  <3> QED BY <1>2, <3>1, <3>2
 <2>3. \A k, j : BandSlot(k, j)' = BandSlot(k, j) BY SamePlan DEF BandSlot
 <2> QED BY <1>2, <2>1, <2>3, SamePlan DEF BandsSaved
<1>3. ASSUME x <= ArgBase, NEW k \in DOMAIN locs, locs[k].kind = "stack"
      PROVE  mem'[ArgBase + locs[k].at] = mem[ArgBase + locs[k].at]
 <2>1. /\ ArgBase + locs[k].at \in Address /\ ArgBase + locs[k].at >= ArgBase
       /\ ArgBase + locs[k].at \in Int BY <1>3, ArgSlots, AddressFacts
 <2>2. ArgBase \in Int BY StackLayout
 <2> QED BY <1>3, <2>1, <2>2
<1> QED BY <1>1, <1>2, <1>3

-----------------------------------------------------------------------------
(* One lemma per instruction.  First the caller, up to the call. *)
LEMMA Advances == ASSUME Advance PROVE code' = Tail(code) /\ after' = after /\ PlanKept
BY DEF Advance, PlanKept, classifyVars

LEMMA CallerCode ==
  ASSUME ClassifyInv, MachineTypes
  PROVE  /\ Len(BeforeBl) = Next2 + 1 /\ Len(OnStack) \in Nat /\ Len(InRegisters) \in Nat
         /\ ReservedArea \in {0, 1}
         /\ Next0 = ReservedArea + 1 /\ Next1 = Next0 + Len(OnStack)
         /\ Next2 = Next1 + Len(InRegisters)
         /\ OnStack \in Seq(DOMAIN locs) /\ InRegisters \in Seq(DOMAIN locs)
BY BeforeBlAt, PickedFacts DEF Next0, Next1, Next2, OnStack, InRegisters, IsPick

LEMMA DoneFacts ==
  ASSUME ClassifyInv, MachineTypes, NEW k \in DOMAIN locs
  PROVE  /\ ~Done(k, 2) /\ (ReservedArea = 1 => ~Done(k, 3))
         /\ \A j \in 1 .. Len(OnStack) :
              Done(k, Next0 + j + 1) => k = OnStack[j] \/ Done(k, Next0 + j)
         /\ \A j \in 1 .. Len(InRegisters) :
              Done(k, Next1 + j + 1) => k = InRegisters[j] \/ Done(k, Next1 + j)
         /\ locs[k].kind # "fpr" => Done(k, Next2 + 1)
<1>1. /\ Len(OnStack) \in Nat /\ Len(InRegisters) \in Nat /\ ReservedArea \in {0, 1}
      /\ Next0 = ReservedArea + 1 /\ Next1 = Next0 + Len(OnStack) /\ Next2 = Next1 + Len(InRegisters)
      /\ DOMAIN OnStack = 1 .. Len(OnStack) /\ DOMAIN InRegisters = 1 .. Len(InRegisters) BY CallerCode
<1>2. ~Done(k, 2) /\ (ReservedArea = 1 => ~Done(k, 3)) BY <1>1 DEF Done
<1>3. ASSUME NEW j \in 1 .. Len(OnStack), Done(k, Next0 + j + 1), k # OnStack[j] PROVE Done(k, Next0 + j)
 <2>1. \A n \in DOMAIN InRegisters : ~(Next0 + j + 1 > 1 + ReservedArea + Len(OnStack) + n) BY <1>1
 <2>2. PICK n \in DOMAIN OnStack : k = OnStack[n] /\ Next0 + j + 1 > 1 + ReservedArea + n BY <1>3, <2>1 DEF Done
 <2>3. n # j BY <1>3, <2>2
 <2>4. Next0 + j > 1 + ReservedArea + n BY <1>1, <2>2, <2>3
 <2> QED BY <2>2, <2>4 DEF Done
<1>4. ASSUME NEW j \in 1 .. Len(InRegisters), Done(k, Next1 + j + 1), k # InRegisters[j] PROVE Done(k, Next1 + j)
 <2>1. CASE \E n \in DOMAIN OnStack : k = OnStack[n]
  <3>1. PICK n \in DOMAIN OnStack : k = OnStack[n] BY <2>1
  <3>2. Next1 + j > 1 + ReservedArea + n BY <1>1
  <3> QED BY <3>1, <3>2 DEF Done
 <2>2. CASE ~ \E n \in DOMAIN OnStack : k = OnStack[n]
  <3>1. PICK n \in DOMAIN InRegisters :
          k = InRegisters[n] /\ Next1 + j + 1 > 1 + ReservedArea + Len(OnStack) + n BY <1>4, <2>2 DEF Done
  <3>2. n # j BY <1>4, <3>1
  <3>3. Next1 + j > 1 + ReservedArea + Len(OnStack) + n BY <1>1, <3>1, <3>2
  <3> QED BY <3>1, <3>3 DEF Done
 <2> QED BY <2>1, <2>2
<1>5. ASSUME locs[k].kind # "fpr" PROVE Done(k, Next2 + 1)
 <2>1. /\ IsPick("stack", Len(locs), OnStack) /\ IsPick("gpr", Len(locs), InRegisters)
       /\ k <= Len(locs) BY PickedFacts DEF OnStack, InRegisters, ClassifyInv, WalkTypes
 <2>2. CASE locs[k].kind = "stack"
  <3>1. PICK n \in DOMAIN OnStack : OnStack[n] = k BY <2>1, <2>2 DEF IsPick
  <3>2. Next2 + 1 > 1 + ReservedArea + n BY <1>1
  <3> QED BY <3>1, <3>2 DEF Done
 <2>3. CASE locs[k].kind = "gpr"
  <3>1. PICK n \in DOMAIN InRegisters : InRegisters[n] = k BY <2>1, <2>3 DEF IsPick
  <3>2. Next2 + 1 > 1 + ReservedArea + Len(OnStack) + n BY <1>1
  <3> QED BY <3>1, <3>2 DEF Done
 <2> QED BY <1>5, <2>2, <2>3, PlacedFacts DEF ClassifyInv
<1> QED BY <1>2, <1>3, <1>4, <1>5

LEMMA SaveStep == ASSUME ClassifyInv, CallInv, Save PROVE CallInv' /\ FrameKept'
<1>1. Running /\ MachineTypes /\ AtCaller(1) BY ParamPosition DEF Save, At, CallInv
<1>2. InCaller(1) /\ code' = Rest(BeforeBl, 2) /\ after' = after /\ PlanKept
 <2>1. 1 + 1 = 2 OBVIOUS
 <2>2. code' = Rest(BeforeBl, 1 + 1) BY <1>1, Advances DEF AtCaller, Save
 <2> QED BY <1>1, <2>1, <2>2, Advances DEF AtCaller, Save
<1>3. /\ FrameKept /\ regs[FP] = Top /\ regs[SP] = CallerSp
      /\ \A r \in Allocatable : regs[r] = start.regs[r] BY <1>2 DEF InCaller
<1>4. \A k, j : Saved(k, j) = BandSlot(k, j) BY <1>3 DEF Saved, BandSlot
<1>5. /\ \A a \in Address :
           mem'[a] = IF \E p \in BandPlace : a = BandSlot(p[1], p[2])
                     THEN LET q == CHOOSE p \in BandPlace : a = BandSlot(p[1], p[2])
                          IN  regs[Bands[q[1]][q[2]]]
                     ELSE mem[a]
      /\ mem' = [a \in Address |-> mem'[a]] BY <1>4 DEF Save
<1>6. ASSUME NEW k \in DOMAIN Bands, NEW j \in DOMAIN Bands[k] PROVE mem'[BandSlot(k, j)] = start.regs[Bands[k][j]]
 <2> DEFINE a == BandSlot(k, j)
            q == CHOOSE p \in BandPlace : a = BandSlot(p[1], p[2])
 <2>1. <<k, j>> \in BandPlace BY DEF BandPlace
 <2>2. q \in BandPlace /\ a = BandSlot(q[1], q[2]) BY <2>1
 <2>3. a \in Address BY <1>1, BandSlots
 <2>4. mem'[a] = regs[Bands[q[1]][q[2]]] BY <1>5, <2>1, <2>3
 <2> HIDE DEF q
 <2>5. q[1] \in DOMAIN Bands /\ q[2] \in DOMAIN Bands[q[1]] BY <2>2 DEF BandPlace
 <2>6. q[1] = k /\ q[2] = j BY <1>1, <2>2, <2>5, BandSlotsApart
 <2>7. Bands[k][j] \in Allocatable BY BandShape
 <2> QED BY <1>3, <2>4, <2>6, <2>7
<1>7. ASSUME NEW a \in Address, a >= CallerSp PROVE mem'[a] = mem[a]
 <2>1. \A k \in DOMAIN Bands : \A j \in DOMAIN Bands[k] : a # BandSlot(k, j)
  <3>1. a \in Int /\ CallerSp \in Int BY <1>1, StackLayout, AddressFacts
  <3>2. \A k \in DOMAIN Bands : \A j \in DOMAIN Bands[k] :
          BandSlot(k, j) < CallerSp /\ BandSlot(k, j) \in Int BY <1>1, BandSlots, AddressFacts
  <3> QED BY <1>7, <3>1, <3>2
 <2>2. ~ \E p \in BandPlace : a = BandSlot(p[1], p[2]) BY <2>1 DEF BandPlace
 <2> QED BY <1>5, <2>2
<1>8. TypesNow'
 <2>1. \A a \in Address : mem'[a] \in Int
  <3> SUFFICES ASSUME NEW a \in Address PROVE mem'[a] \in Int OBVIOUS
  <3>1. CASE \E k \in DOMAIN Bands : \E j \in DOMAIN Bands[k] : a = BandSlot(k, j)
   <4>0. PICK k \in DOMAIN Bands : \E j \in DOMAIN Bands[k] : a = BandSlot(k, j) BY <3>1
   <4>1. PICK j \in DOMAIN Bands[k] : a = BandSlot(k, j) BY <4>0
   <4>2. mem'[a] = start.regs[Bands[k][j]] /\ Bands[k][j] \in RegNumber BY <1>6, <4>1, BandShape, RegisterFacts
   <4> QED BY <1>1, <4>2 DEF MachineTypes
  <3>2. CASE ~ \E k \in DOMAIN Bands : \E j \in DOMAIN Bands[k] : a = BandSlot(k, j)
   <4>1. ~ \E p \in BandPlace : a = BandSlot(p[1], p[2]) BY <3>2 DEF BandPlace
   <4> QED BY <1>1, <1>5, <4>1 DEF MachineTypes
  <3> QED BY <3>1, <3>2
 <2>2. mem' \in [Address -> Int] BY <1>5, <2>1
 <2>3. regs[SP] - BandBytes * Len(Bands) \in Int BY <1>1, <1>3, StackLayout DEF BandBytes
 <2>4. regs' \in [RegNumber -> Int] BY <1>1, <2>3 DEF Save, MachineTypes
 <2> QED BY <2>2, <2>4 DEF TypesNow
<1>9. /\ regs'[SP] = BandsEnd /\ regs'[FP] = Top
      /\ \A r \in Allocatable : regs'[r] = start.regs[r]
 <2>1. regs' = [regs EXCEPT ![SP] = BandsEnd] BY <1>3 DEF Save, BandsEnd
 <2>2. SP \in RegNumber /\ FP \in RegNumber /\ FP # SP BY RegisterFacts DEF SP, FP
 <2>3. \A r \in Allocatable : r \in RegNumber /\ r # SP BY RegisterFacts DEF SP
 <2> QED BY <1>1, <1>3, <2>1, <2>2, <2>3 DEF MachineTypes
<1>10. FrameKept' BY <1>2, <1>3, <1>7, SamePlan DEF FrameKept
<1>11. BandsSaved'
 <2>1. \A k, j : BandSlot(k, j)' = BandSlot(k, j) BY <1>2, SamePlan DEF BandSlot
 <2> QED BY <1>2, <1>6, <2>1, SamePlan DEF BandsSaved
<1>12. InCaller(2)'
 <2>1. ReservedArea \in {0, 1} BY <1>1, CallerCode
 <2>2. ReservedArea = 0 => ArgBase = BandsEnd
  <3>1. ReservedArea = 0 => OutgoingStackBytes(locs) = 0 BY <1>1, StackLayout DEF ReservedArea
  <3> QED BY <1>1, <3>1, StackLayout
 <2>3. regs'[SP] = IF 2 <= 1 + ReservedArea THEN BandsEnd ELSE ArgBase BY <1>9, <2>1, <2>2
 <2>4. \A k \in DOMAIN locs : ~Done(k, 2) BY <1>1, DoneFacts
 <2>5. 2 # 1 OBVIOUS
 <2> QED BY <1>2, <1>9, <1>10, <1>11, <2>3, <2>4, <2>5, SamePlan DEF InCaller
<1>13. 2 \in 1 .. Len(BeforeBl) BY <1>1, CallerCode
<1> QED BY <1>1, <1>2, <1>8, <1>10, <1>12, <1>13, NextInstruction

LEMMA SubSpStep == ASSUME ClassifyInv, CallInv, SubSp PROVE CallInv' /\ FrameKept'
<1>1. Running /\ MachineTypes /\ AtCaller(2) /\ ReservedArea = 1 BY ParamPosition DEF SubSp, At, CallInv
<1>2. InCaller(2) /\ code' = Rest(BeforeBl, 3) /\ after' = after /\ PlanKept
 <2>1. 2 + 1 = 3 OBVIOUS
 <2>2. code' = Rest(BeforeBl, 2 + 1) BY <1>1, Advances DEF AtCaller, SubSp
 <2> QED BY <1>1, <2>1, <2>2, Advances DEF AtCaller, SubSp
<1>3. Head(code).a = OutgoingStackBytes(locs) BY <1>1, BeforeBlAt, OpField DEF AtCaller
<1>4. /\ FrameKept /\ BandsSaved /\ regs[FP] = Top /\ regs[SP] = BandsEnd
      /\ \A r \in Allocatable : regs[r] = start.regs[r] BY <1>1, <1>2 DEF InCaller
<1>5. regs' = [regs EXCEPT ![SP] = ArgBase] /\ mem' = mem BY <1>3, <1>4 DEF SubSp, ArgBase
<1>6. /\ ArgBase \in Int /\ BandsEnd \in Int /\ BandsEnd <= CallerSp /\ CallerSp \in Int BY <1>1, StackLayout
<1>7. TypesNow' BY <1>1, <1>5, <1>6 DEF TypesNow, MachineTypes
<1>8. /\ regs'[SP] = ArgBase /\ regs'[FP] = Top
      /\ \A r \in Allocatable : regs'[r] = start.regs[r]
 <2>1. SP \in RegNumber /\ FP \in RegNumber /\ FP # SP BY RegisterFacts DEF SP, FP
 <2>2. \A r \in Allocatable : r \in RegNumber /\ r # SP BY RegisterFacts DEF SP
 <2> QED BY <1>1, <1>4, <1>5, <2>1, <2>2 DEF MachineTypes
<1>9. FrameKept' /\ BandsSaved'
 <2>1. \A a \in Address : a >= BandsEnd => mem'[a] = mem[a] BY <1>5
 <2> QED BY <1>1, <1>2, <1>4, <1>6, <2>1, KeptAbove
<1>10. InCaller(3)'
 <2>2. \A k \in DOMAIN locs : ~Done(k, 3) BY <1>1, DoneFacts
 <2>3. 3 # 1 /\ ~(3 <= 1 + ReservedArea) BY <1>1
 <2> QED BY <1>2, <1>8, <1>9, <2>2, <2>3, SamePlan DEF InCaller
<1>11. 3 \in 1 .. Len(BeforeBl) BY <1>1, CallerCode
<1> QED BY <1>1, <1>2, <1>7, <1>9, <1>10, <1>11, NextInstruction

LEMMA GprLocation ==
  ASSUME ClassifyInv, NEW k \in DOMAIN locs, locs[k].kind = "gpr"
  PROVE  locs[k].at \in Nat /\ locs[k].at < NumIntArgRegs
<1>1. locs[k].at \in Nat /\ locs[k].at < ngrn /\ ngrn \in 0 .. NumIntArgRegs
  BY PlacedFacts DEF ClassifyInv, BelowCursors, WalkTypes
<1>2. NumIntArgRegs \in Nat BY ArgumentAssumption
<1> QED BY <1>1, <1>2

(* What an argument is, wherever the caller has it. *)
LEMMA InCallerFacts ==
  ASSUME ClassifyInv, MachineTypes, Running, NEW i \in Nat, i > 1 + ReservedArea, InCaller(i)
  PROVE  /\ FrameKept /\ BandsSaved /\ regs[FP] = Top /\ regs[SP] = ArgBase
         /\ \A r \in Allocatable : regs[r] = start.regs[r]
         /\ \A k \in DOMAIN locs : /\ Value(call.args[k]) = InitialValue(call.args[k])
                                   /\ InitialValue(call.args[k]) \in Int
<1>1. ReservedArea \in {0, 1} BY CallerCode
<1>2. /\ FrameKept /\ BandsSaved /\ regs[FP] = Top /\ regs[SP] = ArgBase
      /\ \A r \in Allocatable : regs[r] = start.regs[r] BY <1>1 DEF InCaller
<1> QED BY <1>2, ArgumentValues DEF Running

LEMMA StoreArgStep == ASSUME ClassifyInv, CallInv, StoreArg PROVE CallInv' /\ FrameKept'
<1>1. Running /\ MachineTypes /\ \E j \in 1 .. Len(OnStack) : AtCaller(Next0 + j) BY ParamPosition DEF StoreArg, At, CallInv
<1>2. PICK j \in 1 .. Len(OnStack) : AtCaller(Next0 + j) BY <1>1
<1>3. PICK i \in Nat : i = Next0 + j /\ i > 1 + ReservedArea /\ i + 1 \in 1 .. Len(BeforeBl)
 <2>1. /\ Len(BeforeBl) = Next2 + 1 /\ Len(OnStack) \in Nat /\ Len(InRegisters) \in Nat
       /\ ReservedArea \in {0, 1}
       /\ Next0 = ReservedArea + 1 /\ Next1 = Next0 + Len(OnStack)
       /\ Next2 = Next1 + Len(InRegisters) BY <1>1, CallerCode
 <2>2. Next0 + j \in Nat /\ Next0 + j > 1 + ReservedArea /\ Next0 + j + 1 \in 1 .. Len(BeforeBl) BY <2>1
 <2> QED BY <2>2
<1>4. InCaller(i) /\ code' = Rest(BeforeBl, i + 1) /\ after' = after /\ PlanKept BY <1>2, <1>3, Advances DEF AtCaller, StoreArg
<1>5. PICK k \in DOMAIN locs : k = OnStack[j] /\ locs[k].kind = "stack"
 <2>1. IsPick("stack", Len(locs), OnStack) BY PickedFacts DEF OnStack
 <2>2. j \in DOMAIN OnStack BY <2>1 DEF IsPick
 <2>3. OnStack[j] \in DOMAIN locs /\ locs[OnStack[j]].kind = "stack"
  <3>1. OnStack \in Seq(DOMAIN locs) BY <2>1 DEF IsPick
  <3>2. OnStack[j] \in DOMAIN locs BY <2>2, <3>1, ElementType
  <3> QED BY <2>1, <2>2, <3>2 DEF IsPick
 <2> QED BY <2>3
<1>6. Head(code).a = call.args[k] /\ Head(code).b = locs[k].at
 <2>1. Head(code) = Ins("store_arg", call.args[k], locs[k].at) BY <1>1, <1>2, <1>5, BeforeBlAt DEF AtCaller, Next0
 <2> QED BY <2>1, OpField
<1>7. PICK v \in Int : v = InitialValue(call.args[k]) /\ Value(call.args[k]) = v BY <1>1, <1>3, <1>4, InCallerFacts
<1>8. /\ FrameKept /\ BandsSaved /\ regs[FP] = Top /\ regs[SP] = ArgBase
      /\ \A r \in Allocatable : regs[r] = start.regs[r] BY <1>1, <1>3, <1>4, InCallerFacts
<1>9. /\ locs[k].at \in Nat /\ ArgBase + locs[k].at \in Address
      /\ ArgBase + locs[k].at < BandsEnd
      /\ ArgBase \in Int /\ BandsEnd \in Int /\ BandsEnd <= CallerSp /\ CallerSp \in Int BY <1>1, <1>5, ArgSlots, StackLayout
<1>10. PICK x \in Address : x = ArgBase + locs[k].at /\ x < BandsEnd /\ x \in Int BY <1>1, <1>9, AddressFacts
<1>11. /\ mem' = [mem EXCEPT ![x] = v]
       /\ regs' = regs \/ regs' = [regs EXCEPT ![SCRATCH0] = v] BY <1>6, <1>7, <1>8, <1>10 DEF StoreArg
<1>12. TypesNow' /\ \A a \in Address : mem'[a] = IF a = x THEN v ELSE mem[a] BY <1>1, <1>11 DEF TypesNow, MachineTypes
<1>13. /\ regs'[SP] = ArgBase /\ regs'[FP] = Top
       /\ \A r \in Allocatable : regs'[r] = start.regs[r]
 <2>1. /\ SP \in RegNumber /\ FP \in RegNumber /\ SP # SCRATCH0 /\ FP # SCRATCH0 BY RegisterFacts DEF SP, FP, SCRATCH0
 <2>2. \A r \in Allocatable : r \in RegNumber /\ r # SCRATCH0 BY RegisterFacts DEF SCRATCH0
 <2> QED BY <1>1, <1>8, <1>11, <2>1, <2>2 DEF MachineTypes
<1>14. FrameKept' /\ BandsSaved'
 <2>1. \A a \in Address : a >= BandsEnd => mem'[a] = mem[a]
  <3>1. \A a \in Address : a >= BandsEnd => a # x BY <1>1, <1>9, <1>10, AddressFacts
  <3> QED BY <1>12, <3>1
 <2> QED BY <1>1, <1>4, <1>8, <1>9, <2>1, KeptAbove
<1>15. ASSUME NEW m \in DOMAIN locs, Done(m, i + 1) PROVE ArgThere(m)'
 <2>1. m = k \/ ArgThere(m)
  <3>1. m = k \/ Done(m, i) BY <1>1, <1>3, <1>5, <1>15, DoneFacts
  <3> QED BY <1>4, <3>1 DEF InCaller
 <2>2. CASE locs[m].kind = "gpr"
  <3>1. ArgThere(m) /\ m # k BY <1>5, <2>1, <2>2
  <3>2. /\ locs[m].at \in Nat /\ locs[m].at < NumIntArgRegs BY <2>2, GprLocation
  <3>3. regs'[locs[m].at] = regs[locs[m].at]
   <4>1. locs[m].at \in RegNumber /\ locs[m].at < 16 BY <3>2, RegisterFacts
   <4>2. locs[m].at # SCRATCH0 BY <3>2, <4>1 DEF SCRATCH0
   <4> QED BY <1>1, <1>11, <4>1, <4>2 DEF MachineTypes
  <3> QED BY <1>4, <2>2, <3>1, <3>3, SamePlan DEF ArgThere, ArgAt, InitialValue
 <2>3. CASE locs[m].kind = "stack"
  <3>1. PICK y \in Address : y = ArgBase + locs[m].at BY <1>1, <2>3, ArgSlots
  <3>2. m # k => y # x
   <4>1. SUFFICES ASSUME m # k, y = x PROVE FALSE OBVIOUS
   <4>2. locs[m].at = locs[k].at
    <5>1. locs[m].at \in Nat BY <1>1, <2>3, ArgSlots
    <5> QED BY <1>9, <1>10, <3>1, <4>1, <5>1
   <4>3. locs[m] = Stack(locs[m].at) /\ locs[k] = Stack(locs[k].at) BY <1>5, <2>3, PlacedFacts, StackLocation DEF ClassifyInv
   <4> QED BY <4>1, <4>2, <4>3 DEF ClassifyInv, LocationsDistinct
  <3>3. mem'[y] = InitialValue(call.args[m])
   <4>1. CASE m = k BY <1>7, <1>10, <1>12, <3>1, <4>1
   <4>2. CASE m # k
    <5>1. mem[y] = InitialValue(call.args[m]) BY <2>1, <2>3, <3>1, <4>2 DEF ArgThere, ArgAt
    <5> QED BY <1>12, <3>2, <4>2, <5>1
   <4> QED BY <4>1, <4>2
  <3> QED BY <1>4, <2>3, <3>1, <3>3, SamePlan DEF ArgThere, ArgAt, InitialValue
 <2>4. locs[m].kind # "fpr" BY <1>1 DEF Running
 <2> QED BY <2>2, <2>3, <2>4, PlacedFacts DEF ClassifyInv
<1>16. InCaller(i + 1)'
 <2>1. i + 1 # 1 /\ ~(i + 1 <= 1 + ReservedArea) /\ i + 1 > 1 BY <1>1, <1>3, CallerCode
 <2> QED BY <1>4, <1>13, <1>14, <1>15, <2>1, SamePlan DEF InCaller
<1> QED BY <1>1, <1>3, <1>4, <1>12, <1>14, <1>16, NextInstruction

LEMMA LoadArgStep == ASSUME ClassifyInv, CallInv, LoadArg PROVE CallInv' /\ FrameKept'
<1>1. Running /\ MachineTypes /\ \E j \in 1 .. Len(InRegisters) : AtCaller(Next1 + j) BY ParamPosition DEF LoadArg, At, CallInv
<1>2. PICK j \in 1 .. Len(InRegisters) : AtCaller(Next1 + j) BY <1>1
<1>3. PICK i \in Nat : i = Next1 + j /\ i > 1 + ReservedArea /\ i + 1 \in 1 .. Len(BeforeBl)
 <2>1. /\ Len(BeforeBl) = Next2 + 1 /\ Len(OnStack) \in Nat /\ Len(InRegisters) \in Nat
       /\ ReservedArea \in {0, 1}
       /\ Next0 = ReservedArea + 1 /\ Next1 = Next0 + Len(OnStack)
       /\ Next2 = Next1 + Len(InRegisters) BY <1>1, CallerCode
 <2>2. Next1 + j \in Nat /\ Next1 + j > 1 + ReservedArea /\ Next1 + j + 1 \in 1 .. Len(BeforeBl) BY <2>1
 <2> QED BY <2>2
<1>4. InCaller(i) /\ code' = Rest(BeforeBl, i + 1) /\ after' = after /\ PlanKept BY <1>2, <1>3, Advances DEF AtCaller, LoadArg
<1>5. PICK k \in DOMAIN locs : k = InRegisters[j] /\ locs[k].kind = "gpr"
 <2>1. IsPick("gpr", Len(locs), InRegisters) BY PickedFacts DEF InRegisters
 <2>2. j \in DOMAIN InRegisters BY <2>1 DEF IsPick
 <2>3. InRegisters[j] \in DOMAIN locs /\ locs[InRegisters[j]].kind = "gpr"
  <3>1. InRegisters \in Seq(DOMAIN locs) BY <2>1 DEF IsPick
  <3>2. InRegisters[j] \in DOMAIN locs BY <2>2, <3>1, ElementType
  <3> QED BY <2>1, <2>2, <3>2 DEF IsPick
 <2> QED BY <2>3
<1>6. Head(code).a = call.args[k] /\ Head(code).b = locs[k].at
 <2>1. Head(code) = Ins("load_arg", call.args[k], locs[k].at) BY <1>1, <1>2, <1>5, BeforeBlAt DEF AtCaller, Next1, Next0
 <2> QED BY <2>1, OpField
<1>7. PICK v \in Int : v = InitialValue(call.args[k]) /\ Value(call.args[k]) = v BY <1>1, <1>3, <1>4, InCallerFacts
<1>8. /\ FrameKept /\ BandsSaved /\ regs[FP] = Top /\ regs[SP] = ArgBase
      /\ \A r \in Allocatable : regs[r] = start.regs[r] BY <1>1, <1>3, <1>4, InCallerFacts
<1>9. PICK x \in RegNumber : x = locs[k].at /\ x \in Nat /\ x < NumIntArgRegs /\ x < 16
 <2>1. locs[k].at \in Nat /\ locs[k].at < NumIntArgRegs BY <1>5, GprLocation
 <2> QED BY <2>1, RegisterFacts
<1>10. regs' = [regs EXCEPT ![x] = v] /\ mem' = mem BY <1>6, <1>7, <1>9 DEF LoadArg
<1>11. TypesNow' /\ \A r \in RegNumber : regs'[r] = IF r = x THEN v ELSE regs[r] BY <1>1, <1>10 DEF TypesNow, MachineTypes
<1>12. /\ regs'[SP] = ArgBase /\ regs'[FP] = Top
       /\ \A r \in Allocatable : regs'[r] = start.regs[r]
 <2>1. /\ SP \in RegNumber /\ FP \in RegNumber /\ SP # x /\ FP # x BY <1>9, RegisterFacts DEF SP, FP
 <2>2. \A r \in Allocatable : r \in RegNumber /\ r # x BY <1>9, RegisterFacts
 <2> QED BY <1>8, <1>11, <2>1, <2>2
<1>13. FrameKept' /\ BandsSaved'
 <2>1. \A a \in Address : a >= BandsEnd => mem'[a] = mem[a] BY <1>10
 <2>2. BandsEnd \in Int /\ BandsEnd <= CallerSp BY <1>1, StackLayout
 <2> QED BY <1>1, <1>4, <1>8, <2>1, <2>2, KeptAbove
<1>14. ASSUME NEW m \in DOMAIN locs, Done(m, i + 1) PROVE ArgThere(m)'
 <2>1. m = k \/ ArgThere(m)
  <3>1. m = k \/ Done(m, i) BY <1>1, <1>3, <1>5, <1>14, DoneFacts
  <3> QED BY <1>4, <3>1 DEF InCaller
 <2>2. CASE locs[m].kind = "stack"
  <3>1. ArgThere(m) BY <1>5, <2>1, <2>2
  <3> QED BY <1>4, <1>10, <2>2, <3>1, SamePlan DEF ArgThere, ArgAt, InitialValue
 <2>3. CASE locs[m].kind = "gpr"
  <3>1. PICK y \in RegNumber : y = locs[m].at
   <4>1. locs[m].at \in Nat /\ locs[m].at < NumIntArgRegs BY <2>3, GprLocation
   <4> QED BY <4>1, RegisterFacts
  <3>2. m # k => y # x
   <4>1. SUFFICES ASSUME m # k, y = x PROVE FALSE OBVIOUS
   <4>2. locs[m].at = locs[k].at BY <1>9, <3>1, <4>1
   <4>3. locs[m] = Gpr(locs[m].at) /\ locs[k] = Gpr(locs[k].at) BY <1>5, <2>3, PlacedFacts, RegisterLocation DEF ClassifyInv
   <4> QED BY <4>1, <4>2, <4>3 DEF ClassifyInv, LocationsDistinct
  <3>3. regs'[y] = InitialValue(call.args[m])
   <4>1. CASE m = k BY <1>7, <1>9, <1>11, <3>1, <4>1
   <4>2. CASE m # k
    <5>1. regs[y] = InitialValue(call.args[m]) BY <2>1, <2>3, <3>1, <4>2 DEF ArgThere, ArgAt
    <5> QED BY <1>11, <3>2, <4>2, <5>1
   <4> QED BY <4>1, <4>2
  <3> QED BY <1>4, <2>3, <3>1, <3>3, SamePlan DEF ArgThere, ArgAt, InitialValue
 <2>4. locs[m].kind # "fpr" BY <1>1 DEF Running
 <2> QED BY <2>2, <2>3, <2>4, PlacedFacts DEF ClassifyInv
<1>15. InCaller(i + 1)'
 <2>1. i + 1 # 1 /\ ~(i + 1 <= 1 + ReservedArea) /\ i + 1 > 1 BY <1>1, <1>3, CallerCode
 <2> QED BY <1>4, <1>12, <1>13, <1>14, <2>1, SamePlan DEF InCaller
<1> QED BY <1>1, <1>3, <1>4, <1>11, <1>13, <1>15, NextInstruction

LEMMA BlStep == ASSUME ClassifyInv, CallInv, Bl PROVE CallInv' /\ FrameKept'
<1>1. Running /\ MachineTypes /\ AtCaller(Next2 + 1) BY ParamPosition DEF Bl, At, CallInv
<1>2. InCaller(Next2 + 1) /\ after' = after /\ PlanKept BY <1>1 DEF AtCaller, Bl, PlanKept, classifyVars
<1>3. Next2 + 1 \in Nat /\ Next2 + 1 > 1 + ReservedArea
 <2>1. /\ Len(OnStack) \in Nat /\ Len(InRegisters) \in Nat /\ ReservedArea \in {0, 1}
       /\ Next0 = ReservedArea + 1 /\ Next1 = Next0 + Len(OnStack)
       /\ Next2 = Next1 + Len(InRegisters) BY <1>1, CallerCode
 <2> QED BY <2>1
<1>4. /\ FrameKept /\ BandsSaved /\ regs[FP] = Top /\ regs[SP] = ArgBase
      /\ \A k \in DOMAIN locs : ArgThere(k)
 <2>1. \A k \in DOMAIN locs : Done(k, Next2 + 1) BY <1>1, DoneFacts DEF Running
 <2>2. \A k \in DOMAIN locs : ArgThere(k) BY <1>2, <2>1 DEF InCaller
 <2> QED BY <1>1, <1>2, <1>3, <2>2, InCallerFacts
<1>5. regs' = [regs EXCEPT ![LR] = CallSite] /\ mem' = mem BY DEF Bl
<1>6. TypesNow' /\ \A r \in RegNumber : regs'[r] = IF r = LR THEN CallSite ELSE regs[r]
 <2>1. CallSite \in Int BY DEF CallSite
 <2> QED BY <1>1, <1>5, <2>1 DEF TypesNow, MachineTypes
<1>7. regs'[SP] = ArgBase /\ regs'[FP] = Top /\ regs'[LR] = CallSite BY <1>4, <1>6, RegisterFacts DEF SP, FP, LR
<1>8. FrameKept' /\ BandsSaved'
 <2>1. \A a \in Address : a >= BandsEnd => mem'[a] = mem[a] BY <1>5
 <2>2. BandsEnd \in Int /\ BandsEnd <= CallerSp BY <1>1, StackLayout
 <2> QED BY <1>1, <1>2, <1>4, <2>1, <2>2, KeptAbove
<1>9. ASSUME NEW m \in DOMAIN locs PROVE ArgThere(m)'
 <2>1. CASE locs[m].kind = "gpr"
  <3>1. locs[m].at \in RegNumber /\ locs[m].at # LR BY <2>1, GprLocation, RegisterFacts DEF LR
  <3>2. regs'[locs[m].at] = regs[locs[m].at] BY <1>6, <3>1
  <3> QED BY <1>2, <1>4, <2>1, <3>2, SamePlan DEF ArgThere, ArgAt, InitialValue
 <2>2. CASE locs[m].kind # "gpr" BY <1>2, <1>4, <1>5, <2>2, SamePlan DEF ArgThere, ArgAt, InitialValue
 <2> QED BY <2>1, <2>2
<1>10. InCallee(1)'
 <2>1. Len(locs) \in Nat /\ \A k \in DOMAIN locs : 1 <= k + 1 BY DEF ClassifyInv, WalkTypes
 <2>2. 1 # Len(locs) + 3 /\ ~(1 > 1) BY <2>1
 <2> QED BY <1>2, <1>7, <1>8, <1>9, <2>1, <2>2, SamePlan DEF InCallee
<1>11. code' = Rest(CalleeCode, 1) /\ 1 \in 1 .. Len(CalleeCode)
 <2>1. CalleeCode \in Seq(Instruction) /\ Len(CalleeCode) = Len(locs) + 3 /\ Len(locs) \in Nat
   BY <1>1, CalleeCodeAt DEF ClassifyInv, WalkTypes
 <2>2. Rest(CalleeCode, 1) = CalleeCode BY <2>1, RestFacts
 <2> QED BY <2>1, <2>2 DEF Bl
<1> QED BY <1>1, <1>2, <1>6, <1>8, <1>10, <1>11, NextInstruction

-----------------------------------------------------------------------------
(* The callee. *)
LEMMA CalleeFacts ==
  ASSUME ClassifyInv, MachineTypes
  PROVE  /\ CalleeFp \in Address /\ CalleeFp + 8 \in Address
         /\ CalleeFp \in Int /\ CalleeFp + 8 < ArgBase /\ CalleeFp + 16 = ArgBase
         /\ ArgBase \in Int /\ ArgBase <= BandsEnd /\ BandsEnd <= CallerSp
         /\ BandsEnd \in Int /\ CallerSp \in Int /\ CalleeSp \in Int
         /\ CalleeSp = CalleeFp - call.callee_frame
         /\ CalleeCode \in Seq(Instruction) /\ Len(CalleeCode) = Len(locs) + 3
         /\ Len(locs) \in Nat /\ DOMAIN locs = 1 .. Len(locs)
<1>1. /\ CalleeFp \in Int /\ CalleeFp % 16 = 0 /\ CalleeFp = ArgBase - 16 /\ ArgBase \in Int
      /\ CalleeSp \in Int /\ CalleeSp <= CalleeFp /\ Top \in Nat
      /\ BandsEnd \in Int /\ CallerSp \in Int
      /\ ArgBase <= BandsEnd /\ BandsEnd <= CallerSp /\ CallerSp <= Top
      /\ CalleeSp = CalleeFp - call.callee_frame BY StackLayout
<1>2. CalleeFp + 8 \in Int /\ CalleeFp % 8 = 0 /\ (CalleeFp + 8) % 8 = 0 BY <1>1
<1>3. CalleeFp + 16 = ArgBase /\ CalleeFp + 8 < ArgBase BY <1>1
<1>4. CalleeFp <= Top /\ CalleeFp + 8 <= Top /\ CalleeSp <= CalleeFp + 8 BY <1>1, <1>2, <1>3
<1>5. CalleeFp \in Address /\ CalleeFp + 8 \in Address BY <1>1, <1>2, <1>4, AddressFacts
<1> QED BY <1>1, <1>3, <1>5, CalleeCodeAt DEF ClassifyInv, WalkTypes

LEMMA PrologueStep == ASSUME ClassifyInv, CallInv, Prologue PROVE CallInv' /\ FrameKept'
<1>1. Running /\ MachineTypes /\ AtCallee(1) BY ParamPosition DEF Prologue, At, CallInv
<1>2. InCallee(1) /\ code' = Rest(CalleeCode, 2) /\ after' = after /\ PlanKept
 <2>1. 1 + 1 = 2 OBVIOUS
 <2>2. code' = Rest(CalleeCode, 1 + 1) BY <1>1, Advances DEF AtCallee, Prologue
 <2> QED BY <1>1, <2>1, <2>2, Advances DEF AtCallee, Prologue
<1>3. /\ FrameKept /\ BandsSaved /\ regs[FP] = Top /\ regs[SP] = ArgBase /\ regs[LR] = CallSite
      /\ \A k \in DOMAIN locs : ArgThere(k)
 <2>1. Len(locs) \in Nat /\ 1 <= Len(locs) + 2 /\ \A k \in DOMAIN locs : 1 <= k + 1 BY DEF ClassifyInv, WalkTypes
 <2> QED BY <1>2, <2>1 DEF InCallee
<1>4. Head(code).a = call.callee_frame BY <1>1, CalleeCodeAt, OpField DEF AtCallee
<1>5. PICK x \in Address, y \in Address :
        /\ x = CalleeFp /\ y = CalleeFp + 8 /\ x < ArgBase /\ y < ArgBase /\ x # y BY <1>1, CalleeFacts
<1>6. /\ mem' = [mem EXCEPT ![x] = Top, ![y] = CallSite]
      /\ regs' = [regs EXCEPT ![SP] = CalleeSp, ![FP] = CalleeFp]
 <2>1. /\ regs[SP] - 16 = x /\ regs[SP] - 8 = y /\ regs[SP] - 16 = CalleeFp
       /\ regs[SP] - 16 - Head(code).a = CalleeSp BY <1>1, <1>3, <1>4, <1>5, CalleeFacts DEF CalleeFp, CalleeSp
 <2> QED BY <1>3, <2>1 DEF Prologue
<1>7. Top \in Int /\ CallSite \in Int /\ CalleeSp \in Int /\ CalleeFp \in Int BY <1>1, StackLayout DEF CallSite
<1>8. /\ TypesNow'
      /\ \A a \in Address : mem'[a] = IF a = y THEN CallSite ELSE IF a = x THEN Top ELSE mem[a]
      /\ \A r \in RegNumber : regs'[r] = IF r = FP THEN CalleeFp
                                        ELSE IF r = SP THEN CalleeSp ELSE regs[r] BY <1>1, <1>6, <1>7 DEF TypesNow, MachineTypes
<1>9. regs'[SP] = CalleeSp /\ regs'[FP] = CalleeFp BY <1>8, RegisterFacts DEF SP, FP
<1>10. mem'[CalleeFp] = Top /\ mem'[CalleeFp + 8] = CallSite BY <1>5, <1>8
<1>11. \A a \in Address : a >= ArgBase => mem'[a] = mem[a]
 <2>1. \A a \in Address : a >= ArgBase => a # x /\ a # y BY <1>1, <1>5, AddressFacts, CalleeFacts
 <2> QED BY <1>8, <2>1
<1>12. FrameKept' /\ BandsSaved'
 <2>1. ArgBase \in Int /\ ArgBase <= BandsEnd /\ ArgBase <= CallerSp
  <3>1. /\ ArgBase \in Int /\ BandsEnd \in Int /\ CallerSp \in Int
        /\ ArgBase <= BandsEnd /\ BandsEnd <= CallerSp BY <1>1, CalleeFacts
  <3> QED BY <3>1
 <2> QED BY <1>1, <1>2, <1>3, <1>11, <2>1, KeptAbove
<1>13. ASSUME NEW m \in DOMAIN locs PROVE ArgThere(m)'
 <2>1. CASE locs[m].kind = "gpr"
  <3>1. locs[m].at \in RegNumber /\ locs[m].at # FP /\ locs[m].at # SP BY <2>1, GprLocation, RegisterFacts DEF FP, SP
  <3>2. regs'[locs[m].at] = regs[locs[m].at] BY <1>8, <3>1
  <3> QED BY <1>2, <1>3, <2>1, <3>2, SamePlan DEF ArgThere, ArgAt, InitialValue
 <2>2. CASE locs[m].kind = "stack"
  <3>1. mem'[ArgBase + locs[m].at] = mem[ArgBase + locs[m].at] BY <1>1, <1>2, <1>11, <2>2, KeptAbove, CalleeFacts
  <3> QED BY <1>2, <1>3, <2>2, <3>1, SamePlan DEF ArgThere, ArgAt, InitialValue
 <2>3. locs[m].kind # "fpr" BY <1>1 DEF Running
 <2> QED BY <2>1, <2>2, <2>3, PlacedFacts DEF ClassifyInv
<1>14. InCallee(2)'
 <2>1. Len(locs) \in Nat /\ \A k \in DOMAIN locs : 2 <= k + 1 BY <1>1, CalleeFacts
 <2>2. 2 # Len(locs) + 3 /\ 2 > 1 /\ 2 # 1 BY <2>1
 <2> QED BY <1>2, <1>9, <1>10, <1>12, <1>13, <2>1, <2>2, SamePlan DEF InCallee
<1>15. 2 \in 1 .. Len(CalleeCode) BY <1>1, CalleeFacts
<1> QED BY <1>1, <1>2, <1>8, <1>12, <1>14, <1>15, NextInstruction

LEMMA ParamPlace ==
  ASSUME ClassifyInv, MachineTypes, Classified, NEW k \in DOMAIN locs
  PROVE  /\ \/ /\ call.params[k].kind = "reg" /\ call.params[k].id \in Allocatable
               /\ call.params[k] = InReg(call.params[k].id)
            \/ /\ call.params[k].kind = "frame" /\ call.params[k] = InFrame(call.params[k].id)
               /\ CalleeFp + call.params[k].id \in Address /\ call.params[k].id \in Int
               /\ CalleeFp + call.params[k].id < CalleeFp
         /\ \A j \in DOMAIN locs : call.params[j] = call.params[k] => j = k
<1> DEFINE p == call.params[k]  F == call.callee_frame
<1>1. call \in Calls /\ classes = call.classes /\ F \in Nat /\ F % 16 = 0 BY StackLayout DEF MachineTypes
<1>2. DOMAIN call.params = DOMAIN locs
 <2>1. DOMAIN call.params = DOMAIN call.classes BY <1>1, CallAssumption
 <2>2. DOMAIN locs = 1 .. Len(locs) /\ DOMAIN classes = 1 .. Len(classes) BY DEF ClassifyInv, WalkTypes
 <2> QED BY <1>1, <2>1, <2>2 DEF Classified
<1>3. p \in FramePlaces(F) /\ \A j \in DOMAIN locs : call.params[j] = p => j = k BY <1>1, <1>2, CallAssumption
<1> HIDE DEF p, F
<1>4. \/ p.kind = "reg" /\ p.id \in Allocatable /\ p = InReg(p.id)
      \/ /\ p.kind = "frame" /\ p = InFrame(p.id) /\ p.id \in Int
         /\ 0 - F <= p.id /\ p.id <= -8 /\ p.id % 8 = 0 BY <1>1, <1>3, PlaceFacts
<1>5. ASSUME p.id \in Int, 0 - F <= p.id, p.id <= -8, p.id % 8 = 0
      PROVE  CalleeFp + p.id \in Address /\ CalleeFp + p.id < CalleeFp
 <2>1. /\ CalleeFp \in Int /\ CalleeSp \in Int /\ CalleeSp = CalleeFp - F /\ CalleeFp % 16 = 0
       /\ CalleeFp <= Top /\ Top \in Nat
  <3>1. /\ CalleeFp \in Int /\ ArgBase \in Int /\ BandsEnd \in Int /\ CallerSp \in Int
        /\ CalleeFp <= ArgBase /\ ArgBase <= BandsEnd /\ BandsEnd <= CallerSp
        /\ CallerSp <= Top /\ Top \in Nat BY StackLayout
  <3>2. CalleeFp <= Top BY <3>1
  <3> QED BY <3>1, <3>2, StackLayout DEF F
 <2>2. /\ CalleeFp + p.id \in Int /\ CalleeFp + p.id < CalleeFp /\ CalleeFp + p.id <= Top
       /\ CalleeSp <= CalleeFp + p.id BY <1>1, <1>5, <2>1
 <2>3. (CalleeFp + p.id) % 8 = 0 BY <1>5, <2>1
 <2> QED BY <2>2, <2>3, AddressFacts
<1> QED BY <1>3, <1>4, <1>5 DEF p

LEMMA TakeArgStep == ASSUME ClassifyInv, CallInv, TakeArg PROVE CallInv' /\ FrameKept'
<1>1. Running /\ MachineTypes /\ \E k \in DOMAIN locs : AtCallee(k + 1) BY ParamPosition DEF TakeArg, At, CallInv
<1>2. PICK k \in DOMAIN locs : AtCallee(k + 1) BY <1>1
<1>3. Len(locs) \in Nat /\ DOMAIN locs = 1 .. Len(locs) /\ k \in Nat BY <1>1, CalleeFacts
<1>4. InCallee(k + 1) /\ code' = Rest(CalleeCode, k + 2) /\ after' = after /\ PlanKept
 <2>1. (k + 1) + 1 = k + 2 BY <1>3
 <2>2. code' = Rest(CalleeCode, (k + 1) + 1) BY <1>2, Advances DEF AtCallee, TakeArg
 <2> QED BY <1>2, <2>1, <2>2, Advances DEF AtCallee, TakeArg
<1>5. /\ FrameKept /\ BandsSaved /\ regs[FP] = CalleeFp /\ regs[SP] = CalleeSp
      /\ mem[CalleeFp] = Top /\ mem[CalleeFp + 8] = CallSite
      /\ \A m \in DOMAIN locs : m >= k => ArgThere(m)
      /\ \A m \in DOMAIN locs : m < k => ParamThere(m)
 <2>1. k + 1 # 1 /\ k + 1 > 1 /\ k + 1 <= Len(locs) + 2 BY <1>3
 <2>2. \A m \in DOMAIN locs : m >= k <=> k + 1 <= m + 1 BY <1>3
 <2>3. \A m \in DOMAIN locs : m < k <=> ~(k + 1 <= m + 1) BY <1>3
 <2> QED BY <1>4, <2>1, <2>2, <2>3 DEF InCallee
<1>6. Head(code).a = locs[k] /\ Head(code).b = call.params[k]
 <2>1. Head(code) = Ins("take_arg", locs[k], call.params[k]) BY <1>1, <1>2, CalleeCodeAt DEF AtCallee
 <2> QED BY <2>1, OpField
<1>7. PICK v : /\ v = InitialValue(call.args[k]) /\ Put(call.params[k], v)
               /\ v \in Int
 <2>1. ArgThere(k) BY <1>3, <1>5
 <2>2. IF locs[k].kind = "gpr" THEN ArgAt(k) = regs[locs[k].at] /\ regs[locs[k].at] \in Int
       ELSE /\ ArgAt(k) = mem[regs[FP] + StackArgFpBase + locs[k].at]
            /\ mem[regs[FP] + StackArgFpBase + locs[k].at] \in Int
  <3>1. CASE locs[k].kind = "gpr"
   <4>1. locs[k].at \in RegNumber BY <3>1, GprLocation, RegisterFacts
   <4> QED BY <1>1, <3>1, <4>1 DEF ArgAt, MachineTypes
  <3>2. CASE locs[k].kind = "stack"
   <4>1. ArgBase + locs[k].at \in Address BY <1>1, <3>2, ArgSlots
   <4>2. regs[FP] + StackArgFpBase = ArgBase BY <1>1, <1>5, CalleeFacts DEF StackArgFpBase
   <4> QED BY <1>1, <3>2, <4>1, <4>2 DEF ArgAt, MachineTypes
  <3>3. locs[k].kind # "fpr" BY <1>1 DEF Running
  <3> QED BY <3>1, <3>2, <3>3, PlacedFacts DEF ClassifyInv
 <2> QED BY <1>6, <2>1, <2>2 DEF TakeArg, ArgThere
<1>8. Classified BY <1>1 DEF Running
<1> DEFINE p == call.params[k]
<1>9. \/ /\ p.kind = "reg" /\ p.id \in Allocatable /\ p.id \in RegNumber
         /\ mem' = mem /\ \A r \in RegNumber : regs'[r] = IF r = p.id THEN v ELSE regs[r]
         /\ TypesNow'
      \/ /\ p.kind # "reg" /\ p.kind = "frame"
         /\ CalleeFp + p.id \in Address /\ CalleeFp + p.id < CalleeFp
         /\ p.id \in Int
         /\ regs' = regs
         /\ \A a \in Address : mem'[a] = IF a = CalleeFp + p.id THEN v ELSE mem[a]
         /\ TypesNow'
 <2>1. CASE p.kind = "reg"
  <3>1. p.id \in Allocatable /\ p.id \in RegNumber BY <1>1, <1>8, <2>1, ParamPlace, RegisterFacts
  <3>2. regs' = [regs EXCEPT ![p.id] = v] /\ mem' = mem BY <1>7, <2>1 DEF Put
  <3> HIDE DEF p
  <3> QED BY <1>1, <1>7, <2>1, <3>1, <3>2 DEF MachineTypes, TypesNow
 <2>2. CASE p.kind # "reg"
  <3>1. /\ p.kind = "frame" /\ CalleeFp + p.id \in Address /\ CalleeFp + p.id < CalleeFp
        /\ p.id \in Int BY <1>1, <1>8, <2>2, ParamPlace
  <3>2. mem' = [mem EXCEPT ![CalleeFp + p.id] = v] /\ regs' = regs BY <1>5, <1>7, <2>2 DEF Put
  <3> HIDE DEF p
  <3> QED BY <1>1, <1>7, <2>2, <3>1, <3>2 DEF MachineTypes, TypesNow
 <2> QED BY <2>1, <2>2
<1> HIDE DEF p
<1>10. TypesNow' BY <1>9
<1>11. \A a \in Address : a >= CalleeFp => mem'[a] = mem[a]
 <2>1. \A a \in Address : a \in Int BY <1>1, AddressFacts
 <2>2. CalleeFp \in Int BY <1>1, CalleeFacts
 <2>3. \A a \in Address : a >= CalleeFp => p.kind = "reg" \/ a # CalleeFp + p.id BY <1>9, <2>1, <2>2
 <2> QED BY <1>9, <2>3
<1>12. \A r \in RegNumber : r \notin Allocatable => regs'[r] = regs[r] BY <1>9
<1>13. regs'[SP] = CalleeSp /\ regs'[FP] = CalleeFp
 <2>1. /\ SP \in RegNumber /\ FP \in RegNumber /\ SP \notin Allocatable /\ FP \notin Allocatable BY RegisterFacts DEF SP, FP
 <2> QED BY <1>5, <1>12, <2>1
<1>14. mem'[CalleeFp] = Top /\ mem'[CalleeFp + 8] = CallSite
 <2>1. CalleeFp \in Int /\ CalleeFp \in Address /\ CalleeFp + 8 \in Address BY <1>1, CalleeFacts
 <2>2. CalleeFp >= CalleeFp /\ CalleeFp + 8 >= CalleeFp BY <2>1
 <2> QED BY <1>5, <1>11, <2>1, <2>2
<1>15. CalleeFp \in Int /\ CalleeFp <= ArgBase /\ CalleeFp <= BandsEnd /\ CalleeFp <= CallerSp
 <2>1. /\ ArgBase \in Int /\ BandsEnd \in Int /\ CallerSp \in Int /\ CalleeFp \in Int
       /\ CalleeFp <= ArgBase /\ ArgBase <= BandsEnd /\ BandsEnd <= CallerSp BY <1>1, StackLayout
 <2> QED BY <2>1
<1>16. FrameKept' /\ BandsSaved' BY <1>1, <1>4, <1>5, <1>11, <1>15, KeptAbove
<1>17. ASSUME NEW m \in DOMAIN locs, m > k PROVE ArgThere(m)'
 <2>0. ArgThere(m) BY <1>3, <1>5, <1>17
 <2>1. CASE locs[m].kind = "gpr"
  <3>1. locs[m].at \in RegNumber /\ locs[m].at \notin Allocatable BY <2>1, GprLocation, RegisterFacts
  <3>2. regs'[locs[m].at] = regs[locs[m].at] BY <1>12, <3>1
  <3> QED BY <1>4, <2>0, <2>1, <3>2, SamePlan DEF ArgThere, ArgAt, InitialValue
 <2>2. CASE locs[m].kind = "stack"
  <3>1. mem'[ArgBase + locs[m].at] = mem[ArgBase + locs[m].at] BY <1>1, <1>4, <1>11, <1>15, <2>2, KeptAbove
  <3> QED BY <1>4, <2>0, <2>2, <3>1, SamePlan DEF ArgThere, ArgAt, InitialValue
 <2>3. locs[m].kind # "fpr" BY <1>1 DEF Running
 <2> QED BY <2>1, <2>2, <2>3, PlacedFacts DEF ClassifyInv
<1>18. ASSUME NEW m \in DOMAIN locs, m <= k PROVE ParamThere(m)'
 <2> DEFINE q == call.params[m]
 <2>1. \/ q.kind = "reg" /\ q.id \in Allocatable /\ q = InReg(q.id)
       \/ /\ q.kind = "frame" /\ q = InFrame(q.id)
          /\ CalleeFp + q.id \in Address /\ q.id \in Int BY <1>1, <1>8, ParamPlace
 <2>2. \/ p.kind = "reg" /\ p = InReg(p.id)
       \/ p.kind = "frame" /\ p = InFrame(p.id) BY <1>1, <1>8, ParamPlace DEF p
 <2>3. m # k => q # p BY <1>1, <1>8, ParamPlace DEF p
 <2>4. m # k => Value(q) = InitialValue(call.args[m])
  <3>1. m # k => m < k BY <1>3, <1>18
  <3> QED BY <1>5, <3>1 DEF ParamThere
 <2>5. m = k => q = p /\ v = InitialValue(call.args[m]) BY <1>7 DEF p
 <2>6. (q.kind = "reg" => q.id \in RegNumber) /\ CalleeFp \in Int BY <1>1, <2>1, RegisterFacts, CalleeFacts DEF InFrame
 <2> HIDE DEF q
 <2>7. CASE q.kind = "reg"
  <3>1. regs'[q.id] = InitialValue(call.args[m])
   <4>1. CASE m = k BY <1>9, <2>5, <2>6, <2>7, <4>1
   <4>2. CASE m # k
    <5>1. regs[q.id] = InitialValue(call.args[m]) BY <2>4, <2>7, <4>2 DEF Value
    <5>2. p.kind = "reg" => p.id # q.id BY <2>1, <2>2, <2>3, <2>7, <4>2 DEF InReg, InFrame
    <5> QED BY <1>9, <2>6, <2>7, <5>1, <5>2
   <4> QED BY <4>1, <4>2
  <3> QED BY <1>4, <2>7, <3>1, SamePlan DEF ParamThere, Value, InitialValue, q
 <2>8. CASE q.kind = "frame"
  <3>0. q.kind # "reg" BY <2>8
  <3>1. mem'[CalleeFp + q.id] = InitialValue(call.args[m])
   <4>1. CASE m = k BY <1>9, <2>1, <2>5, <2>8, <4>1
   <4>2. CASE m # k
    <5>1. mem[CalleeFp + q.id] = InitialValue(call.args[m]) BY <1>5, <2>4, <2>8, <4>2 DEF Value
    <5>2. p.kind = "frame" => p.id # q.id BY <2>1, <2>2, <2>3, <2>8, <4>2 DEF InReg, InFrame
    <5>3. p.kind # "reg" => CalleeFp + p.id # CalleeFp + q.id BY <1>9, <2>1, <2>6, <2>8, <5>2
    <5> QED BY <1>9, <2>1, <2>8, <5>1, <5>3
   <4> QED BY <4>1, <4>2
  <3> QED BY <1>4, <1>13, <2>8, <3>1, SamePlan DEF ParamThere, Value, InitialValue, q
 <2> QED BY <2>1, <2>7, <2>8
<1>19. InCallee(k + 2)'
 <2>1. k + 2 # 1 /\ k + 2 > 1 /\ k + 2 # Len(locs) + 3 BY <1>3
 <2>2. \A m \in DOMAIN locs : IF k + 2 <= m + 1 THEN ArgThere(m)' ELSE ParamThere(m)'
  <3> SUFFICES ASSUME NEW m \in DOMAIN locs PROVE IF k + 2 <= m + 1 THEN ArgThere(m)' ELSE ParamThere(m)' OBVIOUS
  <3>1. m > k <=> k + 2 <= m + 1 BY <1>3
  <3>2. m <= k <=> ~(m > k) BY <1>3
  <3> QED BY <1>17, <1>18, <3>1, <3>2
 <2> QED BY <1>4, <1>13, <1>14, <1>16, <2>1, <2>2, SamePlan DEF InCallee
<1>20. k + 2 \in 1 .. Len(CalleeCode) BY <1>1, <1>3, CalleeFacts
<1> QED BY <1>1, <1>4, <1>10, <1>16, <1>19, <1>20, NextInstruction

LEMMA BodyStep == ASSUME ClassifyInv, CallInv, Body PROVE CallInv' /\ FrameKept'
<1>1. Running /\ MachineTypes /\ AtCallee(Len(locs) + 2) BY ParamPosition DEF Body, At, CallInv
<1>2. Len(locs) \in Nat /\ DOMAIN locs = 1 .. Len(locs) BY <1>1, CalleeFacts
<1>3. /\ InCallee(Len(locs) + 2) /\ code' = Rest(CalleeCode, Len(locs) + 3)
      /\ after' = after /\ PlanKept
 <2>1. (Len(locs) + 2) + 1 = Len(locs) + 3 BY <1>2
 <2>2. code' = Rest(CalleeCode, (Len(locs) + 2) + 1) BY <1>1, Advances DEF AtCallee, Body
 <2> QED BY <1>1, <2>1, <2>2, Advances DEF AtCallee, Body
<1>4. /\ FrameKept /\ BandsSaved /\ regs[FP] = CalleeFp /\ regs[SP] = CalleeSp
      /\ mem[CalleeFp] = Top /\ mem[CalleeFp + 8] = CallSite
 <2>1. Len(locs) + 2 # 1 /\ Len(locs) + 2 > 1 BY <1>2
 <2> QED BY <1>3, <2>1 DEF InCallee
<1>5. /\ \A r \in RegNumber : regs'[r] = IF r = 0 THEN Returned
                                        ELSE IF r \in {FP, SP} THEN regs[r] ELSE Junk
      /\ \A a \in Address : mem'[a] = IF a \in OwnMemory THEN Junk ELSE mem[a]
      /\ regs' = [r \in RegNumber |-> regs'[r]] /\ mem' = [a \in Address |-> mem'[a]] BY DEF Body
<1>6. TypesNow'
 <2>1. Returned \in Int /\ Junk \in Int BY DEF Returned, Junk
 <2>2. \A r \in RegNumber : regs'[r] \in Int BY <1>1, <1>5, <2>1 DEF MachineTypes
 <2>3. \A a \in Address : mem'[a] \in Int BY <1>1, <1>5, <2>1 DEF MachineTypes
 <2> QED BY <1>5, <2>2, <2>3 DEF TypesNow
<1>7. regs'[SP] = CalleeSp /\ regs'[FP] = CalleeFp /\ regs'[0] = Returned BY <1>4, <1>5, RegisterFacts DEF SP, FP
<1>8. \A a \in Address : a >= CalleeFp => mem'[a] = mem[a]
 <2>1. \A a \in Address : a \in Int BY <1>1, AddressFacts
 <2>2. CalleeFp \in Int BY <1>1, CalleeFacts
 <2>3. \A a \in Address : a >= CalleeFp => a \notin OwnMemory BY <1>4, <2>1, <2>2 DEF OwnMemory
 <2> QED BY <1>5, <2>3
<1>9. mem'[CalleeFp] = Top /\ mem'[CalleeFp + 8] = CallSite
 <2>1. CalleeFp \in Int /\ CalleeFp \in Address /\ CalleeFp + 8 \in Address BY <1>1, CalleeFacts
 <2>2. CalleeFp >= CalleeFp /\ CalleeFp + 8 >= CalleeFp BY <2>1
 <2> QED BY <1>4, <1>8, <2>1, <2>2
<1>10. FrameKept' /\ BandsSaved'
 <2>1. CalleeFp \in Int /\ CalleeFp <= BandsEnd /\ CalleeFp <= CallerSp
  <3>1. /\ ArgBase \in Int /\ BandsEnd \in Int /\ CallerSp \in Int /\ CalleeFp \in Int
        /\ CalleeFp <= ArgBase /\ ArgBase <= BandsEnd /\ BandsEnd <= CallerSp BY <1>1, StackLayout
  <3> QED BY <3>1
 <2> QED BY <1>1, <1>3, <1>4, <1>8, <2>1, KeptAbove
<1>11. InCallee(Len(locs) + 3)'
 <2>1. Len(locs) + 3 # 1 /\ Len(locs) + 3 > 1 /\ ~(Len(locs) + 3 <= Len(locs) + 2) BY <1>2
 <2>2. locs' = locs BY <1>3, SamePlan
 <2> QED BY <1>3, <1>7, <1>9, <1>10, <2>1, <2>2, SamePlan DEF InCallee
<1>12. Len(locs) + 3 \in 1 .. Len(CalleeCode) BY <1>1, CalleeFacts
<1> QED
 <2>1. PICK i \in 1 .. Len(CalleeCode) : i = Len(locs) + 3 BY <1>12
 <2>2. InCallee(i)' /\ code' = Rest(CalleeCode, i)
  <3>1. i = Len(locs') + 3 BY <1>3, <2>1, SamePlan
  <3> QED BY <1>3, <1>11, <2>1, <3>1 DEF InCallee
 <2> QED BY <1>1, <1>3, <1>6, <1>10, <2>2, NextInstruction

LEMMA RetStep == ASSUME ClassifyInv, CallInv, Ret PROVE CallInv' /\ FrameKept'
<1>1. Running /\ MachineTypes /\ AtCallee(Len(locs) + 3) BY ParamPosition DEF Ret, At, CallInv
<1>2. Len(locs) \in Nat /\ after' = after /\ PlanKept BY <1>1, CalleeFacts DEF Ret, PlanKept, classifyVars
<1>3. /\ FrameKept /\ BandsSaved /\ regs[FP] = CalleeFp
      /\ mem[CalleeFp] = Top /\ mem[CalleeFp + 8] = CallSite /\ regs[0] = Returned
 <2>1. Len(locs) + 3 # 1 /\ Len(locs) + 3 > 1 /\ InCallee(Len(locs) + 3) BY <1>1, <1>2 DEF AtCallee
 <2> QED BY <2>1 DEF InCallee
<1>4. regs' = [regs EXCEPT ![SP] = ArgBase, ![FP] = Top, ![LR] = CallSite] /\ mem' = mem
 <2>1. CalleeFp \in Int /\ CalleeFp + 16 = ArgBase /\ CalleeFp + 0 = CalleeFp BY <1>1, CalleeFacts
 <2>2. regs[FP] + 16 = ArgBase /\ PopPair(0) = Top /\ PopPair(8) = CallSite BY <1>3, <2>1 DEF PopPair
 <2> QED BY <2>2 DEF Ret
<1>5. TypesNow' /\ regs'[SP] = ArgBase /\ regs'[FP] = Top /\ regs'[0] = Returned
 <2>1. /\ SP \in RegNumber /\ FP \in RegNumber /\ LR \in RegNumber /\ 0 \in RegNumber
       /\ SP # FP /\ SP # LR /\ FP # LR /\ SP # 0 /\ FP # 0 /\ LR # 0 BY RegisterFacts DEF SP, FP, LR
 <2>2. ArgBase \in Int /\ Top \in Int /\ CallSite \in Int BY <1>1, StackLayout DEF CallSite
 <2> QED BY <1>1, <1>3, <1>4, <2>1, <2>2 DEF TypesNow, MachineTypes
<1>6. FrameKept' /\ BandsSaved'
 <2>1. \A a \in Address : a >= BandsEnd => mem'[a] = mem[a] BY <1>4
 <2>2. BandsEnd \in Int /\ BandsEnd <= CallerSp BY <1>1, StackLayout
 <2> QED BY <1>1, <1>2, <1>3, <2>1, <2>2, KeptAbove
<1>7. /\ AfterBl \in Seq(Instruction) /\ Len(AfterBl) = ReservedArea + 2 /\ ReservedArea \in {0, 1}
      /\ ReservedArea = 0 => ArgBase = BandsEnd
 <2>1. ReservedArea = 0 => OutgoingStackBytes(locs) = 0 BY <1>1, StackLayout DEF ReservedArea
 <2>2. ReservedArea = 0 => ArgBase = BandsEnd BY <1>1, <2>1, StackLayout
 <2> QED BY <1>1, <2>2, AfterBlAt, CallerCode
<1>8. BackInCaller(1)'
 <2>1. /\ 1 <= ReservedArea + 1 /\ 1 <= ReservedArea + 2 /\ 1 # ReservedArea + 2 /\ 1 # ReservedArea + 3 BY <1>7
 <2>2. regs'[SP] = IF 1 <= ReservedArea THEN ArgBase ELSE IF 1 = ReservedArea + 1 THEN BandsEnd ELSE CallerSp BY <1>5, <1>7
 <2> QED BY <1>2, <1>5, <1>6, <2>1, <2>2, SamePlan DEF BackInCaller
<1>9. code' = Rest(AfterBl, 1) /\ 1 \in 1 .. Len(AfterBl) + 1
 <2>1. Rest(AfterBl, 1) = AfterBl BY <1>7, RestFacts
 <2> QED BY <1>1, <1>7, <2>1 DEF Ret, Running
<1> QED BY <1>1, <1>2, <1>5, <1>6, <1>8, <1>9, NextInstruction

-----------------------------------------------------------------------------
(* The caller again. *)
LEMMA BackFacts ==
  ASSUME ClassifyInv, MachineTypes
  PROVE  /\ Len(AfterBl) = ReservedArea + 2 /\ ReservedArea \in {0, 1}
         /\ BandsEnd \in Int /\ CallerSp \in Int /\ BandsEnd <= CallerSp
         /\ BandsEnd + BandBytes * Len(Bands) = CallerSp
BY AfterBlAt, CallerCode, StackLayout DEF BandBytes

LEMMA AddSpStep == ASSUME ClassifyInv, CallInv, AddSp PROVE CallInv' /\ FrameKept'
<1>1. Running /\ MachineTypes /\ AtBack(1) /\ ReservedArea = 1 BY ParamPosition DEF AddSp, At, CallInv
<1>2. BackInCaller(1) /\ code' = Rest(AfterBl, 2) /\ after' = after /\ PlanKept
 <2>1. 1 + 1 = 2 OBVIOUS
 <2>2. code' = Rest(AfterBl, 1 + 1) BY <1>1, Advances DEF AtBack, AddSp
 <2> QED BY <1>1, <2>1, <2>2, Advances DEF AtBack, AddSp
<1>3. Head(code).a = OutgoingStackBytes(locs) BY <1>1, AfterBlAt, OpField DEF AtBack
<1>4. /\ FrameKept /\ BandsSaved /\ regs[FP] = Top /\ regs[SP] = ArgBase /\ regs[0] = Returned BY <1>1, <1>2 DEF BackInCaller
<1>5. regs' = [regs EXCEPT ![SP] = BandsEnd] /\ mem' = mem
 <2>1. ArgBase + OutgoingStackBytes(locs) = BandsEnd
  <3>1. /\ BandsEnd \in Int /\ OutgoingStackBytes(locs) \in Nat
        /\ ArgBase = BandsEnd - OutgoingStackBytes(locs) BY <1>1, StackLayout, ZenonT(30)
  <3>2. \A a \in Int, b \in Nat : (a - b) + b = a OBVIOUS
  <3> QED BY <3>1, <3>2, Zenon
 <2>2. regs[SP] + Head(code).a = BandsEnd
  <3>1. regs[SP] = ArgBase BY <1>4
  <3> QED BY <1>3, <2>1, <3>1, Zenon
 <2>3. regs' = [regs EXCEPT ![SP] = regs[SP] + Head(code).a] /\ mem' = mem BY DEF AddSp
 <2> QED BY <2>2, <2>3
<1>6. TypesNow' /\ regs'[SP] = BandsEnd /\ regs'[FP] = Top /\ regs'[0] = Returned
 <2>1. SP \in RegNumber /\ FP \in RegNumber /\ 0 \in RegNumber /\ SP # FP /\ SP # 0 BY RegisterFacts DEF SP, FP
 <2>2. BandsEnd \in Int BY <1>1, BackFacts
 <2> QED BY <1>1, <1>4, <1>5, <2>1, <2>2 DEF TypesNow, MachineTypes
<1>7. FrameKept' /\ BandsSaved'
 <2>1. \A a \in Address : a >= BandsEnd => mem'[a] = mem[a] BY <1>5
 <2> QED BY <1>1, <1>2, <1>4, <2>1, BackFacts, KeptAbove
<1>8. BackInCaller(2)'
 <2>1. /\ ~(2 <= ReservedArea) /\ 2 = ReservedArea + 1 /\ 2 <= ReservedArea + 1 /\ 2 <= ReservedArea + 2
       /\ 2 # ReservedArea + 2 /\ 2 # ReservedArea + 3 BY <1>1
 <2> QED BY <1>2, <1>6, <1>7, <2>1, SamePlan DEF BackInCaller
<1>9. 2 \in 1 .. Len(AfterBl) + 1
 <2>1. Len(AfterBl) = ReservedArea + 2 BY <1>1, BackFacts
 <2> QED BY <1>1, <2>1
<1> QED BY <1>1, <1>2, <1>6, <1>7, <1>8, <1>9, NextInstruction

LEMMA RestoreStep == ASSUME ClassifyInv, CallInv, Restore PROVE CallInv' /\ FrameKept'
<1>1. Running /\ MachineTypes /\ AtBack(ReservedArea + 1) BY ParamPosition DEF Restore, At, CallInv
<1>2. /\ BackInCaller(ReservedArea + 1) /\ code' = Rest(AfterBl, ReservedArea + 2)
      /\ after' = after /\ PlanKept
 <2>1. (ReservedArea + 1) + 1 = ReservedArea + 2 BY <1>1, BackFacts
 <2>2. code' = Rest(AfterBl, (ReservedArea + 1) + 1) BY <1>1, Advances DEF AtBack, Restore
 <2> QED BY <1>1, <2>1, <2>2, Advances DEF AtBack, Restore
<1>3. /\ FrameKept /\ BandsSaved /\ regs[FP] = Top /\ regs[SP] = BandsEnd /\ regs[0] = Returned
 <2>1. /\ ~(ReservedArea + 1 <= ReservedArea) /\ ReservedArea + 1 <= ReservedArea + 1
       /\ ReservedArea + 1 <= ReservedArea + 2 BY <1>1, BackFacts
 <2> QED BY <1>2, <2>1 DEF BackInCaller
<1>4. /\ \A r \in RegNumber : regs'[r] =
           IF r = SP THEN regs[SP] + BandBytes * Len(Bands)
           ELSE IF r \in Allocatable
           THEN LET q == CHOOSE p \in BandPlace : Bands[p[1]][p[2]] = r
                IN  mem[regs[SP] + BandBytes * BandFromBottom(q[1]) + 8 * (q[2] - 1)]
           ELSE regs[r]
      /\ regs' = [r \in RegNumber |-> regs'[r]] /\ mem' = mem BY DEF Restore
<1>5. ASSUME NEW r \in Allocatable PROVE regs'[r] = start.regs[r] /\ start.regs[r] \in Int
 <2> DEFINE q == CHOOSE p \in BandPlace : Bands[p[1]][p[2]] = r
 <2>1. \E p \in BandPlace : Bands[p[1]][p[2]] = r
  <3>1. PICK k \in DOMAIN Bands : \E j \in DOMAIN Bands[k] : r = Bands[k][j] BY DEF Allocatable
  <3>2. PICK j \in DOMAIN Bands[k] : r = Bands[k][j] BY <3>1
  <3>3. <<k, j>> \in BandPlace BY DEF BandPlace
  <3> QED BY <3>2, <3>3
 <2>2. q \in BandPlace /\ Bands[q[1]][q[2]] = r BY <2>1
 <2>3. r \in RegNumber /\ r # SP BY RegisterFacts DEF SP
 <2>4. regs'[r] = mem[regs[SP] + BandBytes * BandFromBottom(q[1]) + 8 * (q[2] - 1)] BY <1>4, <2>3
 <2> HIDE DEF q
 <2>5. q[1] \in DOMAIN Bands /\ q[2] \in DOMAIN Bands[q[1]] BY <2>2 DEF BandPlace
 <2>6. regs[SP] + BandBytes * BandFromBottom(q[1]) + 8 * (q[2] - 1) = BandSlot(q[1], q[2])
  <3>1. q[1] \in 1 .. Len(Bands) /\ Len(Bands) \in Nat /\ q[2] \in {1, 2} BY <2>5, BandShape
  <3>2. CallerSp \in Int /\ BandsEnd = CallerSp - 16 * Len(Bands) BY <1>1, StackLayout
  <3>3. \A c \in Int, n, k, j \in Nat :
          c - 16 * n + 16 * (n - k) + 8 * (j - 1) = c - 16 * k + 8 * (j - 1) OBVIOUS
  <3>4. q[1] \in Nat /\ q[2] \in Nat BY <3>1
  <3> QED BY <1>3, <3>1, <3>2, <3>3, <3>4 DEF BandSlot, BandFromBottom, BandBytes
 <2>7. mem[BandSlot(q[1], q[2])] = start.regs[r] BY <1>3, <2>2, <2>5 DEF BandsSaved
 <2> QED BY <1>1, <2>3, <2>4, <2>6, <2>7 DEF MachineTypes
<1>6. regs'[SP] = CallerSp /\ regs'[FP] = Top /\ regs'[0] = Returned
 <2>1. /\ SP \in RegNumber /\ FP \in RegNumber /\ 0 \in RegNumber /\ SP # FP /\ SP # 0
       /\ FP \notin Allocatable /\ 0 \notin Allocatable BY RegisterFacts DEF SP, FP
 <2>2. regs[SP] + BandBytes * Len(Bands) = CallerSp BY <1>1, <1>3, BackFacts
 <2> QED BY <1>3, <1>4, <2>1, <2>2
<1>7. TypesNow'
 <2>1. ASSUME NEW r \in RegNumber PROVE regs'[r] \in Int
  <3>1. CASE r = SP BY <1>1, <1>6, <3>1, BackFacts
  <3>2. CASE r # SP /\ r \in Allocatable BY <1>5, <3>2
  <3>3. CASE r # SP /\ r \notin Allocatable BY <1>1, <1>4, <3>3 DEF MachineTypes
  <3> QED BY <3>1, <3>2, <3>3
 <2> QED BY <1>1, <1>4, <2>1 DEF TypesNow, MachineTypes
<1>8. FrameKept'
 <2>1. \A a \in Address : a >= BandsEnd => mem'[a] = mem[a] BY <1>4
 <2> QED BY <1>1, <1>2, <1>3, <2>1, BackFacts, KeptAbove
<1>9. PICK i \in 1 .. Len(AfterBl) + 1 : i = ReservedArea + 2 BY <1>1, BackFacts
<1>10. BackInCaller(i)'
 <2>1. /\ ~(i <= ReservedArea) /\ i # ReservedArea + 1 /\ ~(i <= ReservedArea + 1) /\ i # ReservedArea + 3
   BY <1>1, <1>9, BackFacts
 <2> QED BY <1>2, <1>5, <1>6, <1>8, <2>1, SamePlan DEF BackInCaller
<1> QED BY <1>1, <1>2, <1>7, <1>8, <1>9, <1>10, NextInstruction

LEMMA ResultStep == ASSUME ClassifyInv, CallInv, Result PROVE CallInv'
<1>1. Running /\ MachineTypes /\ AtBack(ReservedArea + 2) BY ParamPosition DEF Result, At, CallInv
<1>2. ReservedArea \in {0, 1} /\ Len(AfterBl) = ReservedArea + 2 BY <1>1, BackFacts
<1>3. /\ BackInCaller(ReservedArea + 2) /\ code' = Rest(AfterBl, ReservedArea + 3)
      /\ after' = after /\ PlanKept
 <2>1. (ReservedArea + 2) + 1 = ReservedArea + 3 BY <1>2
 <2>2. code' = Rest(AfterBl, (ReservedArea + 2) + 1) BY <1>1, Advances DEF AtBack, Result
 <2> QED BY <1>1, <2>1, <2>2, Advances DEF AtBack, Result
<1>4. /\ FrameKept /\ regs[FP] = Top /\ regs[SP] = CallerSp /\ regs[0] = Returned
      /\ \A r \in Allocatable : regs[r] = start.regs[r]
 <2>1. /\ ~(ReservedArea + 2 <= ReservedArea) /\ ReservedArea + 2 # ReservedArea + 1 /\ ReservedArea + 2 <= ReservedArea + 2
   BY <1>2
 <2> QED BY <1>3, <2>1 DEF BackInCaller
<1>5. Put(call.result, Returned)
 <2>1. Head(code).a = call.result BY <1>1, AfterBlAt, OpField DEF AtBack
 <2> QED BY <1>4, <2>1 DEF Result
<1> DEFINE p == call.result
<1>6. \/ p.kind = "reg" /\ p.id \in Allocatable /\ p = InReg(p.id)
      \/ p.kind = "frame" /\ p = InFrame(p.id) /\ p.id \in Int /\ Top + p.id \in Address
 <2>1. /\ call \in Calls /\ call.frame \in Nat /\ call.frame % 16 = 0
       /\ Top \in Nat /\ Top % 16 = 0 BY <1>1, CallAssumption DEF MachineTypes, SpAlignment
 <2>2. p \in FramePlaces(call.frame) BY <2>1, CallAssumption
 <2>3. \/ p.kind = "reg" /\ p.id \in Allocatable /\ p = InReg(p.id)
       \/ /\ p.kind = "frame" /\ p = InFrame(p.id) /\ p.id \in Int
          /\ 0 - call.frame <= p.id /\ p.id <= -8 /\ p.id % 8 = 0 BY <2>1, <2>2, PlaceFacts
 <2>4. ASSUME p.id \in Int, 0 - call.frame <= p.id, p.id <= -8, p.id % 8 = 0 PROVE Top + p.id \in Address
  <3>1. CallerSp = Top - call.frame /\ 0 <= CallerSp BY <1>1, StackLayout
  <3> HIDE DEF p
  <3>2. Top + p.id \in Int /\ 0 <= Top + p.id /\ Top + p.id <= Top + 32 BY <2>1, <2>4, <3>1
  <3>3. (Top + p.id) % 8 = 0 BY <2>1, <2>4
  <3> QED BY <3>2, <3>3 DEF Address
 <2> QED BY <2>3, <2>4
<1>7. Returned \in Int BY DEF Returned
<1>8. \/ /\ p.kind = "reg" /\ p.id \in Allocatable /\ p.id \in RegNumber
         /\ mem' = mem /\ \A r \in RegNumber : regs'[r] = IF r = p.id THEN Returned ELSE regs[r]
         /\ TypesNow'
      \/ /\ p.kind # "reg" /\ p.kind = "frame"
         /\ Top + p.id \in Address /\ p.id \in Int
         /\ regs' = regs
         /\ \A a \in Address : mem'[a] = IF a = Top + p.id THEN Returned ELSE mem[a]
         /\ TypesNow'
 <2>1. CASE p.kind = "reg"
  <3>1. p.id \in Allocatable /\ p.id \in RegNumber BY <1>6, <2>1, RegisterFacts
  <3>2. regs' = [regs EXCEPT ![p.id] = Returned] /\ mem' = mem BY <1>5, <2>1 DEF Put
  <3> HIDE DEF p
  <3> QED BY <1>1, <1>7, <2>1, <3>1, <3>2 DEF MachineTypes, TypesNow
 <2>2. CASE p.kind # "reg"
  <3>1. p.kind = "frame" /\ Top + p.id \in Address /\ p.id \in Int BY <1>6, <2>2
  <3>2. mem' = [mem EXCEPT ![Top + p.id] = Returned] /\ regs' = regs BY <1>4, <1>5, <2>2 DEF Put
  <3> HIDE DEF p
  <3> QED BY <1>1, <1>7, <2>2, <3>1, <3>2 DEF MachineTypes, TypesNow
 <2> QED BY <2>1, <2>2
<1> HIDE DEF p
<1>9. TypesNow' BY <1>8
<1>10. regs'[SP] = CallerSp /\ regs'[FP] = Top
 <2>1. /\ SP \in RegNumber /\ FP \in RegNumber /\ SP \notin Allocatable /\ FP \notin Allocatable BY RegisterFacts DEF SP, FP
 <2> QED BY <1>4, <1>8, <2>1
<1>11. \A r \in Allocatable \cup {SP, FP} : InReg(r) # p => regs'[r] = start.regs[r]
 <2> SUFFICES ASSUME NEW r \in Allocatable \cup {SP, FP}, InReg(r) # p PROVE regs'[r] = start.regs[r] OBVIOUS
 <2>1. CASE r \in {SP, FP} BY <1>1, <1>10, <2>1 DEF MachineTypes
 <2>2. CASE r \in Allocatable
  <3>1. r \in RegNumber BY <2>2, RegisterFacts
  <3>2. p.kind = "reg" => r # p.id BY <1>6 DEF p, InFrame
  <3> QED BY <1>4, <1>8, <2>2, <3>1, <3>2
 <2> QED BY <2>1, <2>2
<1>12. \A a \in Address : a >= CallerSp /\ InFrame(a - Top) # p => mem'[a] = start.mem[a]
 <2> SUFFICES ASSUME NEW a \in Address, a >= CallerSp, InFrame(a - Top) # p PROVE mem'[a] = start.mem[a] OBVIOUS
 <2>1. p.kind # "reg" => a # Top + p.id
  <3>1. a \in Int /\ Top \in Int BY <1>1, AddressFacts, StackLayout
  <3>2. p.kind # "reg" => a - Top # p.id BY <1>6 DEF p, InReg
  <3> QED BY <1>8, <3>1, <3>2
 <2>2. mem[a] = start.mem[a] BY <1>4 DEF FrameKept
 <2> QED BY <1>8, <2>1, <2>2
<1>13. Value(call.result)' = Returned
 <2>1. CASE p.kind = "reg"
  <3>1. regs'[p.id] = Returned BY <1>8, <2>1
  <3> QED BY <1>3, <2>1, <3>1, SamePlan DEF Value, p
 <2>2. CASE p.kind # "reg"
  <3>1. mem'[Top + p.id] = Returned /\ p.kind = "frame" BY <1>8, <2>2
  <3> QED BY <1>3, <1>10, <2>2, <3>1, SamePlan DEF Value, p
 <2> QED BY <2>1, <2>2
<1>14. CallerStateRestored'
 <2>1. start' = start /\ call' = call /\ start.regs[SP] = CallerSp BY <1>1, <1>3, SamePlan DEF MachineTypes
 <2> QED BY <1>11, <1>12, <1>13, <2>1 DEF CallerStateRestored, p
<1>15. PICK i \in 1 .. Len(AfterBl) + 1 : i = ReservedArea + 3 BY <1>2
<1>16. BackInCaller(i)'
 <2>1. /\ ~(i <= ReservedArea) /\ i # ReservedArea + 1 /\ ~(i <= ReservedArea + 1) /\ ~(i <= ReservedArea + 2)
       /\ i # ReservedArea + 2 BY <1>2, <1>15
 <2> QED BY <1>3, <1>10, <1>14, <2>1, SamePlan DEF BackInCaller
<1> QED BY <1>1, <1>3, <1>9, <1>15, <1>16, NextInstruction

-----------------------------------------------------------------------------
(* From the start to the call: nothing runs before the code exists. *)
LEMMA CallInvInit == ASSUME CallInit PROVE CallInv
<1>1. /\ call \in Calls /\ classes = call.classes /\ code = <<>> /\ after = <<>>
      /\ regs = [r \in RegNumber |->
                   IF r = FP THEN Top ELSE IF r = SP THEN Top - call.frame ELSE 1000 + r]
      /\ mem = [a \in Address |-> 2000 + a]
      /\ start = [regs |-> regs, mem |-> mem] BY DEF CallInit
<1>2. RegNumber \subseteq Int /\ FP \in RegNumber /\ SP \in RegNumber /\ FP # SP
 <2>1. 0 .. NumIntArgRegs - 1 \subseteq Int OBVIOUS
 <2>2. Allocatable \subseteq Int /\ {0, 16, 29, 30, 31} \subseteq Int BY RegisterFacts
 <2>3. RegNumber \subseteq Int BY <2>1, <2>2 DEF RegNumber, SCRATCH0, FP, LR, SP
 <2> QED BY <2>3, RegisterFacts DEF FP, SP
<1>3. Address \subseteq Int /\ Top \in Int /\ Top - call.frame \in Int BY <1>1, CallAssumption DEF Address
<1>4. regs \in [RegNumber -> Int] /\ mem \in [Address -> Int]
 <2>1. \A r \in RegNumber :
         (IF r = FP THEN Top ELSE IF r = SP THEN Top - call.frame ELSE 1000 + r) \in Int BY <1>2, <1>3
 <2>2. \A a \in Address : 2000 + a \in Int BY <1>3
 <2> QED BY <1>1, <2>1, <2>2
<1>5. start.regs = regs /\ start.mem = mem BY <1>1
<1>6. start.regs[FP] = Top /\ start.regs[SP] = CallerSp BY <1>1, <1>2, <1>5 DEF CallerSp
<1> QED BY <1>1, <1>4, <1>5, <1>6 DEF CallInv, MachineTypes, NotEmitted

LEMMA ClassifyKeepsCall ==
  ASSUME ClassifyInv, CallInv, Classify, UNCHANGED <<call, code, after, regs, mem, start>> PROVE CallInv'
<1>1. ~Running BY DEF Running, Classify
<1>2. NotEmitted /\ MachineTypes BY <1>1 DEF CallInv
<1>3. classes' = classes BY DEF Classify, TakeGpr, TakeFpr, SpillToStack
<1> QED BY <1>2, <1>3 DEF CallInv, NotEmitted, MachineTypes, CallerSp

LEMMA EmitStep == ASSUME ClassifyInv, CallInv, Emit PROVE CallInv'
<1>1. NotEmitted /\ MachineTypes /\ PlanKept /\ UNCHANGED <<regs, mem>> /\ Classified
 <2>1. ~Running
  <3>1. after = <<>> /\ (MachineTypes => Len(AfterBl) # 0)
   <4>1. MachineTypes => Len(AfterBl) # 0
    <5>1. MachineTypes => Len(AfterBl) = ReservedArea + 2 /\ ReservedArea \in {0, 1} BY BackFacts
    <5> QED BY <5>1
   <4> QED BY <4>1 DEF Emit
  <3>2. Len(<<>>) = 0 OBVIOUS
  <3> QED BY <3>1, <3>2 DEF Running, CallInv
 <2> QED BY <2>1 DEF CallInv, Emit, PlanKept, classifyVars
<1>2. \A k \in DOMAIN locs : locs[k].kind # "fpr"
 <2> SUFFICES ASSUME NEW k \in DOMAIN locs, locs[k].kind = "fpr" PROVE FALSE OBVIOUS
 <2>1. classes[k] = "float" /\ k \in DOMAIN classes
  <3>1. classes[k] = "float" BY DEF ClassifyInv, BelowCursors
  <3>2. DOMAIN locs = 1 .. Len(locs) /\ DOMAIN classes = 1 .. Len(classes) BY DEF ClassifyInv, WalkTypes
  <3> QED BY <1>1, <3>1, <3>2 DEF Classified
 <2>2. "float" \in ToSet(classes) BY <2>1 DEF ToSet
 <2> QED BY <2>2 DEF Emit
<1>3. MachineTypes' BY <1>1, SamePlan DEF MachineTypes
<1>4. /\ Classified' /\ after' = AfterBl' /\ (\A k \in DOMAIN locs : locs[k].kind # "fpr")'
  BY <1>1, <1>2, SamePlan DEF Classified, Emit
<1>5. BeforeBl \in Seq(Instruction) /\ 1 \in 1 .. Len(BeforeBl)
 <2>1. /\ Len(BeforeBl) = Next2 + 1 /\ Len(OnStack) \in Nat /\ Len(InRegisters) \in Nat
       /\ ReservedArea \in {0, 1} /\ Next0 = ReservedArea + 1 /\ Next1 = Next0 + Len(OnStack)
       /\ Next2 = Next1 + Len(InRegisters) BY <1>1, CallerCode
 <2> QED BY <1>1, <2>1, BeforeBlAt
<1>6. code' = Rest(BeforeBl, 1)' /\ 1 \in 1 .. Len(BeforeBl')
 <2>1. Rest(BeforeBl, 1) = BeforeBl BY <1>5, RestFacts
 <2> QED BY <1>1, <1>5, <2>1, SamePlan DEF Emit, Rest
<1>7. InCaller(1)'
 <2>1. regs'[FP] = Top /\ regs'[SP] = CallerSp /\ \A r \in Allocatable : regs'[r] = start.regs[r]
   BY <1>1 DEF NotEmitted, MachineTypes
 <2>2. FrameKept' BY <1>1, SamePlan DEF FrameKept, NotEmitted
 <2>3. \A k \in DOMAIN locs : ~Done(k, 1)
  <3>1. /\ ReservedArea \in {0, 1} /\ DOMAIN OnStack = 1 .. Len(OnStack) /\ Len(OnStack) \in Nat
        /\ DOMAIN InRegisters = 1 .. Len(InRegisters) BY <1>1, CallerCode
  <3> QED BY <3>1 DEF Done
 <2>4. ~(1 > 1) OBVIOUS
 <2> QED BY <1>1, <2>1, <2>2, <2>3, <2>4, SamePlan DEF InCaller
<1>8. Running' BY <1>4, <1>6, <1>7 DEF Running
<1> QED BY <1>3, <1>8 DEF CallInv

LEMMA StutterStep == ASSUME ClassifyInv, CallInv, UNCHANGED callVars PROVE CallInv'
<1>1. /\ PlanKept /\ code' = code /\ after' = after /\ regs' = regs /\ mem' = mem BY DEF callVars, PlanKept
<1>2. MachineTypes' = MachineTypes /\ NotEmitted' = NotEmitted BY <1>1, SamePlan DEF MachineTypes, NotEmitted
<1>3. FrameKept' = FrameKept /\ BandsSaved' = BandsSaved
 <2>1. \A k, j : BandSlot(k, j)' = BandSlot(k, j) BY <1>1, SamePlan DEF BandSlot
 <2> QED BY <1>1, <2>1, SamePlan DEF FrameKept, BandsSaved
<1>4. \A k : ArgThere(k)' = ArgThere(k) /\ ParamThere(k)' = ParamThere(k)
  BY <1>1, SamePlan DEF ArgThere, ArgAt, ParamThere, Value, InitialValue
<1>5. CallerStateRestored' = CallerStateRestored
 <2>1. Returning' = Returning /\ Value(call.result)' = Value(call.result) BY <1>1, SamePlan DEF Returning, Value
 <2> QED BY <1>1, <2>1, SamePlan DEF CallerStateRestored
<1>6. \A i : InCaller(i)' = InCaller(i) BY <1>1, <1>3, <1>4, SamePlan DEF InCaller
<1>7. \A i : InCallee(i)' = InCallee(i) BY <1>1, <1>3, <1>4, SamePlan DEF InCallee
<1>8. \A i : BackInCaller(i)' = BackInCaller(i) BY <1>1, <1>3, <1>5, SamePlan DEF BackInCaller
<1>9. \A i : /\ Rest(BeforeBl, i)' = Rest(BeforeBl, i) /\ Rest(CalleeCode, i)' = Rest(CalleeCode, i)
             /\ Rest(AfterBl, i)' = Rest(AfterBl, i) BY <1>1, SamePlan DEF Rest
<1>10. Running => Running'
 <2> SUFFICES ASSUME Running PROVE Running' OBVIOUS
 <2>1. Classified' /\ after' = AfterBl' /\ (\A k \in DOMAIN locs : locs[k].kind # "fpr")'
   BY <1>1, SamePlan DEF Running, Classified
 <2>2. \/ \E i \in 1 .. Len(BeforeBl') : code' = Rest(BeforeBl, i)' /\ InCaller(i)'
       \/ \E i \in 1 .. Len(CalleeCode') : code' = Rest(CalleeCode, i)' /\ InCallee(i)'
       \/ \E i \in 1 .. Len(AfterBl') + 1 : code' = Rest(AfterBl, i)' /\ BackInCaller(i)'
   BY <1>1, <1>6, <1>7, <1>8, <1>9, SamePlan DEF Running
 <2> QED BY <2>1, <2>2 DEF Running
<1> QED BY <1>2, <1>10 DEF CallInv

LEMMA CallStep == ASSUME ClassifyInv, CallInv, [CallNext]_callVars PROVE CallInv'
<1>1. CASE UNCHANGED callVars BY <1>1, StutterStep
<1>2. CASE Classify /\ UNCHANGED <<call, code, after, regs, mem, start>> BY <1>2, ClassifyKeepsCall
<1>3. CASE Emit BY <1>3, EmitStep
<1>4. CASE Machine BY <1>4, SaveStep, RestoreStep, SubSpStep, AddSpStep, StoreArgStep, LoadArgStep, BlStep,
     PrologueStep, TakeArgStep, BodyStep, RetStep, ResultStep DEF Machine
<1>5. CASE CallEnded BY <1>5, StutterStep DEF CallEnded
<1> QED BY <1>1, <1>2, <1>3, <1>4, <1>5 DEF CallNext

LEMMA CallInvariant == CallSpec => [](ClassifyInv /\ CallInv)
<1>1. CallInit => CallInv BY CallInvInit
<1>2. ClassifyInv /\ CallInv /\ [CallNext]_callVars => CallInv' BY CallStep
<1> QED BY <1>1, <1>2, ClassifyInvariant, PTL DEF CallSpec

LEMMA CallIsRight == ASSUME ClassifyInv, CallInv PROVE ArgumentsDelivered /\ CallerStateRestored
<1>1. MachineTypes BY DEF CallInv
<1>2. regs[SP] \in {CallerSp, BandsEnd, ArgBase, CalleeSp}
 <2>1. CASE NotEmitted BY <1>1, <2>1 DEF NotEmitted, MachineTypes
 <2>2. CASE Running BY <2>2 DEF Running, InCaller, InCallee, BackInCaller
 <2> QED BY <2>1, <2>2 DEF CallInv
<1>3. regs[SP] % SpAlignment = 0 BY <1>1, <1>2, StackLayout DEF SpAlignment
<1>4. ASSUME At("body") PROVE \A k \in DOMAIN call.params : Value(call.params[k]) = InitialValue(call.args[k])
 <2>1. Running /\ InCallee(Len(locs) + 2) BY <1>4, ParamPosition DEF At, AtCallee
 <2>2. Len(locs) \in Nat /\ DOMAIN locs = 1 .. Len(locs) BY <1>1, CalleeFacts
 <2>3. \A k \in DOMAIN locs : ParamThere(k)
  <3>1. /\ Len(locs) + 2 <= Len(locs) + 2
        /\ \A k \in DOMAIN locs : ~(Len(locs) + 2 <= k + 1) BY <2>2
  <3> QED BY <2>1, <3>1 DEF InCallee
 <2>4. DOMAIN call.params = DOMAIN locs
  <3>1. DOMAIN call.params = DOMAIN classes BY <1>1, CallAssumption DEF MachineTypes
  <3>2. DOMAIN classes = 1 .. Len(classes) /\ Len(classes) = Len(locs) BY <2>1 DEF ClassifyInv, WalkTypes, Running, Classified
  <3> QED BY <2>2, <3>1, <3>2
 <2> QED BY <2>3, <2>4 DEF ParamThere
<1>5. ASSUME Returning PROVE CallerStateRestored
 <2>1. Running BY <1>5 DEF CallInv, NotEmitted, Returning
 <2>2. PICK i \in 1 .. Len(AfterBl) + 1 : code = Rest(AfterBl, i) /\ BackInCaller(i)
  <3>1. /\ BeforeBl \in Seq(Instruction) /\ CalleeCode \in Seq(Instruction) BY <1>1, BeforeBlAt, CalleeCodeAt
  <3>2. \A i \in 1 .. Len(BeforeBl) : Rest(BeforeBl, i) # <<>> BY <3>1, RestFacts
  <3>3. \A i \in 1 .. Len(CalleeCode) : Rest(CalleeCode, i) # <<>> BY <3>1, RestFacts
  <3> QED BY <1>5, <2>1, <3>2, <3>3 DEF Running, Returning
 <2>3. AfterBl \in Seq(Instruction) /\ Len(AfterBl) = ReservedArea + 2 /\ ReservedArea \in {0, 1} BY <1>1, AfterBlAt, BackFacts
 <2>4. i = ReservedArea + 3
  <3>1. i \in 1 .. Len(AfterBl) => Rest(AfterBl, i) # <<>> BY <2>3, RestFacts
  <3>2. i \notin 1 .. Len(AfterBl) BY <1>5, <2>2, <3>1 DEF Returning
  <3> QED BY <2>2, <2>3, <3>2
 <2> QED BY <2>2, <2>4 DEF BackInCaller
<1>6. CallerStateRestored BY <1>5 DEF CallerStateRestored
<1> QED BY <1>3, <1>4, <1>6 DEF ArgumentsDelivered

(* For any number of arguments in registers and on the stack, any bands and
   frames: when the callee's body starts, each parameter holds what the
   argument was before the call, and sp is aligned throughout. *)
THEOREM ParametersReceived == CallSpec => []ArgumentsDelivered
BY CallInvariant, CallIsRight, PTL

(* And after the call, the caller has its frame, its registers, sp and fp back,
   with the result in its place. *)
THEOREM CallerFindsItsState == CallSpec => []CallerStateRestored
BY CallInvariant, CallIsRight, PTL

(* No step of the call writes above the caller's sp, but for the result. *)
THEOREM CallerFrameKept == CallSpec => CallerFrameUntouched
<1> DEFINE Untouched ==
      ~At("result") => \A a \in Address : a >= start.regs[SP] => mem'[a] = mem[a]
<1>1. ClassifyInv /\ CallInv /\ [CallNext]_callVars => [Untouched]_callVars
 <2> SUFFICES ASSUME ClassifyInv, CallInv, CallNext, ~At("result")
              PROVE  \A a \in Address : a >= start.regs[SP] => mem'[a] = mem[a] OBVIOUS
 <2>1. CASE mem' = mem BY <2>1
 <2>2. CASE FrameKept /\ FrameKept' /\ PlanKept
  <3>1. MachineTypes BY DEF CallInv
  <3>2. \A a \in Address : a >= CallerSp => mem'[a] = mem[a] BY <2>2, SamePlan DEF FrameKept
  <3> QED BY <3>1, <3>2 DEF MachineTypes
 <2>3. code # <<>> => FrameKept
  <3> SUFFICES ASSUME code # <<>> PROVE FrameKept OBVIOUS
  <3>1. ReservedArea \in {0, 1} BY BackFacts DEF CallInv
  <3> QED BY <3>1, ParamPosition DEF AtCaller, AtCallee, AtBack, InCaller, InCallee, BackInCaller
 <2>4. CASE Save \/ StoreArg \/ Prologue \/ TakeArg \/ Body
  <3>1. FrameKept' BY <2>4, SaveStep, StoreArgStep, PrologueStep, TakeArgStep, BodyStep
  <3>2. code # <<>> /\ PlanKept BY <2>4, Advances DEF Save, StoreArg, Prologue, TakeArg, Body, At
  <3> QED BY <2>2, <2>3, <3>1, <3>2
 <2>5. CASE SubSp \/ AddSp \/ LoadArg \/ Bl \/ Ret \/ Restore
  <3>1. CASE Ret
   <4>1. FrameKept' /\ code # <<>> /\ PlanKept BY <3>1, RetStep DEF Ret, At, PlanKept, classifyVars
   <4> QED BY <2>2, <2>3, <4>1
  <3> QED BY <2>1, <2>5, <3>1 DEF SubSp, AddSp, LoadArg, Bl, Restore
 <2>6. CASE Emit \/ CallEnded \/ (Classify /\ UNCHANGED <<call, code, after, regs, mem, start>>)
   BY <2>1, <2>6 DEF Emit, CallEnded, callVars
 <2>7. ~Result BY DEF Result
 <2> QED BY <2>4, <2>5, <2>6, <2>7 DEF CallNext, Machine
<1> QED BY <1>1, CallInvariant, PTL DEF CallSpec, CallerFrameUntouched
=============================================================================
