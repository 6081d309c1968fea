---------------------------- MODULE Declarations ----------------------------
(* From top-level declarations to storage: what ModuleRegistration has put into
   the registry is laid out by AArch64AsmGenerator::generate, structs first and
   in the order of the registry, and then the frame of a function that has the
   program's locals and spills its vregs. *)
EXTENDS ModuleRegistration, FrameLayout

ASSUME ProgramsAssumption ==
  \A p \in Programs :
    /\ \A j \in DOMAIN p.elements :
         p.elements[j].k = "struct" => p.elements[j].members \in Seq(Dtype)
    /\ \A v \in DOMAIN p.locals : p.locals[v] \in Dtype
    /\ p.spills \in Seq(SpillBytes)

vars == <<registrationVars, layoutVars, frameVars>>

Init == RegistrationInit /\ FrameInit

(* Structs are numbered as the registry lists them; what it does not list has
   no layout. *)
Position(s) ==
  IF s \in DOMAIN struct_types THEN CHOOSE p \in DOMAIN struct_order : struct_order[p] = s
  ELSE Len(struct_order) + 1
Numbered(d) == IF d.base \in Scalars THEN d ELSE [d EXCEPT !.base = Position(@)]
AllNumbered(ds) == [j \in DOMAIN ds |-> Numbered(ds[j])]

GenerateAssembly ==
  /\ phase = "done" /\ error = "none"
  /\ phase' = "assembly"
  /\ structs' = [p \in DOMAIN struct_order |-> AllNumbered(struct_types[struct_order[p]])]
  /\ allocas' = AllNumbered(program.locals)
  /\ waiting' = DOMAIN program.locals
  /\ spills' = program.spills
  /\ UNCHANGED <<program, next, pending, error, registry, called, global_list, structDefs,
                 layouts, offsets, offset, max_align, failed, frame_size, slots>>

Halted ==
  /\ \/ phase = "done" /\ error # "none"
     \/ phase = "assembly" /\ (failed \/ FrameDone)
  /\ UNCHANGED vars

Next ==
  \/ RegistrationNext /\ UNCHANGED <<layoutVars, frameVars>>
  \/ GenerateAssembly
  \/ FrameNext /\ UNCHANGED registrationVars
  \/ Halted

Spec == Init /\ [][Next]_vars
-----------------------------------------------------------------------------
NoStructTwice == \A i, j \in Places("struct") : program.elements[i].s = program.elements[j].s => i = j
LocalsKnown == StructsIn(program.locals) \subseteq DOMAIN struct_types

(* Fields lie apart and aligned in every struct, and elements in an array of
   them.  Every accepted program has its layouts, unless it defines a struct
   twice (the second definition takes the place of the first, in front of the
   structs it may need) or a local of a struct nobody defined. *)
LayoutsSound ==
  /\ FieldsApart /\ ElementsAligned
  /\ phase = "assembly" /\ NoStructTwice /\ LocalsKnown => ~failed

(* In whatever order slots are made: no two share a byte, none reaches the
   saved fp/lr pair or the outgoing arguments, and each is aligned for what it
   holds, although alloc_slot aligns only its upper end. *)
FrameSound == SlotsApart /\ SlotsAligned
=============================================================================
