------------------------- MODULE ModuleRegistration -------------------------
(* IrGenerator::generate of ir::gen::module_gen: imports first, then one pass
   that registers every top-level element, then one that generates the bodies.
   Maps that keep insertion order (IndexMap) are a function and, where the
   order matters, a sequence of keys.  A name is a pair <<module, identifier>>;
   the module of a name of this file is "". *)
EXTENDS StaticEval, Sequences, FiniteSets

CONSTANTS
  Programs,    \* [uses |-> modules, elements |-> top-level elements, ...]
  Headers,     \* the .teah files that exist, each a sequence of elements
  Malformed    \* those that do not parse

(* Top-level elements.  A signature is "i32", "void" or one the registry
   refuses; a body is the set of names it calls, and a number of its own. A
   member has a count and a base, a scalar (negative) or a struct, whose names
   are positive numbers. *)
Var(x, init) == [k |-> "var", x |-> x, init |-> init]
FnDecl(x, sig) == [k |-> "fn_decl", x |-> x, sig |-> sig]
FnDef(x, sig, calls, n) == [k |-> "fn_def", x |-> x, sig |-> sig, calls |-> calls, n |-> n]
StructDef(s, members) == [k |-> "struct", s |-> s, members |-> members]
Uninitialized == [op |-> "none"]
StructInit == [op |-> "struct"]
NoBody == 0

Refused == {"array_parameter", "struct_result"}
SignatureError(sig) ==
  IF sig = "array_parameter" THEN "ArrayParameterNotAllowed" ELSE "UnsupportedReturnType"
Initial(init) ==
  CASE init.op = "none" -> Ok(0)
    [] init.op = "struct" -> Err("StructInitialization")
    [] OTHER -> Static[init]

(* What a parsed program and a parsed header are. *)
IsSequence(s) == s \in Seq({s[j] : j \in DOMAIN s})

ASSUME SourceAssumption ==
  /\ \A m \in DOMAIN Headers :
       IsSequence(Headers[m]) /\ \A j \in DOMAIN Headers[m] : Headers[m][j].k # "eof"
  /\ \A p \in Programs :
       /\ IsSequence(p.uses) /\ IsSequence(p.elements)
       /\ \A j \in DOMAIN p.elements :
            LET e == p.elements[j] IN
              /\ e.k = "var" => e.init \in Expressions \cup {Uninitialized, StructInit}
              /\ e.k = "struct" => e.s \in Nat \ {0} /\ IsSequence(e.members)

VARIABLES
  program,
  phase,           \* "uses", "elements", "bodies", "done"
  next,            \* position in the pass
  pending,         \* declarations of the header being read
  error,
  function_types,  \* name -> signature
  link_names,      \* name -> symbol
  bodies,          \* function_list: name -> body, NoBody for a skeleton
  called,          \* symbols the bodies call
  global_list,     \* name -> value
  struct_types,    \* name -> members
  struct_order     \* keys of struct_types

registry == <<function_types, link_names, bodies>>
structDefs == <<struct_types, struct_order>>
registrationVars == <<program, phase, next, pending, error, registry, called, global_list, structDefs>>

RegistrationInit ==
  /\ program \in Programs
  /\ phase = "uses" /\ next = 1 /\ pending = <<>> /\ error = "none"
  /\ function_types = <<>> /\ link_names = <<>> /\ bodies = <<>> /\ called = {}
  /\ global_list = <<>> /\ struct_types = <<>> /\ struct_order = <<>>

With(f, x, v) == [y \in DOMAIN f \cup {x} |-> IF y = x THEN v ELSE f[y]]
Fail(e) ==
  /\ error' = e /\ phase' = "done"
  /\ UNCHANGED <<program, next, pending, registry, called, global_list, structDefs>>
-----------------------------------------------------------------------------
(* compute_link_name: the last segment of an external name, the name of an
   unqualified one.  No name of this file is qualified. *)
ComputeLinkName(name) == name[2]

(* handle_fn_decl. *)
LinkTakenNever(link) == FALSE
LinkTaken(link) == \E n \in DOMAIN link_names : link_names[n] = link
DeclError(name, sig) ==
  IF sig \in Refused THEN SignatureError(sig)
  ELSE IF name \in DOMAIN function_types
  THEN IF function_types[name] = sig THEN "none" ELSE "ConflictedFunction"
  ELSE IF LinkTaken(ComputeLinkName(name)) THEN "ConflictedLinkName" ELSE "none"
KeepOld(f, x, v) == IF x \in DOMAIN f THEN f ELSE With(f, x, v)
Register(name, sig) ==
  /\ function_types' = KeepOld(function_types, name, sig)
  /\ link_names' = KeepOld(link_names, name, ComputeLinkName(name))
  /\ bodies' = KeepOld(bodies, name, NoBody)
HandleFnDecl(name, sig, Go) ==
  IF DeclError(name, sig) # "none" THEN Fail(DeclError(name, sig))
  ELSE Register(name, sig) /\ Go

(* Pass 1, handle_use_stmt: a missing or malformed header ends it, else its
   function declarations are registered one by one; what else a header holds is
   skipped. *)
Use == program.uses[next]
OpenHeader ==
  /\ phase = "uses" /\ pending = <<>> /\ next <= Len(program.uses)
  /\ IF Use \notin DOMAIN Headers THEN Fail("ModuleNotFound")
     ELSE IF Use \in Malformed THEN Fail("ModuleParseFailed")
     ELSE /\ pending' = Headers[Use] \o <<[k |-> "eof"]>>
          /\ UNCHANGED <<program, phase, next, error, registry, called, global_list, structDefs>>
ImportDecl ==
  /\ phase = "uses" /\ pending # <<>> /\ Head(pending).k = "fn_decl"
  /\ HandleFnDecl(<<Use, Head(pending).x>>, Head(pending).sig,
       /\ pending' = Tail(pending)
       /\ UNCHANGED <<program, phase, next, error, called, global_list, structDefs>>)
SkipElement ==
  /\ phase = "uses" /\ pending # <<>> /\ Head(pending).k \notin {"fn_decl", "eof"}
  /\ pending' = Tail(pending)
  /\ UNCHANGED <<program, phase, next, error, registry, called, global_list, structDefs>>
CloseHeader ==
  /\ phase = "uses" /\ pending # <<>> /\ Head(pending).k = "eof"
  /\ pending' = <<>> /\ next' = next + 1
  /\ UNCHANGED <<program, phase, error, registry, called, global_list, structDefs>>

NextPass(from, to, n) ==
  /\ phase = from /\ pending = <<>> /\ next > n
  /\ phase' = to /\ next' = 1
  /\ UNCHANGED <<program, pending, error, registry, called, global_list, structDefs>>

(* Pass 2. *)
Element == program.elements[next]
Registering(k) == phase = "elements" /\ next <= Len(program.elements) /\ Element.k = k
Registered == next' = next + 1 /\ UNCHANGED <<program, phase, pending, error, called>>
Own(x) == <<"", x>>

RegisterGlobal ==
  /\ Registering("var")
  /\ IF Initial(Element.init).error # "none" THEN Fail(Initial(Element.init).error)
     ELSE IF Element.x \in DOMAIN global_list THEN Fail("VariableRedefinition")
     ELSE /\ global_list' = With(global_list, Element.x, Initial(Element.init).v)
          /\ Registered /\ UNCHANGED <<registry, structDefs>>
RegisterFnDecl ==
  /\ Registering("fn_decl")
  /\ HandleFnDecl(Own(Element.x), Element.sig, Registered /\ UNCHANGED <<global_list, structDefs>>)

(* handle_fn_def. *)
MismatchIgnored(prior, sig) == FALSE
Mismatch(prior, sig) == prior # sig
RegisterFnDef ==
  /\ Registering("fn_def")
  /\ IF Own(Element.x) \in DOMAIN function_types
     THEN IF Element.sig \in Refused THEN Fail(SignatureError(Element.sig))
          ELSE IF Mismatch(function_types[Own(Element.x)], Element.sig) THEN Fail("DeclDefMismatch")
          ELSE Registered /\ UNCHANGED <<registry, global_list, structDefs>>
     ELSE HandleFnDecl(Own(Element.x), Element.sig, Registered /\ UNCHANGED <<global_list, structDefs>>)

(* handle_struct_def: the structs of the members must be there; an entry of the
   same name is replaced and keeps its place. *)
StructsIn(members) == {b \in {members[m].base : m \in DOMAIN members} : b > 0}
MembersKnown(members) == StructsIn(members) \subseteq DOMAIN struct_types
InsertedKeys(x) == IF x \in DOMAIN struct_types THEN struct_order ELSE Append(struct_order, x)
RegisterStruct ==
  /\ Registering("struct")
  /\ IF ~MembersKnown(Element.members) THEN Fail("UndefinedStructMemberType")
     ELSE /\ struct_types' = With(struct_types, Element.s, Element.members)
          /\ struct_order' = InsertedKeys(Element.s)
          /\ Registered /\ UNCHANGED <<registry, global_list>>

(* Pass 3: a body is generated with every name registered and replaces the
   skeleton, or an earlier body of the same name. *)
Attach(f, x, n) == With(f, x, n)
GenerateBody ==
  /\ phase = "bodies" /\ next <= Len(program.elements)
  /\ IF Element.k # "fn_def" THEN UNCHANGED <<bodies, called, error, phase>> /\ next' = next + 1
     ELSE IF \E n \in Element.calls : n \notin DOMAIN function_types
     THEN error' = "FunctionNotDefined" /\ phase' = "done" /\ UNCHANGED <<bodies, called, next>>
     ELSE /\ bodies' = Attach(bodies, Own(Element.x), Element.n)
          /\ called' = called \cup {link_names[n] : n \in Element.calls}
          /\ next' = next + 1 /\ UNCHANGED <<error, phase>>
  /\ UNCHANGED <<program, pending, function_types, link_names, global_list, structDefs>>

RegistrationNext ==
  \/ OpenHeader \/ ImportDecl \/ SkipElement \/ CloseHeader
  \/ NextPass("uses", "elements", Len(program.uses))
  \/ RegisterGlobal \/ RegisterFnDecl \/ RegisterFnDef \/ RegisterStruct
  \/ NextPass("elements", "bodies", Len(program.elements))
  \/ GenerateBody
  \/ NextPass("bodies", "done", Len(program.elements))
-----------------------------------------------------------------------------
(* The rules without the passes and their order: what is said about each name,
   by whichever element. *)
Imports ==
  UNION {{[name |-> <<program.uses[j], d.x>>, sig |-> d.sig] :
            d \in {e \in {Headers[program.uses[j]][l] : l \in DOMAIN Headers[program.uses[j]]} : e.k = "fn_decl"}}
         : j \in {l \in DOMAIN program.uses : program.uses[l] \in DOMAIN Headers}}
Places(k) == {j \in DOMAIN program.elements : program.elements[j].k = k}
Functions ==
  Imports \cup {[name |-> Own(program.elements[j].x), sig |-> program.elements[j].sig] :
                  j \in Places("fn_decl") \cup Places("fn_def")}
StructsGrounded ==
  \A j \in Places("struct") :
    \A m \in StructsIn(program.elements[j].members) :
      \E l \in Places("struct") : l < j /\ program.elements[l].s = m
Consistent ==
  /\ \A j \in DOMAIN program.uses : program.uses[j] \in DOMAIN Headers \ Malformed
  /\ \A f \in Functions : f.sig \notin Refused
  /\ \A f, g \in Functions : f.name[2] = g.name[2] => f = g
  /\ \A i, j \in Places("var") : program.elements[i].x = program.elements[j].x => i = j
  /\ \A j \in Places("var") :
       \/ program.elements[j].init = Uninitialized
       \/ program.elements[j].init # StructInit /\ Evaluable(program.elements[j].init)
  /\ \A j \in Places("fn_def") : program.elements[j].calls \subseteq {f.name : f \in Functions}

Accepted == phase = "done" /\ error = "none"

(* A program is compiled exactly if its elements agree, whatever the order they
   come in, and its initializers have values; structs alone have to be defined
   before they are nested. That a struct has no field of reference type
   (docs/tealang.md:122, 163 and 596, "enforced semantically") is not among the
   rules of Consistent, because handle_struct_def (module_gen.rs:514-550) does
   not look: a program with such a field is accepted and counts as consistent. *)
ExactlyConsistent == phase = "done" => (error = "none" <=> Consistent /\ StructsGrounded)

(* One symbol names one function. *)
SymbolsDistinct ==
  \A m, n \in DOMAIN link_names : link_names[m] = link_names[n] => m = n

(* Every defined function is emitted with a body of its own, what is only
   declared stays external, and what is called is one or the other. *)
DefinedAreEmitted ==
  Accepted =>
    /\ \A n \in DOMAIN bodies :
         IF \E j \in Places("fn_def") : Own(program.elements[j].x) = n
         THEN \E j \in Places("fn_def") : Own(program.elements[j].x) = n /\ bodies[n] = program.elements[j].n
         ELSE bodies[n] = NoBody
    /\ called \subseteq {link_names[n] : n \in DOMAIN link_names}

(* "A local putint may not coexist with std::putint, because both lower to the
   same C symbol", and the linker finds every function that is called. *)
LinkageSound == SymbolsDistinct /\ DefinedAreEmitted

(* A global starts with the value a local initialized with the same expression
   gets when the program runs. *)
SameAsExecuted ==
  Accepted => \A j \in Places("var") :
                program.elements[j].init # Uninitialized =>
                  global_list[program.elements[j].x] = Executed[program.elements[j].init]
=============================================================================
