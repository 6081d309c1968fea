--------------------------- MODULE TypeInference ---------------------------
(* ir::gen::type_infer, and what FunctionGenerator makes of its answer: one
   walk over the body gives the untyped locals their types, a second one
   allocates the slots and stores into them.  A statement is named by its path:
   positions in nested blocks, the arm of an if between them. *)
EXTENDS Ast, Integers, FiniteSets

CONSTANTS
  Bodies,
  Locals,      \* names bodies may use besides these two
  Params,      \* parameters and their types
  Globals,     \* global variables and their types
  Structs,     \* fields of the structs: sequences of [m, ty]
  Returns,     \* functions and what they return
  Types        \* the types expressions of the bodies can have

Pending == [k |-> "pending"]
Err(name) == [k |-> "error", name |-> name]
Failed(t) == t.k = "error"

VARIABLES
  body,
  phase,      \* "infer", "inferred", "lower", "done"
  error,
  tasks,      \* what is left of the current walk
  env,        \* inference: name -> [st, at]; at is the path of an untyped declaration
  saved,      \* environments of the branches being merged
  resolved,   \* resolved_types
  locals, scopes,
  seen, learned, stored   \* history: statements accepted, types learned, stores into locals

inferring == <<env, saved, resolved, seen, learned>>
lowering == <<locals, scopes, stored>>
vars == <<body, phase, error, tasks, inferring, lowering>>
-----------------------------------------------------------------------------
(* The first result that is an error, or else t. *)
RECURSIVE OrError(_, _)
OrError(ts, t) ==
  IF ts = <<>> THEN t ELSE IF Failed(Head(ts)) THEN Head(ts) ELSE OrError(Tail(ts), t)

(* Expression typing; look is lookup_dtype.  An index is not looked at. *)
ElementType(t) ==
  IF t.k = "array" THEN t.of ELSE IF t.k = "ptr" /\ t.of.k = "array" THEN t.of.of ELSE t
Referenced(t) ==
  IF t.k = "array" \/ (t.k = "ptr" /\ t.of.k = "array") THEN PtrTo(ArrayOf(ElementType(t), NoLength))
  ELSE Err("InvalidReference")
RECURSIVE MemberOf(_, _)
MemberOf(t, m) ==
  CASE t.k \in {"ptr", "array"} -> MemberOf(t.of, m)
    [] t.k = "struct" /\ HasFieldIn(Structs[t.s], m) -> Structs[t.s][FieldIn(Structs[t.s], m)].ty
    [] OTHER -> Err("InvalidStructMemberExpression")

(* The type of a place. *)
RECURSIVE PlaceType(_, _)
PlaceType(lv, look) ==
  LET base == PlaceType(lv.b, look)
  IN  CASE lv.k = "id" -> look[lv.x]
        [] lv.k = "elem" -> OrError(<<base>>, ElementType(base))
        [] lv.k = "member" -> OrError(<<base>>, MemberOf(base, lv.m))

RECURSIVE TypeOf(_, _)
TypeOf(e, look) ==
  CASE e.k = "num" -> I32
    [] e.k = "id" -> IF look[e.x].k = "array" THEN look[e.x].of ELSE look[e.x]
    [] e.k = "ref" -> OrError(<<look[e.x]>>, Referenced(look[e.x]))
    [] e.k \in {"elem", "member"} -> PlaceType(e, look)
    [] e.k = "call" ->
         OrError([j \in DOMAIN e.args |-> TypeOf(e.args[j], look)],
                 IF QualifiedName(e) \in DOMAIN Returns THEN Returns[QualifiedName(e)]
                 ELSE Err("FunctionNotDefined"))
    [] e.k \in {"arith", "compare", "and", "or"} -> OrError(<<TypeOf(e.l, look), TypeOf(e.r, look)>>, I32)
    [] e.k \in {"not", "bool"} -> OrError(<<TypeOf(e.c, look)>>, I32)
Typings(es, look) == OrError([j \in DOMAIN es |-> TypeOf(es[j], look)], I32)

AllNames == Locals \cup DOMAIN Params \cup DOMAIN Globals
LookupDtype(x) ==
  IF x \in DOMAIN env
  THEN IF env[x].st = Pending THEN Err("TypeNotDetermined") ELSE env[x].st
  ELSE IF x \in DOMAIN Globals THEN Globals[x] ELSE Err("VariableNotDefined")
Look == [x \in AllNames |-> LookupDtype(x)]
Typed(e) == TypeOf(e, Look)
-----------------------------------------------------------------------------
BlockTasks(ss, path) == [j \in DOMAIN ss |-> [t |-> "stmt", s |-> ss[j], at |-> Append(path, j)]]

Init ==
  /\ body \in Bodies
  /\ phase = "infer" /\ error = "none"
  /\ tasks = BlockTasks(body, <<>>)
  /\ env = [x \in DOMAIN Params |-> [st |-> Params[x], at |-> <<>>]]
  /\ saved = <<>> /\ resolved = <<>>
  /\ locals = Params /\ scopes = <<>>
  /\ seen = <<>> /\ learned = {} /\ stored = {}

Task == Head(tasks)
Stmt(ph, k) == phase = ph /\ tasks # <<>> /\ Task.t = "stmt" /\ Task.s.k = k
Then(ts) == tasks' = ts \o Tail(tasks)
Top(s) == s[Len(s)]
Pop(s) == SubSeq(s, 1, Len(s) - 1)
With(f, x, v) == [y \in DOMAIN f \cup {x} |-> IF y = x THEN v ELSE f[y]]

Undetermined == {x \in DOMAIN env : env[x].st = Pending}

(* A handler either fails, which ends everything, or goes on. *)
Reject(e) ==
  /\ error' = e.name /\ phase' = "done"
  /\ UNCHANGED <<body, tasks, inferring, lowering>>
Proceed ==
  /\ seen' = IF Task.t = "stmt" THEN With(seen, Task.at, DOMAIN env) ELSE seen
  /\ UNCHANGED <<body, phase, error, resolved, lowering>>
Checked(t, Go) == IF Failed(t) THEN Reject(t) ELSE Go

(* process_var_decl, process_var_def.  The elements an array is given are only
   typed. *)
Declare(st, path) == env' = With(env, Task.s.x, [st |-> st, at |-> path])
ProcessVarDecl ==
  /\ \/ Stmt("infer", "decl") /\ Declare(Pending, Task.at)
     \/ Stmt("infer", "decl_typed") /\ Declare(StorageOf(Task.s, <<>>), <<>>)
     \/ Stmt("infer", "decl_array") /\ Declare(StorageOf(Task.s, <<>>), <<>>)
  /\ Then(<<>>) /\ UNCHANGED <<saved, learned>> /\ Proceed

ProcessVarDef ==
  \/ /\ Stmt("infer", "def")
     /\ Checked(Typed(Task.s.e),
          /\ Declare(Typed(Task.s.e), Task.at)
          /\ learned' = learned \cup {[at |-> Task.at, x |-> Task.s.x, ty |-> Typed(Task.s.e)]}
          /\ Then(<<>>) /\ UNCHANGED saved /\ Proceed)
  \/ /\ Stmt("infer", "def_typed")
     /\ Checked(OrError(<<Typed(Task.s.e)>>,
                        IF Typed(Task.s.e) = DtypeOf(Task.s.ty) THEN I32 ELSE Err("TypeMismatch")),
          /\ Declare(DtypeOf(Task.s.ty), <<>>)
          /\ Then(<<>>) /\ UNCHANGED <<saved, learned>> /\ Proceed)
  \/ /\ Stmt("infer", "def_fill") \/ Stmt("infer", "def_list")
     /\ Checked(IF Task.s.k = "def_fill" THEN Typed(Task.s.e) ELSE Typings(Task.s.args, Look),
          /\ Declare(StorageOf(Task.s, <<>>), <<>>)
          /\ Then(<<>>) /\ UNCHANGED <<saved, learned>> /\ Proceed)

(* process_assignment: resolve a pending local or compare with a resolved one;
   a name that is not local is not checked. *)
ProcessAssignment ==
  /\ Stmt("infer", "assign")
  /\ LET lv == Task.s.lv
         t == Typed(Task.s.e)
         known == lv.k = "id" /\ lv.x \in DOMAIN env
         pending == known /\ env[lv.x].st = Pending
         verdict == CASE lv.k # "id" -> PlaceType(lv, Look)
                      [] known /\ ~pending /\ env[lv.x].st # t -> Err("TypeMismatch")
                      [] OTHER -> I32
     IN  Checked(OrError(<<t>>, verdict),
           /\ env' = IF pending THEN [env EXCEPT ![lv.x].st = t] ELSE env
           /\ learned' = IF known /\ env[lv.x].at # <<>>
                         THEN learned \cup {[at |-> env[lv.x].at, x |-> lv.x, ty |-> t]} ELSE learned
           /\ Then(<<>>) /\ UNCHANGED saved /\ Proceed)

(* process_if, process_while: a branch starts from a copy of env. *)
ProcessIf ==
  /\ Stmt("infer", "if")
  /\ Checked(Typed(Task.s.c),
       /\ Then(BlockTasks(Task.s.then, Task.at \o <<1>>) \o <<[t |-> "else"]>>
                 \o BlockTasks(Task.s.else, Task.at \o <<2>>) \o <<[t |-> "merge"]>>)
       /\ saved' = Append(saved, env) /\ UNCHANGED <<env, learned>> /\ Proceed)
ProcessWhile ==
  /\ Stmt("infer", "while")
  /\ Checked(Typed(Task.s.c),
       /\ Then(BlockTasks(Task.s.body, Task.at \o <<1>>) \o <<[t |-> "merge_single"]>>)
       /\ saved' = Append(saved, env) /\ UNCHANGED <<env, learned>> /\ Proceed)
StartElse ==
  /\ phase = "infer" /\ tasks # <<>> /\ Task.t = "else"
  /\ saved' = Append(saved, env) /\ env' = Top(saved)
  /\ Then(<<>>) /\ UNCHANGED learned /\ Proceed

(* merge_states, over the names of the environment before the branches. *)
MergeStatesFirst(a, b) == a
MergeStates(a, b) ==
  IF a = Pending THEN b ELSE IF b = Pending \/ a = b THEN a ELSE Err("TypeMismatch")
MergedNamesAll(base, a) == DOMAIN base \cup DOMAIN a
MergedNames(base, a) == DOMAIN base
Merged(base, a, b) ==
  [x \in MergedNames(base, a) |->
     LET of(f) == IF x \in DOMAIN f THEN f[x] ELSE a[x]
     IN  [of(base) EXCEPT !.st = MergeStates(of(a).st, of(b).st)]]
Conflict(f) == \E x \in DOMAIN f : Failed(f[x].st)

Merge ==
  /\ phase = "infer" /\ tasks # <<>> /\ Task.t \in {"merge", "merge_single"}
  /\ LET base == IF Task.t = "merge" THEN Top(Pop(saved)) ELSE Top(saved)
         f == Merged(base, IF Task.t = "merge" THEN Top(saved) ELSE env,
                     IF Task.t = "merge" THEN env ELSE base)
     IN  IF Conflict(f) THEN Reject(Err("TypeMismatch"))
         ELSE /\ env' = f
              /\ saved' = IF Task.t = "merge" THEN Pop(Pop(saved)) ELSE Pop(saved)
              /\ Then(<<>>) /\ UNCHANGED learned /\ Proceed

(* The other statements: a call's arguments and a returned value are typed, a
   call statement's callee is not looked up. *)
ProcessOther ==
  /\ \/ /\ Stmt("infer", "call_stmt")
        /\ Checked(Typings(Task.s.args, Look),
             Then(<<>>) /\ UNCHANGED <<env, saved, learned>> /\ Proceed)
     \/ /\ Stmt("infer", "return")
        /\ Checked(Typed(Task.s.e), Then(<<>>) /\ UNCHANGED <<env, saved, learned>> /\ Proceed)
     \/ /\ \/ Stmt("infer", "break") \/ Stmt("infer", "continue")
           \/ Stmt("infer", "return_void") \/ Stmt("infer", "null")
        /\ Then(<<>>) /\ UNCHANGED <<env, saved, learned>> /\ Proceed

(* The end of infer_function. *)
FinishInference ==
  /\ phase = "infer" /\ tasks = <<>>
  /\ IF Undetermined # {} THEN Reject(Err("TypeNotDetermined"))
     ELSE /\ resolved' = [x \in DOMAIN env |-> env[x].st]
          /\ phase' = "inferred"
          /\ UNCHANGED <<body, error, tasks, env, saved, seen, learned, lowering>>
-----------------------------------------------------------------------------
(* The generator: what the operand of an expression is.  The operand of an
   aggregate stays a pointer to it. *)
SlotOf(x) ==
  IF x \in DOMAIN locals THEN locals[x]
  ELSE IF x \in DOMAIN Globals THEN Globals[x] ELSE Err("VariableNotDefined")
IsLocal(x) == x \in DOMAIN locals

LoadedFrom(t) == IF t.k \in {"array", "struct"} THEN PtrTo(t) ELSE t
ReferenceOperand(x) ==
  OrError(<<SlotOf(x)>>, IF SlotOf(x).k = "array" THEN Referenced(SlotOf(x)) ELSE Err("InvalidReference"))

RECURSIVE Place(_)
Place(lv) ==
  LET base == Place(lv.b)
      global == lv.b.k = "id" /\ ~IsLocal(lv.b.x)
  IN  CASE lv.k = "id" -> SlotOf(lv.x)
        [] lv.k = "elem" ->
             OrError(<<base,
                       IF global /\ base.k # "array" THEN Err("InvalidArrayExpression") ELSE I32,
                       IF lv.i.k = "id" THEN SlotOf(lv.i.x) ELSE I32>>, ElementType(base))
        [] lv.k = "member" -> OrError(<<base>>, MemberOf(base, lv.m))

RECURSIVE Operand(_)
Operand(e) ==
  CASE e.k = "num" -> I32
    [] e.k = "id" ->
         IF SlotOf(e.x).k = "array" THEN Err("ArrayUsedAsValue") ELSE LoadedFrom(SlotOf(e.x))
    [] e.k = "ref" -> ReferenceOperand(e.x)
    [] e.k \in {"elem", "member"} -> LoadedFrom(Place(e))
    [] e.k = "call" ->
         IF QualifiedName(e) \notin DOMAIN Returns THEN Err("InvalidExprUnit")
         ELSE IF Returns[QualifiedName(e)] = Void THEN Err("InvalidExprUnit")
         ELSE OrError([j \in DOMAIN e.args |-> Operand(e.args[j])], I32)
    [] e.k \in {"arith", "compare", "and", "or"} -> OrError(<<Operand(e.l), Operand(e.r)>>, I32)
    [] e.k \in {"not", "bool"} -> OrError(<<Operand(e.c)>>, I32)
Operands(es) == OrError([j \in DOMAIN es |-> Operand(es[j])], I32)

(* local_base_dtype for an untyped scalar is the resolved type. *)
LocalBaseDtypeI32(s) == StorageOf(s, <<>>)
LocalBaseDtype(s) == StorageOf(s, resolved)

LowerFrame == UNCHANGED <<body, phase, error, inferring>>
Insert(x, t) ==
  /\ locals' = With(locals, x, t)
  /\ scopes' = IF scopes = <<>> THEN scopes ELSE [scopes EXCEPT ![Len(scopes)] = @ \cup {x}]
Redefined(x) == IF x \in DOMAIN locals THEN Err("VariableRedefinition") ELSE I32
KeepNames == UNCHANGED <<locals, scopes>>
Store(x, slot, value) == stored' = stored \cup {[x |-> x, slot |-> slot, value |-> value]}

StartLowering ==
  /\ phase = "inferred"
  /\ phase' = "lower" /\ tasks' = BlockTasks(body, <<>>)
  /\ UNCHANGED <<body, error, inferring, lowering>>

LowerDecl ==
  \E k \in {"decl", "decl_typed", "decl_array"} :
    /\ Stmt("lower", k)
    /\ Checked(Redefined(Task.s.x),
         /\ Insert(Task.s.x, LocalBaseDtype(Task.s))
         /\ Then(<<>>) /\ UNCHANGED stored /\ LowerFrame)

LowerDef ==
  \/ \E k \in {"def", "def_typed"} :
       /\ Stmt("lower", k)
       /\ Checked(OrError(<<Operand(Task.s.e)>>, Redefined(Task.s.x)),
            /\ Insert(Task.s.x, LocalBaseDtype(Task.s))
            /\ Store(Task.s.x, LocalBaseDtype(Task.s), Operand(Task.s.e))
            /\ Then(<<>>) /\ LowerFrame)
  \/ \E k \in {"def_fill", "def_list"} :
       /\ Stmt("lower", k)
       /\ Checked(OrError(<<IF k = "def_fill" THEN Operand(Task.s.e) ELSE Operands(Task.s.args)>>,
                          Redefined(Task.s.x)),
            /\ Insert(Task.s.x, LocalBaseDtype(Task.s))
            /\ Then(<<>>) /\ UNCHANGED stored /\ LowerFrame)

LowerAssign ==
  /\ Stmt("lower", "assign")
  /\ LET lv == Task.s.lv
     IN  Checked(OrError(<<Place(lv)>>, Operand(Task.s.e)),
           /\ IF lv.k = "id" /\ IsLocal(lv.x) THEN Store(lv.x, Place(lv), Operand(Task.s.e)) ELSE UNCHANGED stored
           /\ KeepNames /\ Then(<<>>) /\ LowerFrame)

Scoped(ss, path) == <<[t |-> "enter"]>> \o BlockTasks(ss, path) \o <<[t |-> "exit"]>>
LowerBranches ==
  /\ \/ /\ Stmt("lower", "if")
        /\ Checked(Operand(Task.s.c),
             /\ Then(Scoped(Task.s.then, Task.at \o <<1>>) \o Scoped(Task.s.else, Task.at \o <<2>>))
             /\ KeepNames /\ UNCHANGED stored /\ LowerFrame)
     \/ /\ Stmt("lower", "while")
        /\ Checked(Operand(Task.s.c),
             /\ Then(Scoped(Task.s.body, Task.at \o <<1>>))
             /\ KeepNames /\ UNCHANGED stored /\ LowerFrame)

EnterScope ==
  /\ phase = "lower" /\ tasks # <<>> /\ Task.t = "enter"
  /\ scopes' = Append(scopes, {}) /\ Then(<<>>) /\ UNCHANGED <<locals, stored>> /\ LowerFrame
ExitScope ==
  /\ phase = "lower" /\ tasks # <<>> /\ Task.t = "exit"
  /\ locals' = [x \in DOMAIN locals \ Top(scopes) |-> locals[x]]
  /\ scopes' = Pop(scopes) /\ Then(<<>>) /\ UNCHANGED stored /\ LowerFrame

LowerOther ==
  /\ \/ /\ Stmt("lower", "call_stmt")
        /\ Checked(OrError(<<Operands(Task.s.args)>>,
                           IF QualifiedName(Task.s) \in DOMAIN Returns THEN I32 ELSE Err("FunctionNotDefined")),
             Then(<<>>) /\ KeepNames /\ UNCHANGED stored /\ LowerFrame)
     \/ /\ Stmt("lower", "return")
        /\ Checked(Operand(Task.s.e), Then(<<>>) /\ KeepNames /\ UNCHANGED stored /\ LowerFrame)
     \/ /\ \/ Stmt("lower", "break") \/ Stmt("lower", "continue")
           \/ Stmt("lower", "return_void") \/ Stmt("lower", "null")
        /\ Then(<<>>) /\ KeepNames /\ UNCHANGED stored /\ LowerFrame

FinishLowering ==
  /\ phase = "lower" /\ tasks = <<>>
  /\ phase' = "done" /\ UNCHANGED <<body, error, tasks, inferring, lowering>>

Infer ==
  \/ ProcessVarDecl \/ ProcessVarDef \/ ProcessAssignment \/ ProcessIf \/ ProcessWhile
  \/ StartElse \/ Merge \/ ProcessOther \/ FinishInference
Lower ==
  \/ StartLowering \/ LowerDecl \/ LowerDef \/ LowerAssign \/ LowerBranches \/ EnterScope
  \/ ExitScope \/ LowerOther \/ FinishLowering
Halted == phase = "done" /\ UNCHANGED vars
Next == Infer \/ Lower \/ Halted
Spec == Init /\ [][Next]_vars
-----------------------------------------------------------------------------
(* The rules without the walk.  Sites(ss, path): the statements with their
   paths, whose odd places are positions and even places arms. *)
RECURSIVE Sites(_, _)
Sites(ss, path) ==
  UNION {LET s == ss[j]
             at == Append(path, j)
         IN  {[at |-> at, s |-> s]}
               \cup (IF s.k = "if" THEN Sites(s.then, at \o <<1>>) \cup Sites(s.else, at \o <<2>>)
                     ELSE IF s.k = "while" THEN Sites(s.body, at \o <<1>>) ELSE {}) : j \in DOMAIN ss}
AllSites == Sites(body, <<>>)
DeclKinds == {"decl", "decl_typed", "decl_array", "def", "def_typed", "def_fill", "def_list"}
DeclSites == {d \in AllSites : d.s.k \in DeclKinds}
UntypedSites == {d.at : d \in {c \in DeclSites : c.s.k \in {"decl", "def"}}}

(* d is in scope at path p; q comes before p other than as the other arm of an
   if. *)
InScope(d, p) ==
  LET n == Len(d)
  IN  n <= Len(p) /\ SubSeq(d, 1, n - 1) = SubSeq(p, 1, n - 1) /\ d[n] < p[n]
FlowsTo(q, p) ==
  \E j \in DOMAIN q \cap DOMAIN p :
    j % 2 = 1 /\ q[j] < p[j] /\ SubSeq(q, 1, j - 1) = SubSeq(p, 1, j - 1)

DeclOf(x, p) == {d \in DeclSites : d.s.x = x /\ InScope(d.at, p)}
Redeclares ==
  \E d \in DeclSites : d.s.x \in DOMAIN Params \/ DeclOf(d.s.x, d.at) # {}
Assigns(d) ==
  {q \in AllSites : q.s.k = "assign" /\ q.s.lv = Id(d.s.x) /\ d \in DeclOf(d.s.x, q.at)}

StorageIn(typing, d) == IF d.s.k \in {"decl", "def"} THEN typing[d.at] ELSE StorageOf(d.s, <<>>)
LookIn(typing, p) ==
  [x \in AllNames |->
     IF DeclOf(x, p) = {}
     THEN IF x \in DOMAIN Params THEN Params[x]
          ELSE IF x \in DOMAIN Globals THEN Globals[x] ELSE Err("VariableNotDefined")
     ELSE LET d == CHOOSE d \in DeclOf(x, p) : TRUE
          IN  IF d.s.k = "decl" /\ ~\E q \in Assigns(d) : FlowsTo(q.at, p)
              THEN Err("TypeNotDetermined") ELSE StorageIn(typing, d)]

Obeys(typing, q) ==
  LET look == LookIn(typing, q.at)
      s == q.s
      Type(e) == TypeOf(e, look)
  IN  CASE s.k = "def" -> Type(s.e) = typing[q.at]
        [] s.k = "def_typed" -> Type(s.e) = DtypeOf(s.ty)
        [] s.k \in {"def_fill", "return"} -> ~Failed(Type(s.e))
        [] s.k \in {"if", "while"} -> ~Failed(Type(s.c))
        [] s.k \in {"call_stmt", "def_list"} -> ~Failed(Typings(s.args, look))
        [] s.k = "assign" ->
             /\ ~Failed(Type(s.e))
             /\ s.lv.k # "id" => ~Failed(PlaceType(s.lv, look))
             /\ s.lv.k = "id" =>
                  /\ \A d \in DeclOf(s.lv.x, q.at) : StorageIn(typing, d) = Type(s.e)
                  /\ s.lv.x \in DOMAIN Params => Params[s.lv.x] = Type(s.e)
        [] OTHER -> TRUE

(* One type for each untyped local, the type of everything it is given; and at
   function level it is given something. *)
Typeable ==
  \E typing \in [UntypedSites -> Types] :
    /\ \A q \in AllSites : Obeys(typing, q)
    /\ \A d \in DeclSites : d.s.k = "decl" /\ Len(d.at) = 1 => Assigns(d) # {}
-----------------------------------------------------------------------------
(* Both walks know the same names at every statement, "so that both passes'
   views of the name environment" (type_infer.rs) are in sync. *)
ViewsInSync ==
  phase = "lower" /\ tasks # <<>> /\ Task.t = "stmt" => DOMAIN locals = seen[Task.at]

(* The walk accepts a body exactly if its locals can be typed. *)
InferenceRejected == phase = "done" /\ error # "none" /\ resolved = <<>>
ExactlyTypeable ==
  ~Redeclares =>
    /\ phase = "inferred" => Typeable
    /\ InferenceRejected => ~Typeable

(* What is stored into a local has the type its slot was allocated for, unless
   a type learned in a branch was forgotten at the merge, which happens to the
   locals of the branch and leaves them an i32 slot. A body with such a local is
   left out as a whole, for its value may go on into others. *)
Forgotten == {l \in learned : l.ty # IF l.x \in DOMAIN resolved THEN resolved[l.x] ELSE I32}
StoresFit == Forgotten = {} => \A s \in stored : s.slot = s.value

=============================================================================
