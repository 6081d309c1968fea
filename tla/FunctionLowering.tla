-------------------------- MODULE FunctionLowering --------------------------
(* A function from its text to blocks that run: the parser, ir::gen's
   FunctionGenerator walking over the tree and harvest_function_irs, then the
   blocks beside the source.  The walk recurses over the tree; here its pending
   calls are a stack of tasks, and the operands the finished ones returned a
   second stack. *)
EXTENDS StructuredProgram, Parser

CONSTANTS
  Sources,     \* [program, resolved, style]; the function is the last element of the program
  Replies      \* what a callee may return, and the caller pass

NoneLabel == -1    \* con_label or bre_label outside a loop
EntryLabel == 0    \* BlockLabel::Function

VARIABLES
  function,                \* what the programmer has in mind: [program, resolved]
  text, tree,              \* the text until it is parsed, the tree then
  phase,                   \* "parse", "lower", "harvest", "run", "done"
  error,                   \* "none", or the Error the walk ended with
  tasks, opnds,            \* the walk: what is left of it, operands returned
  irs, nextVreg, nextBlock,
  locals, scopes,          \* local_variables, scope_locals
  arguments,               \* the registers the parameters arrive in
  blocks,                  \* harvested
  at, regs, mem            \* the run: position, registers, memory

genVars == <<tasks, opnds, irs, nextVreg, nextBlock, locals, scopes, arguments>>
machine == <<at, regs, mem>>
parserVars == <<text, tree>>
vars == <<source, function, parserVars, phase, error, genVars, blocks, machine>>
-----------------------------------------------------------------------------
(* ir::value and ir::stmt. *)
Const(n) == [o |-> "const", n |-> n, g |-> "", ty |-> I32]
Local(n, ty) == [o |-> "local", n |-> n, g |-> "", ty |-> ty]
GlobalRef(g) == [o |-> "global", n |-> 0, g |-> g, ty |-> GlobalTypes[g]]

Alloca(dst) == [s |-> "alloca", dst |-> dst]
Load(dst, ptr) == [s |-> "load", dst |-> dst, ptr |-> ptr]
Store(src, ptr) == [s |-> "store", src |-> src, ptr |-> ptr]
Gep(dst, base, i) == [s |-> "gep", dst |-> dst, ptr |-> base, src |-> i]
Biop(op, l, r, dst) == [s |-> "biop", op |-> op, l |-> l, r |-> r, dst |-> dst]
Cmp(op, l, r, dst) == [s |-> "cmp", op |-> op, l |-> l, r |-> r, dst |-> dst]
Cjump(c, t, f) == [s |-> "cjump", src |-> c, tl |-> t, fl |-> f]
Jump(l) == [s |-> "jump", tl |-> l]
Label(l) == [s |-> "label", tl |-> l]
Call(f, res, args) == [s |-> "call", f |-> f, res |-> res, args |-> args]  \* res: at most one
Ret(vs) == [s |-> "return", f |-> <<>>, args |-> vs]                       \* vs: at most one

IsTerminator(s) == s.s \in {"return", "cjump", "jump"}
LastOf(s) == s[Len(s)]

(* ArithBinOp::from, CmpPredicate::from, and what the operators do. *)
ArithBinOp(op) ==
  CASE op = "+" -> "add" [] op = "-" -> "sub" [] op = "*" -> "mul" [] op = "/" -> "sdiv"
CmpPredicate(op) ==
  CASE op = "==" -> "eq" [] op = "!=" -> "ne" [] op = ">" -> "sgt"
    [] op = ">=" -> "sge" [] op = "<" -> "slt" [] op = "<=" -> "sle"
Computed(op, a, b) ==
  CASE op = "add" -> (a + b) % Width [] op = "sub" -> (a - b) % Width
    [] op = "mul" -> (a * b) % Width [] op = "sdiv" -> a \div b
Satisfied(op, a, b) ==
  CASE op = "eq" -> a = b [] op = "ne" -> a # b [] op = "sgt" -> a > b
    [] op = "sge" -> a >= b [] op = "slt" -> a < b [] op = "sle" -> a <= b

(* Shorthands for tasks. *)
EvalTask(e) == <<[t |-> "eval", e |-> e]>>
PlaceTask(lv) == <<[t |-> "place", lv |-> lv]>>
BoolTask(c, tl, fl) == <<[t |-> "bool", c |-> c, tl |-> tl, fl |-> fl]>>
EmitTask(ss) == <<[t |-> "emit", ss |-> ss]>>
BlockTasks(ss, con, bre) == [j \in DOMAIN ss |-> [t |-> "stmt", s |-> ss[j], con |-> con, bre |-> bre]]
ScopeTasks(ss, con, bre) == <<[t |-> "enter"]>> \o BlockTasks(ss, con, bre) \o <<[t |-> "exit"]>>

Definition(p) == p.elements[Len(p.elements)]
Intended == Definition(function.program)
Read == Definition(tree)

Init ==
  /\ \E s \in Sources :
       /\ function = [program |-> s.program, resolved |-> s.resolved]
       /\ text = Written(s.program, s.style)
  /\ tree = Program(<<>>, <<>>)
  /\ phase = "parse" /\ error = "none"
  /\ kont = <<>> /\ vals = <<>> /\ env = <<>> /\ tasks = <<>>
  /\ irs = <<Label(EntryLabel)>>
  /\ opnds = <<>> /\ nextVreg = 0 /\ nextBlock = 1
  /\ locals = <<>> /\ scopes = <<>> /\ arguments = <<>>
  /\ blocks = <<>> /\ at = <<1, 1>> /\ regs = <<>> /\ mem = <<>>

(* The parser; then the generator takes up the function, and the source starts. *)
ParameterTasks(ps) == [j \in DOMAIN ps |-> [t |-> "param", x |-> ps[j].x, ty |-> ps[j].ty]]
ParseSource ==
  LET m == Parsed(text)
  IN  /\ phase = "parse"
      /\ text' = <<>>
      /\ IF ~m.ok \/ InvalidNumber(m)
         THEN /\ error' = IF m.ok THEN "InvalidNumber" ELSE "Syntax"
              /\ phase' = "done" /\ UNCHANGED <<source, tree, tasks>>
         ELSE /\ tree' = ParseProgram(m)
              /\ phase' = "lower" /\ UNCHANGED error
              /\ \E given \in [DOMAIN Intended.decl.params -> Replies] : StartSource(Intended, given)
              /\ tasks' = ParameterTasks(Parameters(Read')) \o BlockTasks(Read'.body, NoneLabel, NoneLabel)
                             \o <<[t |-> "finish"]>>
      /\ UNCHANGED <<function, irs, opnds, nextVreg, nextBlock, locals, scopes, arguments, blocks, machine>>

Task == Head(tasks)

(* The effects of a handler: tasks put first, statements emitted, operand
   stack, registers and labels used up. *)
Then(ts) == tasks' = ts \o Tail(tasks)
Emit(ss) == irs' = irs \o ss
Give(os) == opnds' = os
Use(vregs, labels) == nextVreg' = nextVreg + vregs /\ nextBlock' = nextBlock + labels
Fail(e) ==
  /\ error' = e /\ phase' = "done"
  /\ UNCHANGED <<source, function, parserVars, genVars, blocks, machine>>
Generating(t) == phase = "lower" /\ Task.t = t
GenFrame == UNCHANGED <<source, function, parserVars, phase, error, arguments, blocks, machine>>
Frame == UNCHANGED <<locals, scopes>> /\ GenFrame
Becomes(ts) == Then(ts) /\ Emit(<<>>) /\ Use(0, 0) /\ UNCHANGED opnds /\ Frame
-----------------------------------------------------------------------------
(* lookup_variable: locals, then globals. *)
IsDefined(x) == x \in DOMAIN locals \cup GlobalNames
LookupVariable(x) == IF x \in DOMAIN locals THEN locals[x] ELSE GlobalRef(x)

(* fresh_local: the n-th register from nextVreg. *)
Fresh(n, ty) == Local(nextVreg + n, ty)
Last == LastOf(opnds)
Left == opnds[Len(opnds) - 1]
Result(o) == Give(Append(Pop(opnds, 1), o))

PointsTo(o, kinds) == o.ty.k = "ptr" /\ o.ty.of.k \in kinds
IsArray(o) == PointsTo(o, {"array"}) \/ o.ty.k = "array"

(* The arguments: each gets a slot and is stored in it. *)
SpillArgument ==
  /\ Generating("param") /\ Task.x \notin DOMAIN locals
  /\ LET arg == Fresh(0, Task.ty)
         slot == Fresh(1, PtrTo(Task.ty))
     IN  /\ Emit(<<Alloca(slot), Store(arg, slot)>>)
         /\ arguments' = Append(arguments, arg)
         /\ locals' = [y \in DOMAIN locals \cup {Task.x} |-> IF y = Task.x THEN slot ELSE locals[y]]
  /\ Use(2, 0) /\ Then(<<>>)
  /\ UNCHANGED <<opnds, scopes, source, function, parserVars, phase, error, blocks, machine>>

(* handle_left_val. *)
PlaceId ==
  /\ Generating("place") /\ Task.lv.k = "id" /\ IsDefined(Task.lv.x)
  /\ Give(Append(opnds, LookupVariable(Task.lv.x))) /\ Then(<<>>) /\ Emit(<<>>) /\ Use(0, 0) /\ Frame
PlacePart ==
  /\ Generating("place") /\ Task.lv.k \in {"elem", "member"}
  /\ Becomes(PlaceTask(Task.lv.b) \o <<[t |-> "part", lv |-> Task.lv]>>)
PlaceUndefined ==
  /\ Generating("place") /\ Task.lv.k = "id" /\ ~IsDefined(Task.lv.x) /\ Fail("VariableNotDefined")

(* handle_array_expr and handle_index_expr: load the pointer to the array if
   the variable holds one, load the index if it has a name, the gep. *)
Indexing == Generating("part") /\ Task.lv.k = "elem"
Indexable(o) == o.ty.k \in {"ptr", "array"}
ElementOf(ty) == IF ty.k = "array" THEN ty.of ELSE IF ty.of.k = "array" THEN ty.of.of ELSE ty.of
HandleArrayExpr ==
  /\ Indexing /\ Indexable(Last) /\ (Task.lv.i.k = "id" => IsDefined(Task.lv.i.x))
  /\ LET loads == IF PointsTo(Last, {"ptr"}) THEN 1 ELSE 0
         arr == IF loads = 1 THEN Fresh(0, Last.ty.of) ELSE Last
         target == Fresh(loads, PtrTo(ElementOf(arr.ty)))
         named == Task.lv.i.k = "id"
         index == IF named THEN Fresh(loads + 1, I32) ELSE Const(Task.lv.i.n)
     IN  /\ Emit((IF loads = 1 THEN <<Load(arr, Last)>> ELSE <<>>)
                   \o (IF named THEN <<Load(index, LookupVariable(Task.lv.i.x))>> ELSE <<>>)
                   \o <<Gep(target, arr, index)>>)
         /\ Use(loads + (IF named THEN 2 ELSE 1), 0)
         /\ Result(target)
  /\ Then(<<>>) /\ Frame
IndexingFails ==
  /\ Indexing
  /\ \/ ~Indexable(Last) /\ Fail("InvalidArrayExpression")
     \/ Task.lv.i.k = "id" /\ ~IsDefined(Task.lv.i.x) /\ Indexable(Last) /\ Fail("VariableNotDefined")

(* handle_member_expr; Dtype::struct_type_name sees through pointers and
   arrays. *)
RECURSIVE StructTypeOf(_)
StructTypeOf(ty) == IF ty.k \in {"ptr", "array"} THEN StructTypeOf(ty.of) ELSE ty
HasMember(ty, m) == StructTypeOf(ty).k = "struct" /\ HasField(StructTypeOf(ty).s, m)
HandleMemberExpr ==
  /\ Generating("part") /\ Task.lv.k = "member" /\ HasMember(Last.ty, Task.lv.m)
  /\ LET s == StructTypeOf(Last.ty).s
         field == FieldOf(s, Task.lv.m)
         target == Fresh(0, PtrTo(Structs[s][field].ty))
     IN  Emit(<<Gep(target, Last, Const(field - 1))>>) /\ Result(target)
  /\ Use(1, 0) /\ Then(<<>>) /\ Frame
MemberFails ==
  /\ Generating("part") /\ Task.lv.k = "member" /\ ~HasMember(Last.ty, Task.lv.m)
  /\ Fail("InvalidStructMemberExpression")

(* handle_expr_unit, handle_arith_expr, handle_right_val. *)
EvalNum ==
  /\ Generating("eval") /\ Task.e.k = "num"
  /\ Give(Append(opnds, Const(Task.e.n))) /\ Then(<<>>) /\ Emit(<<>>) /\ Use(0, 0) /\ Frame

EvalPlace ==
  /\ Generating("eval") /\ Task.e.k \in {"id", "elem", "member"}
  /\ ~(Task.e.k = "id" /\ IsDefined(Task.e.x) /\ IsArray(LookupVariable(Task.e.x)))
  /\ Becomes(PlaceTask(Task.e) \o <<[t |-> "unit"]>>)
EvalArray ==
  /\ Generating("eval") /\ Task.e.k = "id" /\ IsDefined(Task.e.x)
  /\ IsArray(LookupVariable(Task.e.x)) /\ Fail("ArrayUsedAsValue")

(* The value at a place is loaded, unless it is an aggregate. *)
AutoLoad ==
  /\ Generating("unit")
  /\ LET scalar == Last.ty.k = "ptr" /\ Last.ty.of.k \notin {"array", "struct"}
         global == Last.o = "global" /\ Last.ty = I32
         value == Fresh(0, IF scalar THEN Last.ty.of ELSE I32)
     IN  IF scalar \/ global
         THEN Emit(<<Load(value, Last)>>) /\ Use(1, 0) /\ Result(value)
         ELSE Emit(<<>>) /\ Use(0, 0) /\ UNCHANGED opnds
  /\ Then(<<>>) /\ Frame

(* handle_reference_expr. *)
HandleReferenceExpr ==
  /\ Generating("eval") /\ Task.e.k = "ref"
  /\ IsDefined(Task.e.x) /\ IsArray(LookupVariable(Task.e.x))
  /\ LET array == LookupVariable(Task.e.x)
         target == Fresh(0, PtrTo(ArrayOf(ElementOf(array.ty), NoLength)))
     IN  Emit(<<Gep(target, array, Const(0))>>) /\ Give(Append(opnds, target))
  /\ Use(1, 0) /\ Then(<<>>) /\ Frame
ReferenceFails ==
  /\ Generating("eval") /\ Task.e.k = "ref"
  /\ \/ ~IsDefined(Task.e.x) /\ Fail("VariableNotDefined")
     \/ IsDefined(Task.e.x) /\ ~IsArray(LookupVariable(Task.e.x)) /\ Fail("InvalidReference")

(* A call in an expression has its result register before its arguments. *)
ReturnsOf(e) == IF QualifiedName(e) \in DOMAIN Returns THEN Returns[QualifiedName(e)] ELSE Bad
CallTask(e, res) == [t |-> "call", f |-> QualifiedName(e), n |-> Len(e.args), res |-> res]
EvalCall ==
  /\ Generating("eval") /\ Task.e.k = "call" /\ ReturnsOf(Task.e) = I32
  /\ Then(Evals(Task.e.args) \o <<CallTask(Task.e, <<Fresh(0, I32)>>)>>) /\ Use(1, 0)
  /\ Emit(<<>>) /\ UNCHANGED opnds /\ Frame
EvalCallFails ==
  /\ Generating("eval") /\ Task.e.k = "call" /\ ReturnsOf(Task.e) # I32 /\ Fail("InvalidExprUnit")

EmitCall ==
  /\ Generating("call")
  /\ LET n == Len(opnds) - Task.n
     IN  /\ Emit(<<Call(Task.f, Task.res, SubSeq(opnds, n + 1, Len(opnds)))>>)
         /\ Give(SubSeq(opnds, 1, n) \o Task.res)
  /\ Then(<<>>) /\ Use(0, 0) /\ Frame

EvalBiop ==
  /\ Generating("eval") /\ Task.e.k = "arith"
  /\ Becomes(EvalTask(Task.e.l) \o EvalTask(Task.e.r) \o <<[t |-> "biop", op |-> Task.e.op]>>)
EmitBiop ==
  /\ Generating("biop")
  /\ Emit(<<Biop(ArithBinOp(Task.op), Left, Last, Fresh(0, I32))>>) /\ Use(1, 0)
  /\ Give(Append(Pop(opnds, 2), Fresh(0, I32))) /\ Then(<<>>) /\ Frame

(* handle_bool_expr_as_value: branch, then 1 or 0 through a stack slot. *)
EvalBool ==
  /\ Generating("eval") /\ Task.e.k = "bool"
  /\ LET true == nextBlock
         false == nextBlock + 1
         after == nextBlock + 2
         slot == Fresh(0, PtrTo(I32))
     IN  /\ Emit(<<Alloca(slot)>>)
         /\ Then(BoolTask(Task.e.c, true, false)
                   \o EmitTask(<<Label(true), Store(Const(1), slot), Jump(after),
                                 Label(false), Store(Const(0), slot), Jump(after),
                                 Label(after)>>)
                   \o <<[t |-> "load", ptr |-> slot]>>)
  /\ Use(1, 3) /\ UNCHANGED opnds /\ Frame
LoadBool ==
  /\ Generating("load")
  /\ Emit(<<Load(Fresh(0, I32), Task.ptr)>>) /\ Use(1, 0)
  /\ Give(Append(opnds, Fresh(0, I32))) /\ Then(<<>>) /\ Frame

(* handle_bool_unit, handle_com_op_expr, handle_bool_biop_expr. *)
BoolNot ==
  /\ Generating("bool") /\ Task.c.k = "not"
  /\ Becomes(BoolTask(Task.c.c, Task.fl, Task.tl))
BoolCompare ==
  /\ Generating("bool") /\ Task.c.k = "compare"
  /\ Becomes(EvalTask(Task.c.l) \o EvalTask(Task.c.r)
               \o <<[t |-> "cmp", op |-> Task.c.op, tl |-> Task.tl, fl |-> Task.fl]>>)
EmitCmp ==
  /\ Generating("cmp")
  /\ Emit(<<Cmp(CmpPredicate(Task.op), Left, Last, Fresh(0, I1)),
            Cjump(Fresh(0, I1), Task.tl, Task.fl)>>)
  /\ Use(1, 0) /\ Give(Pop(opnds, 2)) /\ Then(<<>>) /\ Frame

(* The labels the left operand branches to; the other way leads to the
   evaluation of the right one. *)
LeftOfAnd(c, tl, fl, right) == BoolTask(c.l, right, fl)
LeftOfOr(c, tl, fl, right) == BoolTask(c.l, tl, right)
BoolBiop ==
  /\ Generating("bool") /\ Task.c.k \in {"and", "or"}
  /\ LET right == nextBlock
     IN  Then((IF Task.c.k = "and" THEN LeftOfAnd(Task.c, Task.tl, Task.fl, right)
               ELSE LeftOfOr(Task.c, Task.tl, Task.fl, right))
                \o EmitTask(<<Label(right)>>) \o BoolTask(Task.c.r, Task.tl, Task.fl))
  /\ Emit(<<>>) /\ Use(0, 1) /\ UNCHANGED opnds /\ Frame

EmitRaw ==
  /\ Generating("emit")
  /\ Emit(Task.ss) /\ Then(<<>>) /\ Use(0, 0) /\ UNCHANGED opnds /\ Frame
-----------------------------------------------------------------------------
Stmt(k) == Generating("stmt") /\ Task.s.k = k

(* handle_assignment_stmt: the place, the value, the store. *)
HandleAssignment ==
  /\ Stmt("assign")
  /\ Becomes(PlaceTask(Task.s.lv) \o EvalTask(Task.s.e) \o <<[t |-> "store"]>>)
EmitStore ==
  /\ Generating("store")
  /\ Emit(<<Store(Last, Left)>>) /\ Give(Pop(opnds, 2)) /\ Then(<<>>) /\ Use(0, 0) /\ Frame

(* insert_scoped_local: a name already visible as a local is an error; the
   innermost open scope, if there is one, remembers the name. *)
InsertScopedLocal(x, local) ==
  /\ locals' = [y \in DOMAIN locals \cup {x} |-> IF y = x THEN local ELSE locals[y]]
  /\ scopes' = IF scopes = <<>> THEN scopes
               ELSE [scopes EXCEPT ![Len(scopes)] = Append(@, x)]
Redefined(x) == x \in DOMAIN locals

(* local_base_dtype, compose_var_decl_dtype, compose_var_def_dtype. *)
SlotDtype(s) == PtrTo(StorageOf(s, function.resolved))

HandleLocalVarDecl ==
  /\ Generating("stmt") /\ Task.s.k \in {"decl", "decl_typed", "decl_array"} /\ ~Redefined(Task.s.x)
  /\ LET slot == Fresh(0, SlotDtype(Task.s))
     IN  Emit(<<Alloca(slot)>>) /\ InsertScopedLocal(Task.s.x, slot)
  /\ Use(1, 0) /\ Then(<<>>) /\ UNCHANGED opnds /\ GenFrame

(* handle_local_var_def: a scalar's value is evaluated before its slot is
   allocated, an array's slot comes first.  The name is inserted last. *)
HandleLocalVarDef ==
  /\ Generating("stmt") /\ Task.s.k \in {"def", "def_typed"}
  /\ Becomes(EvalTask(Task.s.e) \o <<[t |-> "define", x |-> Task.s.x, ty |-> SlotDtype(Task.s)]>>)
DefineScalar ==
  /\ Generating("define") /\ ~Redefined(Task.x)
  /\ LET slot == Fresh(0, Task.ty)
     IN  Emit(<<Alloca(slot), Store(Last, slot)>>) /\ InsertScopedLocal(Task.x, slot)
  /\ Use(1, 0) /\ Give(Pop(opnds, 1)) /\ Then(<<>>) /\ GenFrame

(* init_array, init_array_from: one gep and one store for each element; a
   listed element's pointer is named before its value is evaluated. *)
ElementPtr(base) == Fresh(0, PtrTo(base.ty.of.of))
HandleArrayDef ==
  /\ Generating("stmt") /\ Task.s.k \in {"def_list", "def_fill"}
  /\ LET base == Fresh(0, SlotDtype(Task.s))
         ListTask(j) == [t |-> "listed", j |-> j, base |-> base, e |-> Task.s.args[j + 1]]
         FillTask(j) == [t |-> "filled", j |-> j, base |-> base]
         elements == IF Task.s.k = "def_list" THEN [j \in DOMAIN Task.s.args |-> ListTask(j - 1)]
                     ELSE EvalTask(Task.s.e) \o [j \in 1 .. Task.s.count |-> FillTask(j - 1)]
                            \o <<[t |-> "drop"]>>
     IN  /\ Emit(<<Alloca(base)>>)
         /\ Then(elements \o <<[t |-> "insert", x |-> Task.s.x, base |-> base]>>)
  /\ Use(1, 0) /\ UNCHANGED opnds /\ Frame
InitListed ==
  /\ Generating("listed") /\ Use(1, 0)
  /\ Then(EvalTask(Task.e)
            \o <<[t |-> "element", j |-> Task.j, base |-> Task.base, ptr |-> ElementPtr(Task.base)]>>)
  /\ Emit(<<>>) /\ UNCHANGED opnds /\ Frame
InitElement ==
  /\ Generating("element")
  /\ Emit(<<Gep(Task.ptr, Task.base, Const(Task.j)), Store(Last, Task.ptr)>>) /\ Use(0, 0)
  /\ Give(Pop(opnds, 1)) /\ Then(<<>>) /\ Frame
InitFilled ==
  /\ Generating("filled")
  /\ LET ptr == ElementPtr(Task.base)
     IN  Emit(<<Gep(ptr, Task.base, Const(Task.j)), Store(Last, ptr)>>)
  /\ Use(1, 0) /\ UNCHANGED opnds /\ Then(<<>>) /\ Frame
DropFiller ==
  /\ Generating("drop")
  /\ Give(Pop(opnds, 1)) /\ Then(<<>>) /\ Emit(<<>>) /\ Use(0, 0) /\ Frame
InsertArray ==
  /\ Generating("insert") /\ ~Redefined(Task.x)
  /\ InsertScopedLocal(Task.x, Task.base)
  /\ Then(<<>>) /\ Emit(<<>>) /\ Use(0, 0) /\ UNCHANGED opnds /\ GenFrame

Redefinition ==
  /\ \/ Generating("stmt") /\ Task.s.k \in {"decl", "decl_typed", "decl_array"} /\ Redefined(Task.s.x)
     \/ phase = "lower" /\ Task.t \in {"param", "define", "insert"} /\ Redefined(Task.x)
  /\ Fail("VariableRedefinition")

(* handle_call_stmt: the callee is looked up after the arguments, and gets a
   result register, never read, if it returns something. *)
HandleCallStmt ==
  /\ Stmt("call_stmt")
  /\ Becomes(Evals(Task.s.args) \o <<[t |-> "call_stmt", s |-> Task.s]>>)
EmitCallStmt ==
  /\ Generating("call_stmt") /\ ReturnsOf(Task.s) # Bad
  /\ LET n == Len(opnds) - Len(Task.s.args)
         used == IF ReturnsOf(Task.s) = Void THEN 0 ELSE 1
     IN  /\ Emit(<<Call(QualifiedName(Task.s), [j \in 1 .. used |-> Fresh(0, I32)],
                        SubSeq(opnds, n + 1, Len(opnds)))>>)
         /\ Use(used, 0) /\ Give(SubSeq(opnds, 1, n))
  /\ Then(<<>>) /\ Frame
CallStmtFails ==
  /\ Generating("call_stmt") /\ ReturnsOf(Task.s) = Bad /\ Fail("FunctionNotDefined")

HandleIf ==
  /\ Stmt("if")
  /\ LET true == nextBlock
         false == nextBlock + 1
         after == nextBlock + 2
     IN  Then(BoolTask(Task.s.c, true, false)
                \o EmitTask(<<Label(true)>>) \o ScopeTasks(Task.s.then, Task.con, Task.bre)
                \o EmitTask(<<Jump(after), Label(false)>>)
                \o ScopeTasks(Task.s.else, Task.con, Task.bre)
                \o EmitTask(<<Jump(after), Label(after)>>))
  /\ Emit(<<>>) /\ Use(0, 3) /\ UNCHANGED opnds /\ Frame

(* The labels continue and break go to in the body of a loop. *)
LoopTargetsSwapped(test, after) == [con |-> after, bre |-> test]
LoopTargets(test, after) == [con |-> test, bre |-> after]
HandleWhile ==
  /\ Stmt("while")
  /\ LET test == nextBlock
         true == nextBlock + 1
         false == nextBlock + 2
         targets == LoopTargets(test, false)
     IN  /\ Emit(<<Jump(test), Label(test)>>)
         /\ Then(BoolTask(Task.s.c, true, false)
                   \o EmitTask(<<Label(true)>>) \o ScopeTasks(Task.s.body, targets.con, targets.bre)
                   \o EmitTask(<<Jump(test), Label(false)>>))
  /\ Use(0, 3) /\ UNCHANGED opnds /\ Frame

HandleReturn ==
  /\ Stmt("return")
  /\ Becomes(EvalTask(Task.s.e) \o <<[t |-> "return"]>>)
EmitReturn ==
  /\ Generating("return")
  /\ Emit(<<Ret(<<Last>>)>>) /\ Give(Pop(opnds, 1)) /\ Then(<<>>) /\ Use(0, 0) /\ Frame

(* The statements without operands: return, ;, continue and break. *)
EmitOnly(ss) == Emit(ss) /\ Then(<<>>) /\ Use(0, 0) /\ UNCHANGED opnds /\ Frame
HandleSimple ==
  \/ Stmt("return_void") /\ EmitOnly(<<Ret(<<>>)>>)
  \/ Stmt("null") /\ EmitOnly(<<>>)
  \/ Stmt("continue") /\ Task.con # NoneLabel /\ EmitOnly(<<Jump(Task.con)>>)
  \/ Stmt("break") /\ Task.bre # NoneLabel /\ EmitOnly(<<Jump(Task.bre)>>)
OutsideLoop ==
  \/ Stmt("continue") /\ Task.con = NoneLabel /\ Fail("InvalidContinueInst")
  \/ Stmt("break") /\ Task.bre = NoneLabel /\ Fail("InvalidBreakInst")

EnterScope ==
  /\ Generating("enter")
  /\ scopes' = Append(scopes, <<>>)
  /\ Then(<<>>) /\ Emit(<<>>) /\ Use(0, 0) /\ UNCHANGED <<opnds, locals>> /\ GenFrame

(* The names exit_scope takes out of local_variables. *)
ScopeNamesKept == {}
ScopeNames == {LastOf(scopes)[j] : j \in DOMAIN LastOf(scopes)}
ExitScope ==
  /\ Generating("exit")
  /\ locals' = [x \in DOMAIN locals \ ScopeNames |-> locals[x]]
  /\ scopes' = Pop(scopes, 1)
  /\ Then(<<>>) /\ Emit(<<>>) /\ Use(0, 0) /\ UNCHANGED opnds /\ GenFrame

(* The end of generate: an implicit return unless the last statement is one. *)
ImplicitReturn ==
  IF LastOf(irs).s = "return" THEN <<>>
  ELSE IF Read.decl.ret = NoType THEN <<Ret(<<>>)>> ELSE <<Ret(<<Const(0)>>)>>
Finish ==
  /\ Generating("finish")
  /\ Emit(ImplicitReturn) /\ tasks' = <<>> /\ phase' = "harvest"
  /\ UNCHANGED <<source, function, parserVars, error, opnds, nextVreg, nextBlock, locals, scopes, arguments,
                 blocks, machine>>
-----------------------------------------------------------------------------
(* harvest_function_irs: labels cut the list into blocks, what follows a
   terminator is dropped, allocas move to the front of the entry block. *)
LabelsAt == {p \in DOMAIN irs : irs[p].s = "label"}
NextLabelAfter(p) ==
  LET later == {q \in LabelsAt : q > p}
  IN  IF later = {} THEN Len(irs) + 1 ELSE CHOOSE q \in later : \A r \in later : q <= r
Between(p) == SubSeq(irs, p + 1, NextLabelAfter(p) - 1)
UpToTerminator(ss) ==
  LET ends == {j \in DOMAIN ss : IsTerminator(ss[j])}
  IN  IF ends = {} THEN ss ELSE SubSeq(ss, 1, CHOOSE j \in ends : \A l \in ends : j <= l)

AllocasLost(ss) == <<>>
Allocas(ss) == SelectSeq(ss, LAMBDA s : s.s = "alloca")
Others(ss) == SelectSeq(ss, LAMBDA s : s.s # "alloca")

RECURSIVE Hoisted(_)
Hoisted(bs) == IF bs = <<>> THEN <<>> ELSE Allocas(Head(bs).stmts) \o Hoisted(Tail(bs))

Formed ==
  LET labels == SelectSeq([p \in DOMAIN irs |-> p], LAMBDA p : irs[p].s = "label")
  IN  [j \in DOMAIN labels |->
         [label |-> irs[labels[j]].tl, stmts |-> UpToTerminator(Between(labels[j]))]]
WithHoistedAllocas ==
  [j \in DOMAIN Formed |->
     IF j = 1 THEN [Formed[1] EXCEPT !.stmts = Hoisted(Tail(Formed)) \o @]
     ELSE [Formed[j] EXCEPT !.stmts = Others(@)]]

Targets(s) ==
  CASE s.s = "jump" -> {s.tl} [] s.s = "cjump" -> {s.tl, s.fl} [] OTHER -> {}
TargetsOf(bs) == UNION {UNION {Targets(bs[j].stmts[l]) : l \in DOMAIN bs[j].stmts} : j \in DOMAIN bs}
NonEmpty(bs) == SelectSeq(bs, LAMBDA b : b.stmts # <<>>)

(* drop_empty_blocks_or_panic. *)
Dangling ==
  \E j \in DOMAIN WithHoistedAllocas :
    /\ WithHoistedAllocas[j].stmts = <<>>
    /\ WithHoistedAllocas[j].label \in TargetsOf(NonEmpty(WithHoistedAllocas))

(* Memory is made of objects: a sequence of cells for each global, each slot
   allocated and each array the caller lends.  A pointer is [o, cell]. *)
RECURSIVE SizeOf(_), SizeOfParts(_)
SizeOfParts(fields) == IF fields = <<>> THEN 0 ELSE SizeOf(Head(fields).ty) + SizeOfParts(Tail(fields))
SizeOf(t) ==
  CASE t.k = "array" -> t.len * SizeOf(t.of)
    [] t.k = "struct" -> SizeOfParts(Structs[t.s])
    [] OTHER -> 1
Offset(s, field) == SizeOfParts(SubSeq(Structs[s], 1, field))
Cells(t, v) == [j \in 1 .. SizeOf(t) |-> v]

To(o, cell) == [o |-> o, cell |-> cell]
Slots(ss) == {Allocas(ss)[j].dst : j \in DOMAIN Allocas(ss)}
SlotObject(n) == <<"slot", n>>
GlobalObject(g) == <<"global", g>>
LentObject(x) == <<"lent", x>>
MemoryAtEntry(entry) ==
  LET slots == {[o |-> SlotObject(r.n), c |-> Cells(r.ty.of, Undef)] : r \in Slots(entry)}
      globals == {[o |-> GlobalObject(g), c |-> Cells(GlobalTypes[g], Number(0))] : g \in GlobalNames}
      lent == {[o |-> LentObject(x), c |-> Flat(env[1][x].ty, env[1][x].v)] : x \in DOMAIN env[1]}
      objects == slots \cup globals \cup lent
  IN  [o \in {b.o : b \in objects} |-> (CHOOSE b \in objects : b.o = o).c]
Passing(j) ==
  LET p == Parameters(Read)[j]
  IN  IF p.ty.k = "ptr" THEN To(LentObject(p.x), 1) ELSE env[3][p.x].v
RegsAtEntry ==
  [r \in {arguments[j].n : j \in DOMAIN arguments} |->
     Passing(CHOOSE j \in DOMAIN arguments : arguments[j].n = r)]

Harvest ==
  /\ phase = "harvest"
  /\ IF Dangling THEN error' = "panic" /\ phase' = "done" /\ UNCHANGED <<blocks, regs, mem>>
     ELSE /\ blocks' = NonEmpty(WithHoistedAllocas) /\ phase' = "run" /\ UNCHANGED error
          /\ regs' = RegsAtEntry /\ mem' = MemoryAtEntry(blocks'[1].stmts)
  /\ UNCHANGED <<source, function, parserVars, genVars, at>>
-----------------------------------------------------------------------------
(* The blocks run. *)
Current == blocks[at[1]].stmts[at[2]]
BlockAt(l) == CHOOSE j \in DOMAIN blocks : blocks[j].label = l
ValueOf(o) == IF o.o = "const" THEN Number(o.n % Width) ELSE regs[o.n]
PointerOf(o) ==
  IF o.o = "global" THEN To(GlobalObject(o.g), 1)
  ELSE IF o.n \in DOMAIN regs THEN regs[o.n] ELSE To(SlotObject(o.n), 1)

(* FunctionGenerator::emit_gep of the back-end: a field of a struct, or so many
   elements further. *)
GepCells(s) ==
  LET base == s.ptr.ty
  IN  IF PointsTo(s.ptr, {"struct"}) /\ s.dst.ty # base
      THEN Offset(base.of.s, ValueOf(s.src).n)
      ELSE ValueOf(s.src).n * SizeOf(ElementOf(base))

SetReg(o, v) == regs' = [r \in DOMAIN regs \cup {o.n} |-> IF r = o.n THEN v ELSE regs[r]]
Advance == at' = <<at[1], at[2] + 1>>
GoTo(l) == at' = <<BlockAt(l), 1>>

Visible == Current.s \in {"call", "return"}
IrStep ==
  LET s == Current
      p == PointerOf(s.ptr)
      l == ValueOf(s.l).n
      r == ValueOf(s.r).n
  IN  /\ phase = "run" /\ SourceVisible /\ ~Visible
      /\ CASE s.s = "alloca" -> Advance /\ UNCHANGED <<regs, mem>>
           [] s.s = "load" -> SetReg(s.dst, mem[p.o][p.cell]) /\ Advance /\ UNCHANGED mem
           [] s.s = "store" -> mem' = [mem EXCEPT ![p.o][p.cell] = ValueOf(s.src)] /\ Advance /\ UNCHANGED regs
           [] s.s = "gep" -> SetReg(s.dst, [p EXCEPT !.cell = @ + GepCells(s)]) /\ Advance /\ UNCHANGED mem
           [] s.s = "biop" -> SetReg(s.dst, Number(Computed(s.op, l, r))) /\ Advance /\ UNCHANGED mem
           [] s.s = "cmp" -> SetReg(s.dst, Number(Truth(Satisfied(s.op, l, r)))) /\ Advance /\ UNCHANGED mem
           [] s.s = "cjump" -> GoTo(IF ValueOf(s.src).n = 1 THEN s.tl ELSE s.fl) /\ UNCHANGED <<regs, mem>>
           [] s.s = "jump" -> GoTo(s.tl) /\ UNCHANGED <<regs, mem>>
      /\ UNCHANGED <<source, function, parserVars, phase, error, genVars, blocks>>

(* Of a pointer the callee sees the object from there on. *)
From(p) == SubSeq(mem[p.o], p.cell, Len(mem[p.o]))
IrEvent ==
  [t |-> Current.s, f |-> Current.f,
   args |-> [j \in DOMAIN Current.args |->
               LET v == ValueOf(Current.args[j])
               IN  IF Current.args[j].ty.k = "ptr" THEN From(v) ELSE <<v>>]]

RunSource ==
  /\ phase = "run" /\ ~SourceVisible /\ SourceStep(function.resolved)
  /\ UNCHANGED <<function, parserVars, phase, error, genVars, blocks, machine>>

(* Both sides wait at a call or a return: the callee answers both. *)
PointersPassed ==
  {regs[Current.args[j].n] : j \in {l \in DOMAIN Current.args : Current.args[l].ty.k = "ptr"}}
IrReply(v) ==
  /\ IF Current.res = <<>> THEN UNCHANGED regs ELSE SetReg(Current.res[1], v)
  /\ mem' = [o \in DOMAIN mem |->
               [c \in DOMAIN mem[o] |-> IF To(o, c) \in PointersPassed THEN v ELSE mem[o][c]]]
Synchronise ==
  /\ phase = "run" /\ SourceVisible /\ Visible
  /\ IF SourceEvent.t = "return"
     THEN phase' = "done" /\ UNCHANGED <<source, machine>>
     ELSE /\ \E n \in Replies : SourceReply(Number(n)) /\ IrReply(Number(n))
          /\ Advance /\ UNCHANGED phase
  /\ UNCHANGED <<function, parserVars, error, genVars, blocks>>

Generate ==
  \/ SpillArgument \/ PlaceId \/ PlacePart \/ PlaceUndefined \/ HandleArrayExpr \/ IndexingFails
  \/ HandleMemberExpr \/ MemberFails \/ EvalNum \/ EvalPlace \/ EvalArray \/ AutoLoad
  \/ HandleReferenceExpr \/ ReferenceFails \/ EvalCall \/ EvalCallFails \/ EmitCall \/ EvalBiop \/ EmitBiop
  \/ EvalBool \/ LoadBool \/ BoolNot \/ BoolCompare \/ EmitCmp \/ BoolBiop \/ EmitRaw
  \/ HandleAssignment \/ EmitStore \/ HandleLocalVarDecl \/ HandleLocalVarDef \/ DefineScalar
  \/ HandleArrayDef \/ InitListed \/ InitElement \/ InitFilled \/ DropFiller \/ InsertArray \/ Redefinition
  \/ HandleCallStmt \/ EmitCallStmt \/ CallStmtFails \/ HandleIf \/ HandleWhile \/ HandleReturn \/ EmitReturn
  \/ HandleSimple \/ OutsideLoop \/ EnterScope \/ ExitScope \/ Finish
Halted == phase = "done" /\ UNCHANGED vars
Next == Halted \/ ParseSource \/ Generate \/ Harvest \/ IrStep \/ RunSource \/ Synchronise
Spec == Init /\ [][Next]_vars
-----------------------------------------------------------------------------

(* The tree is what the programmer wrote, in whatever style: operators bind and
   associate as they should, no statement is taken for another. *)
ParsedAsWritten == phase # "parse" => tree = function.program \/ error = "InvalidNumber"

(* No keyword is read as a name (docs/tealang.md: "Identifiers cannot be
   keywords"). *)
KeywordsReserved == phase = "parse" => NamesIn(Parsed(text)) \cap Keywords = {}

(* Parser and walk refuse exactly the functions that break the rules, and the
   walk never trips over its own assertion that a block jumped to has code. One
   rule of the documentation is left out of WellFormed because nothing enforces
   it: docs/tealang.md:122, 148 and 596 forbid `let r: &[i32] = &a`, "enforced
   semantically", but handle_local_var_def (function_gen.rs:303-323) accepts it
   and so does this property. *)
ErrorsExact ==
  /\ error # "panic"
  /\ phase = "harvest" => WellFormedFunction(Intended, function.resolved)
  /\ error # "none" => ~WellFormedFunction(Intended, function.resolved)

(* Harvested blocks make a control-flow graph: labels are distinct, jumps have
   targets, no jump goes to the entry, a block ends in its only terminator and
   holds no label, every alloca is in the entry, and a conditional jump tests
   the last comparison of its own block: the flags are all that instruction
   selection keeps of a comparison. *)
TestsLastComparison(ss) ==
  \A l \in DOMAIN ss : ss[l].s = "cjump" =>
    \E k \in 1 .. l - 1 :
      /\ ss[k].s = "cmp" /\ ss[k].dst = ss[l].src
      /\ \A j \in k + 1 .. l - 1 : ss[j].s # "cmp"
WellFormedBlocks ==
  /\ \A j, l \in DOMAIN blocks : blocks[j].label = blocks[l].label => j = l
  /\ TargetsOf(blocks) \subseteq {blocks[j].label : j \in DOMAIN blocks} \ {EntryLabel}
  /\ blocks[1].label = EntryLabel
  /\ \A j \in DOMAIN blocks :
       LET ss == blocks[j].stmts
       IN  /\ \A l \in DOMAIN ss : IsTerminator(ss[l]) <=> l = Len(ss)
           /\ \A l \in DOMAIN ss : ss[l].s = "alloca" => j = 1
           /\ TestsLastComparison(ss)

(* A register is read only after it was written, a slot is used only if its
   alloca was kept, and memory accessed only inside an object. *)
Reads(s) ==
  CASE s.s \in {"store", "gep", "cjump"} -> {s.src} [] s.s \in {"biop", "cmp"} -> {s.l, s.r}
    [] s.s \in {"call", "return"} -> {s.args[j] : j \in DOMAIN s.args}
    [] OTHER -> {}
DefinedBeforeUse ==
  /\ \A o \in Reads(Current) : o.o = "local" => o.n \in DOMAIN regs
  /\ Current.s \in {"load", "store", "gep"} => PointerOf(Current.ptr).o \in DOMAIN mem
  /\ Current.s \in {"load", "store"} => PointerOf(Current.ptr).cell \in DOMAIN mem[PointerOf(Current.ptr).o]

(* What the passes behind the generator rely on, at every statement run. *)
WellFormedIr == phase = "run" => WellFormedBlocks /\ DefinedBeforeUse

(* Calls and the return happen in the same order with the same values, the
   numbers in an array passed by reference included. *)
SameEvents == phase = "run" /\ SourceVisible /\ Visible => SourceEvent = IrEvent
=============================================================================
