-------------------------------- MODULE Ast --------------------------------
(* src/ast: the trees the parser builds, as records; k names the variant. Boxes
   that only wrap another node, and positions, are left out.  Then the types
   ir::types makes of type specifiers. *)
EXTENDS Sequences, Naturals

CONSTANT MaxLiteral    \* i32::MAX; i32::MIN cannot be written

ASSUME AstAssumption == MaxLiteral \in Nat

(* Left values: a name, and from it by index or member.  An index is a literal
   or a name. *)
Id(x) == [k |-> "id", x |-> x]
Elem(b, i) == [k |-> "elem", b |-> b, i |-> i]
Member(b, m) == [k |-> "member", b |-> b, m |-> m]

(* The other expressions; path is the callee's module prefix. *)
Num(n) == [k |-> "num", n |-> n]
Ref(x) == [k |-> "ref", x |-> x]
CallFrom(path, f, args) == [k |-> "call", path |-> path, f |-> f, args |-> args]
CallE(f, args) == CallFrom(<<>>, f, args)
QualifiedName(call) == Append(call.path, call.f)
Arith(op, l, r) == [k |-> "arith", op |-> op, l |-> l, r |-> r]
Sub(l, r) == Arith("-", l, r)
BoolE(c) == [k |-> "bool", c |-> c]

(* Boolean expressions. *)
Compare(op, l, r) == [k |-> "compare", op |-> op, l |-> l, r |-> r]
Lt(l, r) == Compare("<", l, r)
And(l, r) == [k |-> "and", l |-> l, r |-> r]
Or(l, r) == [k |-> "or", l |-> l, r |-> r]
Not(c) == [k |-> "not", c |-> c]

(* Type specifiers. *)
IntType == [k |-> "int"]
Composite(s) == [k |-> "composite", s |-> s]
Reference(t) == [k |-> "reference", of |-> t]

(* Statements.  A scalar is declared with or without a type, an array with one;
   it is filled with one value or given a list. *)
Assign(lv, e) == [k |-> "assign", lv |-> lv, e |-> e]
Decl(x) == [k |-> "decl", x |-> x]
DeclTyped(x, t) == [k |-> "decl_typed", x |-> x, ty |-> t]
DeclArray(x, t, n) == [k |-> "decl_array", x |-> x, ty |-> t, len |-> n]
Def(x, e) == [k |-> "def", x |-> x, e |-> e]
DefTyped(x, t, e) == [k |-> "def_typed", x |-> x, ty |-> t, e |-> e]
DefList(x, t, n, es) == [k |-> "def_list", x |-> x, ty |-> t, len |-> n, args |-> es]
DefFill(x, t, n, e, c) == [k |-> "def_fill", x |-> x, ty |-> t, len |-> n, e |-> e, count |-> c]
CallFromS(path, f, args) == [k |-> "call_stmt", path |-> path, f |-> f, args |-> args]
CallS(f, args) == CallFromS(<<>>, f, args)
If(c, t, e) == [k |-> "if", c |-> c, then |-> t, else |-> e]
While(c, b) == [k |-> "while", c |-> c, body |-> b]
Return(e) == [k |-> "return", e |-> e]
ReturnVoid == [k |-> "return_void"]
Break == [k |-> "break"]
Continue == [k |-> "continue"]
NullStmt == [k |-> "null"]

(* The program.  Of a function declaration the parameters are typed; no return
   type is NoType. *)
NoType == [k |-> "none"]
StructDef(s, fields) == [k |-> "struct_def", x |-> s, fields |-> fields]
FnDecl(f, params, ret) == [k |-> "fn_decl", x |-> f, params |-> params, ret |-> ret]
FnDef(decl, body) == [k |-> "fn_def", decl |-> decl, body |-> body]
Program(uses, elements) == [uses |-> uses, elements |-> elements]
-----------------------------------------------------------------------------
(* ir::types::Dtype.  The array a reference points to has no length. *)
I32 == [k |-> "i32"]
I1 == [k |-> "i1"]
Void == [k |-> "void"]
StructOf(s) == [k |-> "struct", s |-> s]
ArrayOf(t, n) == [k |-> "array", of |-> t, len |-> n]
PtrTo(t) == [k |-> "ptr", of |-> t]
NoLength == 0

RECURSIVE DtypeOf(_)
DtypeOf(t) ==
  CASE t.k = "none" -> Void
    [] t.k = "int" -> I32
    [] t.k = "composite" -> StructOf(t.s)
    [] t.k = "reference" -> PtrTo(ArrayOf(DtypeOf(t.of), NoLength))

(* The storage a declaration asks for; resolved are the inferred types. *)
StorageOf(s, resolved) ==
  CASE s.k \in {"decl", "def"} -> IF s.x \in DOMAIN resolved THEN resolved[s.x] ELSE I32
    [] s.k \in {"decl_typed", "def_typed"} -> DtypeOf(s.ty)
    [] s.k \in {"decl_array", "def_list", "def_fill"} -> ArrayOf(DtypeOf(s.ty), s.len)

(* A field of a struct: fields is a sequence of [m, ty]. *)
FieldIn(fields, m) == CHOOSE j \in DOMAIN fields : fields[j].m = m
HasFieldIn(fields, m) == \E j \in DOMAIN fields : fields[j].m = m
=============================================================================
