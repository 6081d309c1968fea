------------------------- MODULE StructuredProgram -------------------------
(* What a TeaLang function means: a machine that runs statements and
   expressions.  Operands are evaluated from left to right, the place of an
   assignment before its value, && and || only as far as needed.  The machine
   can be observed when it calls and when it returns.  Numbers are integers
   modulo Width; a reference is the scope and name of an array. *)
EXTENDS Ast, Integers, FiniteSets

CONSTANTS
  Width,
  GlobalTypes,   \* types of the global variables
  Structs,       \* fields of the structs: sequences of [m, ty]
  Returns        \* what the callees return, by qualified name

ASSUME ProgramAssumption ==
  /\ Width \in Nat \ {0, 1}
  /\ \A f \in DOMAIN Returns : Returns[f] \in {I32, Void}

GlobalNames == DOMAIN GlobalTypes
FieldOf(s, m) == FieldIn(Structs[s], m)
HasField(s, m) == HasFieldIn(Structs[s], m)

VARIABLES
  kont,  \* what is left to do, first item first
  vals,  \* operands evaluated so far
  env    \* scopes, innermost last: the caller's arrays, the globals, the parameters; name -> [ty, v]

source == <<kont, vals, env>>

(* Values: numbers, references, and sequences of the parts of an aggregate. *)
Number(n) == [n |-> n]
Undef == Number(-1)
RefTo(scope, x) == [scope |-> scope, x |-> x]
IsRef(v) == "scope" \in DOMAIN v

RECURSIVE Filled(_, _)
Filled(t, v) ==
  CASE t.k = "array" -> [j \in 1 .. t.len |-> Filled(t.of, v)]
    [] t.k = "struct" -> [j \in DOMAIN Structs[t.s] |-> Filled(Structs[t.s][j].ty, v)]
    [] OTHER -> v

RECURSIVE Flat(_, _), FlatParts(_, _)
FlatParts(ts, vs) ==
  IF ts = <<>> THEN <<>> ELSE Flat(Head(ts), Head(vs)) \o FlatParts(Tail(ts), Tail(vs))
Flat(t, v) ==
  CASE t.k = "array" -> FlatParts([j \in DOMAIN v |-> t.of], v)
    [] t.k = "struct" -> FlatParts([j \in DOMAIN v |-> Structs[t.s][j].ty], v)
    [] OTHER -> <<v>>

(* What the caller lends: an array of Width numbers, all different. *)
Lent(t) == [ty |-> ArrayOf(t.of.of, Width), v |-> [j \in 1 .. Width |-> Filled(t.of.of, Number(j - 1))]]
Passed(p, arg) == [ty |-> p.ty, v |-> IF p.ty.k = "ptr" THEN RefTo(1, p.x) ELSE Number(arg)]
Parameters(f) ==
  [j \in DOMAIN f.decl.params |-> [x |-> f.decl.params[j].x, ty |-> StorageOf(f.decl.params[j], <<>>)]]
LentNames(f) == {Parameters(f)[j].x : j \in {l \in DOMAIN Parameters(f) : Parameters(f)[l].ty.k = "ptr"}}
ParamOf(f, x) == Parameters(f)[CHOOSE j \in DOMAIN Parameters(f) : Parameters(f)[j].x = x]

StartSource(f, args) ==
  /\ kont' = <<[t |-> "block", body |-> f.body], [t |-> "return", n |-> IF f.decl.ret = NoType THEN 0 ELSE 1]>>
  /\ vals' = <<Number(0)>>
  /\ env' = <<[x \in LentNames(f) |-> Lent(ParamOf(f, x).ty)],
             [g \in GlobalNames |-> [ty |-> GlobalTypes[g], v |-> Filled(GlobalTypes[g], Number(0))]],
             [x \in {f.decl.params[j].x : j \in DOMAIN f.decl.params} |->
                LET j == CHOOSE l \in DOMAIN f.decl.params : f.decl.params[l].x = x
                IN  Passed(Parameters(f)[j], args[j])]>>
-----------------------------------------------------------------------------
Eval(e) == <<[t |-> "eval", e |-> e]>>
Evals(es) == [j \in DOMAIN es |-> [t |-> "eval", e |-> es[j]]]
Top(s) == s[Len(s)]
Pop(s, n) == SubSeq(s, 1, Len(s) - n)

InnermostScope(x) ==
  CHOOSE j \in DOMAIN env :
    x \in DOMAIN env[j] /\ \A l \in j + 1 .. Len(env) : x \notin DOMAIN env[l]
Variable(x) == env[InnermostScope(x)][x]

RECURSIVE Part(_, _), Updated(_, _, _), PartType(_, _)
Part(v, path) == IF path = <<>> THEN v ELSE Part(v[Head(path)], Tail(path))
Updated(v, path, w) ==
  IF path = <<>> THEN w ELSE [v EXCEPT ![Head(path)] = Updated(@, Tail(path), w)]
PartType(t, path) ==
  IF path = <<>> THEN t
  ELSE PartType(IF t.k = "array" THEN t.of ELSE Structs[t.s][Head(path)].ty, Tail(path))

(* A place: a variable and the path to a part of it.  Indexing a reference
   leads into its array; a scalar is its own first element. *)
PlaceType(p) == PartType(env[p.scope][p.x].ty, p.path)
Contained(p) == Part(env[p.scope][p.x].v, p.path)
Into(p, j) == [p EXCEPT !.path = Append(@, j)]
IndexOf(i) == 1 + (IF i.k = "num" THEN i.n ELSE Variable(i.x).v.n)

RECURSIVE PlaceOf(_)
PlaceOf(lv) ==
  LET base == PlaceOf(lv.b)
  IN  CASE lv.k = "id" -> [scope |-> InnermostScope(lv.x), x |-> lv.x, path |-> <<>>]
        [] lv.k = "elem" /\ PlaceType(base).k = "ptr" ->
             [scope |-> Contained(base).scope, x |-> Contained(base).x, path |-> <<IndexOf(lv.i)>>]
        [] lv.k = "elem" /\ PlaceType(base).k = "array" -> Into(base, IndexOf(lv.i))
        [] lv.k = "elem" /\ PlaceType(base).k \in {"i32", "struct"} -> base
        [] lv.k = "member" -> Into(base, FieldOf(PlaceType(base).s, lv.m))

Put(p, v) == env' = [env EXCEPT ![p.scope][p.x].v = Updated(@, p.path, v)]
Bind(x, t, v) ==
  env' = [env EXCEPT ![Len(env)] =
            [y \in DOMAIN env[Len(env)] \cup {x} |->
               IF y = x THEN [ty |-> t, v |-> v] ELSE env[Len(env)][y]]]

Item == Head(kont)
Rest == Tail(kont)
Push(v) == vals' = Append(vals, v)
Truth(b) == IF b THEN 1 ELSE 0

Operate(op, a, b) ==
  CASE op = "+" -> (a + b) % Width [] op = "-" -> (a - b) % Width
    [] op = "*" -> (a * b) % Width [] op = "/" -> a \div b
Holds(op, a, b) ==
  CASE op = "<" -> a < b [] op = "<=" -> a <= b [] op = ">" -> a > b
    [] op = ">=" -> a >= b [] op = "==" -> a = b [] op = "!=" -> a # b

CallItem(e, used) == [t |-> "call", f |-> QualifiedName(e), n |-> Len(e.args), used |-> used]

EvalStep ==
  LET e == Item.e
  IN  /\ Item.t = "eval"
      /\ CASE e.k = "num" -> Push(Number(e.n % Width)) /\ kont' = Rest
           [] e.k \in {"id", "elem", "member"} -> Push(Contained(PlaceOf(e))) /\ kont' = Rest
           [] e.k = "ref" -> Push(RefTo(InnermostScope(e.x), e.x)) /\ kont' = Rest
           [] e.k = "call" -> kont' = Evals(e.args) \o <<CallItem(e, TRUE)>> \o Rest /\ UNCHANGED vals
           [] e.k \in {"arith", "compare"} ->
                kont' = Eval(e.l) \o Eval(e.r) \o <<[t |-> e.k, op |-> e.op]>> \o Rest /\ UNCHANGED vals
           [] e.k \in {"and", "or"} ->
                kont' = Eval(e.l) \o <<[t |-> e.k, e |-> e.r]>> \o Rest /\ UNCHANGED vals
           [] e.k = "not" -> kont' = Eval(e.c) \o <<[t |-> "not"]>> \o Rest /\ UNCHANGED vals
           [] e.k = "bool" -> kont' = Eval(e.c) \o Rest /\ UNCHANGED vals
      /\ UNCHANGED env

OperatorStep ==
  LET b == Top(vals).n
      a == vals[Len(vals) - 1].n
  IN  /\ Item.t \in {"arith", "compare", "not"}
      /\ vals' = CASE Item.t = "arith" -> Append(Pop(vals, 2), Number(Operate(Item.op, a, b)))
                   [] Item.t = "compare" -> Append(Pop(vals, 2), Number(Truth(Holds(Item.op, a, b))))
                   [] Item.t = "not" -> Append(Pop(vals, 1), Number(1 - b))
      /\ kont' = Rest /\ UNCHANGED env

(* The second operand of && and || is looked at only if the first leaves the
   result open. *)
ShortCircuit ==
  /\ Item.t \in {"and", "or"}
  /\ IF Top(vals).n = Truth(Item.t = "and")
     THEN kont' = Eval(Item.e) \o Rest /\ vals' = Pop(vals, 1)
     ELSE kont' = Rest /\ UNCHANGED vals
  /\ UNCHANGED env

BlockStep ==
  /\ Item.t = "block"
  /\ kont' = IF Item.body = <<>> THEN Rest
             ELSE <<[t |-> "stmt", s |-> Head(Item.body)],
                    [t |-> "block", body |-> Tail(Item.body)]>> \o Rest
  /\ UNCHANGED <<vals, env>>

Scoped(body) == <<[t |-> "block", body |-> body], [t |-> "end"]>>

(* Leaving a loop closes the scopes opened since; what is left to do of its
   body is dropped. *)
LoopAt == CHOOSE j \in DOMAIN kont : kont[j].t = "loop" /\ \A l \in 1 .. j - 1 : kont[l].t # "loop"
Leave(from) ==
  /\ kont' = SubSeq(kont, from, Len(kont))
  /\ env' = Pop(env, Cardinality({j \in 1 .. LoopAt : kont[j].t = "end"}))

(* The types inference found for the untyped locals are those of resolved. *)
StmtStep(resolved) ==
  LET s == Item.s
      t == StorageOf(s, resolved)
  IN  /\ Item.t = "stmt"
      /\ CASE s.k = "assign" -> kont' = Eval(s.e) \o <<[t |-> "store", to |-> PlaceOf(s.lv)]>> \o Rest /\ UNCHANGED env
           [] s.k \in {"decl", "decl_typed", "decl_array"} -> Bind(s.x, t, Filled(t, Undef)) /\ kont' = Rest
           [] s.k \in {"def", "def_typed"} ->
                kont' = Eval(s.e) \o <<[t |-> "def", x |-> s.x, ty |-> t]>> \o Rest /\ UNCHANGED env
           [] s.k = "def_fill" ->
                kont' = Eval(s.e) \o <<[t |-> "def_fill", x |-> s.x, ty |-> t, n |-> s.count]>> \o Rest
                /\ UNCHANGED env
           [] s.k = "def_list" ->
                kont' = Evals(s.args) \o <<[t |-> "def_list", x |-> s.x, ty |-> t, n |-> Len(s.args)]>> \o Rest
                /\ UNCHANGED env
           [] s.k = "call_stmt" -> kont' = Evals(s.args) \o <<CallItem(s, FALSE)>> \o Rest /\ UNCHANGED env
           [] s.k = "if" ->
                kont' = Eval(s.c) \o <<[t |-> "branch", then |-> s.then, else |-> s.else]>> \o Rest
                /\ UNCHANGED env
           [] s.k = "while" ->
                kont' = <<[t |-> "loop", c |-> s.c, body |-> s.body]>> \o Rest /\ UNCHANGED env
           [] s.k = "return" -> kont' = Eval(s.e) \o <<[t |-> "return", n |-> 1]>> \o Rest /\ UNCHANGED env
           [] s.k = "return_void" -> kont' = <<[t |-> "return", n |-> 0]>> \o Rest /\ UNCHANGED env
           [] s.k = "break" -> Leave(LoopAt + 1)
           [] s.k = "continue" -> Leave(LoopAt)
           [] s.k = "null" -> kont' = Rest /\ UNCHANGED env
      /\ UNCHANGED vals

StoreStep ==
  /\ Item.t = "store"
  /\ Put(Item.to, Top(vals))
  /\ vals' = Pop(vals, 1) /\ kont' = Rest

(* A list, and the count of a filler, may be shorter than the array. *)
Listed == SubSeq(vals, Len(vals) - Item.n + 1, Len(vals))
Elements(at(_)) == [j \in 1 .. Item.ty.len |-> IF j <= Item.n THEN at(j) ELSE Undef]
BindStep ==
  /\ \/ Item.t = "def" /\ Bind(Item.x, Item.ty, Top(vals)) /\ vals' = Pop(vals, 1)
     \/ /\ Item.t = "def_fill" /\ vals' = Pop(vals, 1)
        /\ Bind(Item.x, Item.ty, Elements(LAMBDA j : Top(vals)))
     \/ /\ Item.t = "def_list" /\ vals' = Pop(vals, Item.n)
        /\ Bind(Item.x, Item.ty, Elements(LAMBDA j : Listed[j]))
  /\ kont' = Rest

BranchStep ==
  /\ Item.t = "branch"
  /\ kont' = Scoped(IF Top(vals).n = 1 THEN Item.then ELSE Item.else) \o Rest
  /\ env' = Append(env, <<>>) /\ vals' = Pop(vals, 1)

LoopStep ==
  /\ Item.t = "loop"
  /\ kont' = Eval(Item.c) \o <<[t |-> "test", body |-> Item.body]>> \o kont
  /\ UNCHANGED <<vals, env>>

TestStep ==
  /\ Item.t = "test"
  /\ vals' = Pop(vals, 1)
  /\ IF Top(vals).n = 1
     THEN kont' = Scoped(Item.body) \o Rest /\ env' = Append(env, <<>>)
     ELSE kont' = Tail(Rest) /\ UNCHANGED env

EndScope ==
  /\ Item.t = "end"
  /\ env' = Pop(env, 1) /\ kont' = Rest /\ UNCHANGED vals

(* Steps nobody sees, up to the next call or return. *)
SourceVisible == Item.t \in {"call", "return"}
SourceStep(resolved) ==
  \/ EvalStep \/ OperatorStep \/ ShortCircuit \/ BlockStep \/ StmtStep(resolved) \/ StoreStep
  \/ BindStep \/ BranchStep \/ LoopStep \/ TestStep \/ EndScope

(* What is seen: the callee and its arguments, or the value returned.  Of a
   reference the callee sees the numbers in the array. *)
Operands == SubSeq(vals, Len(vals) - Item.n + 1, Len(vals))
Seen(v) == IF IsRef(v) THEN Flat(env[v.scope][v.x].ty, env[v.scope][v.x].v) ELSE <<v>>
SourceEvent ==
  [t |-> Item.t, f |-> IF Item.t = "call" THEN Item.f ELSE <<>>,
   args |-> [j \in DOMAIN Operands |-> Seen(Operands[j])]]

(* The callee puts its answer also first into every array lent to it. *)
RECURSIVE FirstNumber(_)
FirstNumber(t) ==
  CASE t.k = "array" -> <<1>> \o FirstNumber(t.of)
    [] t.k = "struct" -> <<1>> \o FirstNumber(Structs[t.s][1].ty)
    [] OTHER -> <<>>
RefsIn(vs) == {vs[j] : j \in {l \in DOMAIN vs : IsRef(vs[l])}}
SourceReply(v) ==
  /\ kont' = Rest
  /\ vals' = IF Item.used THEN Append(Pop(vals, Item.n), v) ELSE Pop(vals, Item.n)
  /\ env' = [j \in DOMAIN env |->
               [x \in DOMAIN env[j] |->
                  IF RefTo(j, x) \in RefsIn(Operands)
                  THEN [env[j][x] EXCEPT !.v = Updated(@, FirstNumber(env[j][x].ty), v)]
                  ELSE env[j][x]]]
-----------------------------------------------------------------------------
(* The rules: which programs are to be compiled at all.  A name may be used
   where a declaration of it is in scope, no local may be declared while one of
   its name is visible, loop exits stand in loops, and a place is made of
   indices into arrays and members of structs.  vis holds the visible locals
   with their types. *)
Bad == [k |-> "bad"]
Declared(s, resolved) == IF "x" \in DOMAIN s THEN {<<s.x, StorageOf(s, resolved)>>} ELSE {}
LocalNames(vis) == {d[1] : d \in vis}
TypeIn(x, vis) ==
  IF x \in LocalNames(vis) THEN (CHOOSE d \in vis : d[1] = x)[2]
  ELSE IF x \in GlobalNames THEN GlobalTypes[x] ELSE Bad

(* The type of a place; a scalar that is not a global counts as its own first
   element. *)
Component(t) == IF t.k = "array" THEN t.of ELSE IF t.k = "ptr" THEN t.of.of ELSE t
Fits(n) == n \in -MaxLiteral .. MaxLiteral
RECURSIVE PlaceRule(_, _)
PlaceRule(lv, vis) ==
  LET base == PlaceRule(lv.b, vis)
      global == lv.b.k = "id" /\ lv.b.x \notin LocalNames(vis)
  IN  CASE lv.k = "id" -> TypeIn(lv.x, vis)
        [] lv.k = "elem" ->
             IF \/ lv.i.k = "id" /\ TypeIn(lv.i.x, vis) = Bad
                \/ lv.i.k = "num" /\ ~Fits(lv.i.n)
                \/ global /\ base.k # "array"
             THEN Bad ELSE Component(base)
        [] lv.k = "member" ->
             IF base.k = "struct" /\ HasField(base.s, lv.m)
             THEN Structs[base.s][FieldOf(base.s, lv.m)].ty ELSE Bad

RECURSIVE WellFormedExpr(_, _)
WellFormedExpr(e, vis) ==
  CASE e.k = "num" -> Fits(e.n)
    [] e.k \in {"id", "elem", "member"} -> PlaceRule(e, vis).k \in {"i32", "ptr"}
    [] e.k = "ref" -> TypeIn(e.x, vis).k = "array"
    [] e.k = "call" ->
         /\ QualifiedName(e) \in {f \in DOMAIN Returns : Returns[f] = I32}
         /\ \A j \in DOMAIN e.args : WellFormedExpr(e.args[j], vis)
    [] e.k \in {"arith", "compare", "and", "or"} -> WellFormedExpr(e.l, vis) /\ WellFormedExpr(e.r, vis)
    [] e.k \in {"not", "bool"} -> WellFormedExpr(e.c, vis)

(* The rules of a body, except that a let may have a reference type: no code
   enforces what docs/tealang.md:122, 148 and 596 say against it. *)
RECURSIVE WellFormed(_, _, _, _)
WellFormed(body, outer, inLoop, resolved) ==
  \A j \in DOMAIN body :
    LET s == body[j]
        vis == outer \cup UNION {Declared(body[l], resolved) : l \in 1 .. j - 1}
        OkExprs(es) == \A e \in es : WellFormedExpr(e, vis)
    IN  /\ \A d \in Declared(s, resolved) : d[1] \notin LocalNames(vis)
        /\ s.k \in {"decl_array", "def_list", "def_fill"} => Fits(s.len)
        /\ s.k = "def_fill" => Fits(s.count)
        /\ CASE s.k = "assign" -> OkExprs({s.e}) /\ PlaceRule(s.lv, vis) # Bad
             [] s.k \in {"def", "def_typed", "def_fill", "return"} -> OkExprs({s.e})
             [] s.k = "def_list" -> OkExprs({s.args[l] : l \in DOMAIN s.args})
             [] s.k = "call_stmt" ->
                  OkExprs({s.args[l] : l \in DOMAIN s.args}) /\ QualifiedName(s) \in DOMAIN Returns
             [] s.k = "if" -> /\ OkExprs({s.c})
                              /\ WellFormed(s.then, vis, inLoop, resolved)
                              /\ WellFormed(s.else, vis, inLoop, resolved)
             [] s.k = "while" -> OkExprs({s.c}) /\ WellFormed(s.body, vis, TRUE, resolved)
             [] s.k \in {"break", "continue"} -> inLoop
             [] OTHER -> TRUE

WellFormedFunction(f, resolved) ==
  LET ps == Parameters(f)
  IN  /\ \A j, l \in DOMAIN ps : ps[j].x = ps[l].x => j = l
      /\ WellFormed(f.body, {<<ps[j].x, ps[j].ty>> : j \in DOMAIN ps}, FALSE, resolved)
=============================================================================
