------------------------- MODULE MCFunctionLowering -------------------------
(* Families of functions: every way two statements can stand in the branches of
   an if in a loop and behind it; nested conditions as branch, loop condition
   and value; scopes that hide a global, end, overlap; arrays, structs and
   references written and read through every form of place; the operators; what
   is to be refused.  A condition calls, so that its evaluation is observed and
   its outcome is open.  Preamble are the declarations the functions stand on. *)
EXTENDS FunctionLowering

Preamble ==
  <<StructDef("S", <<DeclTyped("m", IntType), DeclArray("c", IntType, 3)>>),
    Decl("g"), FnDecl("w", <<DeclTyped("p", Reference(IntType))>>, NoType),
    StructDef("T", <<DeclTyped("s", Composite("S")), DeclTyped("k", IntType)>>),
    DefList("h", IntType, 3, <<Num(0), Num(0), Num(0)>>), DeclArray("hs", Composite("S"), 3),
    FnDecl("f", <<DeclTyped("p", Reference(IntType)), DeclTyped("q", Reference(IntType))>>, IntType)>>
Introduced(ks) == {d \in {Preamble[j] : j \in DOMAIN Preamble} : d.k \in ks}
MCStructs ==
  [s \in {d.x : d \in Introduced({"struct_def"})} |->
     LET fields == (CHOOSE d \in Introduced({"struct_def"}) : d.x = s).fields
     IN  [j \in DOMAIN fields |-> [m |-> fields[j].x, ty |-> StorageOf(fields[j], <<>>)]]]
MCGlobalTypes ==
  [x \in {d.x : d \in Introduced(DeclarationKinds)} |->
     StorageOf(CHOOSE d \in Introduced(DeclarationKinds) : d.x = x, <<>>)]
Quiet == <<"w">>
MCReturns ==
  [f \in {<<x>> : x \in {"f", "h", "p", "q", "r", "u", "v", "w"}} \cup {<<"lib", "f">>} |->
     IF f = Quiet THEN Void ELSE I32]

Parameters2 == <<DeclTyped("n", IntType), DeclTyped("p", Reference(IntType))>>
Ints == DtypeOf(Reference(IntType))
Source(params, ret, body, uses, elements, style) ==
  [program |-> Program(uses, Append(elements, FnDef(FnDecl("fun", params, ret), body))),
   resolved |-> [x \in IF params = <<>> THEN {} ELSE {"q"} |-> Ints], style |-> style]
Plain(body, style) == Source(<<>>, IntType, body, <<>>, <<>>, style)
WithParams(body, style) == Source(Parameters2, IntType, body, <<<<"lib">>>>, <<>>, style)
Complete(params, body, style) == Source(params, NoType, body, <<<<"lib">>, <<"lib", "more">>>>, Preamble, style)

Test(f) == Lt(CallE(f, <<>>), Num(1))
Simple ==
  {CallS("u", <<Id("x")>>), Assign(Id("x"), Num(2)), Break, Continue, Return(Id("x")),
   Def("y", Sub(Id("x"), Num(2)))}
Branch == {<<>>} \cup {<<s>> : s \in Simple}
LongBranch ==
  {<<Def("y", Num(2)), CallS("v", <<Id("y")>>)>>, <<Break, Assign(Id("x"), Num(0))>>,
   <<Return(Num(0)), Def("y", BoolE(Test("r"))), CallS("v", <<Id("y")>>)>>}

Loops ==
  {<<Def("x", Num(1)), While(Test("p"), <<If(Test("q"), b, c)>> \o d), Return(Id("x"))>> :
     b \in Branch \cup LongBranch, c \in Branch, d \in Branch}
Nested ==
  {<<Def("x", Num(1)), While(Test("p"), <<While(Test("q"), b)>> \o c), CallS("u", <<Id("x")>>)>> :
     b \in Branch \cup LongBranch, c \in Branch}
Straight == {<<Def("x", Num(1))>> \o b \o c : b \in Branch \cup LongBranch, c \in Branch}

Basic == {Test("p"), Not(Test("p"))}
Cond1 == Basic \cup {And(a, Test("q")) : a \in Basic} \cup {Or(a, Test("q")) : a \in Basic}
Cond2 ==
  Cond1 \cup {Not(c) : c \in Cond1} \cup {And(c, Test("r")) : c \in Cond1}
    \cup {Or(c, Not(Test("r"))) : c \in Cond1} \cup {And(Test("r"), c) : c \in Cond1}
    \cup {Not(Or(Test("r"), c)) : c \in Cond1}
    \cup {Lt(BoolCall, Num(1)) : BoolCall \in {CallE("h", <<BoolE(c)>>) : c \in Cond1}}
Conditions ==
  UNION {{<<If(c, <<Return(Num(1))>>, <<>>), CallS("u", <<>>)>>,
          <<Return(BoolE(c))>> ,
          <<While(c, <<CallS("u", <<>>)>>)>>,
          <<Def("x", BoolE(c)), If(Lt(Num(0), Id("x")), <<NullStmt>>, <<CallS("u", <<Id("x")>>)>>)>>} : c \in Cond2}

Scopes ==
  {<<If(Test("p"), b, c)>> \o d :
     b \in {<<Def("y", Num(1))>>, <<Def("g", Num(1)), CallS("u", <<Id("g")>>)>>, <<Assign(Id("g"), Num(2))>>},
     c \in {<<>>, <<Def("y", Num(2)), CallS("u", <<Id("y")>>)>>, <<Def("y", Num(2)), Def("y", Num(2))>>},
     d \in {<<>>, <<CallS("u", <<Id("g")>>)>>, <<CallS("u", <<Id("y")>>)>>, <<Def("y", Id("g")), Return(Id("y"))>>,
            <<Decl("y"), While(Test("q"), <<Def("y", Num(1))>>)>>,
            <<While(Test("q"), <<Decl("y"), Assign(Id("y"), Num(1)), CallS("u", <<Id("y")>>)>>)>>}}

(* Parameters n and p, local aggregates of every kind. *)
Arr(n) == <<DefList("a", IntType, 3, n)>>
Before ==
  Arr(<<Num(2), Id("n"), CallE("f", <<Id("p"), Id("n")>>)>>)
    \o <<DeclTyped("s", Composite("S")), DeclArray("ts", Composite("T"), 3)>>
Deep(i, j) == Elem(Member(Member(Elem(Id("ts"), i), "s"), "c"), j)
GoodPlaces ==
  {Id("n"), Id("g"), Elem(Id("a"), Num(1)), Elem(Id("a"), Id("n")), Elem(Id("p"), Num(2)), Elem(Id("p"), Id("n")),
   Elem(Id("h"), Id("n")), Elem(Id("n"), Num(0)), Elem(Elem(Id("h"), Num(1)), Num(0)), Member(Id("s"), "m"),
   Member(Elem(Id("s"), Num(0)), "m"), Elem(Member(Id("s"), "c"), Id("n")), Member(Elem(Id("ts"), Id("n")), "k"),
   Member(Member(Elem(Id("ts"), Num(1)), "s"), "m"), Deep(Num(2), Num(1)), Deep(Id("n"), Id("n")),
   Elem(Member(Elem(Id("hs"), Id("n")), "c"), Num(1))}
BadPlaces ==
  {Id("z"), Elem(Id("g"), Num(0)), Member(Id("n"), "m"), Member(Id("s"), "k"), Elem(Id("z"), Num(0)),
   Elem(Id("h"), Id("z")), Elem(Member(Id("z"), "c"), Num(0)), Elem(Member(Id("s"), "z"), Num(0)),
   Deep(Id("z"), Num(0))}
Observed ==
  <<CallS("u", <<Id("n"), Id("g"), Id("p"), Ref("a"), Ref("h"), Ref("hs")>>),
    CallS("v", <<Member(Id("s"), "m"), Elem(Member(Id("s"), "c"), Num(0)), Elem(Member(Id("s"), "c"), Num(1)),
                 Elem(Member(Id("s"), "c"), Num(2))>>),
    CallFromS(<<"lib">>, "f", <<Ref("ts"), Elem(Id("a"), Id("n"))>>)>>
Writes ==
  {Before \o <<Assign(lv, e)>> \o Observed :
     lv \in GoodPlaces \cup BadPlaces, e \in {Num(1), CallE("f", <<Ref("a"), Ref("h")>>)}}

Right ==
  GoodPlaces \cup BadPlaces
    \cup {Id("p"), Id("a"), Id("h"), Ref("a"), Ref("h"), Ref("ts"), Ref("g"), Ref("p"), Ref("n"), Ref("z"), CallFrom(<<"lib">>, "f", <<Ref("a")>>),
          CallFrom(<<"lib">>, "g", <<>>), CallE("w", <<Id("n")>>), CallE("z", <<>>),
          CallE("f", <<Id("z")>>), BoolE(Lt(Id("n"), Id("z"))), Sub(Id("z"), Num(1))}
Uses ==
  {Before \o b :
     b \in UNION {{<<CallS("u", <<Num(1), e>>), CallS("v", <<Id("n")>>)>>, <<Return(e)>>} : e \in Right}}
Refused ==
  {<<Return(Sub(Id("n"), Num(4)))>>, <<Return(Num(-4))>>, <<DeclArray("a", IntType, 4)>>, <<Assign(Elem(Id("p"), Num(4)), Num(0))>>,
   <<CallS("z", <<Id("n")>>)>>, <<CallFromS(<<"lib">>, "g", <<>>)>>, <<Decl("n")>>, <<DefFill("p", IntType, 2, Num(1), 2)>>,
   <<DefTyped("x", IntType, Num(1)), DeclTyped("x", IntType)>>, <<DeclArray("a", IntType, 2), DefList("a", IntType, 1, <<Num(0)>>)>>}
(* References, the let of reference type that is accepted against
   docs/tealang.md:148 included. *)
References ==
  {<<Def("q", Id("p")), Assign(Elem(Id("q"), Id("n")), Num(0)), CallS("u", <<Id("p"), Id("q"), Ref("h")>>)>>,
   <<Decl("q"), If(Test("p"), <<Assign(Id("q"), Ref("h"))>>, <<Assign(Id("q"), Id("p"))>>),
     Assign(Elem(Id("q"), Num(1)), CallE("f", <<Id("q")>>)), CallS("u", <<Id("p"), Id("q"), Ref("h")>>)>>,
   <<DefFill("a", IntType, 3, Id("n"), 3), DefTyped("r", Reference(IntType), Ref("a")),
     While(Test("q"), <<Assign(Id("p"), Id("r")), CallS("v", <<Id("r"), Elem(Id("p"), Num(0))>>)>>),
     Return(Elem(Id("p"), Num(0)))>>,
   <<While(Test("q"), <<DefFill("a", IntType, 3, CallE("f", <<>>), 3), CallS("v", <<Ref("a"), Ref("h")>>),
                        If(Test("r"), <<Break>>, <<>>)>>), Return(Num(0))>>,
   <<DefFill("a", IntType, 3, CallE("f", <<>>), 2), DefList("b", IntType, 2, <<Id("n")>>), CallS("v", <<Ref("a"), Ref("b")>>)>>}

Ops == {"+", "-", "*", "/"}
Operators ==
  {<<Return(Arith(o, Arith(q, CallE("f", <<>>), Num(2)), Num(1)))>> : o \in Ops, q \in Ops}
    \cup {<<Return(Arith(o, Id("n"), Arith(q, CallE("f", <<>>), CallE("p", <<>>))))>> : o \in Ops \ {"/"}, q \in Ops \ {"/"}}
    \cup {<<Return(Arith(o, Num(-1), Arith(o, Id("n"), Num(-2))))>> : o \in Ops \ {"/"}}
    \cup {<<If(Compare(o, CallE("f", <<>>), Num(-1)), <<CallS("v", <<Num(-2)>>)>>, <<>>)>> : o \in {"<", ">="}}
    \cup {<<If(Compare(o, CallE("f", <<>>), Id("n")), <<CallS("u", <<>>)>>, <<>>)>> : o \in {"<", "<=", ">", ">=", "==", "!="}}

Silent ==
  {<<>>, <<CallS("w", <<Id("p")>>)>>, <<ReturnVoid>>, <<If(Test("p"), <<ReturnVoid, CallS("u", <<>>)>>, <<>>), CallS("w", <<Id("p")>>)>>,
   <<While(Test("p"), <<CallS("w", <<>>), If(Test("q"), <<ReturnVoid>>, <<Continue>>)>>)>>}

Styles == {"tight", "spaced", "full"}
MCSources ==
  {Plain(b, "tight") : b \in Loops \cup Nested \cup Straight}
    \cup {Plain(b, s) : b \in Conditions \cup Scopes, s \in {"tight", "full"}}
    \cup {WithParams(b, s) : b \in Writes \cup Uses, s \in {"spaced", "full"}}
    \cup {WithParams(b, s) : b \in Refused \cup References \cup Operators, s \in Styles}
    \cup {Complete(Parameters2, b, s) : b \in Silent, s \in Styles}
    \cup {Complete(<<Parameters2[1], Parameters2[1]>>, <<>>, "tight")}
(* For the run that looks for keywords taken as names. *)
MCGrouped == {Plain(<<Return(e)>>, "grouped") : e \in {Num(1), Sub(Id("g"), Num(1)), CallE("f", <<>>), BoolE(Test("f"))}}
=============================================================================
