-------------------------- MODULE MCTypeInference --------------------------
(* Bodies of a function with a reference p and a number n: one untyped local
   assigned and used in, behind and beside branches and loops, and the other
   forms of statement and expression once each.  Aggregates are not copied. *)
EXTENDS TypeInference

Ints == PtrTo(ArrayOf(I32, NoLength))
MCStructs ==
  [s \in {"S", "T"} |->
     IF s = "S" THEN <<[m |-> "m", ty |-> I32], [m |-> "c", ty |-> ArrayOf(I32, 2)]>>
     ELSE <<[m |-> "s", ty |-> StructOf("S")]>>]
MCTypes == {I32, Void, Ints}
MCParams == [x \in {"p", "n"} |-> IF x = "p" THEN Ints ELSE I32]
MCLocals == {"a", "b", "x", "y", "i", "s", "ts", "z"}
MCGlobals == [x \in {"g", "h"} |-> IF x = "h" THEN ArrayOf(I32, 2) ELSE I32]
MCReturns == [f \in {<<"f">>, <<"v">>, <<"lib", "f">>} |-> IF f = <<"v">> THEN Void ELSE I32]

Cond == Lt(Id("n"), Num(1))
Use(x) == CallS("f", <<Id(x)>>)
Leaf == {Assign(Id("x"), Num(1)), Assign(Id("x"), Ref("h")), Use("x"), Def("y", Id("x")), Def("y", Num(2)),
         Assign(Id("y"), Id("x"))}
Arm == {<<>>} \cup {<<s>> : s \in Leaf}
Nested == {If(Cond, b, c) : b, c \in Arm} \cup {While(Cond, b) : b \in Arm}
Statement == Leaf \cup Nested
Flow == {<<Decl("x"), s, t>> : s, t \in Statement}
Deep == {<<Decl("x"), While(Cond, <<s, t>>), Use("x")>> : s \in Nested, t \in Leaf}

Fill(x, e) == DefFill(x, IntType, 2, e, 2)
Right ==
  {Num(1), Id("n"), Id("p"), Id("g"), Id("h"), Id("z"), Ref("h"), Ref("g"), Ref("z"), Ref("p"), Elem(Id("p"), Num(0)),
   Elem(Id("h"), Id("i")), Elem(Id("h"), Id("n")), Elem(Id("g"), Num(0)), Elem(Id("n"), Num(0)), Elem(Id("z"), Num(0)),
   Member(Id("s"), "m"), Member(Id("n"), "m"), Member(Id("s"), "k"), Member(Id("z"), "m"), Elem(Member(Id("s"), "c"), Id("n")),
   Member(Member(Elem(Id("ts"), Num(1)), "s"), "m"), Elem(Member(Member(Elem(Id("ts"), Id("b")), "s"), "c"), Num(0)),
   CallE("f", <<Id("n"), Ref("h")>>), CallE("v", <<>>), CallE("w", <<>>), CallE("f", <<Id("b")>>), CallFrom(<<"lib">>, "f", <<>>),
   CallFrom(<<"lib">>, "v", <<>>), Sub(Id("n"), Elem(Id("a"), Num(0))), Arith("/", Id("n"), Id("b")),
   BoolE(And(Cond, Not(Cond))), BoolE(Lt(Id("n"), Id("b")))}
Places == {Id("n"), Id("p"), Id("g"), Id("x"), Id("b"), Elem(Id("a"), Num(0)), Elem(Id("g"), Num(1)), Elem(Id("b"), Num(0)),
           Elem(Id("a"), Id("b")), Member(Id("s"), "m"), Member(Id("a"), "m"), Elem(Member(Id("s"), "c"), Num(1)),
           Member(Elem(Member(Id("s"), "c"), Num(1)), "m"), Member(Member(Elem(Id("ts"), Num(0)), "s"), "m")}
Forms(e) ==
  {<<Def("x", e)>>, <<DefTyped("x", IntType, e)>>, <<DefTyped("x", Reference(IntType), e)>>, <<Fill("x", e)>>,
   <<DefList("x", IntType, 2, <<Num(1), e>>)>>, <<Use("n"), Return(e)>>,
   <<CallS("w", <<e>>)>>, <<CallS("v", <<e>>)>>, <<CallFromS(<<"lib">>, "f", <<Num(1), e>>)>>,
   <<If(Lt(Num(0), e), <<Break>>, <<Continue, NullStmt>>)>>,
   <<While(Lt(e, Num(0)), <<ReturnVoid, Decl("y")>>)>>}
Before == <<Fill("a", Num(0)), DeclTyped("s", Composite("S")), DeclArray("ts", Composite("T"), 2)>>
Misc ==
  UNION {{Before \o b : b \in Forms(e)} : e \in Right}
    \cup {Before \o <<DeclTyped("x", IntType), Assign(lv, e)>> : lv \in Places, e \in {Num(1), Ref("a"), CallE("v", <<>>)}}
    \cup {<<Decl("n")>>, <<DeclTyped("n", IntType)>>, <<Decl("x"), DefTyped("x", IntType, Num(1))>>,
          <<DeclArray("x", IntType, 2), Fill("x", Num(0))>>, <<DefList("a", IntType, 2, <<>>), DefList("a", IntType, 2, <<>>)>>,
          <<Def("x", Num(1)), If(Cond, <<Def("x", Ref("h"))>>, <<>>)>>}

MCBodies == Flow \cup Deep \cup Misc
=============================================================================
