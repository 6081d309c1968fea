--------------------------- MODULE MCDeclarations ---------------------------
(* Every sequence of at most three top-level elements that share a few names;
   those of functions also under an import, and imports that clash, repeat or
   are broken.  One global with each of the initializers.  One or two structs,
   the second of which may contain the first, or itself by being defined twice,
   with two locals and up to two spilled vregs. *)
EXTENDS Declarations

MCHeaders ==
  [m \in {"std", "io", "bad"} |->
     CASE m = "std" -> <<FnDecl("put", "i32"), Var("v", Uninitialized), FnDecl("get", "void")>>
       [] m = "io" -> <<FnDecl("put", "i32")>>
       [] m = "bad" -> <<>>]
MCMalformed == {"bad"}

Program(uses, elements) == [uses |-> uses, elements |-> elements, locals |-> <<>>, spills |-> <<>>]
UpToThree(S) == {<<>>} \cup {<<a>> : a \in S} \cup {<<a, b>> : a, b \in S} \cup {<<a, b, c>> : a, b, c \in S}
-----------------------------------------------------------------------------
(* Registration. *)
Put == <<"std", "put">>
F == <<"", "f">>
D(n, b) == [count |-> n, base |-> b]
FnElements ==
  {FnDecl("f", s) : s \in {"i32", "void", "array_parameter"}} \cup {FnDecl("put", "i32")}
    \cup {FnDef("f", s, {}, 1) : s \in {"i32", "struct_result"}}
    \cup {FnDef("f", "i32", {F}, 2), FnDef("put", "void", {F}, 3), FnDef("main", "i32", {F, Put}, 4)}
Elements ==
  FnElements \cup {Var("v", i) : i \in {Uninitialized, Num(1), StructInit, Name}}
    \cup {StructDef(1, <<>>), StructDef(2, <<D(1, 1)>>), StructDef(1, <<D(1, 2)>>), StructDef(2, <<>>),
          StructDef(3, <<D(1, 1), D(1, 2)>>)}
UseLists == {<<>>, <<"std">>, <<"std", "std">>, <<"std", "io">>, <<"none">>, <<"bad">>}

Registrations ==
  {Program(<<>>, es) : es \in UpToThree(Elements)}
    \cup {Program(<<"std">>, es) : es \in UpToThree(FnElements)}
    \cup {Program(u, es) : u \in UseLists, es \in {<<>>, <<FnDef("main", "i32", {Put}, 4)>>}}
-----------------------------------------------------------------------------
(* Initializers: words of three bits, every literal the grammar has, one
   operator on two literals, or on one and such an expression near the limits,
   and Boolean operators on comparisons that may fail on one side. *)
Literals == {Num(n) : n \in 1 - Limit .. Limit - 1}
Leaves == Literals \cup {Name}
Flat == {Bin(op, l, r) : op \in Arith, l \in Leaves, r \in Leaves}
Edge == {Num(1 - Limit), Num(-1), Num(0), Num(Limit - 1)}
AtEdge == {Bin(op, l, r) : op \in Arith, l \in Edge, r \in Edge}
Nested ==
  {Bin(op, l, r) : op \in Arith, l \in AtEdge, r \in Edge}
    \cup {Bin(op, l, r) : op \in Arith, l \in Edge, r \in AtEdge}
Comparisons == {Bin(op, l, r) : op \in Compare, l \in Literals \cup AtEdge, r \in {Num(-1), Num(2), Name}}
Few ==
  {Bin("lt", Num(0), Num(1)), Bin("eq", Num(0), Num(1)),
   Bin("ge", Bin("div", Num(1), Num(0)), Num(0)), Bin("ne", Bin("add", Num(3), Num(3)), Num(0))}
OnTruths == {Bin(op, l, r) : op \in {"and", "or", "not"}, l \in Few, r \in Few}
Initializers == Leaves \cup Flat \cup Nested \cup Comparisons \cup OnTruths
  \cup {Bin(op, l, r) : op \in {"and", "or", "not"}, l \in OnTruths, r \in Few}
MCExpressions == Initializers \cup Few

Globals == {Program(<<>>, <<Var("v", e)>>) : e \in Initializers}
-----------------------------------------------------------------------------
(* Layouts: arrays of zero to three elements.  No variable or field of a
   program is an i1. Fields that are references (Ptr) are there because the code
   accepts them, although docs/tealang.md:163 does not. *)
First == {<<>>, <<D(1, I32)>>, <<D(1, I32), D(3, Ptr)>>, <<D(1, Ptr), D(3, I32)>>, <<D(3, I32), D(1, I32)>>}
Member == {D(1, I32), D(1, Ptr), D(1, 1), D(3, 1), D(0, 1)}
Structs ==
  {<<StructDef(1, s)>> : s \in First}
    \cup {<<StructDef(1, s), StructDef(2, <<a, b>>)>> : s \in First, a \in Member, b \in Member}
    \cup {<<StructDef(1, s), StructDef(2, <<>>), StructDef(2, <<D(1, I32), D(1, 2)>>)>> : s \in First}
    \cup {<<StructDef(1, s), StructDef(2, <<D(1, 1)>>), StructDef(1, <<D(1, Ptr), D(3, I32)>>)>> : s \in First}
Locals == {<<a, b>> : a \in {D(1, I32), D(1, 1), D(1, 2), D(3, 1)}, b \in {D(3, I32), D(1, Ptr), D(3, 2)}}
Spilled == {<<>>, <<4>>, <<8>>, <<4, 8>>}

Frames ==
  {[uses |-> <<>>, elements |-> es, locals |-> ls, spills |-> ss] : es \in Structs, ls \in Locals, ss \in Spilled}

MCPrograms == Registrations \cup Globals \cup Frames
=============================================================================
