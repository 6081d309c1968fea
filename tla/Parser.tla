------------------------------- MODULE Parser -------------------------------
(* src/parser: the grammar of tealang.pest as data, the recognition of a text
   by ordered choice, and the walk over the pairs that builds the tree.  A text
   is a sequence of words, numbers and single signs; each knows what follows it
   directly: "none", "space" or "comment". *)
EXTENDS Ast, Integers, FiniteSets, TLC

Word(s) == [c |-> "word", s |-> s, n |-> 0, gap |-> "none"]
Literal(n) == [c |-> "number", s |-> "", n |-> n, gap |-> "none"]
Sign(s) == [c |-> "sign", s |-> s, n |-> 0, gap |-> "none"]
EndOfInput == [c |-> "end", s |-> "", n |-> 0, gap |-> "none"]

(* Parsing expressions. *)
R(r) == [e |-> "rule", r |-> r]
Row(es) == [e |-> "row", es |-> es]
Rules(rs) == Row([j \in DOMAIN rs |-> R(rs[j])])
Either(es) == [e |-> "either", es |-> es]
OneOf(rs) == Either([j \in DOMAIN rs |-> R(rs[j])])
Many(x) == [e |-> "many", x |-> x]
Maybe(x) == [e |-> "maybe", x |-> x]
Listing(r) == Row(<<R(r), Many(Rules(<<"comma", r>>))>>)
Chars(cs) == [e |-> "chars", cs |-> cs]
Keyword(s, signs) == [e |-> "keyword", s |-> s, signs |-> signs]  \* signs that may follow instead of a space

(* tealang.pest: signs, words and numbers. *)
LexicalRules ==
  [op_arrow |-> Chars(<<"-", ">">>), op_le |-> Chars(<<"<", "=">>), op_ge |-> Chars(<<">", "=">>),
   op_eq |-> Chars(<<"=", "=">>), op_ne |-> Chars(<<"!", "=">>), op_and |-> Chars(<<"&", "&">>),
   op_or |-> Chars(<<"|", "|">>), op_add |-> Chars(<<"+">>), op_sub |-> Chars(<<"-">>),
   op_mul |-> Chars(<<"*">>), op_div |-> Chars(<<"/">>), op_assign |-> Chars(<<"=">>),
   op_not |-> Chars(<<"!">>), op_lt |-> Chars(<<"<">>), op_gt |-> Chars(<<">">>),
   lparen |-> Chars(<<"(">>), rparen |-> Chars(<<")">>), lbrace |-> Chars(<<"{">>),
   rbrace |-> Chars(<<"}">>), lbracket |-> Chars(<<"[">>), rbracket |-> Chars(<<"]">>),
   comma |-> Chars(<<",">>), semicolon |-> Chars(<<";">>), colon |-> Chars(<<":">>), dot |-> Chars(<<".">>),
   double_colon |-> Chars(<<":", ":">>), ampersand |-> Chars(<<"&">>),
   num |-> [e |-> "num"], identifier |-> [e |-> "identifier"], EOI |-> [e |-> "end"],
   kw_let |-> Keyword("let", {}), kw_fn |-> Keyword("fn", {}), kw_struct |-> Keyword("struct", {}),
   kw_if |-> Keyword("if", {}), kw_else |-> Keyword("else", {"{"}), kw_while |-> Keyword("while", {}),
   kw_break |-> Keyword("break", {";"}), kw_continue |-> Keyword("continue", {";"}),
   kw_return |-> Keyword("return", {";"}), kw_use |-> Keyword("use", {}),
   kw_i32 |-> Keyword("i32", {";", ",", ")", "{", "}", "]", "="})]

(* Types, declarations and definitions. *)
ArrayAnnotation == <<"identifier", "colon", "lbracket", "type_spec", "semicolon", "num", "rbracket">>
ScalarAnnotation == <<"identifier", "colon", "type_spec">>
DeclarationRules ==
  [program |-> Row(<<Many(OneOf(<<"use_stmt", "program_element">>)), R("EOI")>>),
   use_stmt |-> Row(<<R("kw_use"), R("identifier"), Many(Rules(<<"double_colon", "identifier">>)), R("semicolon")>>),
   program_element |-> OneOf(<<"var_decl_stmt", "struct_def", "fn_decl_stmt", "fn_def">>),
   ref_type |-> Rules(<<"ampersand", "lbracket", "type_spec", "rbracket">>),
   type_spec |-> OneOf(<<"ref_type", "kw_i32", "identifier">>),
   struct_def |-> Rules(<<"kw_struct", "identifier", "lbrace", "typed_var_decl_list", "rbrace">>),
   typed_var_decl |-> Either(<<Rules(ArrayAnnotation), Rules(ScalarAnnotation)>>),
   typed_var_decl_list |-> Listing("typed_var_decl"),
   var_decl |-> Either(<<Rules(ArrayAnnotation), Rules(ScalarAnnotation), R("identifier")>>),
   var_decl_stmt |-> Either(<<Rules(<<"kw_let", "var_def", "semicolon">>), Rules(<<"kw_let", "var_decl", "semicolon">>)>>),
   array_initializer |->
     Either(<<Rules(<<"lbracket", "right_val", "semicolon", "num", "rbracket">>),
              Rules(<<"lbracket", "right_val_list", "rbracket">>)>>),
   var_def |->
     Either(<<Rules(ArrayAnnotation \o <<"op_assign", "array_initializer">>),
              Rules(ScalarAnnotation \o <<"op_assign", "right_val">>),
              Rules(<<"identifier", "op_assign", "right_val">>)>>),
   fn_decl_stmt |-> Rules(<<"fn_decl", "semicolon">>),
   fn_decl |->
     LET Signature == <<R("kw_fn"), R("identifier"), R("lparen"), Maybe(R("param_decl")), R("rparen")>>
     IN  Either(<<Row(Signature \o <<R("op_arrow"), R("type_spec")>>), Row(Signature)>>),
   param_decl |-> R("typed_var_decl_list"),
   fn_def |-> Row(<<R("fn_decl"), R("lbrace"), Many(R("code_block_stmt")), R("rbrace")>>)]

StatementRules ==
  LET Body == <<R("lbrace"), Many(R("code_block_stmt")), R("rbrace")>>
      IfThen == <<R("kw_if"), R("bool_expr")>> \o Body
  IN  [code_block_stmt |->
         OneOf(<<"var_decl_stmt", "assignment_stmt", "call_stmt", "if_stmt", "while_stmt",
                 "return_stmt", "continue_stmt", "break_stmt", "null_stmt">>),
       assignment_stmt |-> Rules(<<"left_val", "op_assign", "right_val", "semicolon">>),
       call_stmt |-> Rules(<<"fn_call", "semicolon">>),
       return_stmt |-> Either(<<Rules(<<"kw_return", "right_val", "semicolon">>), Rules(<<"kw_return", "semicolon">>)>>),
       if_stmt |-> Either(<<Row(IfThen \o <<R("kw_else")>> \o Body), Row(IfThen)>>),
       while_stmt |-> Row(<<R("kw_while"), R("bool_expr")>> \o Body),
       break_stmt |-> Rules(<<"kw_break", "semicolon">>),
       continue_stmt |-> Rules(<<"kw_continue", "semicolon">>),
       null_stmt |-> R("semicolon")]

ExpressionRules ==
  LET Arguments == <<R("lparen"), Maybe(R("right_val_list")), R("rparen")>>
      Prefix == Rules(<<"double_colon", "identifier">>)
  IN  [right_val |-> OneOf(<<"bool_expr", "arith_expr">>),
       right_val_list |-> Listing("right_val"),
       bool_expr |-> Row(<<R("bool_and_term"), Many(Rules(<<"op_or", "bool_and_term">>))>>),
       bool_and_term |-> Row(<<R("bool_unit_atom"), Many(Rules(<<"op_and", "bool_unit_atom">>))>>),
       bool_unit_atom |-> Either(<<R("bool_unit_paren"), R("bool_comparison"), Rules(<<"op_not", "bool_unit_atom">>)>>),
       bool_unit_paren |->
         Either(<<Rules(<<"lparen", "bool_expr", "rparen">>),
                  Rules(<<"lparen", "expr_unit", "comp_op", "expr_unit", "rparen">>)>>),
       bool_comparison |-> Rules(<<"expr_unit", "comp_op", "expr_unit">>),
       comp_op |-> OneOf(<<"op_le", "op_ge", "op_eq", "op_ne", "op_lt", "op_gt">>),
       arith_expr |-> Row(<<R("arith_term"), Many(Rules(<<"arith_add_op", "arith_term">>))>>),
       arith_term |-> Row(<<R("expr_unit"), Many(Rules(<<"arith_mul_op", "expr_unit">>))>>),
       arith_add_op |-> OneOf(<<"op_add", "op_sub">>),
       arith_mul_op |-> OneOf(<<"op_mul", "op_div">>),
       expr_unit |->
         Either(<<Rules(<<"lparen", "arith_expr", "rparen">>), R("fn_call"), Rules(<<"ampersand", "identifier">>),
                  Rules(<<"op_sub", "num">>), R("num"), Row(<<R("identifier"), Many(R("expr_suffix"))>>)>>),
       expr_suffix |-> Either(<<Rules(<<"lbracket", "index_expr", "rbracket">>), Rules(<<"dot", "identifier">>)>>),
       index_expr |-> OneOf(<<"num", "identifier">>),
       left_val |-> Row(<<R("identifier"), Many(R("expr_suffix"))>>),
       fn_call |-> OneOf(<<"module_prefixed_call", "local_call">>),
       module_prefixed_call |-> Row(<<R("identifier"), Prefix, Many(Prefix)>> \o Arguments),
       local_call |-> Row(<<R("identifier")>> \o Arguments)]

Grammar == LexicalRules @@ DeclarationRules @@ StatementRules @@ ExpressionRules
-----------------------------------------------------------------------------
(* Recognition: where a match of the expression at i ends, and its pairs. *)
NoMatch == [ok |-> FALSE, at |-> 0, ps |-> <<>>]
Matched(at, ps) == [ok |-> TRUE, at |-> at, ps |-> ps]
OneToken(i, cond) == IF cond THEN Matched(i + 1, <<>>) ELSE NoMatch

AdjacentSigns(text, cs, i) ==
  /\ i + Len(cs) - 1 <= Len(text)
  /\ \A j \in DOMAIN cs :
       /\ text[i + j - 1].c = "sign" /\ text[i + j - 1].s = cs[j]
       /\ j < Len(cs) => text[i + j - 1].gap = "none"
IsKeyword(text, x, i) ==
  /\ text[i].c = "word" /\ text[i].s = x.s
  /\ text[i].gap = "space" \/ (text[i].gap = "none" /\ text[i + 1].s \in x.signs)

RECURSIVE Match(_, _, _), MatchRow(_, _, _), MatchEither(_, _, _), MatchMany(_, _, _)
MatchRow(text, es, i) ==
  IF es = <<>> THEN Matched(i, <<>>)
  ELSE LET first == Match(text, Head(es), i)
       IN  IF ~first.ok THEN NoMatch
           ELSE LET rest == MatchRow(text, Tail(es), first.at)
                IN  IF rest.ok THEN Matched(rest.at, first.ps \o rest.ps) ELSE NoMatch
MatchEither(text, es, i) ==
  IF es = <<>> THEN NoMatch
  ELSE LET first == Match(text, Head(es), i)
       IN  IF first.ok THEN first ELSE MatchEither(text, Tail(es), i)
MatchMany(text, x, i) ==
  LET first == Match(text, x, i)
  IN  IF ~first.ok THEN Matched(i, <<>>)
      ELSE LET rest == MatchMany(text, x, first.at) IN Matched(rest.at, first.ps \o rest.ps)
Match(text, x, i) ==
  CASE x.e = "rule" ->
         LET m == Match(text, Grammar[x.r], i)
         IN  IF m.ok THEN Matched(m.at, <<[r |-> x.r, tok |-> text[i], kids |-> m.ps]>>) ELSE NoMatch
    [] x.e = "row" -> MatchRow(text, x.es, i)
    [] x.e = "either" -> MatchEither(text, x.es, i)
    [] x.e = "many" -> MatchMany(text, x.x, i)
    [] x.e = "maybe" -> MatchEither(text, <<x.x, Row(<<>>)>>, i)
    [] x.e = "chars" -> IF AdjacentSigns(text, x.cs, i) THEN Matched(i + Len(x.cs), <<>>) ELSE NoMatch
    [] x.e = "keyword" -> OneToken(i, IsKeyword(text, x, i))
    [] x.e = "identifier" -> OneToken(i, text[i].c = "word")
    [] x.e = "num" -> OneToken(i, text[i].c = "number")
    [] x.e = "end" -> OneToken(i, text[i].c = "end")

(* TeaLangParser::parse. *)
Parsed(text) == Match(text, R("program"), 1)

RECURSIVE PairsOf(_, _)
PairsOf(ps, r) ==
  UNION {(IF ps[j].r = r THEN {ps[j].tok} ELSE {}) \cup PairsOf(ps[j].kids, r) : j \in DOMAIN ps}
NamesIn(m) == {t.s : t \in PairsOf(m.ps, "identifier")}
-----------------------------------------------------------------------------
(* The walk over the pairs. *)
Kids(p, rs) == SelectSeq(p.kids, LAMBDA c : c.r \in rs)
Kid(p, rs) == Kids(p, rs)[1]
Has(p, r) == Kids(p, {r}) # <<>>
NameOf(p) == Kid(p, {"identifier"}).tok.s
NumberOf(p) == Kid(p, {"num"}).tok.n
OperatorOf(p) ==
  CASE p.kids[1].r = "op_add" -> "+" [] p.kids[1].r = "op_sub" -> "-"
    [] p.kids[1].r = "op_mul" -> "*" [] p.kids[1].r = "op_div" -> "/"
    [] p.kids[1].r = "op_lt" -> "<" [] p.kids[1].r = "op_gt" -> ">" [] p.kids[1].r = "op_le" -> "<="
    [] p.kids[1].r = "op_ge" -> ">=" [] p.kids[1].r = "op_eq" -> "==" [] p.kids[1].r = "op_ne" -> "!="

(* Chains of operators: the last operand, and what is left of it. *)
LastKid(p) == p.kids[Len(p.kids)]
OperatorPair(p) == p.kids[Len(p.kids) - 1]
Shorter(p) == [p EXCEPT !.kids = SubSeq(@, 1, Len(@) - 2)]
Single(p) == Len(p.kids) = 1

ParseIndexExpr(p) == IF Has(p, "num") THEN Num(NumberOf(p)) ELSE Id(NameOf(p))
ParseExprSuffix(base, p) ==
  IF Has(p, "index_expr") THEN Elem(base, ParseIndexExpr(Kid(p, {"index_expr"}))) ELSE Member(base, NameOf(p))
RECURSIVE WithSuffixes(_, _)
WithSuffixes(base, ps) ==
  IF ps = <<>> THEN base ELSE WithSuffixes(ParseExprSuffix(base, Head(ps)), Tail(ps))
ParseLeftVal(p) == WithSuffixes(Id(NameOf(p)), Kids(p, {"expr_suffix"}))

RECURSIVE ParseRightVal(_), ParseBoolExpr(_), ParseBoolAndTerm(_), ParseBoolUnitAtom(_),
  ParseArithExpr(_), ParseArithTerm(_), ParseExprUnit(_)
ParseRightVals(p) ==
  IF ~Has(p, "right_val_list") THEN <<>>
  ELSE LET ps == Kids(Kid(p, {"right_val_list"}), {"right_val"})
       IN  [j \in DOMAIN ps |-> ParseRightVal(ps[j])]
ParseFnCall(p) ==
  LET ids == Kids(p.kids[1], {"identifier"})
      path == [j \in 1 .. Len(ids) - 1 |-> ids[j].tok.s]
  IN  CallFrom(path, ids[Len(ids)].tok.s, ParseRightVals(p.kids[1]))
ParseRightVal(p) ==
  IF Has(p, "bool_expr") THEN BoolE(ParseBoolExpr(p.kids[1])) ELSE ParseArithExpr(p.kids[1])
ParseBoolExpr(p) ==
  IF Single(p) THEN ParseBoolAndTerm(p.kids[1])
  ELSE Or(ParseBoolExpr(Shorter(p)), ParseBoolAndTerm(LastKid(p)))
ParseBoolAndTerm(p) ==
  IF Single(p) THEN ParseBoolUnitAtom(p.kids[1])
  ELSE And(ParseBoolAndTerm(Shorter(p)), ParseBoolUnitAtom(LastKid(p)))
ParseComparison(ps) == Compare(OperatorOf(ps[2]), ParseExprUnit(ps[1]), ParseExprUnit(ps[3]))
ParseBoolUnitAtom(p) ==
  CASE p.kids[1].r = "op_not" -> Not(ParseBoolUnitAtom(p.kids[2]))
    [] p.kids[1].r = "bool_comparison" -> ParseComparison(p.kids[1].kids)
    [] p.kids[1].r = "bool_unit_paren" ->
         IF Has(p.kids[1], "bool_expr") THEN ParseBoolExpr(Kid(p.kids[1], {"bool_expr"}))
         ELSE ParseComparison(Kids(p.kids[1], {"expr_unit", "comp_op"}))
ParseArithExprFromRight(p) ==
  IF Single(p) THEN ParseArithTerm(p.kids[1])
  ELSE Arith(OperatorOf(p.kids[2]), ParseArithTerm(p.kids[1]), ParseArithExpr([p EXCEPT !.kids = SubSeq(@, 3, Len(@))]))
ParseArithExpr(p) ==
  IF Single(p) THEN ParseArithTerm(p.kids[1])
  ELSE Arith(OperatorOf(OperatorPair(p)), ParseArithExpr(Shorter(p)), ParseArithTerm(LastKid(p)))
ParseArithTerm(p) ==
  IF Single(p) THEN ParseExprUnit(p.kids[1])
  ELSE Arith(OperatorOf(OperatorPair(p)), ParseArithTerm(Shorter(p)), ParseExprUnit(LastKid(p)))
ParseExprUnit(p) ==
  CASE p.kids[1].r = "op_sub" -> Num(-NumberOf(p))
    [] p.kids[1].r = "lparen" -> ParseArithExpr(p.kids[2])
    [] p.kids[1].r = "fn_call" -> ParseFnCall(p.kids[1])
    [] p.kids[1].r = "num" -> Num(NumberOf(p))
    [] p.kids[1].r = "ampersand" -> Ref(NameOf(p))
    [] p.kids[1].r = "identifier" -> ParseLeftVal(p)

RECURSIVE ParseTypeSpec(_)
ParseTypeSpec(p) ==
  CASE p.kids[1].r = "ref_type" -> Reference(ParseTypeSpec(Kid(p.kids[1], {"type_spec"})))
    [] p.kids[1].r = "kw_i32" -> IntType
    [] p.kids[1].r = "identifier" -> Composite(p.kids[1].tok.s)
TypeSpecOf(p) == IF Has(p, "type_spec") THEN ParseTypeSpec(Kid(p, {"type_spec"})) ELSE NoType

ParseVarDecl(p) ==
  CASE Has(p, "num") -> DeclArray(NameOf(p), TypeSpecOf(p), NumberOf(p))
    [] Has(p, "type_spec") /\ ~Has(p, "num") -> DeclTyped(NameOf(p), TypeSpecOf(p))
    [] OTHER -> Decl(NameOf(p))
ParseArrayDef(p, q) ==
  IF Has(q, "right_val_list") THEN DefList(NameOf(p), TypeSpecOf(p), NumberOf(p), ParseRightVals(q))
  ELSE DefFill(NameOf(p), TypeSpecOf(p), NumberOf(p), ParseRightVal(Kid(q, {"right_val"})), NumberOf(q))
ParseVarDef(p) ==
  IF Has(p, "array_initializer") THEN ParseArrayDef(p, Kid(p, {"array_initializer"}))
  ELSE LET e == ParseRightVal(Kid(p, {"right_val"}))
       IN  IF Has(p, "colon") THEN DefTyped(NameOf(p), TypeSpecOf(p), e) ELSE Def(NameOf(p), e)
ParseVarDeclStmt(p) ==
  IF Has(p, "var_def") THEN ParseVarDef(Kid(p, {"var_def"})) ELSE ParseVarDecl(Kid(p, {"var_decl"}))

RECURSIVE ParseCodeBlockStmt(_)
ParseBlock(ps) ==
  LET ss == SelectSeq(ps, LAMBDA c : c.r = "code_block_stmt")
  IN  [j \in DOMAIN ss |-> ParseCodeBlockStmt(ss[j])]
ParseIfStmt(p) ==
  LET thenPart == {j \in DOMAIN p.kids : \A l \in 1 .. j : p.kids[l].r # "kw_else"}
      n == Cardinality(thenPart)
  IN  If(ParseBoolExpr(Kid(p, {"bool_expr"})), ParseBlock(SubSeq(p.kids, 1, n)),
         ParseBlock(SubSeq(p.kids, n + 1, Len(p.kids))))
ParseReturnStmt(p) ==
  IF Has(p, "right_val") THEN Return(ParseRightVal(Kid(p, {"right_val"}))) ELSE ReturnVoid
ParseCallStmt(call) == CallFromS(call.path, call.f, call.args)
ParseCodeBlockStmt(p) ==
  LET inner == p.kids[1]
  IN  CASE inner.r = "var_decl_stmt" -> ParseVarDeclStmt(inner)
        [] inner.r = "assignment_stmt" -> Assign(ParseLeftVal(inner.kids[1]), ParseRightVal(Kid(inner, {"right_val"})))
        [] inner.r = "call_stmt" -> ParseCallStmt(ParseFnCall(inner.kids[1]))
        [] inner.r = "if_stmt" -> ParseIfStmt(inner)
        [] inner.r = "while_stmt" -> While(ParseBoolExpr(Kid(inner, {"bool_expr"})), ParseBlock(inner.kids))
        [] inner.r = "return_stmt" -> ParseReturnStmt(inner)
        [] inner.r = "continue_stmt" -> Continue
        [] inner.r = "break_stmt" -> Break
        [] inner.r = "null_stmt" -> NullStmt

ParseDecls(p) ==
  LET ds == Kids(Kid(p, {"typed_var_decl_list"}), {"typed_var_decl"})
  IN  [j \in DOMAIN ds |-> ParseVarDecl(ds[j])]
ParseFnDecl(p) ==
  FnDecl(NameOf(p), IF Has(p, "param_decl") THEN ParseDecls(Kid(p, {"param_decl"})) ELSE <<>>, TypeSpecOf(p))
ParseProgramElement(p) ==
  LET inner == p.kids[1]
  IN  CASE inner.r = "var_decl_stmt" -> ParseVarDeclStmt(inner)
        [] inner.r = "struct_def" -> StructDef(NameOf(inner), ParseDecls(inner))
        [] inner.r = "fn_decl_stmt" -> ParseFnDecl(inner.kids[1])
        [] inner.r = "fn_def" -> FnDef(ParseFnDecl(inner.kids[1]), ParseBlock(inner.kids))
ParseUseStmt(p) == LET ids == Kids(p, {"identifier"}) IN [j \in DOMAIN ids |-> ids[j].tok.s]

(* ParseContext::parse; parse_num refuses a literal that is not an i32. *)
InvalidNumber(m) == \E t \in PairsOf(m.ps, "num") : t.n > MaxLiteral
ParseProgram(m) ==
  LET kids == m.ps[1].kids
      uses == SelectSeq(kids, LAMBDA c : c.r = "use_stmt")
      elements == SelectSeq(kids, LAMBDA c : c.r = "program_element")
  IN  Program([j \in DOMAIN uses |-> ParseUseStmt(uses[j])],
              [j \in DOMAIN elements |-> ParseProgramElement(elements[j])])
-----------------------------------------------------------------------------
(* How a program is written, in one of four styles: "tight", "spaced", "full"
   of comments, parentheses and empty else branches, or "grouped", the only one
   with parentheses around the value a return statement gives. *)
Sg(s) == <<Sign(s)>>
Joined(a, b) == <<[Sign(a) EXCEPT !.gap = "joined"], Sign(b)>>
InParens(ts) == Sg("(") \o ts \o Sg(")")
WrittenSign(op) ==
  CASE op = "<=" -> Joined("<", "=") [] op = ">=" -> Joined(">", "=") [] op = "==" -> Joined("=", "=")
    [] op = "!=" -> Joined("!", "=") [] op = "and" -> Joined("&", "&") [] op = "or" -> Joined("|", "|")
    [] OTHER -> Sg(op)

RECURSIVE Separated(_, _), Concatenated(_)
Separated(tss, sep) ==
  IF Len(tss) <= 1 THEN Concatenated(tss) ELSE Head(tss) \o sep \o Separated(Tail(tss), sep)
Concatenated(tss) == IF tss = <<>> THEN <<>> ELSE Head(tss) \o Concatenated(Tail(tss))
Commas(tss) == Separated(tss, Sg(","))
WrittenPath(xs) == Separated([j \in DOMAIN xs |-> <<Word(xs[j])>>], Joined(":", ":"))

Binary == {"arith", "compare", "and", "or"}
Level(e) ==
  CASE e.k = "or" \/ (e.k = "arith" /\ e.op \in {"+", "-"}) -> 1
    [] e.k = "and" \/ (e.k = "arith" /\ e.op \in {"*", "/"}) -> 2
    [] OTHER -> 3
OperatorSign(e) == WrittenSign(IF e.k \in {"and", "or"} THEN e.k ELSE e.op)

(* level is what the context binds by; 0 where no parentheses may stand. *)
RECURSIVE WrittenExpr(_, _, _)
WrittenArgs(es, style) == InParens(Commas([j \in DOMAIN es |-> WrittenExpr(es[j], 1, style)]))
WrittenCall(call, style) == WrittenPath(QualifiedName(call)) \o WrittenArgs(call.args, style)
WrittenBare(e, style) ==
  CASE e.k = "num" -> IF e.n < 0 THEN Sg("-") \o <<Literal(-e.n)>> ELSE <<Literal(e.n)>>
    [] e.k = "id" -> <<Word(e.x)>>
    [] e.k = "elem" -> WrittenExpr(e.b, 3, style) \o Sg("[") \o WrittenExpr(e.i, 3, style) \o Sg("]")
    [] e.k = "member" -> WrittenExpr(e.b, 3, style) \o Sg(".") \o <<Word(e.m)>>
    [] e.k = "ref" -> Sg("&") \o <<Word(e.x)>>
    [] e.k = "call" -> WrittenCall(e, style)
    [] e.k = "not" -> Sg("!") \o WrittenExpr(e.c, 3, style)
    [] e.k = "compare" -> WrittenExpr(e.l, 3, style) \o OperatorSign(e) \o WrittenExpr(e.r, 3, style)
    [] e.k \in {"arith", "and", "or"} ->
         WrittenExpr(e.l, Level(e), style) \o OperatorSign(e) \o WrittenExpr(e.r, Level(e) + 1, style)
WrittenExpr(e, level, style) ==
  IF e.k = "bool" THEN WrittenExpr(e.c, level, style)
  ELSE IF Level(e) < level \/ (style = "full" /\ level > 0 /\ e.k \in Binary) THEN InParens(WrittenBare(e, style))
  ELSE WrittenBare(e, style)

RECURSIVE WrittenType(_)
WrittenType(t) ==
  CASE t.k = "int" -> <<Word("i32")>>
    [] t.k = "composite" -> <<Word(t.s)>>
    [] t.k = "reference" -> Sg("&") \o Sg("[") \o WrittenType(t.of) \o Sg("]")
WrittenDecl(d) ==
  <<Word(d.x)>>
    \o (CASE d.k \in {"decl", "def"} -> <<>>
          [] d.k \in {"decl_typed", "def_typed"} -> Sg(":") \o WrittenType(d.ty)
          [] d.k \in {"decl_array", "def_list", "def_fill"} ->
               Sg(":") \o Sg("[") \o WrittenType(d.ty) \o Sg(";") \o <<Literal(d.len)>> \o Sg("]"))
DeclarationKinds == {"decl", "decl_typed", "decl_array", "def", "def_typed", "def_list", "def_fill"}
WrittenInit(d, style) ==
  CASE d.k \in {"def", "def_typed"} -> Sg("=") \o WrittenExpr(d.e, 1, style)
    [] d.k = "def_list" ->
         Sg("=") \o Sg("[") \o Commas([j \in DOMAIN d.args |-> WrittenExpr(d.args[j], 1, style)]) \o Sg("]")
    [] d.k = "def_fill" ->
         Sg("=") \o Sg("[") \o WrittenExpr(d.e, 1, style) \o Sg(";") \o <<Literal(d.count)>> \o Sg("]")
    [] OTHER -> <<>>

WrittenReturned(e, style) ==
  IF style = "grouped" THEN InParens(WrittenExpr(e, 1, style)) ELSE WrittenExpr(e, 0, style)

RECURSIVE WrittenStmt(_, _)
WrittenBlock(ss, style) ==
  Sg("{") \o Concatenated([j \in DOMAIN ss |-> WrittenStmt(ss[j], style)]) \o Sg("}")
WrittenStmt(s, style) ==
  CASE s.k \in DeclarationKinds -> <<Word("let")>> \o WrittenDecl(s) \o WrittenInit(s, style) \o Sg(";")
    [] s.k = "assign" -> WrittenExpr(s.lv, 3, style) \o Sg("=") \o WrittenExpr(s.e, 1, style) \o Sg(";")
    [] s.k = "call_stmt" -> WrittenCall(s, style) \o Sg(";")
    [] s.k = "if" ->
         <<Word("if")>> \o WrittenExpr(s.c, 1, style) \o WrittenBlock(s.then, style)
           \o (IF s.else = <<>> /\ style # "full" THEN <<>> ELSE <<Word("else")>> \o WrittenBlock(s.else, style))
    [] s.k = "while" -> <<Word("while")>> \o WrittenExpr(s.c, 1, style) \o WrittenBlock(s.body, style)
    [] s.k = "return" -> <<Word("return")>> \o WrittenReturned(s.e, style) \o Sg(";")
    [] s.k = "return_void" -> <<Word("return"), Sign(";")>>
    [] s.k \in {"break", "continue"} -> <<Word(s.k), Sign(";")>>
    [] s.k = "null" -> Sg(";")

WrittenFnDecl(d) ==
  <<Word("fn"), Word(d.x)>> \o InParens(Commas([j \in DOMAIN d.params |-> WrittenDecl(d.params[j])]))
    \o (IF d.ret = NoType THEN <<>> ELSE Joined("-", ">") \o WrittenType(d.ret))
WrittenElement(d, style) ==
  CASE d.k \in DeclarationKinds -> WrittenStmt(d, style)
    [] d.k = "struct_def" ->
         <<Word("struct"), Word(d.x)>> \o Sg("{")
           \o Commas([j \in DOMAIN d.fields |-> WrittenDecl(d.fields[j])]) \o Sg("}")
    [] d.k = "fn_decl" -> WrittenFnDecl(d) \o Sg(";")
    [] d.k = "fn_def" -> WrittenFnDecl(d.decl) \o WrittenBlock(d.body, style)

SpaceNeeded == {"let", "fn", "struct", "if", "while", "use"}
Keywords == SpaceNeeded \cup {"else", "break", "continue", "return", "i32"}
GapAfter(ts, j, style) ==
  CASE ts[j].gap = "joined" -> "none"
    [] ts[j].gap # "joined" /\ style \in {"tight", "grouped"} ->
         IF \/ ts[j].s \in SpaceNeeded \/ (ts[j].s = "return" /\ ts[j + 1].s # ";")
            \/ (ts[j].c = "word" /\ ts[j + 1].c = "word")
         THEN "space" ELSE "none"
    [] ts[j].gap # "joined" /\ style \in {"spaced", "full"} ->
         IF style = "full" /\ ts[j].s \notin Keywords THEN "comment" ELSE "space"
Written(p, style) ==
  LET ts == Concatenated([j \in DOMAIN p.uses |-> <<Word("use")>> \o WrittenPath(p.uses[j]) \o Sg(";")])
              \o Concatenated([j \in DOMAIN p.elements |-> WrittenElement(p.elements[j], style)])
              \o <<EndOfInput>>
  IN  [j \in DOMAIN ts |-> IF j = Len(ts) THEN ts[j] ELSE [ts[j] EXCEPT !.gap = GapAfter(ts, j, style)]]
=============================================================================
