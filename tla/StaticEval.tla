----------------------------- MODULE StaticEval -----------------------------
(* ir::gen::static_eval: the value of a global's initializer, computed by the
   compiler with checked i32 arithmetic.  Words are narrowed to -Limit .. Limit
   - 1. *)
EXTENDS Integers

CONSTANTS
  Limit,        \* 2^31 in the code
  Expressions   \* those a program may hold, with all their parts

ASSUME LimitAssumption == Limit \in Nat \ {0}

(* Expressions: a literal, a name, or an operator on two expressions (the
   second one of "not" is not looked at). *)
Num(n) == [op |-> "num", n |-> n]
Name == [op |-> "name"]
Bin(op, l, r) == [op |-> op, l |-> l, r |-> r]

Arith == {"add", "sub", "mul", "div"}
Compare == {"lt", "gt", "le", "ge", "eq", "ne"}
Logic == {"and", "or"}

Word == -Limit .. Limit - 1

Numeric == Arith \cup {"num", "name"}
Boolean == Compare \cup Logic \cup {"not"}

(* How deep an expression is. *)
Deeper(m, n) == 1 + (IF m < n THEN n ELSE m)
Depth[e \in Expressions] ==
  CASE e.op \in {"num", "name"} -> 0
    [] e.op = "not" -> 1 + Depth[e.l]
    [] OTHER -> Deeper(Depth[e.l], Depth[e.r])

(* Expressions are finite, have their parts among them, and have operands of
   the kind the grammar asks for. *)
ASSUME ExpressionsAssumption ==
  /\ Depth \in [Expressions -> Nat]
  /\ \A e \in Expressions :
       /\ e.op \in Numeric \cup Boolean
       /\ e.op = "num" => e.n \in Word
       /\ e.op \notin {"num", "name"} =>
            /\ e.l \in Expressions /\ Depth[e.l] < Depth[e]
            /\ e.l.op \in IF e.op \in Arith \cup Compare THEN Numeric ELSE Boolean
       /\ e.op \notin {"num", "name", "not"} =>
            /\ e.r \in Expressions /\ Depth[e.r] < Depth[e]
            /\ e.r.op \in IF e.op \in Arith \cup Compare THEN Numeric ELSE Boolean

Magnitude(x) == IF x < 0 THEN -x ELSE x
Truncated(l, r) ==
  LET q == Magnitude(l) \div Magnitude(r) IN IF (l < 0) = (r < 0) THEN q ELSE -q

Ok(v) == [v |-> v, error |-> "none"]
Err(e) == [v |-> 0, error |-> e]
-----------------------------------------------------------------------------
(* checked_add and its like: the result, or an error. *)
Checked(x, e) == IF x \in Word THEN Ok(x) ELSE Err(e)

ArithBiop(op, l, r) ==
  CASE op = "add" -> Checked(l + r, "IntegerOverflow")
    [] op = "sub" -> Checked(l - r, "IntegerOverflow")
    [] op = "mul" -> Checked(l * r, "IntegerOverflow")
    [] op = "div" -> IF r = 0 THEN Err("DivisionByZero") ELSE Checked(Truncated(l, r), "DivisionByZero")

ComOpStrict(op, l, r) ==
  CASE op \in {"lt", "le"} -> l < r [] op \in {"gt", "ge"} -> l > r
    [] op = "eq" -> l = r           [] op = "ne" -> l # r
ComOp(op, l, r) ==
  CASE op = "lt" -> l < r  [] op = "gt" -> l > r
    [] op = "le" -> l <= r [] op = "ge" -> l >= r
    [] op = "eq" -> l = r  [] op = "ne" -> l # r
BoolBiop(op, l, r) == (op = "and" /\ l # 0 /\ r # 0) \/ (op = "or" /\ (l # 0 \/ r # 0))
Bit(b) == IF b THEN 1 ELSE 0

(* Both operands are evaluated, left first; the first error is the result. *)
Negated(c) == IF c.error # "none" THEN c ELSE Ok(Bit(c.v = 0))
Combined(op, l, r) ==
  IF l.error # "none" THEN l
  ELSE IF r.error # "none" THEN r
  ELSE IF op \in Arith THEN ArithBiop(op, l.v, r.v)
  ELSE Ok(Bit(IF op \in Logic THEN BoolBiop(op, l.v, r.v) ELSE ComOp(op, l.v, r.v)))

Static[e \in Expressions] ==
  IF e.op = "num" THEN Ok(e.n)
  ELSE IF e.op = "name" THEN Err("InvalidExprUnit")
  ELSE IF e.op = "not" THEN Negated(Static[e.l])
  ELSE Combined(e.op, Static[e.l], Static[e.r])

-----------------------------------------------------------------------------
(* What the code generated for the same expression computes: machine arithmetic
   wraps, sdiv by zero is 0, and && and || skip their right operand. *)
Wrap(x) == ((x + Limit) % (2 * Limit)) - Limit
Run(op, l, r) ==
  CASE op = "and" -> IF l = 0 THEN 0 ELSE r
    [] op = "or" -> IF l = 1 THEN 1 ELSE r
    [] op = "add" -> Wrap(l + r)
    [] op = "sub" -> Wrap(l - r)
    [] op = "mul" -> Wrap(l * r)
    [] op = "div" -> IF r = 0 THEN 0 ELSE Wrap(Truncated(l, r))
    [] op = "lt" -> Bit(l < r)
    [] op = "gt" -> Bit(r < l)
    [] op = "le" -> Bit(~(r < l))
    [] op = "ge" -> Bit(~(l < r))
    [] op = "eq" -> Bit(l = r)
    [] op = "ne" -> Bit(l # r)

Executed[e \in Expressions] ==
  IF e.op = "num" THEN e.n
  ELSE IF e.op = "name" THEN 0
  ELSE IF e.op = "not" THEN 1 - Executed[e.l]
  ELSE Run(e.op, Executed[e.l], Executed[e.r])

Subterms[e \in Expressions] ==
  {e} \cup IF e.op \in {"num", "name"} THEN {}
           ELSE IF e.op = "not" THEN Subterms[e.l]
           ELSE Subterms[e.l] \cup Subterms[e.r]
DividesByZero(e) == e.op = "div" /\ Executed[e.r] = 0
Overflows(e) ==
  \/ e.op = "add" /\ Executed[e.l] + Executed[e.r] \notin Word
  \/ e.op = "sub" /\ Executed[e.l] - Executed[e.r] \notin Word
  \/ e.op = "mul" /\ Executed[e.l] * Executed[e.r] \notin Word
  \/ e.op = "div" /\ Executed[e.r] # 0 /\ Truncated(Executed[e.l], Executed[e.r]) \notin Word

(* No operation in it, also where execution would skip it, is without an i32
   result, and it names nothing. *)
Evaluable(expr) ==
  \A e \in Subterms[expr] : e.op # "name" /\ ~DividesByZero(e) /\ ~Overflows(e)
=============================================================================
