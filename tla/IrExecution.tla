---------------------------- MODULE IrExecution -----------------------------
(* The IR statements that matter to src/opt/mem2reg.rs, and what they do.
   Locals are numbered.  A call stands for every statement that reads an
   operand and defines a local, calls, arithmetic and comparisons; what it
   reads is the program's output.  The condition of a jump is read by one. *)
EXTENDS Integers, Sequences, SequencesExt

Local(i) == [kind |-> "local", id |-> i]
Const(c) == [kind |-> "const", id |-> c]
Operand == [kind : {"local", "const"}, id : Int]

Alloca(dst, dtype) == [op |-> "alloca", dst |-> dst, dtype |-> dtype]
Load(dst, ptr) == [op |-> "load", dst |-> dst, ptr |-> ptr]
Store(src, ptr) == [op |-> "store", src |-> src, ptr |-> ptr]
Gep(dst, base) == [op |-> "gep", dst |-> dst, arg |-> base]
Call(dst, arg) == [op |-> "call", dst |-> dst, arg |-> arg]

(* Stmt::operands: the operands with role Use, and all that are read. *)
UseOperands(s) ==
  CASE s.op \in {"call", "gep"} -> {s.arg}
    [] s.op = "store" -> {s.src}
    [] OTHER -> {}
ReadOperands(s) == UseOperands(s) \cup (IF s.op \in {"load", "store"} THEN {s.ptr} ELSE {})

Defines(s) == IF s.op = "store" THEN {} ELSE {s.dst}

(* Stmt::map_use_operands, f giving the new operand for each one read. *)
MapUses(s, f) ==
  CASE s.op = "load" -> [s EXCEPT !.ptr = f[@]]
    [] s.op = "store" -> [s EXCEPT !.src = f[@], !.ptr = f[@]]
    [] s.op \in {"call", "gep"} -> [s EXCEPT !.arg = f[@]]
    [] OTHER -> s
-----------------------------------------------------------------------------
(* A machine state is a record: env, the locals; mem, the slots, by their
   addresses; calls, how many were made; out, what they read.  Every call
   returns a value of its own, so that values are told apart. *)
Address(i) == -i
Undefined == 7    \* what is in a slot before the first store
Poison == 8       \* a local before its definition
Returned(k) == 10 + k

ValueOf(m, o) == IF o.kind = "const" THEN o.id ELSE m.env[o.id]

Execute(m, s) ==
  CASE s.op = "alloca" -> [m EXCEPT !.env[s.dst] = Address(s.dst)]
    [] s.op = "gep" -> [m EXCEPT !.env[s.dst] = ValueOf(m, s.arg)]
    [] s.op = "load" ->
         LET a == ValueOf(m, s.ptr)
         IN  [m EXCEPT !.env[s.dst] = IF a \in DOMAIN m.mem THEN m.mem[a] ELSE Poison]
    [] s.op = "store" ->
         LET a == ValueOf(m, s.ptr)
         IN  [m EXCEPT !.mem = [x \in DOMAIN @ |-> IF x = a THEN ValueOf(m, s.src) ELSE @[x]]]
    [] s.op = "call" ->
         [m EXCEPT !.env[s.dst] = Returned(m.calls),
                   !.calls = @ + 1,
                   !.out = Append(@, ValueOf(m, s.arg))]

ExecuteAll(m, stmts) ==
  LET after[k \in 0 .. Len(stmts)] ==
        IF k = 0 THEN [m EXCEPT !.out = <<>>] ELSE Execute(after[k - 1], stmts[k])
  IN  after[Len(stmts)]
=============================================================================
