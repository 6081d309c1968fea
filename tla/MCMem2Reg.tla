----------------------------- MODULE MCMem2Reg ------------------------------
(* Two variables, 1 and 2, in functions of five blocks: a branch with and
   without else, a loop, a loop with continue or break, nested loops and a
   return in front of unreachable code.  Every block reads or writes the
   variables in one of several ways. The entry may have a third, for a pointer or
   for an i32: then two variables with one definition are over the limit, and
   are left in memory beside a promoted one.

   And, for the dominators, every flow graph of four blocks, irreducible ones
   and unreachable blocks included, with at most two successors, in either
   order.  Nothing jumps to the entry: the code generated for a function body
   starts with a block of its own. *)
EXTENDS Mem2Reg

X == Local(1)
Y == Local(2)
T(b, k) == 4 * b + 2 + k   \* the k-th temporary of block b

MCShapes ==
  {<<<<1, 2>>, <<3>>, <<3>>, <<4>>, <<>>>>,      \* if, else
   <<<<1, 2>>, <<2>>, <<4>>, <<4>>, <<>>>>,      \* if; dead block 3 before 4
   <<<<1>>, <<2, 4>>, <<3, 1>>, <<1>>, <<>>>>,   \* while, continue in it
   <<<<1>>, <<2, 4>>, <<3, 4>>, <<1>>, <<>>>>,   \* while, break in it
   <<<<1>>, <<2, 4>>, <<3, 1>>, <<2>>, <<>>>>,   \* nested while
   <<<<1, 2>>, <<>>, <<4>>, <<4>>, <<>>>>,       \* early return; dead block 3
   <<<<1>>, <<2, 4>>, <<3>>, <<1>>, <<>>>>}      \* while, two blocks in it

MCEntry ==
  {<<>>,
   <<Call(3, Const(0)), Store(Local(3), X)>>}
  \cup
  {<<Call(3, Const(0)), Store(Local(3), X), Store(Const(5), Y), Load(4, X),
     Alloca(5, t), Call(6, Const(0)), Store(Local(6), Local(5))>> : t \in {"ptr", "i32"}}

Bodies(b) ==
  {<<>>,
   <<Call(T(b, 1), Const(0)), Store(Local(T(b, 1)), X)>>,
   <<Load(T(b, 1), X), Call(T(b, 2), Local(T(b, 1))), Store(Local(T(b, 2)), X)>>,
   <<Load(T(b, 1), X), Load(T(b, 2), Y), Store(Local(T(b, 1)), Y), Store(Local(T(b, 2)), X)>>}

(* The address of 1 is taken by an index into it, in block 1. *)
Indexed == <<Gep(T(1, 1), X), Store(Const(6), Local(T(1, 1)))>>

(* The last block outputs both, and what the entry loaded and kept in a slot
   for a pointer, if it did. *)
Output(entry) ==
  <<Load(T(4, 1), X), Call(T(4, 2), Local(T(4, 1))), Load(T(4, 3), Y), Call(T(4, 4), Local(T(4, 3)))>>
    \o (IF Len(entry) = 7
        THEN <<Call(T(4, 5), Local(4)), Load(T(4, 6), Local(5)), Call(T(4, 7), Local(T(4, 6)))>>
        ELSE <<>>)

MCBlocks ==
  {<<<<Alloca(1, "i32"), Alloca(2, "i32")>> \o e, b1, b2, b3, Output(e)>> :
     e \in MCEntry, b1 \in Bodies(1) \cup {Indexed}, b2 \in Bodies(2), b3 \in Bodies(3)}

FromZero(s) == [b \in Block |-> s[b + 1]]

Targets == {<<>>} \cup {<<a>> : a \in 1 .. 3} \cup {p \in (1 .. 3) \X (1 .. 3) : p[1] # p[2]}
MCFlows == {Append(s, <<>>) : s \in Targets \X Targets \X Targets \X Targets}

MCFunctions ==
  {[succs |-> FromZero(s), blocks |-> FromZero(c), next_vreg |-> T(4, 8)] :
     s \in MCShapes, c \in MCBlocks}
    \cup {[succs |-> FromZero(s), blocks |-> [b \in Block |-> <<>>], next_vreg |-> 1] :
             s \in MCFlows}
=============================================================================
