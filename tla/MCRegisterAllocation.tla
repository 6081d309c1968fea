------------------------ MODULE MCRegisterAllocation ------------------------
(* Streams of three instructions over two vregs, with any uses and at most one
   definition each, along a line, a loop and a forward branch, with every
   proper partial colouring in two registers.  A value is a number modulo five
   that depends on the instruction and on what it read. *)
EXTENDS RegisterAllocation, FiniteSets, FiniteSetsExt, SequencesExt

CONSTANT V   \* number of vregs

MCVreg == 0 .. V - 1
MCVal == 0 .. 4
MCOp(i, f) == (2 * i + 1 + SumSet({f[v] : v \in DOMAIN f})) % 5

MCSuccs ==
  {[i \in Node |-> IF i + 1 < N THEN {i + 1} ELSE {}],
   [i \in Node |-> IF i + 1 < N THEN {i + 1} ELSE {0}],
   [i \in Node |-> IF i = 0 THEN {1, 2} ELSE IF i + 1 < N THEN {i + 1} ELSE {}]}

MCUses == [Node -> SUBSET Vreg]
MCDef == [Node -> Vreg \cup {NoVreg}]

(* The least solution of the equations, by iterating from the bottom: a fact
   moves at least one instruction per round. *)
MCRounds(s, u, d) ==
  LET f[k \in 0 .. N] ==
        IF k = 0 THEN [i \in Node |-> {}]
        ELSE [i \in Node |-> u[i] \cup ((UNION {f[k - 1][j] : j \in s[i]}) \ {d[i]})]
  IN f[N]

MCUncolored == -1

MCStream(s, u, d, c) ==
  LET in == MCRounds(s, u, d)
      out == [i \in Node |-> UNION {in[j] : j \in s[i]}]
      colored == {v \in Present(u, d) : c[v] # MCUncolored}
  IN [succs |-> s, uses |-> u, def |-> d, live_in |-> in, live_out |-> out,
      coloring |-> [v \in colored |-> c[v]],
      spilled |-> SetToSortSeq(Present(u, d) \ colored, <),
      regs |-> [r \in Palette |-> r + 1]]

MCInputs ==
  {x \in {MCStream(s, u, d, c) :
            s \in MCSuccs, u \in MCUses, d \in MCDef,
            c \in [Vreg -> Palette \cup {MCUncolored}]} : Colors(x)}
=============================================================================
