--------------------------- MODULE MCCallSequence ---------------------------
(* Calls with up to MaxArgs arguments, two argument registers and four
   allocatable registers.  An argument is a register, a spilled value, an
   address or a constant; parameters are in registers or spilled.  And every
   mix of up to MaxMixed integer and floating-point arguments. *)
EXTENDS CallSequence

CONSTANTS MaxArgs, MaxMixed

MCTop == 256
MCBands == <<<<11>>, <<9, 10>>, <<8>>>>
Ints(n) == [k \in 1 .. n |-> "int"]
MCArgLists == UNION {[1 .. n -> Class] : n \in 0 .. MaxMixed}

MCArg == {InReg(8), InReg(11), InFrame(-8), AddressOf(-16), Constant(7)}
MCResult == {InReg(9), InFrame(-16)}

(* The k-th parameter: in a register of its own, or spilled. *)
MCParams(n) ==
  {[k \in 1 .. n |-> IF k \in S THEN InReg(7 + k) ELSE InFrame(-8 * k)] :
     S \in SUBSET (1 .. n)}

(* With every argument register and every band in use, three kinds do. *)
MCArgKinds(n) == IF n = MaxArgs THEN {InReg(8), InFrame(-8), AddressOf(-16)} ELSE MCArg

MCMixed ==
  {[classes |-> c, args |-> [k \in DOMAIN c |-> Constant(7)],
    params |-> [k \in DOMAIN c |-> InFrame(-8 * k)], result |-> InReg(9),
    frame |-> 32, callee_frame |-> 64] : c \in {d \in MCArgLists : "float" \in ToSet(d)}}

MCCalls ==
  MCMixed \cup
  UNION {{[classes |-> Ints(n), args |-> a, params |-> p, result |-> r,
           frame |-> 32, callee_frame |-> 32] :
            a \in [1 .. n -> MCArgKinds(n)], p \in MCParams(n), r \in MCResult} : n \in 0 .. MaxArgs}
=============================================================================
