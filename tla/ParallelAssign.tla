--------------------------- MODULE ParallelAssign ---------------------------
(* What the phi nodes at the head of a block mean: on entry through one edge
   all of them read their incoming values and then all are written, in one
   step.  Registers that are no destination keep their value. *)
VARIABLES copies,   \* the bundle: a sequence of [dst |-> ..., src |-> ...]
          env,      \* the register file
          assigned  \* has control passed the edge?

Value(e, operand) == IF operand.kind = "Local" THEN e[operand.id] ELSE operand.id

Assigned(e, bundle) ==
  [r \in DOMAIN e |->
     IF \E k \in DOMAIN bundle : bundle[k].dst.id = r
     THEN Value(e, bundle[CHOOSE k \in DOMAIN bundle : bundle[k].dst.id = r].src)
     ELSE e[r]]

Init == assigned = FALSE

Assign ==
  /\ ~assigned
  /\ assigned' = TRUE
  /\ env' = Assigned(env, copies)
  /\ UNCHANGED copies

Spec == Init /\ [][Assign]_<<copies, env, assigned>>
=============================================================================
