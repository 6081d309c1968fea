---------------------------- MODULE SsaExecution ----------------------------
(* What a function in SSA form means, as far as its phi nodes go: control moves
   along an edge of the flow graph, and the phis of the block that is entered
   take, all at once, the values they list for the block that is left.  A phi
   that lists nothing for it has no defined value. *)
CONSTANTS Var, Val,
          Entry,    \* the block control starts in
          Running   \* the value of `block` while control is in no block yet

VARIABLES
  succ,    \* successor blocks of every block
  phis,    \* phis[b][v]: what v takes on entering b, per block left
  block,   \* where control is
  env      \* the variables

vars == <<succ, phis, block, env>>

Incoming(b, v, from) ==
  IF v \notin DOMAIN phis[b] THEN {env[v]}
  ELSE IF from \notin DOMAIN phis[b][v] THEN Val
  ELSE LET o == phis[b][v][from] IN
       IF o.kind = "Local" THEN {env[o.id]} ELSE {o.id}

Init ==
  /\ block = Running
  /\ env \in [Var -> Val]

Start ==
  /\ block = Running
  /\ block' = Entry
  /\ UNCHANGED <<succ, phis, env>>

Step ==
  /\ block # Running
  /\ \E b \in succ[block] :
       /\ block' = b
       /\ env' \in [Var -> Val]
       /\ \A v \in Var : env'[v] \in Incoming(b, v, block)
  /\ UNCHANGED <<succ, phis>>

Next == Start \/ Step

Spec == Init /\ [][Next]_vars
=============================================================================
