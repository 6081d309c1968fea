--------------------------- MODULE MCPhiLowering ----------------------------
(* All flow graphs of three blocks whose targets are not the entry, with every
   terminator (both labels of a conditional jump may be equal); for each of the
   two other blocks one of five phi lists: none, a constant that tells where
   control came from, the same with one self copy, a swap, and a phi that lists
   nothing for one predecessor.  The labels are neither contiguous nor
   ascending.

   Besides, on one edge every bundle of up to NumVars copies among as many
   registers and a constant: four give two disjoint swaps, three-cycles with a
   reader outside, chains.  Destinations ascend: only whether two registers are
   the same is ever asked, so that other orders are these with the registers
   renamed.  Register r starts with the value r, so that a value tells where it
   came from. *)
EXTENDS PhiLowering

MCReg == 0 .. MaxReg
MCVal == 0 .. MaxReg + 1
MCEnv == [r \in MCReg |-> r]
MCLabel == <<5, 2>>
MCLabels == [b \in Block |-> IF b = 0 THEN EntryLabel ELSE MCLabel[b]]

MCReturn == [kind |-> "return", targets |-> <<>>]
MCJump(b) == [kind |-> "jump", targets |-> <<MCLabel[b]>>]
MCTerminators ==
  {MCReturn, [kind |-> "fall", targets |-> <<>>]} \cup {MCJump(b) : b \in 1 .. N - 1}
    \cup {[kind |-> "cjump", targets |-> <<MCLabel[i], MCLabel[j]>>] :
            i \in 1 .. N - 1, j \in 1 .. N - 1}

MCPhi(v, f) == [dst |-> Local(v), incomings |-> f]
AllLabels == {MCLabels[b] : b \in Block}
MCWhere == [l \in AllLabels |-> Const(IF l = 0 THEN 1 ELSE IF l = 2 THEN 2 ELSE 3)]

MCPhiLists ==
  {<<>>,
   <<MCPhi(0, MCWhere)>>,
   <<MCPhi(0, [MCWhere EXCEPT ![5] = Local(0)])>>,
   <<MCPhi(0, [l \in AllLabels |-> Local(1)]), MCPhi(1, [l \in AllLabels |-> Local(0)])>>,
   <<MCPhi(1, [l \in AllLabels \ {2} |-> Local(0)])>>}

MCFunction(t, p, q) ==
  [label |-> MCLabels, term |-> t, env |-> MCEnv,
   phis |-> [b \in Block |-> IF b = 0 THEN <<>> ELSE IF b = 1 THEN p ELSE q]]

MCGraphs ==
  {MCFunction(t, p, q) :
     t \in {f \in [Block -> MCTerminators] : f[N - 1].kind # "fall"},
     p \in MCPhiLists, q \in MCPhiLists}

MCSources == {Local(v) : v \in 0 .. NumVars - 1} \cup {Const(MaxReg + 1)}
MCBundles ==
  UNION {{[k \in 1 .. len |-> [dst |-> Local(k - 1), src |-> s[k]]] : s \in [1 .. len -> MCSources]} :
           len \in 1 .. NumVars}

MCEdge == [b \in Block |-> IF b = 0 THEN MCJump(1) ELSE MCReturn]
MCIncoming(bundle) ==
  [k \in DOMAIN bundle |-> MCPhi(bundle[k].dst.id, [l \in {EntryLabel} |-> bundle[k].src])]

MCFunctions == MCGraphs \cup {MCFunction(MCEdge, MCIncoming(b), <<>>) : b \in MCBundles}
MCInputs ==
  {[copies |-> b, env |-> MCEnv, next_vreg |-> NumVars] :
     b \in {c \in MCBundles : NoSelfCopy(c)}}
=============================================================================
