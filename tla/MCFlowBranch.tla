---------------------------- MODULE MCFlowBranch ----------------------------
(***************************************************************************)
(* Instances of FlowBranch for TLC: branching, joining and chained flows   *)
(* of three nodes whose edges match ok and skipped outcomes or every one.  *)
(***************************************************************************)
EXTENDS FlowBranch

MCKind == (1 :> "condition") @@ (2 :> "agent") @@ (3 :> "tool")

E(a, b, on) == [from |-> a, to |-> b, on |-> on]

MCBranchFlows ==
  {[nodes |-> <<1, 2, 3>>, kind |-> MCKind, edges |-> es, entry |-> 2] :
     es \in {{E(2, 1, "success"), E(2, 3, "success")},
             {E(2, 1, "true"), E(2, 3, "false")},
             {E(2, 3, "success"), E(3, 1, "true")},
             {E(2, 1, "true"), E(2, 3, "always"), E(1, 3, "success")}}}

MCBranchCalls == {[mode |-> "real", hosted |-> NodeKinds, gated |-> FALSE, debugged |-> FALSE]}
=============================================================================
