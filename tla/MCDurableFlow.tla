--------------------------- MODULE MCDurableFlow ----------------------------
(***************************************************************************)
(* Instances of DurableFlow for TLC: chains, branches and joins of three   *)
(* nodes, and a cycle that the audit refuses.                              *)
(***************************************************************************)
EXTENDS DurableFlow

MCKind == (1 :> "tool") @@ (2 :> "agent") @@ (3 :> "tool")

E(a, b, on) == [from |-> a, to |-> b, on |-> on]

MCFlows ==
  {[nodes |-> <<1, 2, 3>>, kind |-> MCKind, edges |-> es, entry |-> 2] :
     es \in {{E(2, 3, "success"), E(3, 1, "always")},
             {E(2, 1, "success"), E(2, 3, "success")},
             {E(2, 1, "true"), E(2, 3, "false")},
             {E(2, 1, "true"), E(2, 3, "always"), E(1, 3, "success")},
             {E(2, 1, "always"), E(1, 3, "always"), E(3, 1, "always")}}}

MCOutcomes == {"true", "false", "failed", "paused"}
MCPausing == {"ok", "paused"}
=============================================================================
