--------------------------- MODULE MCAgentRounds ---------------------------
(* Instance, for TLC, of a blackboard that ends by consensus. *)
EXTENDS AgentRounds, TLC

ConsensusNode(first) ==
  [kind |-> "blackboard", ends |-> "consensus", n |-> 2, board |-> first,
   volunteer |-> FALSE, cost |-> Silent, steps |-> Silent,
   replies |-> [says : {Silent, 1, 2}, done : {FALSE}, cost : {0}]]
MCRoundNodes == {ConsensusNode(first) : first \in {Silent, 1}}

Spec == RoundsInit /\ [][RoundsNext]_roundsVars
=============================================================================
