---------------------------- MODULE AgentRounds -----------------------------
(***************************************************************************)
(* The multi-agent handlers that ask one agent after the other: debate and *)
(* blackboard of os-flow.  A reply is what the handler reads of an agent's *)
(* output: the value it writes under "consensus" (or argues for, in a      *)
(* debate), whether it says done, and its cost, which stands for tokens    *)
(* and dollars alike.  The other contents of the scratchpad, and whom the  *)
(* priorities put first, change nothing of the control.                    *)
(***************************************************************************)
EXTENDS Naturals, Sequences, FiniteSetsExt

CONSTANTS
  Circle,      \* the number of agents of a blackboard
  RoundNodes,  \* the nodes, each with what its agents may reply: [says, done, cost]
  MaxRounds,   \* the code's limit of 1000 rounds
  Silent       \* nothing written, no value, no limit

\* what the schema lets a node be
IsRoundNode(t) ==
  /\ \/ /\ t.kind = "debate"
        /\ t.ends \in {"judge-decides", "on-agreement"} /\ t.volunteer = FALSE
     \/ /\ t.kind = "blackboard"
        /\ t.ends \in {"rounds", "consensus", "agent-signal", "budget"} /\ t.volunteer \in BOOLEAN
  /\ t.n \in 1 .. MaxRounds
  /\ t.cost \in Nat \cup {Silent} /\ t.steps \in Nat \cup {Silent}
  /\ \A reply \in t.replies : reply.done \in BOOLEAN /\ reply.cost \in Nat

ASSUME RoundsAssumption ==
  /\ Circle \in Nat \ {0} /\ MaxRounds \in Nat \ {0} /\ Silent \notin Nat
  /\ \A t \in RoundNodes : IsRoundNode(t)

VARIABLES
  topic,      \* the node, and what a shared scratchpad holds at first
  roundsPc,   \* "turn", "judge", "returned", "rejected"
  round,      \* the round, from 0
  step,       \* the step in the round, from 0
  board,      \* the value under "consensus" in the scratchpad
  agreed,     \* consensusValue of the round
  allDone,    \* whether all agents of the round so far said done
  spent,      \* totalUsd
  log         \* totalSteps and the transcript: all replies, in order

roundsVars == <<topic, roundsPc, round, step, board, agreed, allDone, spent, log>>

RoundsInit ==
  /\ topic \in RoundNodes
  /\ roundsPc = "turn"
  /\ round = 0
  /\ step = 0
  /\ board = topic.board
  /\ agreed = Silent
  /\ allDone = TRUE
  /\ spent = 0
  /\ log = <<>>

-----------------------------------------------------------------------------
(* debate: proponent and opponent in turn, then the judge *)

Turns == IF topic.kind = "debate" THEN 2 ELSE Circle
rounds == IF topic.ends \in {"rounds", "judge-decides", "on-agreement"} THEN topic.n
          ELSE MaxRounds

\* earlyExit: the last statements of both sides are the same
Agreement ==
  topic.ends = "on-agreement" /\ log'[Len(log)].says = log'[Len(log')].says

Debate ==
  /\ topic.kind = "debate"
  /\ step' = (step + 1) % 2
  /\ round' = IF step' = 0 THEN round + 1 ELSE round
  /\ roundsPc' = IF step' = 0 /\ (round' = rounds \/ Agreement) THEN "judge" ELSE "turn"
  /\ UNCHANGED <<board, agreed, allDone, spent>>

JudgeReplies ==
  /\ roundsPc = "judge"
  /\ roundsPc' \in {"returned", "rejected"}
  /\ UNCHANGED <<topic, round, step, board, agreed, allDone, spent, log>>

-----------------------------------------------------------------------------
(* blackboard *)

\* c is what the scratchpad holds, by whomever and whenever it was written
updateConsensusValue(c) ==
  IF c = Silent \/ agreed = c THEN agreed
  ELSE IF agreed = Silent THEN c ELSE Silent

\* Mutant of shouldStopForBudget: the run ends when a limit is exceeded.
shouldStopOverBudget(cost, steps) ==
  \/ topic.cost # Silent /\ cost > topic.cost
  \/ topic.steps # Silent /\ steps > topic.steps

shouldStopForBudget(cost, steps) ==
  \/ topic.cost # Silent /\ cost >= topic.cost
  \/ topic.steps # Silent /\ steps >= topic.steps

\* applyTerminationStep: the reply ends the run at once
StepEnds(reply) ==
  \/ topic.ends = "agent-signal" /\ reply.done
  \/ topic.ends = "budget" /\ shouldStopForBudget(spent + reply.cost, Len(log) + 1)

\* Only the round's last step asks shouldStopAfterRound; agreed and allDone are
\* variables of the round.
Blackboard(reply) ==
  LET said == IF topic.ends = "consensus" THEN updateConsensusValue(board') ELSE agreed
      all  == allDone /\ reply.done
      last == step + 1 = Turns
      over == \/ StepEnds(reply)
              \/ last /\ topic.ends = "consensus" /\ said # Silent
              \/ last /\ topic.volunteer /\ all
              \/ last /\ round + 1 = rounds
  IN /\ topic.kind = "blackboard"
     /\ board' = IF reply.says = Silent THEN board ELSE reply.says
     /\ spent' = spent + reply.cost
     /\ step' = (step + 1) % Turns
     /\ round' = IF last THEN round + 1 ELSE round
     /\ agreed' = IF last THEN Silent ELSE said
     /\ allDone' = (last \/ all)
     /\ roundsPc' = IF over THEN "returned" ELSE "turn"

\* the agent whose turn it is replies, or rejects and the handler with it
AgentReplies ==
  /\ roundsPc = "turn"
  /\ \E reply \in topic.replies :
       /\ log' = Append(log, reply)
       /\ Debate \/ Blackboard(reply)
  /\ UNCHANGED topic

AgentRejects ==
  /\ roundsPc = "turn"
  /\ roundsPc' = "rejected"
  /\ UNCHANGED <<topic, round, step, board, agreed, allDone, spent, log>>

RoundsNext == AgentReplies \/ AgentRejects \/ JudgeReplies

RoundsSpec == RoundsInit /\ [][RoundsNext]_roundsVars

-----------------------------------------------------------------------------
RoundsTypeOK ==
  /\ topic \in RoundNodes
  /\ roundsPc \in {"turn", "judge", "returned", "rejected"}
  /\ round \in 0 .. MaxRounds
  /\ step \in 0 .. Circle
  /\ allDone \in BOOLEAN
  /\ spent \in Nat
  /\ log \in Seq(topic.replies)

\* the value in the scratchpad after k replies: the one that was written last
BoardAfter(k) ==
  LET writes == {i \in 1 .. k : log[i].says # Silent}
  IN IF writes = {} THEN topic.board ELSE log[Max(writes)].says

\* what the first replies cost, by their number
CostsOf(replies) ==
  LET total[k \in 0 .. Len(replies)] == IF k = 0 THEN 0 ELSE total[k - 1] + replies[k].cost
  IN total

RoundComplete(k) == k > 0 /\ k % Turns = 0
RoundOf(k) == k - Turns + 1 .. k  \* the replies of the round that ends with reply k

\* what the node's termination says of the first k replies: they may, or must, be all
MayBeOver(k) ==
  \/ k = rounds * Turns
  \/ topic.ends = "agent-signal" /\ log[k].done
  \/ topic.ends = "budget" /\ \/ topic.cost # Silent /\ CostsOf(log)[k] >= topic.cost
                              \/ topic.steps # Silent /\ k >= topic.steps
  \/ topic.ends = "consensus" /\ RoundComplete(k) /\ BoardAfter(k) # Silent
  \/ topic.ends = "on-agreement" /\ RoundComplete(k) /\ log[k].says = log[k - 1].says
  \/ topic.volunteer /\ RoundComplete(k) /\ \A i \in RoundOf(k) : log[i].done

MustBeOver(k) ==
  /\ MayBeOver(k)
  /\ topic.ends = "consensus" /\ k # rounds * Turns =>
       \A i \in RoundOf(k) : BoardAfter(i) = BoardAfter(k)

\* No agent is asked once the run must be over, and no judge asked or result returned
\* before it may be: rounds, budgets, signals, agreements and volunteers who are all
\* done, recomputed from everything that was ever replied.
EndsInTime ==
  /\ roundsPc = "turn" => \A k \in DOMAIN log : ~MustBeOver(k)
  /\ roundsPc \in {"judge", "returned"} => MayBeOver(Len(log))

\* What the test of the repository says of consensus: the run stops when all agents
\* write the same value.  Of a round that ends a run so, no two agents wrote different
\* values.
ConsensusIsShared ==
  roundsPc = "returned" /\ topic.ends = "consensus" /\ Len(log) < rounds * Turns =>
    \A i, j \in RoundOf(Len(log)) :
      log[i].says # Silent /\ log[j].says # Silent => log[i].says = log[j].says
=============================================================================
