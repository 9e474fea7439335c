----------------------------- MODULE AgentPanel -----------------------------
(***************************************************************************)
(* The multi-agent handlers that ask all their agents at once: compare,    *)
(* vote and auction of os-flow.  Each waits until every agent has answered *)
(* or rejected, in whatever order, and then decides from the answers in    *)
(* the order of the node's list.  An auction with a timeout gives up on    *)
(* the bidders that have not answered; they go on running all the same.    *)
(* An agent's output is compared by its JSON text and read as a number by  *)
(* auctions; NoFigure is an output, a cost or a latency that is undefined. *)
(* The custom scorer and the limit on tokens work like the confidence and  *)
(* the limit on cost.                                                      *)
(***************************************************************************)
EXTENDS Integers, FiniteSets, FiniteSetsExt, SequencesExt

CONSTANTS
  Panel,         \* the agents of a node: 1 .. n, in the order of its list
  PanelNodes,    \* the nodes
  AgentResults,  \* what an agent may answer: [output, usd, latency]
  NoFigure       \* undefined

\* what the schema lets a node be
IsPanelNode(n) ==
  \/ /\ n.kind = "compare"
     /\ n.selection \in {"manual", "all", "fastest", "cheapest", "eval", "judge"}
  \/ /\ n.kind = "vote"
     /\ n.ballot \in {"majority", "weighted", "unanimous", "quorum"}
     /\ \A a \in DOMAIN n.weights : n.weights[a] \in Nat
     /\ n.percent \in 0 .. 100
  \/ /\ n.kind = "auction"
     /\ n.criteria \in {"lowest-cost", "fastest", "highest-confidence"}
     /\ n.reserve \in Nat \cup {NoFigure}

ASSUME PanelAssumption ==
  /\ IsFiniteSet(Panel) /\ Panel = 1 .. Cardinality(Panel)
  /\ \A n \in PanelNodes : IsPanelNode(n)
  /\ NoFigure \notin Int
  /\ \A r \in AgentResults :
       /\ r.output \in Int \cup {NoFigure}
       /\ r.usd \in Nat \cup {NoFigure} /\ r.latency \in Nat \cup {NoFigure}

VARIABLES
  node,      \* the node
  answer,    \* what each agent has come to
  late,      \* bidders that were given up and still run
  panelPc,   \* "agents", "asking", "returned", "rejected"
  verdict,   \* the outcome of the handler
  gaveUp     \* history: bidders that were given up

panelVars == <<node, answer, late, panelPc, verdict, gaveUp>>

Pending == [output |-> NoFigure, usd |-> -1, latency |-> -1]
Failed == [output |-> NoFigure, usd |-> -2, latency |-> -2]

NoVerdict == [kind |-> "none"]
OkValue(v) == [kind |-> "ok", value |-> v]
Won(a) == [kind |-> "ok", value |-> answer[a].output, winner |-> a]
\* a value of the judge's or the fallback's own
OwnValue == 0
PausedForHuman == [kind |-> "paused"]
NodeFailed == [kind |-> "failed"]

PanelInit ==
  /\ node \in PanelNodes
  /\ answer = [a \in Panel |-> Pending]
  /\ late = {}
  /\ panelPc = "agents"
  /\ verdict = NoVerdict
  /\ gaveUp = {}

\* the fulfilled agents, in the order of the list
Answered == {a \in Panel : answer[a] \notin {Pending, Failed}}
InListOrder(S) == SetToSortSeq(S, <)
First(S) == Min(S)

-----------------------------------------------------------------------------
AnswerArrives(a) ==
  /\ panelPc = "agents"
  /\ answer[a] = Pending
  /\ \E r \in AgentResults \cup {Failed} : answer' = [answer EXCEPT ![a] = r]
  /\ UNCHANGED <<node, late, panelPc, verdict, gaveUp>>

\* the timer of runWithTimeout rejects before the bidder answers
BidTimesOut(a) ==
  /\ panelPc = "agents"
  /\ node.kind = "auction"
  /\ node.timeout
  /\ answer[a] = Pending
  /\ answer' = [answer EXCEPT ![a] = Failed]
  /\ late' = late \cup {a}
  /\ gaveUp' = gaveUp \cup {a}
  /\ UNCHANGED <<node, panelPc, verdict>>

\* Mutant of LateAnswer: the answer replaces the timeout while others are awaited.
LateAnswerCounts(a) ==
  /\ a \in late
  /\ late' = late \ {a}
  /\ \E r \in AgentResults :
       answer' = IF panelPc = "agents" THEN [answer EXCEPT ![a] = r] ELSE answer
  /\ UNCHANGED <<node, panelPc, verdict, gaveUp>>

\* Promise.race is settled already: the answer goes nowhere, also after the return
LateAnswer(a) ==
  /\ a \in late
  /\ late' = late \ {a}
  /\ UNCHANGED <<node, answer, panelPc, verdict, gaveUp>>

\* the handler goes on with outcome v, or with asking a judge, evaluator or fallback
Returns(v) == panelPc' = "returned" /\ verdict' = v
Asks == panelPc' = "asking" /\ UNCHANGED verdict
Rejects == panelPc' = "rejected" /\ UNCHANGED verdict

AllAnswered == panelPc = "agents" /\ \A a \in Panel : answer[a] # Pending

-----------------------------------------------------------------------------
(* compare *)

\* a figure that is smaller is better; an undefined one is as bad as infinity
Less(x, y) == x # NoFigure /\ (y = NoFigure \/ x < y)

\* reduce: the agents in order, a later one winning only if it is better
Best(S, better) ==
  LET best[a \in 0 .. Cardinality(Panel)] ==
        IF a = 0 THEN First(S)
        ELSE IF a \in S /\ <<a, best[a - 1]>> \in better THEN a ELSE best[a - 1]
  IN best[Cardinality(Panel)]

\* the pairs of agents of which the first is the better one
Cheaper == {p \in Panel \X Panel : Less(answer[p[1]].usd, answer[p[2]].usd)}
Faster == {p \in Panel \X Panel : Less(answer[p[1]].latency, answer[p[2]].latency)}

Compare ==
  /\ AllAnswered
  /\ node.kind = "compare"
  /\ IF Answered = {} THEN Returns(NodeFailed)
     ELSE CASE node.selection = "manual" -> Returns(PausedForHuman)
            [] node.selection = "all" ->
                 Returns(OkValue([i \in 1 .. Cardinality(Answered) |->
                                    answer[InListOrder(Answered)[i]].output]))
            [] node.selection = "fastest" -> Returns(Won(Best(Answered, Faster)))
            [] node.selection = "cheapest" -> Returns(Won(Best(Answered, Cheaper)))
            [] OTHER -> IF node.judger THEN Asks ELSE Returns(NodeFailed)
  /\ UNCHANGED <<node, answer, late, gaveUp>>

\* eval and judge: an index into the list of the agents that answered
CompareJudged ==
  /\ panelPc = "asking"
  /\ node.kind = "compare"
  /\ \/ \E i \in 0 .. Cardinality(Panel) :
          Returns(IF i < Cardinality(Answered) THEN Won(InListOrder(Answered)[i + 1])
                                               ELSE NodeFailed)
     \/ Rejects
  /\ UNCHANGED <<node, answer, late, gaveUp>>

-----------------------------------------------------------------------------
(* vote *)

\* an agent without a weight of its own counts one
Weight(a) ==
  IF node.ballot = "weighted" /\ a \in DOMAIN node.weights THEN node.weights[a] ELSE 1

\* the agents that answered v, and what agents weigh together, added up in order
Voters(v) == {a \in Answered : answer[a].output = v}
Total(weights, S) ==
  LET total[a \in 0 .. Cardinality(Panel)] ==
        IF a = 0 THEN 0 ELSE total[a - 1] + IF a \in S THEN weights[a] ELSE 0
  IN total[Cardinality(Panel)]

tally ==
  [v \in {answer[a].output : a \in Answered} |->
     Total([a \in Panel |-> Weight(a)], Voters(v))]

Leaders == {v \in DOMAIN tally : \A u \in DOMAIN tally : tally[u] <= tally[v]}
isTie == Cardinality(Leaders) > 1
topScore == tally[CHOOSE v \in Leaders : TRUE]

\* the ballot has no winner: of the agents that answered, the others do not count
BallotFails ==
  CASE node.ballot = "majority" -> isTie \/ 2 * topScore <= Cardinality(Answered)
    [] node.ballot = "weighted" -> isTie
    [] node.ballot = "unanimous" -> Cardinality(DOMAIN tally) > 1
    [] node.ballot = "quorum" ->
         isTie \/ 100 * topScore < node.percent * Cardinality(Answered)

\* the winner's JSON text is parsed, which throws if there is none
resolveWinner ==
  LET v == CHOOSE w \in Leaders : TRUE
  IN IF v = NoFigure /\ node.ballot # "unanimous" THEN Rejects ELSE Returns(OkValue(v))

handleTie ==
  CASE node.onTie = "first" -> Returns(OkValue(answer[First(Answered)].output))
    [] node.onTie = "judge" /\ node.judger -> Asks
    [] OTHER -> Returns(PausedForHuman)

Vote ==
  /\ AllAnswered
  /\ node.kind = "vote"
  /\ IF Answered = {} THEN Returns(NodeFailed)
     ELSE IF BallotFails THEN handleTie
     ELSE resolveWinner
  /\ UNCHANGED <<node, answer, late, gaveUp>>

\* the judge may name any value
VoteJudged ==
  /\ panelPc = "asking"
  /\ node.kind = "vote"
  /\ Returns(OkValue(OwnValue)) \/ Rejects
  /\ UNCHANGED <<node, answer, late, gaveUp>>

-----------------------------------------------------------------------------
(* auction *)

\* an undefined cost passes any reserve price, as zero
passesReservePrice(a) ==
  node.reserve = NoFigure \/ answer[a].usd = NoFigure \/ answer[a].usd <= node.reserve

Bids == {a \in Answered : passesReservePrice(a)}

\* the pairs of bidders of which the first has the greater score
Outbids ==
  CASE node.criteria = "lowest-cost" -> Cheaper
    [] node.criteria = "fastest" -> Faster
    [] node.criteria = "highest-confidence" ->
         {p \in Panel \X Panel :
            /\ answer[p[1]].output # NoFigure
            /\ answer[p[2]].output = NoFigure \/ answer[p[1]].output > answer[p[2]].output}

Auction ==
  /\ AllAnswered
  /\ node.kind = "auction"
  /\ IF Bids # {} THEN Returns(Won(Best(Bids, Outbids)))
     ELSE IF node.fallback THEN Asks
     ELSE Returns(NodeFailed)
  /\ UNCHANGED <<node, answer, late, gaveUp>>

\* the fallback has no timeout, and its rejection is the handler's
FallbackAnswers ==
  /\ panelPc = "asking"
  /\ node.kind = "auction"
  /\ Returns(OkValue(OwnValue)) \/ Rejects
  /\ UNCHANGED <<node, answer, late, gaveUp>>

PanelHandler == Compare \/ Vote \/ Auction

PanelNext ==
  \/ PanelHandler
  \/ CompareJudged \/ VoteJudged \/ FallbackAnswers
  \/ \E a \in Panel : AnswerArrives(a) \/ BidTimesOut(a) \/ LateAnswer(a)

\* timers fire and the handler goes on; agents need not answer
PanelFairStep == PanelHandler \/ \E a \in Panel : BidTimesOut(a)

PanelSpec == PanelInit /\ [][PanelNext]_panelVars

-----------------------------------------------------------------------------
PanelTypeOK ==
  /\ node \in PanelNodes
  /\ answer \in [Panel -> AgentResults \cup {Pending, Failed}]
  /\ late \subseteq gaveUp
  /\ gaveUp \subseteq Panel
  /\ panelPc \in {"agents", "asking", "returned", "rejected"}
  /\ verdict.kind \in {"none", "ok", "paused", "failed"}

\* what the votes of S weigh
Given(S) ==
  Total([a \in Panel |-> IF a \in DOMAIN node.weights THEN node.weights[a] ELSE 1], S)

\* v is what the ballot asks for: more than half of the answers, all of them, the
\* quorum's share and more than any other, or more weight than any other
Elects(v) ==
  CASE node.ballot = "majority" -> Cardinality(Voters(v)) > Cardinality(Answered \ Voters(v))
    [] node.ballot = "unanimous" -> Voters(v) = Answered
    [] node.ballot = "quorum" ->
         /\ 100 * Cardinality(Voters(v)) >= node.percent * Cardinality(Answered)
         /\ \A a \in Answered \ Voters(v) :
              Cardinality(Voters(answer[a].output)) < Cardinality(Voters(v))
    [] node.ballot = "weighted" ->
         \A a \in Answered \ Voters(v) : Given(Voters(answer[a].output)) < Given(Voters(v))

\* A vote returns the value its ballot elects whenever there is one, whatever onTie
\* says; only if there is none it pauses, asks the judge or takes the first answer.
ElectedIsReturned ==
  panelPc = "returned" /\ node.kind = "vote" /\ Answered # {} =>
    LET elected == {v \in {answer[a].output : a \in Answered} : Elects(v)}
    IN IF elected # {} THEN \A v \in elected : verdict = OkValue(v)
       ELSE verdict \in {PausedForHuman,
                         IF node.onTie = "first" THEN OkValue(answer[First(Answered)].output)
                         ELSE OkValue(OwnValue)}

\* An auction is won by a bidder that answered in time and within the reserve price,
\* whom no such bidder beats and no earlier one equals; without such a bidder, nobody
\* wins.  When an answer comes, and that it comes too late, makes no difference.
BestBidWins ==
  panelPc = "returned" /\ node.kind = "auction" =>
    LET eligible == {a \in Answered \ gaveUp :
                       node.reserve # NoFigure /\ answer[a].usd # NoFigure
                         => answer[a].usd <= node.reserve}
    IN IF "winner" \in DOMAIN verdict
       THEN /\ verdict.winner \in eligible
            /\ verdict = Won(verdict.winner)
            /\ \A a \in eligible : /\ <<a, verdict.winner>> \notin Outbids
                                   /\ a < verdict.winner => <<verdict.winner, a>> \in Outbids
       ELSE eligible = {}

\* Whatever the order of answers, ties and late bids: a vote returns what its ballot elects
\* and an auction is won by the best timely bid.
DecidesByItsRule == ElectedIsReturned /\ BestBidWins

\* bids are awaited that time out
AuctionOpen == panelPc = "agents" /\ node.kind = "auction" /\ node.timeout
=============================================================================
