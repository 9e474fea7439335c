----------------------------- MODULE AgentProofs -----------------------------
(***************************************************************************)
(* The multi-agent handlers of os-flow, for any number of agents and any   *)
(* answers: a debate or blackboard goes on until its termination says so,  *)
(* and no longer; a vote returns what its ballot elects, and an auction is *)
(* won by the best bid in time.                                            *)
(***************************************************************************)
EXTENDS FlowGraphProofs, AgentRounds, AgentPanel

-----------------------------------------------------------------------------
(* Rounds: debate and blackboard.                                          *)

\* The replies of the round under way.
SoFar == Len(log) - step + 1 .. Len(log)

RoundsShape ==
  /\ topic \in RoundNodes
  /\ roundsPc \in {"turn", "judge", "returned", "rejected"}
  /\ round \in Nat /\ round <= rounds
  /\ step \in 0 .. Turns - 1
  /\ allDone \in BOOLEAN
  /\ spent \in Nat
  /\ log \in Seq(topic.replies)

\* How many replies there are.
RoundsCounted == roundsPc = "turn" => Len(log) = round * Turns + step /\ round < rounds

\* What the variables of a blackboard keep of all replies, and of those of the round.
BoardTells ==
  topic.kind = "blackboard" =>
    board = BoardAfter(Len(log)) /\ spent = CostsOf(log)[Len(log)]

RoundTells ==
  roundsPc = "turn" /\ topic.kind = "blackboard" =>
    /\ allDone = (\A i \in SoFar : log[i].done)
    /\ topic.ends = "consensus" =>
         /\ step = 0 => agreed = Silent
         /\ agreed # Silent => board # Silent
         /\ step > 0 /\ board # Silent /\ (\A i \in SoFar : BoardAfter(i) = board) =>
              agreed = board

\* No reply was the one to end the run, unless it did.
EndsWhenItMust ==
  /\ roundsPc = "turn" => \A k \in DOMAIN log : ~MustBeOver(k)
  /\ roundsPc \in {"judge", "returned"} => log # <<>> /\ MayBeOver(Len(log))
  /\ roundsPc = "judge" => topic.kind = "debate"

RoundsInv == RoundsShape /\ RoundsCounted /\ BoardTells /\ RoundTells /\ EndsWhenItMust

-----------------------------------------------------------------------------
(* The count of the replies.                                               *)

\* The numbers of the replies of a round, at its last one.
LEMMA CountsBack ==
  ASSUME NEW m \in Nat, NEW T \in Nat \ {0}, NEW s \in 0 .. T - 1, NEW n, n = m + s,
         NEW k, k = n + 1, NEW last, last => s + 1 = T
  PROVE  /\ s \in Nat /\ n >= s /\ n \in Nat /\ k = n + 1
         /\ last => k - T + 1 = k - s
OBVIOUS

\* What is from a number on to another one is from it on to the next one.
LEMMA OneMore ==
  ASSUME NEW n \in Nat, NEW k, k = n + 1, NEW f \in Nat \ {0}
  PROVE  \A i \in f .. n : i \in 1 .. n /\ i \in f .. k
OBVIOUS

\* ... and the next one is the last of what is up to it.
LEMMA LastOfMore ==
  ASSUME NEW n \in Nat, NEW k, k = n + 1, NEW f \in Nat \ {0}, f <= k
  PROVE  k \in f .. k /\ \A i \in f .. k : i = k \/ i \in f .. n
OBVIOUS

\* Reply k is the last of its round when all agents had their turn, and the last of all
\* when moreover it was the last round.
LEMMA CountOfRounds ==
  ASSUME NEW T \in Nat \ {0}, NEW q \in Nat, NEW s \in 0 .. T - 1, NEW r \in Nat, q < r,
         NEW k, k = q * T + s + 1
  PROVE  /\ k \in Nat \ {0}
         /\ k % T = 0 <=> s + 1 = T
         /\ k = r * T <=> s + 1 = T /\ q + 1 = r
         /\ s + 1 = T => k = (q + 1) * T /\ k >= T
<1>1. q * T \in Nat /\ k \in Nat \ {0}
  BY SMT
<1>2. s + 1 = T => k = (q + 1) * T /\ k % T = 0 /\ k >= T
  <2> SUFFICES ASSUME s + 1 = T
               PROVE  k = (q + 1) * T /\ k % T = 0 /\ k >= T
    OBVIOUS
  <2>1. k = (q + 1) * T /\ k >= T
    BY <1>1, SMTT(30)
  <2>2. ((q + 1) * T + 0) % T = 0
    BY SMTT(30)
  <2>3. (q + 1) * T \in Nat
    BY SMT
  <2>4. QED
    BY <2>1, <2>2, <2>3
<1>3. s + 1 # T => k % T # 0
  <2> SUFFICES ASSUME s + 1 # T
               PROVE  k % T # 0
    OBVIOUS
  <2>1. PICK t \in 1 .. T - 1 : t = s + 1
    OBVIOUS
  <2>2. (q * T + t) % T = t
    BY <2>1, SMTT(30)
  <2>3. k = q * T + t
    BY <1>1, <2>1
  <2>4. QED
    BY <2>2, <2>3
<1>4. PICK d \in Nat : r = q + 1 + d
  <2>1. r - q - 1 \in Nat
    OBVIOUS
  <2>2. QED
    BY <2>1
<1>5. r * T = q * T + T + d * T /\ d * T \in Nat /\ (d # 0 => d * T >= T)
  BY <1>4, SMTT(30)
<1>6. k = r * T <=> s + 1 = T /\ d = 0
  <2>1. k = r * T => d = 0
    BY <1>1, <1>5
  <2>2. d = 0 => d * T = 0
    BY SMT
  <2>3. QED
    BY <1>1, <1>5, <2>1, <2>2
<1>7. QED
  BY <1>1, <1>2, <1>3, <1>4, <1>6

\* The replies of a complete round are there.
LEMMA RoundIsThere ==
  ASSUME NEW T \in Nat \ {0}, NEW k \in Nat \ {0}, k % T = 0
  PROVE  k >= T
BY SMTT(30)

\* The costs of the first replies are the sums of theirs.
LEMMA CostsAdd ==
  ASSUME NEW S, \A x \in S : x.cost \in Nat, NEW l \in Seq(S)
  PROVE  /\ \A k \in 0 .. Len(l) : CostsOf(l)[k] \in Nat
         /\ CostsOf(l)[0] = 0
         /\ \A k \in 1 .. Len(l) : CostsOf(l)[k] = CostsOf(l)[k - 1] + l[k].cost
<1> DEFINE n == Len(l)
           IsTotal(f) == f = [k \in 0 .. n |-> IF k = 0 THEN 0 ELSE f[k - 1] + l[k].cost]
           step0 == [k \in 1 .. n |-> [c \in Nat |-> c + l[k].cost]]
<1>1. n \in Nat /\ \A k \in 1 .. n : l[k].cost \in Nat
  OBVIOUS
<1>2. step0 \in [1 .. n -> [Nat -> Nat]]
  BY <1>1
<1> HIDE DEF n, step0
<1>3. PICK f : RunOf(f, n, Nat, 0, step0)
  BY <1>1, <1>2, RunsThrough
<1>4. IsTotal(f)
  <2>1. f \in [0 .. n -> Nat]
    BY <1>3 DEF RunOf
  <2>2. ASSUME NEW k \in 0 .. n
        PROVE  f[k] = IF k = 0 THEN 0 ELSE f[k - 1] + l[k].cost
    <3>1. f[k] = IF k = 0 THEN 0 ELSE step0[k][f[k - 1]]
      BY <1>3, <2>2 DEF RunOf
    <3>2. k # 0 => k \in 1 .. n /\ f[k - 1] \in Nat
      BY <1>1, <2>1
    <3>3. QED
      BY <3>1, <3>2 DEF step0
  <2>3. QED
    BY <2>1, <2>2
<1>5. IsTotal(CostsOf(l))
  BY <1>4 DEF CostsOf, n
<1>6. PICK g : g = CostsOf(l)
  OBVIOUS
<1>7. g[0] = 0 /\ \A k \in 1 .. n : g[k] = g[k - 1] + l[k].cost
  <2>1. IsTotal(g)
    BY <1>5, <1>6
  <2>2. \A k \in 0 .. n : g[k] = IF k = 0 THEN 0 ELSE g[k - 1] + l[k].cost
    BY <2>1
  <2>3. QED
    BY <1>1, <2>2
<1>8. \A k \in 0 .. n : g[k] \in Nat
  <2> DEFINE T == {k \in Nat : g[k] \in Nat}
  <2>1. 0 \in T
    BY <1>7
  <2>2. ASSUME NEW k \in 0 .. n - 1, k \in T
        PROVE  k + 1 \in T
    <3>1. k + 1 \in 1 .. n /\ (k + 1) - 1 = k
      BY <1>1
    <3>2. QED
      BY <1>1, <1>7, <2>2, <3>1
  <2> HIDE DEF T
  <2>3. \A k \in 0 .. n : k \in T
    BY <1>1, <2>1, <2>2, UpTo
  <2>4. QED
    BY <2>3 DEF T
<1>9. QED
  BY <1>6, <1>7, <1>8 DEF n

\* One more reply leaves what was spent, and adds its own cost.
LEMMA CostsGrow ==
  ASSUME NEW S, \A x \in S : x.cost \in Nat, NEW l \in Seq(S), NEW x \in S
  PROVE  /\ \A k \in 0 .. Len(l) : CostsOf(Append(l, x))[k] = CostsOf(l)[k]
         /\ CostsOf(Append(l, x))[Len(l) + 1] = CostsOf(l)[Len(l)] + x.cost
<1>1. PICK m, n, f, g : m = Append(l, x) /\ n = Len(l) /\ f = CostsOf(l) /\ g = CostsOf(m)
  OBVIOUS
<1>2. /\ m \in Seq(S) /\ n \in Nat /\ Len(m) = n + 1
      /\ m[n + 1] = x /\ \A k \in 1 .. n : m[k] = l[k]
  BY <1>1
<1>3. f[0] = 0 /\ \A k \in 1 .. n : f[k] = f[k - 1] + l[k].cost
  BY <1>1, CostsAdd
<1>4. g[0] = 0 /\ \A k \in 1 .. n + 1 : g[k] = g[k - 1] + m[k].cost
  BY <1>1, <1>2, CostsAdd
<1>5. \A k \in 0 .. n : g[k] = f[k]
  <2> DEFINE T == {k \in Nat : g[k] = f[k]}
  <2>1. 0 \in T
    BY <1>3, <1>4
  <2>2. ASSUME NEW k \in 0 .. n - 1, k \in T
        PROVE  k + 1 \in T
    <3>1. k + 1 \in 1 .. n /\ k + 1 \in 1 .. n + 1 /\ (k + 1) - 1 = k
      BY <1>2
    <3>2. g[k + 1] = g[k] + l[k + 1].cost /\ f[k + 1] = f[k] + l[k + 1].cost
      BY <1>2, <1>3, <1>4, <3>1
    <3>3. QED
      BY <2>2, <3>1, <3>2
  <2> HIDE DEF T
  <2>3. \A k \in 0 .. n : k \in T
    BY <1>2, <2>1, <2>2, UpTo
  <2>4. QED
    BY <2>3 DEF T
<1>6. g[n + 1] = f[n] + x.cost
  <2>1. n + 1 \in 1 .. n + 1 /\ (n + 1) - 1 = n /\ n \in 0 .. n
    BY <1>2
  <2>2. QED
    BY <1>2, <1>4, <1>5, <2>1
<1>7. QED
  BY <1>1, <1>5, <1>6

-----------------------------------------------------------------------------
(* One more reply.                                                         *)

LEMMA RoundNodeTypes ==
  ASSUME topic \in RoundNodes
  PROVE  /\ IsRoundNode(topic)
         /\ Turns \in Nat \ {0} /\ rounds \in Nat \ {0} /\ rounds <= MaxRounds
         /\ topic.kind = "debate" => Turns = 2
<1>1. IsRoundNode(topic) /\ Circle \in Nat \ {0} /\ MaxRounds \in Nat \ {0}
  BY RoundsAssumption
<1>2. QED
  BY <1>1 DEF IsRoundNode, Turns, rounds

\* What was in the scratchpad stays, and the reply writes over it.
LEMMA BoardGrows ==
  ASSUME RoundsShape, NEW x \in topic.replies, log' = Append(log, x), UNCHANGED topic,
         NEW n, n = Len(log)
  PROVE  /\ \A k \in 0 .. n : BoardAfter(k)' = BoardAfter(k)
         /\ BoardAfter(n + 1)' = IF x.says = Silent THEN BoardAfter(n) ELSE x.says
<1>1. n \in Nat /\ log'[n + 1] = x /\ \A i \in 1 .. n : log'[i] = log[i]
  BY DEF RoundsShape
<1>2. ASSUME NEW k \in 0 .. n
      PROVE  BoardAfter(k)' = BoardAfter(k)
  <2>1. {i \in 1 .. k : log'[i].says # Silent} = {i \in 1 .. k : log[i].says # Silent}
    BY <1>1
  <2>2. PICK W : W = {i \in 1 .. k : log[i].says # Silent}
    OBVIOUS
  <2>3. CASE W = {}
    BY <2>1, <2>2, <2>3 DEF BoardAfter
  <2>4. CASE W # {}
    <3>1. Max(W) \in W
      <4>1. k \in Nat /\ W \subseteq Nat /\ \A i \in W : i <= k
        BY <1>1, <2>2
      <4>2. QED
        BY <2>4, <4>1, MaxIsGreatest
    <3>2. log'[Max(W)] = log[Max(W)]
      BY <1>1, <2>2, <3>1
    <3>3. QED
      BY <2>1, <2>2, <2>4, <3>2 DEF BoardAfter
  <2>5. QED
    BY <2>3, <2>4
<1>3. BoardAfter(n + 1)' = IF x.says = Silent THEN BoardAfter(n) ELSE x.says
  <2>1. PICK W, V : /\ W = {i \in 1 .. n : log'[i].says # Silent}
                    /\ V = {i \in 1 .. n + 1 : log'[i].says # Silent}
    OBVIOUS
  <2>2. BoardAfter(n)' = IF W = {} THEN topic.board ELSE log'[Max(W)].says
    BY <2>1 DEF BoardAfter
  <2>3. BoardAfter(n + 1)' = IF V = {} THEN topic.board ELSE log'[Max(V)].says
    BY <2>1 DEF BoardAfter
  <2>4. BoardAfter(n)' = BoardAfter(n)
    BY <1>1, <1>2
  <2>5. CASE x.says = Silent
    <3>1. V = W
      BY <1>1, <2>1, <2>5
    <3>2. QED
      BY <2>2, <2>3, <2>4, <2>5, <3>1
  <2>6. CASE x.says # Silent
    <3>1. V \subseteq Nat /\ n + 1 \in V /\ \A i \in V : i <= n + 1
      BY <1>1, <2>1, <2>6
    <3>2. Max(V) \in V /\ \A i \in V : i <= Max(V)
      BY <1>1, <3>1, MaxIsGreatest
    <3>3. Max(V) = n + 1
      <4>1. PICK m : m = Max(V)
        OBVIOUS
      <4>2. m \in Nat /\ m <= n + 1 /\ n + 1 <= m
        BY <3>1, <3>2, <4>1
      <4>3. QED
        BY <1>1, <4>1, <4>2
    <3>4. QED
      BY <1>1, <2>3, <2>6, <3>1, <3>3
  <2>7. QED
    BY <2>5, <2>6
<1>4. QED
  BY <1>2, <1>3

\* What earlier replies meant for the end stays as it was.
LEMMA PastRepliesStay ==
  ASSUME RoundsShape, NEW x \in topic.replies, log' = Append(log, x), UNCHANGED topic,
         NEW k \in 1 .. Len(log)
  PROVE  MustBeOver(k)' => MustBeOver(k)
<1>1. PICK n : n = Len(log)
  OBVIOUS
<1>2. /\ n \in Nat /\ k \in Nat \ {0} /\ k <= n /\ \A i \in 1 .. n : log'[i] = log[i]
      /\ topic' = topic /\ Turns' = Turns /\ rounds' = rounds
  BY <1>1 DEF RoundsShape, Turns, rounds
<1>3. Turns \in Nat \ {0} /\ (topic.ends = "on-agreement" => Turns = 2) /\ IsRoundNode(topic)
  BY RoundNodeTypes DEF RoundsShape, IsRoundNode
<1>4. RoundComplete(k)' = RoundComplete(k) /\ (RoundComplete(k) => k >= Turns)
  BY <1>2, <1>3, RoundIsThere DEF RoundComplete
<1>5. RoundOf(k)' = RoundOf(k) /\ (RoundComplete(k) => RoundOf(k) \subseteq 1 .. n)
  BY <1>2, <1>3, <1>4 DEF RoundOf
<1>6. \A i \in 0 .. n : BoardAfter(i)' = BoardAfter(i)
  BY <1>1, BoardGrows
<1>7. CostsOf(log')[k] = CostsOf(log)[k]
  <2>1. log \in Seq(topic.replies) /\ \A y \in topic.replies : y.cost \in Nat
    BY <1>3 DEF RoundsShape, IsRoundNode
  <2>2. QED
    BY <1>1, <1>2, <2>1, CostsGrow
<1>8. log'[k] = log[k] /\ BoardAfter(k)' = BoardAfter(k)
  BY <1>2, <1>6
<1>9. SUFFICES ASSUME MustBeOver(k)'
               PROVE  MustBeOver(k)
  OBVIOUS
<1>10. MayBeOver(k)
  <2>1. MayBeOver(k)'
    BY <1>9 DEF MustBeOver
  <2>2. topic.ends = "on-agreement" /\ RoundComplete(k) => log'[k - 1] = log[k - 1]
    BY <1>2, <1>3, <1>4
  <2>3. RoundComplete(k) => \A i \in RoundOf(k) : log'[i] = log[i]
    BY <1>2, <1>5
  <2>4. QED
    BY <1>2, <1>4, <1>5, <1>7, <1>8, <2>1, <2>2, <2>3 DEF MayBeOver
<1>11. topic.ends = "consensus" /\ k # rounds * Turns =>
         \A i \in RoundOf(k) : BoardAfter(i) = BoardAfter(k)
  <2> SUFFICES ASSUME topic.ends = "consensus", k # rounds * Turns, NEW i \in RoundOf(k)
               PROVE  BoardAfter(i) = BoardAfter(k)
    OBVIOUS
  <2>1. BoardAfter(i)' = BoardAfter(k)'
    BY <1>2, <1>5, <1>9 DEF MustBeOver
  <2>2. RoundComplete(k)
    BY <1>3, <1>10 DEF MayBeOver, IsRoundNode
  <2>3. QED
    BY <1>5, <1>6, <1>8, <2>1, <2>2
<1>12. QED
  BY <1>10, <1>11 DEF MustBeOver

LEMMA DebateKeeps ==
  ASSUME RoundsInv, roundsPc = "turn", NEW reply \in topic.replies,
         log' = Append(log, reply), UNCHANGED topic, Debate
  PROVE  RoundsInv'
<1>1. PICK n, k : n = Len(log) /\ k = n + 1
  OBVIOUS
<1>2. /\ RoundsShape /\ RoundsCounted /\ EndsWhenItMust /\ topic.kind = "debate"
      /\ round < rounds /\ Turns = 2 /\ rounds \in Nat \ {0} /\ IsRoundNode(topic)
      /\ topic' = topic /\ rounds' = rounds /\ Turns' = Turns
  BY RoundNodeTypes DEF RoundsInv, RoundsShape, RoundsCounted, Debate, Turns, rounds
<1>3. /\ round \in Nat /\ step \in 0 .. 1 /\ n = round * 2 + step
      /\ step' = (IF step = 1 THEN 0 ELSE 1)
      /\ round' = IF step = 1 THEN round + 1 ELSE round
  BY <1>1, <1>2 DEF RoundsShape, RoundsCounted, Debate
<1>4. /\ k \in Nat \ {0} /\ Len(log') = k /\ log' \in Seq(topic.replies)
      /\ log'[k] = reply /\ DOMAIN log' = 1 .. k /\ DOMAIN log = 1 .. n
      /\ \A i \in 1 .. n : log'[i] = log[i]
  BY <1>1, <1>2 DEF RoundsShape
<1>5. /\ k % 2 = 0 <=> step = 1
      /\ k = rounds * 2 <=> step = 1 /\ round + 1 = rounds
  <2>1. step \in 0 .. 2 - 1 /\ k = round * 2 + step + 1
    BY <1>1, <1>3
  <2>2. QED
    BY <1>2, <1>3, <2>1, CountOfRounds
<1>6. /\ roundsPc' = IF step = 1 /\ (round + 1 = rounds \/ Agreement) THEN "judge" ELSE "turn"
      /\ UNCHANGED <<board, agreed, allDone, spent>>
  BY <1>3 DEF Debate
<1>7. MayBeOver(k)' <=> step = 1 /\ (round + 1 = rounds \/ Agreement)
  <2>1. MayBeOver(k)' <=> \/ k = rounds * 2
                         \/ /\ topic.ends = "on-agreement" /\ k % 2 = 0
                            /\ log'[k].says = log'[k - 1].says
    BY <1>2, <1>4 DEF MayBeOver, RoundComplete, IsRoundNode
  <2>2. Agreement <=> topic.ends = "on-agreement" /\ log'[k - 1].says = log'[k].says
    <3>1. Len(log) = k - 1 /\ Len(log') = k
      BY <1>1, <1>4 DEF RoundsShape
    <3>2. QED
      BY <3>1 DEF Agreement
  <2>3. QED
    BY <1>5, <2>1, <2>2
<1>8. RoundsShape'
  <2>1. round' \in Nat /\ round' <= rounds' /\ step' \in 0 .. Turns' - 1
    BY <1>2, <1>3
  <2>2. QED
    BY <1>2, <1>4, <1>6, <2>1 DEF RoundsShape
<1>9. RoundsCounted'
  <2> SUFFICES ASSUME roundsPc' = "turn"
               PROVE  Len(log') = round' * Turns' + step' /\ round' < rounds'
    BY DEF RoundsCounted
  <2>1. ~(step = 1 /\ round + 1 = rounds)
    BY <1>6
  <2>2. QED
    BY <1>1, <1>2, <1>3, <1>4, <2>1
<1>10. BoardTells' /\ RoundTells'
  BY <1>2 DEF BoardTells, RoundTells
<1>11. EndsWhenItMust'
  <2>1. ASSUME roundsPc' = "turn", NEW j \in DOMAIN log'
        PROVE  ~MustBeOver(j)'
    <3>1. CASE j = k
      BY <1>6, <1>7, <2>1, <3>1 DEF MustBeOver
    <3>2. CASE j # k
      <4>1. j \in 1 .. n
        BY <1>1, <1>4, <3>2
      <4>2. ~MustBeOver(j)
        BY <1>2, <1>4, <4>1 DEF EndsWhenItMust
      <4>3. QED
        BY <1>1, <1>2, <4>1, <4>2, PastRepliesStay
    <3>3. QED
      BY <3>1, <3>2
  <2>2. roundsPc' \in {"judge", "returned"} => (log # <<>> /\ MayBeOver(Len(log)))'
    BY <1>4, <1>6, <1>7
  <2>3. QED
    BY <1>2, <1>6, <2>1, <2>2 DEF EndsWhenItMust
<1>12. QED
  BY <1>8, <1>9, <1>10, <1>11 DEF RoundsInv

\* What a step of a blackboard comes to, and that a run it ends may be over.
LEMMA BlackboardKeeps ==
  ASSUME RoundsInv, roundsPc = "turn", NEW reply \in topic.replies,
         log' = Append(log, reply), UNCHANGED topic, Blackboard(reply)
  PROVE  RoundsInv'
<1>1. PICK n, k, last, all, said, over :
        /\ n = Len(log) /\ k = n + 1
        /\ last = (step + 1 = Turns) /\ all = (allDone /\ reply.done)
        /\ said = IF topic.ends = "consensus" THEN updateConsensusValue(board') ELSE agreed
        /\ over = \/ StepEnds(reply)
                  \/ last /\ topic.ends = "consensus" /\ said # Silent
                  \/ last /\ topic.volunteer /\ all
                  \/ last /\ round + 1 = rounds
  <2> DEFINE ends == step + 1 = Turns
             done == allDone /\ reply.done
             saying == IF topic.ends = "consensus" THEN updateConsensusValue(board') ELSE agreed
             ending == \/ StepEnds(reply)
                       \/ ends /\ topic.ends = "consensus" /\ saying # Silent
                       \/ ends /\ topic.volunteer /\ done
                       \/ ends /\ round + 1 = rounds
  <2> WITNESS Len(log), Len(log) + 1, ends, done, saying, ending
  <2> QED
    OBVIOUS
<1>2. /\ RoundsShape /\ RoundsCounted /\ BoardTells /\ RoundTells /\ EndsWhenItMust
      /\ topic.kind = "blackboard" /\ round < rounds
      /\ Turns \in Nat \ {0} /\ rounds \in Nat \ {0} /\ IsRoundNode(topic)
      /\ topic' = topic /\ rounds' = rounds /\ Turns' = Turns
      /\ \A y \in topic.replies : y.done \in BOOLEAN /\ y.cost \in Nat
  BY RoundNodeTypes DEF RoundsInv, RoundsShape, RoundsCounted, Blackboard, Turns, rounds, IsRoundNode
<1>3. /\ last \in BOOLEAN /\ all \in BOOLEAN /\ over \in BOOLEAN
      /\ allDone \in BOOLEAN /\ reply.done \in BOOLEAN /\ reply.cost \in Nat
  BY <1>1, <1>2 DEF RoundsShape
<1>4. /\ round \in Nat /\ step \in 0 .. Turns - 1 /\ n = round * Turns + step
      /\ n \in Nat /\ k \in Nat \ {0} /\ k = round * Turns + step + 1 /\ round * Turns \in Nat
  <2>1. /\ round \in Nat /\ step \in 0 .. Turns - 1 /\ n = round * Turns + step /\ n \in Nat
    BY <1>1, <1>2 DEF RoundsShape, RoundsCounted
  <2>2. round * Turns \in Nat
    BY <1>2, <2>1, SMT
  <2>3. QED
    BY <1>1, <2>1, <2>2
<1>5. /\ board' = (IF reply.says = Silent THEN board ELSE reply.says)
      /\ spent' = spent + reply.cost
      /\ round' = (IF last THEN round + 1 ELSE round)
      /\ agreed' = (IF last THEN Silent ELSE said)
      /\ allDone' = (last \/ all)
      /\ roundsPc' = (IF over THEN "returned" ELSE "turn")
  BY <1>1 DEF Blackboard
<1>6. step' = IF last THEN 0 ELSE step + 1
  <2>1. step' = (step + 1) % Turns
    BY DEF Blackboard
  <2>2. CASE last
    <3>1. step + 1 = Turns
      BY <1>1, <2>2
    <3>2. (0 * Turns + 0) % Turns = 0 /\ (1 * Turns + 0) % Turns = 0
      BY <1>2, SMTT(30)
    <3>3. QED
      BY <1>2, <2>1, <2>2, <3>1, <3>2
  <2>3. CASE ~last
    <3>1. PICK t \in 1 .. Turns - 1 : t = step + 1
      <4>1. step + 1 # Turns /\ step \in 0 .. Turns - 1 /\ Turns \in Nat \ {0}
        BY <1>1, <1>2, <1>4, <2>3
      <4>2. step + 1 \in 1 .. Turns - 1
        BY <4>1
      <4>3. QED
        BY <4>2
    <3>2. t % Turns = t
      BY <1>2, <3>1, SMTT(30)
    <3>3. QED
      BY <2>1, <2>3, <3>1, <3>2
  <2>4. QED
    BY <1>3, <2>2, <2>3
<1>7. /\ Len(log') = k /\ log' \in Seq(topic.replies) /\ log \in Seq(topic.replies)
      /\ log'[k] = reply /\ DOMAIN log' = 1 .. k /\ DOMAIN log = 1 .. n
      /\ \A i \in 1 .. n : log'[i] = log[i]
  BY <1>1, <1>2 DEF RoundsShape
<1>8. /\ k % Turns = 0 <=> last
      /\ k = rounds * Turns <=> last /\ round + 1 = rounds
  <2>1. /\ k % Turns = 0 <=> step + 1 = Turns
        /\ k = rounds * Turns <=> step + 1 = Turns /\ round + 1 = rounds
    BY <1>2, <1>4, CountOfRounds
  <2>2. QED
    BY <1>1, <2>1
<1>9. /\ \A i \in 0 .. n : BoardAfter(i)' = BoardAfter(i)
      /\ BoardAfter(k)' = board'
      /\ CostsOf(log')[k] = spent'
  <2>1. /\ \A i \in 0 .. n : BoardAfter(i)' = BoardAfter(i)
        /\ BoardAfter(n + 1)' = IF reply.says = Silent THEN BoardAfter(n) ELSE reply.says
    BY <1>1, <1>2, BoardGrows
  <2>2. CostsOf(log')[n + 1] = CostsOf(log)[n] + reply.cost
    BY <1>1, <1>2, <1>7, CostsGrow
  <2>3. BoardAfter(n) = board /\ CostsOf(log)[n] = spent
    BY <1>1, <1>2 DEF BoardTells
  <2>4. QED
    BY <1>1, <1>5, <2>1, <2>2, <2>3
<1>10. PICK first : /\ first = k - step /\ first \in Nat \ {0}
                    /\ SoFar = first .. n
                    /\ (~last => SoFar' = first .. k)
                    /\ (last => RoundOf(k)' = first .. k)
  <2>1. /\ step \in Nat /\ n >= step /\ n \in Nat /\ k = n + 1
        /\ last => k - Turns + 1 = k - step
    <3>1. PICK m : m = round * Turns
      OBVIOUS
    <3>2. m \in Nat /\ n = m + step /\ step \in 0 .. Turns - 1 /\ Turns \in Nat \ {0}
      BY <1>2, <1>4, <3>1
    <3>3. last => step + 1 = Turns
      BY <1>1
    <3>4. k = n + 1
      BY <1>1
    <3>5. QED
      BY <3>2, <3>3, <3>4, CountsBack
  <2>2. /\ SoFar = k - step .. n
        /\ ~last => SoFar' = k - step .. k
        /\ last => RoundOf(k)' = k - step .. k
    BY <1>1, <1>2, <1>6, <1>7, <2>1 DEF SoFar, RoundOf
  <2>3. k - step \in Nat \ {0}
    BY <2>1
  <2>4. QED
    BY <2>2, <2>3
<1>11. all = \A i \in first .. k : log'[i].done
  <2>1. allDone = \A i \in first .. n : log[i].done
    BY <1>2, <1>10 DEF RoundTells
  <2>2. \A i \in first .. n : i \in 1 .. n /\ i \in first .. k /\ log'[i].done = log[i].done
    <3>1. n \in Nat /\ k = n + 1 /\ first \in Nat \ {0}
      BY <1>1, <1>4, <1>10
    <3>2. \A i \in first .. n : i \in 1 .. n /\ i \in first .. k
      BY <3>1, OneMore
    <3>3. QED
      BY <1>7, <3>2
  <2>3. k \in first .. k /\ \A i \in first .. k : i = k \/ i \in first .. n
    <3>1. n \in Nat /\ k = n + 1 /\ first \in Nat \ {0} /\ first <= k
      BY <1>1, <1>4, <1>10
    <3>2. QED
      BY <3>1, LastOfMore
  <2>4. QED
    BY <1>1, <1>3, <1>7, <2>1, <2>2, <2>3
<1>12. StepEnds(reply) <=>
         \/ topic.ends = "agent-signal" /\ log'[k].done
         \/ topic.ends = "budget" /\ \/ topic.cost # Silent /\ CostsOf(log')[k] >= topic.cost
                                     \/ topic.steps # Silent /\ k >= topic.steps
  BY <1>1, <1>5, <1>7, <1>9 DEF StepEnds, shouldStopForBudget
<1>13. MayBeOver(k)' <=>
         \/ StepEnds(reply)
         \/ last /\ topic.ends = "consensus" /\ board' # Silent
         \/ last /\ topic.volunteer /\ all
         \/ last /\ round + 1 = rounds
  <2>1. topic.ends # "on-agreement"
    BY <1>2 DEF IsRoundNode
  <2>2. RoundComplete(k)' <=> last
    BY <1>2, <1>4, <1>8 DEF RoundComplete
  <2>3. last => ((\A i \in RoundOf(k) : log[i].done)' <=> all)
    BY <1>10, <1>11
  <2>4. MayBeOver(k)' <=>
          \/ k = rounds * Turns
          \/ topic.ends = "agent-signal" /\ log'[k].done
          \/ topic.ends = "budget" /\ \/ topic.cost # Silent /\ CostsOf(log')[k] >= topic.cost
                                      \/ topic.steps # Silent /\ k >= topic.steps
          \/ topic.ends = "consensus" /\ last /\ board' # Silent
          \/ topic.volunteer /\ last /\ (\A i \in RoundOf(k) : log[i].done)'
    BY <1>2, <1>9, <2>1, <2>2 DEF MayBeOver
  <2>5. QED
    BY <1>8, <1>12, <2>3, <2>4
<1>14. topic.ends = "consensus" /\ said # Silent => board' # Silent
  <2> SUFFICES ASSUME topic.ends = "consensus", said # Silent
               PROVE  board' # Silent
    OBVIOUS
  <2>1. agreed # Silent => board # Silent
    BY <1>2 DEF RoundTells
  <2>2. QED
    BY <1>1, <1>5, <2>1 DEF updateConsensusValue
\* if all of the round left one value in the scratchpad, it is agreed
<1>15. ASSUME topic.ends = "consensus", board' # Silent,
              \A i \in first .. k : BoardAfter(i)' = board'
       PROVE  said = board'
  <2>1. said = IF agreed = board' THEN agreed ELSE IF agreed = Silent THEN board' ELSE Silent
    BY <1>1, <1>15 DEF updateConsensusValue
  <2>2. CASE step = 0
    BY <1>2, <1>15, <2>1, <2>2 DEF RoundTells
  <2>3. CASE step # 0
    <3>1. /\ n \in first .. n
          /\ \A i \in first .. n : i \in 0 .. n /\ i \in first .. k
      <4>1. n \in Nat /\ k = n + 1 /\ first \in Nat \ {0} /\ first <= n
        BY <1>1, <1>4, <1>10, <2>3
      <4>2. \A i \in first .. n : i \in 1 .. n /\ i \in first .. k
        BY <4>1, OneMore
      <4>3. QED
        BY <4>1, <4>2
    <3>2. \A i \in first .. n : BoardAfter(i) = board'
      BY <1>9, <1>15, <3>1
    <3>3. board = board'
      BY <1>1, <1>2, <3>1, <3>2 DEF BoardTells
    <3>4. step > 0 /\ board # Silent /\ \A i \in SoFar : BoardAfter(i) = board
      BY <1>4, <1>10, <1>15, <2>3, <3>2, <3>3
    <3>5. agreed = board
      BY <1>2, <1>15, <3>4 DEF RoundTells
    <3>6. QED
      BY <2>1, <3>3, <3>5
  <2>4. QED
    BY <2>2, <2>3
<1>16. over => MayBeOver(k)'
  BY <1>1, <1>13, <1>14
<1>17. ~over => ~MustBeOver(k)'
  <2> SUFFICES ASSUME MustBeOver(k)', ~over
               PROVE  FALSE
    OBVIOUS
  <2>1. last /\ topic.ends = "consensus" /\ board' # Silent /\ said = Silent
    BY <1>1, <1>13 DEF MustBeOver
  <2>2. k # rounds * Turns
    BY <1>1, <1>8, <2>1
  <2>3. \A i \in first .. k : BoardAfter(i)' = BoardAfter(k)'
    BY <1>2, <1>10, <2>1, <2>2 DEF MustBeOver
  <2>4. QED
    BY <1>9, <1>15, <2>1, <2>3
<1>18. RoundsShape'
  <2>1. round' \in Nat /\ round' <= rounds'
    BY <1>2, <1>3, <1>4, <1>5
  <2>2. step' \in 0 .. Turns' - 1
    <3>1. step \in 0 .. Turns - 1 /\ Turns \in Nat \ {0} /\ Turns' = Turns /\ last = (step + 1 = Turns)
      BY <1>1, <1>2, <1>4
    <3>2. (last => step' = 0) /\ (~last => step' = step + 1 /\ step + 1 # Turns)
      BY <1>3, <1>6, <3>1
    <3>3. QED
      BY <1>3, <3>1, <3>2
  <2>3. spent' \in Nat /\ allDone' \in BOOLEAN
    BY <1>2, <1>3, <1>5 DEF RoundsShape
  <2>4. QED
    BY <1>2, <1>5, <1>7, <2>1, <2>2, <2>3 DEF RoundsShape
<1>19. RoundsCounted'
  <2> SUFFICES ASSUME ~over
               PROVE  Len(log') = round' * Turns' + step' /\ round' < rounds'
    BY <1>5 DEF RoundsCounted
  <2>1. ~(last /\ round + 1 = rounds)
    BY <1>1
  <2>2. round' < rounds'
    BY <1>2, <1>4, <1>5, <2>1
  <2>3. last => k = (round + 1) * Turns
    <3>1. step + 1 = Turns => k = (round + 1) * Turns
      BY <1>2, <1>4, CountOfRounds
    <3>2. QED
      BY <1>1, <3>1
  <2>4. last => (round + 1) * Turns \in Nat
    BY <1>2, <1>4, SMT
  <2>5. Len(log') = round' * Turns' + step'
    <3>1. CASE last
      <4>1. round' = round + 1 /\ step' = 0 /\ Turns' = Turns
        BY <1>2, <1>5, <1>6, <3>1
      <4>2. QED
        BY <1>7, <2>3, <2>4, <3>1, <4>1
    <3>2. CASE ~last
      <4>1. round' = round /\ step' = step + 1 /\ Turns' = Turns
        BY <1>2, <1>5, <1>6, <3>2
      <4>2. PICK m : m = round * Turns
        OBVIOUS
      <4>3. m \in Nat /\ step \in Nat /\ k = m + step + 1
        BY <1>2, <1>4, <4>2
      <4>4. k = m + (step + 1)
        BY <4>3
      <4>5. QED
        BY <1>7, <4>1, <4>2, <4>4
    <3>3. QED
      BY <1>3, <3>1, <3>2
  <2>6. QED
    BY <2>2, <2>5
<1>20. BoardTells'
  BY <1>7, <1>9 DEF BoardTells
<1>21. RoundTells'
  <2> SUFFICES ASSUME ~over
               PROVE  (/\ allDone = (\A i \in SoFar : log[i].done)
                       /\ topic.ends = "consensus" =>
                            /\ step = 0 => agreed = Silent
                            /\ agreed # Silent => board # Silent
                            /\ step > 0 /\ board # Silent /\ (\A i \in SoFar : BoardAfter(i) = board)
                                 => agreed = board)'
    BY <1>5 DEF RoundTells
  <2>1. CASE last
    <3>1. SoFar' = {}
      BY <1>1, <1>4, <1>6, <1>7, <2>1 DEF SoFar
    <3>2. step' = 0 /\ agreed' = Silent /\ allDone' = TRUE
      BY <1>5, <1>6, <2>1
    <3>3. QED
      BY <3>1, <3>2
  <2>2. CASE ~last
    <3>1. allDone' = (\A i \in SoFar : log[i].done)'
      BY <1>3, <1>5, <1>10, <1>11, <2>2
    <3>2. step' # 0 /\ agreed' = said
      BY <1>4, <1>5, <1>6, <2>2
    <3>3. topic.ends = "consensus" /\ board' # Silent /\ (\A i \in SoFar : BoardAfter(i) = board)' =>
            said = board'
      BY <1>10, <1>15, <2>2
    <3>4. QED
      BY <1>2, <1>14, <3>1, <3>2, <3>3
  <2>3. QED
    BY <1>3, <2>1, <2>2
<1>22. EndsWhenItMust'
  <2>1. ASSUME ~over, NEW j \in DOMAIN log'
        PROVE  ~MustBeOver(j)'
    <3>1. CASE j = k
      BY <1>17, <2>1, <3>1
    <3>2. CASE j # k
      <4>1. j \in 1 .. n
        BY <1>1, <1>4, <1>7, <3>2
      <4>2. ~MustBeOver(j)
        BY <1>2, <1>7, <4>1 DEF EndsWhenItMust
      <4>3. QED
        BY <1>1, <1>2, <4>1, <4>2, PastRepliesStay
    <3>3. QED
      BY <3>1, <3>2
  <2>2. over => (log # <<>> /\ MayBeOver(Len(log)))'
    BY <1>4, <1>7, <1>16
  <2>3. QED
    BY <1>5, <2>1, <2>2 DEF EndsWhenItMust
<1>23. QED
  BY <1>18, <1>19, <1>20, <1>21, <1>22 DEF RoundsInv

-----------------------------------------------------------------------------
(* All steps.                                                              *)

LEMMA RoundsInvInit == RoundsInit => RoundsInv
<1> SUFFICES ASSUME RoundsInit
             PROVE  RoundsInv
  OBVIOUS
<1>1. IsRoundNode(topic) /\ Turns \in Nat \ {0} /\ rounds \in Nat \ {0}
  BY RoundNodeTypes DEF RoundsInit
<1>2. Len(log) = 0 /\ DOMAIN log = {} /\ log \in Seq(topic.replies)
  BY DEF RoundsInit
<1>3. RoundsShape
  BY <1>1, <1>2 DEF RoundsInit, RoundsShape
<1>4. RoundsCounted
  <2>1. 0 * Turns = 0
    BY <1>1, SMT
  <2>2. QED
    BY <1>1, <1>2, <2>1 DEF RoundsInit, RoundsCounted
<1>5. BoardTells
  <2>1. CostsOf(log)[0] = 0
    BY <1>1, <1>2, CostsAdd DEF IsRoundNode
  <2>2. BoardAfter(0) = topic.board
    BY DEF BoardAfter
  <2>3. QED
    BY <1>2, <2>1, <2>2 DEF RoundsInit, BoardTells
<1>6. SoFar = {}
  BY <1>2 DEF RoundsInit, SoFar
<1>7. RoundTells
  BY <1>6 DEF RoundsInit, RoundTells
<1>8. EndsWhenItMust
  BY <1>2 DEF RoundsInit, EndsWhenItMust
<1>9. QED
  BY <1>3, <1>4, <1>5, <1>7, <1>8 DEF RoundsInv

\* Only the place of the handler changes, out of the loop.
LEMMA RoundsLeft ==
  ASSUME RoundsInv, UNCHANGED <<topic, round, step, board, agreed, allDone, spent, log>>,
         \/ roundsPc' = roundsPc
         \/ roundsPc' = "rejected"
         \/ roundsPc = "judge" /\ roundsPc' = "returned"
  PROVE  RoundsInv'
<1>1. /\ Turns' = Turns /\ rounds' = rounds /\ SoFar' = SoFar
      /\ \A k : BoardAfter(k)' = BoardAfter(k) /\ MayBeOver(k)' = MayBeOver(k)
                /\ MustBeOver(k)' = MustBeOver(k)
  BY DEF Turns, rounds, SoFar, BoardAfter, MayBeOver, MustBeOver, RoundComplete, RoundOf
<1>2. RoundsShape' /\ RoundsCounted'
  BY <1>1 DEF RoundsInv, RoundsShape, RoundsCounted
<1>3. BoardTells' /\ RoundTells'
  BY <1>1 DEF RoundsInv, BoardTells, RoundTells
<1>4. EndsWhenItMust'
  BY <1>1 DEF RoundsInv, EndsWhenItMust
<1>5. QED
  BY <1>2, <1>3, <1>4 DEF RoundsInv

LEMMA RoundsStep == RoundsInv /\ [RoundsNext]_roundsVars => RoundsInv'
<1> SUFFICES ASSUME RoundsInv, [RoundsNext]_roundsVars
             PROVE  RoundsInv'
  OBVIOUS
<1>1. CASE AgentReplies
  <2>1. PICK reply \in topic.replies :
          log' = Append(log, reply) /\ (Debate \/ Blackboard(reply))
    BY <1>1 DEF AgentReplies
  <2>2. roundsPc = "turn" /\ UNCHANGED topic
    BY <1>1 DEF AgentReplies
  <2>3. QED
    BY <2>1, <2>2, DebateKeeps, BlackboardKeeps
<1>2. CASE AgentRejects
  BY <1>2, RoundsLeft DEF AgentRejects
<1>3. CASE JudgeReplies
  BY <1>3, RoundsLeft DEF JudgeReplies
<1>4. CASE UNCHANGED roundsVars
  BY <1>4, RoundsLeft DEF roundsVars
<1>5. QED
  BY <1>1, <1>2, <1>3, <1>4 DEF RoundsNext

\* A debate or blackboard asks no agent once its termination says that it is over, and
\* asks the judge or returns only if it says so: whatever the agents reply, however many
\* they are, and whatever the limits.
THEOREM RunsEndInTime == RoundsSpec => []EndsInTime
<1>1. RoundsInv => EndsInTime
  BY DEF RoundsInv, EndsWhenItMust, EndsInTime
<1>2. QED
  BY <1>1, RoundsInvInit, RoundsStep, PTL DEF RoundsSpec

THEOREM RoundsTypesHold == RoundsSpec => []RoundsTypeOK
<1>1. RoundsInv => RoundsTypeOK
  <2> SUFFICES ASSUME RoundsInv
               PROVE  RoundsTypeOK
    OBVIOUS
  <2>1. topic \in RoundNodes /\ RoundsShape
    BY DEF RoundsInv, RoundsShape
  <2>2. rounds <= MaxRounds /\ rounds \in Nat
    BY <2>1, RoundNodeTypes
  <2>3. Turns \in {2, Circle} /\ Circle \in Nat \ {0} /\ MaxRounds \in Nat
    BY RoundsAssumption DEF Turns
  <2>4. round \in 0 .. MaxRounds /\ step \in 0 .. Circle
    BY <2>1, <2>2, <2>3, RoundsAssumption DEF RoundsShape
  <2>5. QED
    BY <2>1, <2>4 DEF RoundsShape, RoundsTypeOK
<1>2. QED
  BY <1>1, RoundsInvInit, RoundsStep, PTL DEF RoundsSpec

-----------------------------------------------------------------------------
(* What is computed from the agents in the order of the list.              *)

LEMMA PanelTypes ==
  Cardinality(Panel) \in Nat /\ IsFiniteSet(Panel) /\ Panel = 1 .. Cardinality(Panel)
BY PanelAssumption, FS_CardinalityType

\* The reduction finds one whom nobody beats, and no one before it equals.
LEMMA BestIsBest ==
  ASSUME NEW S, S \subseteq Panel, S # {}, NEW better,
         \A a, b \in S : <<a, b>> \in better => <<b, a>> \notin better,
         \A a, b, c \in S : <<a, c>> \in better => <<a, b>> \in better \/ <<b, c>> \in better
  PROVE  /\ Best(S, better) \in S
         /\ \A a \in S : /\ <<a, Best(S, better)>> \notin better
                         /\ a < Best(S, better) => <<Best(S, better), a>> \in better
<1> DEFINE N == Cardinality(Panel)
           IsBest(f) ==
             f = [a \in 0 .. N |->
                    IF a = 0 THEN First(S)
                    ELSE IF a \in S /\ <<a, f[a - 1]>> \in better THEN a ELSE f[a - 1]]
           compare == [a \in 1 .. N |->
                         [b \in S |-> IF a \in S /\ <<a, b>> \in better THEN a ELSE b]]
<1>1. N \in Nat /\ S \subseteq 1 .. N /\ S \subseteq Nat
  BY PanelTypes
<1>2. First(S) \in S /\ \A a \in S : First(S) <= a
  BY <1>1, MinIsLeast DEF First
<1>3. compare \in [1 .. N -> [S -> S]]
  OBVIOUS
<1> HIDE DEF N, compare
<1>4. PICK f : RunOf(f, N, S, First(S), compare)
  BY <1>1, <1>2, <1>3, RunsThrough
<1>5. IsBest(f)
  <2>1. f \in [0 .. N -> S]
    BY <1>4 DEF RunOf
  <2>2. ASSUME NEW a \in 0 .. N
        PROVE  f[a] = IF a = 0 THEN First(S)
                      ELSE IF a \in S /\ <<a, f[a - 1]>> \in better THEN a ELSE f[a - 1]
    <3>1. f[a] = IF a = 0 THEN First(S) ELSE compare[a][f[a - 1]]
      BY <1>4 DEF RunOf
    <3>2. a # 0 => a \in 1 .. N /\ f[a - 1] \in S
      BY <1>1, <2>1
    <3>3. QED
      BY <3>1, <3>2 DEF compare
  <2>3. QED
    BY <2>1, <2>2
<1> DEFINE chosen == CHOOSE g : IsBest(g)
<1> HIDE DEF IsBest
<1>6. IsBest(chosen)
  BY <1>5
<1>7. Best(S, better) = chosen[N]
  BY DEF Best, IsBest, N
<1> HIDE DEF chosen
<1>8. PICK g : g = chosen
  OBVIOUS
<1>9. g[0] = First(S) /\ \A a \in 1 .. N : g[a] = IF a \in S /\ <<a, g[a - 1]>> \in better
                                                  THEN a ELSE g[a - 1]
  <2>1. g = [a \in 0 .. N |->
               IF a = 0 THEN First(S)
               ELSE IF a \in S /\ <<a, g[a - 1]>> \in better THEN a ELSE g[a - 1]]
    <3>1. IsBest(g)
      BY <1>6, <1>8
    <3>2. QED
      BY <3>1 DEF IsBest
  <2>2. \A a \in 0 .. N : g[a] = IF a = 0 THEN First(S)
                                ELSE IF a \in S /\ <<a, g[a - 1]>> \in better THEN a ELSE g[a - 1]
    BY <2>1
  <2>3. 0 \in 0 .. N /\ \A a \in 1 .. N : a \in 0 .. N /\ a # 0
    BY <1>1
  <2>4. QED
    BY <2>2, <2>3
\* the best of those up to a, or the first if they are none
<1> DEFINE T == {a \in Nat : /\ g[a] \in S
                             /\ g[a] <= a \/ g[a] = First(S)
                             /\ \A b \in S : b <= a \/ b = First(S) =>
                                  /\ <<b, g[a]>> \notin better
                                  /\ b < g[a] => <<g[a], b>> \in better}
<1>10. 0 \in T
  <2>1. \A b \in S : b <= 0 \/ b = First(S) => b = First(S)
    BY <1>1
  <2>2. First(S) \in Nat /\ First(S) \in S
    BY <1>1, <1>2
  <2>3. <<First(S), First(S)>> \notin better /\ ~(First(S) < First(S))
    BY <2>2
  <2>4. QED
    BY <1>9, <2>1, <2>2, <2>3
<1>11. ASSUME NEW i \in 0 .. N - 1, i \in T
       PROVE  i + 1 \in T
  <2>1. PICK a, old : a = i + 1 /\ old = g[i]
    OBVIOUS
  <2>2. a \in 1 .. N /\ a - 1 = i /\ a \in Nat /\ i \in Nat
    BY <1>1, <2>1
  <2>3. /\ old \in S /\ (old <= i \/ old = First(S))
        /\ \A b \in S : b <= i \/ b = First(S) =>
             <<b, old>> \notin better /\ (b < old => <<old, b>> \in better)
    BY <1>11, <2>1
  <2>4. g[a] = IF a \in S /\ <<a, old>> \in better THEN a ELSE old
    BY <1>9, <2>1, <2>2
  <2>5. \A b \in S : b <= a => b <= i \/ b = a
    BY <1>1, <2>1, <2>2
  <2>6. CASE a \in S /\ <<a, old>> \in better
    <3>1. g[a] = a
      BY <2>4, <2>6
    <3>2. ASSUME NEW b \in S, b <= i \/ b = First(S), b # a
          PROVE  <<b, a>> \notin better /\ <<a, b>> \in better
      <4>1. <<b, old>> \notin better
        BY <2>3, <3>2
      <4>2. <<a, b>> \in better
        BY <2>3, <2>6, <4>1
      <4>3. QED
        BY <2>6, <4>2
    <3>3. <<a, a>> \notin better /\ ~(a < a)
      BY <2>2, <2>6
    <3>4. \A b \in S : b <= a \/ b = First(S) =>
            <<b, a>> \notin better /\ (b < a => <<a, b>> \in better)
      BY <2>5, <3>2, <3>3
    <3>5. QED
      BY <2>1, <2>2, <2>6, <3>1, <3>4
  <2>7. CASE ~(a \in S /\ <<a, old>> \in better)
    <3>1. g[a] = old
      BY <2>4, <2>7
    <3>2. a \in S => ~(a < old)
      BY <1>1, <1>2, <2>2, <2>3
    <3>3. old <= a \/ old = First(S)
      BY <1>1, <2>2, <2>3
    <3>4. ASSUME NEW b \in S, b <= a \/ b = First(S)
          PROVE  <<b, old>> \notin better /\ (b < old => <<old, b>> \in better)
      <4>1. CASE b <= i \/ b = First(S)
        BY <2>3, <4>1
      <4>2. CASE b = a
        BY <2>7, <3>2, <4>2
      <4>3. QED
        BY <2>5, <3>4, <4>1, <4>2
    <3>5. QED
      BY <2>1, <2>2, <2>3, <3>1, <3>3, <3>4
  <2>8. QED
    BY <2>6, <2>7
<1> HIDE DEF T
<1>12. \A i \in 0 .. N : i \in T
  BY <1>1, <1>10, <1>11, UpTo
<1>13. N \in T /\ \A b \in S : b <= N
  BY <1>1, <1>12
<1>14. QED
  BY <1>7, <1>8, <1>13 DEF T

\* The sum over some agents adds up their weights in order.
TotalsOf(w, S, f) ==
  /\ f \in [0 .. Cardinality(Panel) -> Nat]
  /\ f[0] = 0
  /\ \A a \in 1 .. Cardinality(Panel) : f[a] = f[a - 1] + IF a \in S THEN w[a] ELSE 0

LEMMA TotalAdds ==
  ASSUME NEW w \in [Panel -> Nat], NEW S, S \subseteq Panel
  PROVE  \E f : TotalsOf(w, S, f) /\ Total(w, S) = f[Cardinality(Panel)]
<1> DEFINE N == Cardinality(Panel)
           IsTotal(f) ==
             f = [a \in 0 .. N |-> IF a = 0 THEN 0 ELSE f[a - 1] + IF a \in S THEN w[a] ELSE 0]
           add == [a \in 1 .. N |-> [t \in Nat |-> t + IF a \in S THEN w[a] ELSE 0]]
<1>1. N \in Nat /\ Panel = 1 .. N
  BY PanelTypes
<1>2. add \in [1 .. N -> [Nat -> Nat]]
  BY <1>1
<1> HIDE DEF N, add
<1>3. PICK f : RunOf(f, N, Nat, 0, add)
  BY <1>1, <1>2, RunsThrough
<1>4. IsTotal(f)
  <2>1. f \in [0 .. N -> Nat]
    BY <1>3 DEF RunOf
  <2>2. ASSUME NEW a \in 0 .. N
        PROVE  f[a] = IF a = 0 THEN 0 ELSE f[a - 1] + IF a \in S THEN w[a] ELSE 0
    <3>1. f[a] = IF a = 0 THEN 0 ELSE add[a][f[a - 1]]
      BY <1>3 DEF RunOf
    <3>2. a # 0 => a \in 1 .. N /\ f[a - 1] \in Nat
      BY <1>1, <2>1
    <3>3. QED
      BY <3>1, <3>2 DEF add
  <2>3. QED
    BY <2>1, <2>2
<1> DEFINE total == CHOOSE g : IsTotal(g)
<1> HIDE DEF IsTotal
<1>5. IsTotal(total)
  BY <1>4
<1>6. Total(w, S) = total[N]
  BY DEF Total, IsTotal, N
<1> HIDE DEF total
<1>7. /\ total = [a \in 0 .. N |-> total[a]]
      /\ \A a \in 0 .. N :
           total[a] = IF a = 0 THEN 0 ELSE total[a - 1] + IF a \in S THEN w[a] ELSE 0
  BY <1>5 DEF IsTotal
<1>8. total[0] = 0
       /\ \A a \in 1 .. N : total[a] = total[a - 1] + IF a \in S THEN w[a] ELSE 0
  <2>1. 0 \in 0 .. N /\ \A a \in 1 .. N : a \in 0 .. N /\ a # 0
    BY <1>1
  <2>2. QED
    BY <1>7, <2>1
<1> DEFINE T == {a \in Nat : a \in 0 .. N => total[a] \in Nat}
<1>9. \A a \in 0 .. N : a \in T
  <2>1. 0 \in T
    BY <1>8
  <2>2. ASSUME NEW i \in 0 .. N - 1, i \in T
        PROVE  i + 1 \in T
    <3>1. PICK a : a = i + 1
      OBVIOUS
    <3>2. a \in 0 .. N /\ a # 0 /\ a - 1 = i /\ i \in 0 .. N /\ a \in Panel /\ a \in Nat
      BY <1>1, <3>1
    <3>3. total[a] = total[i] + IF a \in S THEN w[a] ELSE 0
      BY <1>7, <3>2
    <3>4. total[i] \in Nat /\ w[a] \in Nat
      BY <2>2, <3>2
    <3>5. QED
      BY <3>1, <3>2, <3>3, <3>4
  <2> HIDE DEF T
  <2>3. QED
    BY <1>1, <2>1, <2>2, UpTo
<1>10. TotalsOf(w, S, total)
  <2>1. total \in [0 .. N -> Nat]
    BY <1>7, <1>9
  <2>2. total[0] = 0 /\ \A a \in 1 .. N : total[a] = total[a - 1] + IF a \in S THEN w[a] ELSE 0
    BY <1>8
  <2>3. QED
    BY <2>1, <2>2 DEF TotalsOf, N
<1>11. QED
  BY <1>6, <1>10 DEF N

\* More agents weigh no less.
LEMMA TotalGrows ==
  ASSUME NEW w \in [Panel -> Nat], NEW R, NEW S, R \subseteq S, S \subseteq Panel
  PROVE  /\ Total(w, R) \in Nat /\ Total(w, S) \in Nat
         /\ Total(w, R) <= Total(w, S)
<1> DEFINE N == Cardinality(Panel)
<1>1. N \in Nat /\ Panel = 1 .. N
  BY PanelTypes
<1>2. PICK f : TotalsOf(w, R, f) /\ Total(w, R) = f[N]
  BY TotalAdds
<1>3. PICK g : TotalsOf(w, S, g) /\ Total(w, S) = g[N]
  BY TotalAdds
<1> DEFINE T == {a \in 0 .. N : f[a] <= g[a]}
<1>4. 0 \in T
  BY <1>1, <1>2, <1>3 DEF TotalsOf
<1>5. ASSUME NEW i \in 0 .. N - 1, i \in T
      PROVE  i + 1 \in T
  <2>1. PICK a : a = i + 1
    OBVIOUS
  <2>2. a \in 1 .. N /\ a - 1 = i /\ i \in 0 .. N /\ a \in Panel /\ a \in 0 .. N
    BY <1>1, <2>1
  <2>3. /\ f[a] = f[i] + IF a \in R THEN w[a] ELSE 0
        /\ g[a] = g[i] + IF a \in S THEN w[a] ELSE 0
    BY <1>2, <1>3, <2>2 DEF TotalsOf
  <2>4. f[i] \in Nat /\ g[i] \in Nat /\ w[a] \in Nat /\ f[i] <= g[i]
    BY <1>2, <1>3, <1>5, <2>2 DEF TotalsOf
  <2>5. QED
    BY <2>1, <2>2, <2>3, <2>4
<1> HIDE DEF T
<1>6. \A i \in 0 .. N : i \in T
  BY <1>1, <1>4, <1>5, UpTo
<1>7. N \in T
  BY <1>1, <1>6
<1>8. QED
  BY <1>1, <1>2, <1>3, <1>7 DEF T, TotalsOf

\* If each counts one, the sum is their number.
LEMMA TotalCounts ==
  ASSUME NEW w \in [Panel -> Nat], \A a \in Panel : w[a] = 1, NEW S, S \subseteq Panel
  PROVE  Total(w, S) = Cardinality(S)
<1> DEFINE N == Cardinality(Panel)
<1>1. N \in Nat /\ Panel = 1 .. N /\ IsFiniteSet(Panel)
  BY PanelTypes
<1>2. PICK f : TotalsOf(w, S, f) /\ Total(w, S) = f[N]
  BY TotalAdds
<1> DEFINE T == {a \in 0 .. N : f[a] = Cardinality({b \in S : b <= a})}
<1>3. 0 \in T
  <2>1. {b \in S : b <= 0} = {}
    BY <1>1
  <2>2. QED
    <3>1. f[0] = 0 /\ Cardinality({}) = 0 /\ 0 \in 0 .. N
      BY <1>1, <1>2, FS_EmptySet DEF TotalsOf
    <3>2. QED
      BY <2>1, <3>1
<1>4. ASSUME NEW i \in 0 .. N - 1, i \in T
      PROVE  i + 1 \in T
  <2>1. PICK a, Old : a = i + 1 /\ Old = {b \in S : b <= i}
    OBVIOUS
  <2>2. a \in 1 .. N /\ a - 1 = i /\ i \in 0 .. N /\ a \in Panel /\ a \in 0 .. N
    BY <1>1, <2>1
  <2>3. f[a] = f[i] + IF a \in S THEN 1 ELSE 0
    BY <1>2, <2>2 DEF TotalsOf
  <2>4. f[i] = Cardinality(Old) /\ f[i] \in Nat
    BY <1>2, <1>4, <2>1, <2>2 DEF TotalsOf
  <2>5. IsFiniteSet(Old) /\ a \notin Old
    <3>1. Old \in SUBSET Panel
      BY <2>1
    <3>2. QED
      BY <1>1, <2>1, <2>2, <3>1, FS_Subset
  <2>6. {b \in S : b <= a} = IF a \in S THEN Old \cup {a} ELSE Old
    <3>1. \A b \in S : b <= a <=> b <= i \/ b = a
      BY <1>1, <2>1, <2>2
    <3>2. QED
      BY <2>1, <3>1
  <2>7. Cardinality(Old \cup {a}) = Cardinality(Old) + 1
    BY <2>5, FS_AddElement
  <2>8. f[a] = Cardinality({b \in S : b <= a})
    <3>1. CASE a \in S
      BY <2>3, <2>4, <2>6, <2>7, <3>1
    <3>2. CASE a \notin S
      <4>1. f[a] = f[i]
        BY <2>3, <2>4, <3>2
      <4>2. {b \in S : b <= a} = Old
        BY <2>6, <3>2
      <4>3. QED
        BY <2>4, <4>1, <4>2
    <3>3. QED
      BY <3>1, <3>2
  <2>9. QED
    BY <2>1, <2>2, <2>8
<1> HIDE DEF T
<1>5. \A i \in 0 .. N : i \in T
  BY <1>1, <1>3, <1>4, UpTo
<1>6. N \in T /\ {b \in S : b <= N} = S
  BY <1>1, <1>5
<1>7. QED
  BY <1>2, <1>6 DEF T

-----------------------------------------------------------------------------
(* Votes.                                                                  *)

LEMMA AnswersAre ==
  ASSUME PanelTypeOK
  PROVE  /\ Answered \subseteq Panel /\ IsFiniteSet(Answered) /\ IsPanelNode(node)
         /\ \A a \in Answered : answer[a] \in AgentResults
         /\ \A S : S \subseteq Answered => IsFiniteSet(S) /\ Cardinality(S) \in Nat
<1>1. Answered \subseteq Panel /\ \A a \in Answered : answer[a] \in AgentResults
  BY DEF Answered, PanelTypeOK
<1>2. IsPanelNode(node)
  BY PanelAssumption DEF PanelTypeOK
<1>3. \A S : S \subseteq Answered => IsFiniteSet(S) /\ Cardinality(S) \in Nat
  BY <1>1, PanelTypes, FS_Subset, FS_CardinalityType
<1>4. QED
  BY <1>1, <1>2, <1>3

\* Two sets of voters that share nobody are together no more than all who answered.
LEMMA ApartInAnswered ==
  ASSUME PanelTypeOK, NEW S, S \subseteq Answered, NEW T, T \subseteq Answered \ S
  PROVE  /\ Cardinality(Answered \ S) = Cardinality(Answered) - Cardinality(S)
         /\ Cardinality(T) <= Cardinality(Answered) - Cardinality(S)
<1>1. Answered \cap S = S
  OBVIOUS
<1>2. Cardinality(Answered \ S) = Cardinality(Answered) - Cardinality(S) /\ IsFiniteSet(Answered \ S)
  BY <1>1, AnswersAre, FS_Difference
<1>3. Cardinality(T) <= Cardinality(Answered \ S)
  BY <1>2, FS_Subset
<1>4. QED
  BY <1>2, <1>3

\* The tally counts a value's votes, or their weights; some value has the most, and
\* there is a tie unless it is the only one.
LEMMA TallyIs ==
  ASSUME PanelTypeOK, node.kind = "vote", Answered # {}
  PROVE  /\ DOMAIN tally = {answer[a].output : a \in Answered}
         /\ \A v \in DOMAIN tally :
              /\ tally[v] \in Nat
              /\ node.ballot # "weighted" => tally[v] = Cardinality(Voters(v))
              /\ node.ballot = "weighted" => tally[v] = Given(Voters(v))
         /\ Leaders # {} /\ Leaders \subseteq DOMAIN tally
         /\ IsFiniteSet(DOMAIN tally)
<1> DEFINE w == [a \in Panel |-> Weight(a)]
<1>1. w \in [Panel -> Nat]
  BY AnswersAre DEF Weight, IsPanelNode
<1>2. DOMAIN tally = {answer[a].output : a \in Answered}
  BY DEF tally
<1>3. \A v \in DOMAIN tally : tally[v] = Total(w, Voters(v)) /\ Voters(v) \subseteq Panel
  BY AnswersAre DEF tally, Voters
<1>4. node.ballot # "weighted" => \A a \in Panel : w[a] = 1
  BY DEF Weight
<1>5. node.ballot = "weighted" => \A v : Given(Voters(v)) = Total(w, Voters(v))
  BY DEF Given, Weight
<1> HIDE DEF w
<1>6. ASSUME NEW v \in DOMAIN tally
      PROVE  /\ tally[v] \in Nat /\ tally[v] <= Total(w, Panel) /\ Total(w, Panel) \in Nat
             /\ node.ballot # "weighted" => tally[v] = Cardinality(Voters(v))
             /\ node.ballot = "weighted" => tally[v] = Given(Voters(v))
  <2>1. tally[v] = Total(w, Voters(v)) /\ Voters(v) \subseteq Panel
    BY <1>3
  <2>2. tally[v] \in Nat /\ tally[v] <= Total(w, Panel) /\ Total(w, Panel) \in Nat
    BY <1>1, <2>1, TotalGrows
  <2>3. node.ballot # "weighted" => tally[v] = Cardinality(Voters(v))
    BY <1>1, <1>4, <2>1, TotalCounts
  <2>4. QED
    BY <1>5, <2>1, <2>2, <2>3
<1>7. Leaders # {}
  <2> DEFINE T == {tally[v] : v \in DOMAIN tally}
  <2>1. T \subseteq Nat /\ T # {}
    <3>1. \E v : v \in DOMAIN tally
      BY <1>2
    <3>2. QED
      BY <1>6, <3>1
  <2>2. Total(w, Panel) \in Nat /\ \A t \in T : t <= Total(w, Panel)
    BY <1>2, <1>6
  <2>3. Max(T) \in T /\ \A t \in T : t <= Max(T)
    <3> HIDE DEF T
    <3>1. QED
      BY <2>1, <2>2, MaxIsGreatest
  <2>4. PICK v \in DOMAIN tally : tally[v] = Max(T)
    BY <2>3
  <2>5. \A u \in DOMAIN tally : tally[u] <= tally[v]
    BY <2>3, <2>4
  <2>6. QED
    BY <2>5 DEF Leaders
<1>8. IsFiniteSet(DOMAIN tally)
  <2> DEFINE says == [a \in Answered |-> answer[a].output]
  <2>1. says \in Surjection(Answered, DOMAIN tally)
    BY <1>2 DEF Surjection
  <2>2. IsFiniteSet(Answered)
    BY AnswersAre
  <2>3. QED
    BY <2>1, <2>2, FS_Surjection
<1>9. QED
  BY <1>2, <1>6, <1>7, <1>8 DEF Leaders

\* A set that is finite and not empty has one element or more than one.
LEMMA OneOrMore ==
  ASSUME NEW S, IsFiniteSet(S), S # {}
  PROVE  Cardinality(S) > 1 <=> ~\E x : S = {x}
<1>1. Cardinality(S) \in Nat /\ Cardinality(S) # 0
  BY FS_CardinalityType, FS_EmptySet
<1>2. Cardinality(S) = 1 <=> \E x : S = {x}
  BY FS_Singleton
<1>3. QED
  BY <1>1, <1>2

\* The ballot has a winner exactly if it elects a value, and that is the only leader.
LEMMA BallotElects ==
  ASSUME PanelTypeOK, node.kind = "vote", Answered # {}, NEW v \in DOMAIN tally
  PROVE  Elects(v) <=> ~BallotFails /\ Leaders = {v}
<1> DEFINE D == DOMAIN tally
           n == Cardinality(Answered)
<1>1. /\ D = {answer[a].output : a \in Answered} /\ IsFiniteSet(D)
      /\ Leaders # {} /\ Leaders \subseteq D /\ IsFiniteSet(Leaders)
      /\ \A u \in D : tally[u] \in Nat
  BY TallyIs, FS_Subset
<1>2. isTie <=> ~\E x : Leaders = {x}
  BY <1>1, OneOrMore DEF isTie
<1>3. Leaders = {v} <=> \A u \in D : u # v => tally[u] < tally[v]
  BY <1>1 DEF Leaders
<1>4. Leaders = {v} => topScore = tally[v]
  BY DEF topScore
<1>5. /\ n \in Nat /\ \A u : Voters(u) \subseteq Answered
      /\ \A u \in D : u # v => Voters(u) \subseteq Answered \ Voters(v)
      /\ \A a \in Answered \ Voters(v) : answer[a].output \in D /\ answer[a].output # v
      /\ \A u \in D : \E a \in Answered : answer[a].output = u
  BY <1>1, AnswersAre DEF Voters
<1>6. node.ballot \in {"majority", "weighted", "unanimous", "quorum"} /\ node.percent \in 0 .. 100
  BY AnswersAre DEF IsPanelNode
<1>7. CASE node.ballot = "majority"
  <2>1. \A u \in D : tally[u] = Cardinality(Voters(u))
    BY <1>7, TallyIs
  <2>2. Cardinality(Answered \ Voters(v)) = n - tally[v]
    BY <1>5, <2>1, ApartInAnswered
  <2>3. \A u \in D : u # v => tally[u] <= n - tally[v]
    <3>1. \A u \in D : u # v => Cardinality(Voters(u)) <= n - Cardinality(Voters(v))
      <4>1. SUFFICES ASSUME NEW u \in D, u # v
                     PROVE  Cardinality(Voters(u)) <= n - Cardinality(Voters(v))
        OBVIOUS
      <4>2. PICK R, Q : R = Voters(u) /\ Q = Voters(v)
        OBVIOUS
      <4>3. Q \subseteq Answered /\ R \subseteq Answered \ Q
        BY <1>5, <4>1, <4>2
      <4>4. QED
        BY <4>2, <4>3, ApartInAnswered
    <3>2. QED
      BY <2>1, <3>1
  <2>4. Elects(v) <=> tally[v] > n - tally[v]
    BY <1>7, <2>1, <2>2 DEF Elects
  <2>5. Elects(v) => Leaders = {v}
    BY <1>1, <1>3, <1>5, <2>3, <2>4
  <2>6. BallotFails <=> isTie \/ 2 * topScore <= n
    BY <1>7 DEF BallotFails
  <2>7. Leaders = {v} => (Elects(v) <=> ~BallotFails)
    <3> SUFFICES ASSUME Leaders = {v}
                 PROVE  Elects(v) <=> ~BallotFails
      OBVIOUS
    <3>1. ~isTie /\ topScore = tally[v]
      BY <1>2, <1>4
    <3>2. tally[v] \in Nat
      BY <1>1
    <3>3. QED
      BY <1>5, <2>4, <2>6, <3>1, <3>2
  <2>8. QED
    BY <2>5, <2>7
<1>8. CASE node.ballot = "weighted"
  <2>1. \A u \in D : tally[u] = Given(Voters(u))
    BY <1>8, TallyIs
  <2>2. Elects(v) <=> \A a \in Answered \ Voters(v) : tally[answer[a].output] < tally[v]
    BY <1>5, <1>8, <2>1 DEF Elects
  <2>3. (\A a \in Answered \ Voters(v) : tally[answer[a].output] < tally[v])
          <=> \A u \in D : u # v => tally[u] < tally[v]
    BY <1>5 DEF Voters
  <2>4. BallotFails <=> isTie
    BY <1>8 DEF BallotFails
  <2>5. QED
    BY <1>2, <1>3, <2>2, <2>3, <2>4
<1>9. CASE node.ballot = "unanimous"
  <2>1. Elects(v) <=> D = {v}
    <3>1. Elects(v) <=> Voters(v) = Answered
      BY <1>9 DEF Elects
    <3>2. Voters(v) = Answered => \A u \in D : u = v
      BY <1>5 DEF Voters
    <3>3. D = {v} => Voters(v) = Answered
      BY <1>1 DEF Voters
    <3>4. v \in D
      OBVIOUS
    <3>5. QED
      BY <3>1, <3>2, <3>3, <3>4
  <2>2. BallotFails <=> ~\E x : D = {x}
    BY <1>1, <1>9, OneOrMore DEF BallotFails
  <2>3. D = {v} => Leaders = {v}
    BY <1>1
  <2>4. QED
    BY <2>1, <2>2, <2>3
<1>10. CASE node.ballot = "quorum"
  <2>1. \A u \in D : tally[u] = Cardinality(Voters(u))
    BY <1>10, TallyIs
  <2>2. Elects(v) <=> /\ 100 * tally[v] >= node.percent * n
                      /\ \A a \in Answered \ Voters(v) : tally[answer[a].output] < tally[v]
    BY <1>5, <1>10, <2>1 DEF Elects
  <2>3. (\A a \in Answered \ Voters(v) : tally[answer[a].output] < tally[v])
          <=> \A u \in D : u # v => tally[u] < tally[v]
    BY <1>5 DEF Voters
  <2>4. BallotFails <=> isTie \/ 100 * topScore < node.percent * n
    BY <1>10 DEF BallotFails
  <2>5. PICK need : need = node.percent * n
    OBVIOUS
  <2>6. need \in Int /\ tally[v] \in Nat
    <3>1. \A p \in 0 .. 100 : \A k \in Nat : p * k \in Int
      OBVIOUS
    <3>2. QED
      BY <1>1, <1>5, <1>6, <2>5, <3>1
  <2>7. 100 * tally[v] >= need <=> ~(100 * tally[v] < need)
    BY <2>6
  <2>8. QED
    BY <1>2, <1>3, <1>4, <2>2, <2>3, <2>4, <2>5, <2>7
<1>11. QED
  BY <1>6, <1>7, <1>8, <1>9, <1>10

-----------------------------------------------------------------------------
(* Auctions, and all steps.                                                *)

Elected == {v \in {answer[a].output : a \in Answered} : Elects(v)}

\* Who was given up has not answered, and whom a vote or an auction asks it asks only when
\* the agents left it without a decision.
PanelInv ==
  /\ PanelTypeOK
  /\ \A a \in gaveUp : answer[a] = Failed
  /\ panelPc = "asking" /\ node.kind = "auction" => Bids = {}
  /\ panelPc = "asking" /\ node.kind = "vote" =>
       node.onTie = "judge" /\ Answered # {} /\ Elected = {}
  /\ DecidesByItsRule

\* The bids that are in time and within the reserve price.
LEMMA BidsAreEligible ==
  ASSUME \A a \in gaveUp : answer[a] = Failed
  PROVE  Bids = {a \in Answered \ gaveUp :
                   node.reserve # NoFigure /\ answer[a].usd # NoFigure
                     => answer[a].usd <= node.reserve}
BY DEF Bids, passesReservePrice, Answered

\* The best of the bids is a winner.
LEMMA BestOfBids ==
  ASSUME PanelTypeOK, node.kind = "auction", Bids # {}
  PROVE  LET winner == Best(Bids, Outbids)
         IN /\ winner \in Bids
            /\ \A a \in Bids : /\ <<a, winner>> \notin Outbids
                               /\ a < winner => <<winner, a>> \in Outbids
<1>1. /\ Bids \subseteq Panel
      /\ node.criteria \in {"lowest-cost", "fastest", "highest-confidence"}
      /\ \A a \in Bids : /\ answer[a].output \in Int \cup {NoFigure}
                         /\ answer[a].usd \in Nat \cup {NoFigure}
                         /\ answer[a].latency \in Nat \cup {NoFigure}
  BY AnswersAre, PanelAssumption DEF Bids, IsPanelNode
<1>2. NoFigure \notin Int
  BY PanelAssumption
<1>3. \A a, b, c \in Bids :
        /\ <<a, b>> \in Outbids => <<b, a>> \notin Outbids
        /\ <<a, c>> \in Outbids => <<a, b>> \in Outbids \/ <<b, c>> \in Outbids
  <2>1. CASE node.criteria = "lowest-cost"
    BY <1>1, <1>2, <2>1 DEF Outbids, Cheaper, Less
  <2>2. CASE node.criteria = "fastest"
    BY <1>1, <1>2, <2>2 DEF Outbids, Faster, Less
  <2>3. CASE node.criteria = "highest-confidence"
    BY <1>1, <1>2, <2>3 DEF Outbids
  <2>4. QED
    BY <1>1, <2>1, <2>2, <2>3
<1>4. QED
  BY <1>1, <1>3, BestIsBest

\* Nothing is decided before the handler returns.
LEMMA NotDecidedYet == panelPc # "returned" => DecidesByItsRule
BY DEF DecidesByItsRule, ElectedIsReturned, BestBidWins

LEMMA PanelInvInit == PanelInit => PanelInv
<1> SUFFICES ASSUME PanelInit
             PROVE  PanelInv
  OBVIOUS
<1>1. PanelTypeOK
  BY DEF PanelInit, PanelTypeOK, NoVerdict
<1>2. QED
  BY <1>1, NotDecidedYet DEF PanelInit, PanelInv

\* Answers, timeouts and late answers, while nothing is decided.
LEMMA AgentStepKeeps ==
  ASSUME PanelInv, NEW a \in Panel, AnswerArrives(a) \/ BidTimesOut(a) \/ LateAnswer(a)
  PROVE  PanelInv'
<1>1. CASE AnswerArrives(a) \/ BidTimesOut(a)
  <2>1. panelPc' = "agents" /\ node' = node /\ answer[a] = Pending
    BY <1>1 DEF AnswerArrives, BidTimesOut
  <2>2. PanelTypeOK'
    BY <1>1 DEF PanelInv, PanelTypeOK, AnswerArrives, BidTimesOut
  <2>3. \A b \in gaveUp' : answer'[b] = Failed
    <3>1. Pending # Failed
      BY DEF Pending, Failed
    <3>2. \A b \in gaveUp : b # a /\ answer[b] = Failed /\ b \in Panel
      BY <2>1, <3>1 DEF PanelInv, PanelTypeOK
    <3>3. \A b \in Panel : b # a => answer'[b] = answer[b]
      BY <1>1 DEF PanelInv, PanelTypeOK, AnswerArrives, BidTimesOut
    <3>4. CASE AnswerArrives(a)
      BY <3>2, <3>3, <3>4 DEF AnswerArrives
    <3>5. CASE BidTimesOut(a)
      <4>1. answer'[a] = Failed
        BY <3>5 DEF PanelInv, PanelTypeOK, BidTimesOut
      <4>2. QED
        BY <3>2, <3>3, <3>5, <4>1 DEF BidTimesOut
    <3>6. QED
      BY <1>1, <3>4, <3>5
  <2>4. DecidesByItsRule'
    BY <2>1 DEF DecidesByItsRule, ElectedIsReturned, BestBidWins
  <2>5. QED
    BY <2>1, <2>2, <2>3, <2>4 DEF PanelInv
<1>2. CASE LateAnswer(a)
  <2>1. UNCHANGED <<node, answer, panelPc, verdict, gaveUp>> /\ late' \subseteq late
    BY <1>2 DEF LateAnswer
  <2>2. /\ Answered' = Answered /\ Bids' = Bids /\ Outbids' = Outbids
        /\ \A v : Elects(v)' = Elects(v)
        /\ \A b : Won(b)' = Won(b)
    BY <2>1 DEF Answered, Bids, passesReservePrice, Outbids, Cheaper, Faster, Elects, Voters,
                Given, Won
  <2>3. DecidesByItsRule' = DecidesByItsRule /\ Elected' = Elected
    BY <2>1, <2>2 DEF DecidesByItsRule, ElectedIsReturned, BestBidWins, Elected
  <2>4. PanelTypeOK'
    BY <2>1 DEF PanelInv, PanelTypeOK
  <2>5. QED
    BY <2>1, <2>2, <2>3, <2>4 DEF PanelInv
<1>3. QED
  BY <1>1, <1>2

\* A handler that goes on changes its place and its outcome only.
LEMMA HandlerStepIs ==
  ASSUME PanelInv, UNCHANGED <<node, answer, late, gaveUp>>
  PROVE  /\ PanelTypeOK /\ node' = node
         /\ Answered' = Answered /\ Bids' = Bids /\ Outbids' = Outbids /\ Elected' = Elected
         /\ \A v : Elects(v)' = Elects(v)
         /\ \A b : Won(b)' = Won(b)
         /\ panelPc' \in {"agents", "asking", "returned", "rejected"}
            /\ verdict'.kind \in {"none", "ok", "paused", "failed"} => PanelTypeOK'
         /\ \A b \in gaveUp' : answer'[b] = Failed
BY DEF PanelInv, PanelTypeOK, Answered, Bids, passesReservePrice, Outbids, Cheaper, Faster,
       Elected, Elects, Voters, Given, Won

LEMMA CompareKeeps == PanelInv /\ (Compare \/ CompareJudged) => PanelInv'
<1> SUFFICES ASSUME PanelInv, Compare \/ CompareJudged
             PROVE  PanelInv'
  OBVIOUS
<1>1. UNCHANGED <<node, answer, late, gaveUp>> /\ node.kind = "compare"
  BY DEF Compare, CompareJudged
<1>2. PanelTypeOK /\ node' = node /\ \A b \in gaveUp' : answer'[b] = Failed
  BY <1>1, HandlerStepIs
<1>3. \/ panelPc' = "returned" /\ verdict'.kind \in {"ok", "paused", "failed"}
      \/ panelPc' \in {"asking", "rejected"} /\ verdict' = verdict
  BY DEF Compare, CompareJudged, Returns, Asks, Rejects, OkValue, Won, PausedForHuman, NodeFailed
<1>4. PanelTypeOK'
  BY <1>1, <1>2, <1>3, HandlerStepIs DEF PanelTypeOK
<1>5. DecidesByItsRule'
  BY <1>1, <1>2 DEF DecidesByItsRule, ElectedIsReturned, BestBidWins
<1>6. QED
  BY <1>1, <1>2, <1>4, <1>5 DEF PanelInv

\* The vote counts all who answered and returns what is elected.
LEMMA VoteKeeps == PanelInv /\ Vote => PanelInv'
<1> SUFFICES ASSUME PanelInv, Vote
             PROVE  PanelInv'
  OBVIOUS
<1>1. UNCHANGED <<node, answer, late, gaveUp>> /\ node.kind = "vote"
  BY DEF Vote
<1>2. /\ PanelTypeOK /\ node' = node /\ (\A b \in gaveUp' : answer'[b] = Failed)
      /\ Elected' = Elected /\ Answered' = Answered /\ answer' = answer
  BY <1>1, HandlerStepIs
<1>3. CASE Answered = {}
  <2>1. panelPc' = "returned" /\ verdict' = NodeFailed
    BY <1>3 DEF Vote, Returns
  <2>2. PanelTypeOK'
    BY <1>1, <2>1, HandlerStepIs DEF NodeFailed
  <2>3. DecidesByItsRule'
    BY <1>1, <1>2, <1>3 DEF DecidesByItsRule, ElectedIsReturned, BestBidWins
  <2>4. QED
    BY <1>1, <1>2, <2>1, <2>2, <2>3 DEF PanelInv
<1>4. CASE Answered # {} /\ ~BallotFails
  <2>1. resolveWinner
    BY <1>4 DEF Vote
  <2>2. PICK v : v = CHOOSE w \in Leaders : TRUE
    OBVIOUS
  <2>3. v \in Leaders /\ DOMAIN tally = {answer[a].output : a \in Answered} /\ Leaders \subseteq DOMAIN tally
    BY <1>1, <1>2, <1>4, <2>2, TallyIs
  <2>4. Elected \subseteq {v}
    BY <1>1, <1>2, <1>4, <2>3, BallotElects DEF Elected
  <2>5. \/ panelPc' = "returned" /\ verdict' = OkValue(v)
        \/ panelPc' = "rejected" /\ verdict' = verdict
    BY <2>1, <2>2 DEF resolveWinner, Returns, Rejects
  <2>6. Elected # {}
    <3>1. \E x : Leaders = {x}
      <4>1. CASE node.ballot = "unanimous"
        <5>1. IsFiniteSet(DOMAIN tally) /\ DOMAIN tally # {}
          BY <1>1, <1>2, <1>4, <2>3, TallyIs
        <5>2. PICK x : DOMAIN tally = {x}
          BY <1>4, <4>1, <5>1, OneOrMore DEF BallotFails
        <5>3. QED
          BY <2>3, <5>2
      <4>2. CASE node.ballot # "unanimous"
        <5>1. ~isTie
          BY <1>1, <1>2, <1>4, <4>2, AnswersAre DEF BallotFails, IsPanelNode
        <5>2. IsFiniteSet(Leaders) /\ Leaders # {}
          BY <1>1, <1>2, <1>4, <2>3, TallyIs, FS_Subset
        <5>3. QED
          BY <5>1, <5>2, OneOrMore DEF isTie
      <4>3. QED
        BY <4>1, <4>2
    <3>2. Leaders = {v}
      BY <2>3, <3>1
    <3>3. Elects(v)
      BY <1>1, <1>2, <1>4, <2>3, <3>2, BallotElects
    <3>4. QED
      BY <2>3, <3>3 DEF Elected
  <2>7. PanelTypeOK'
    BY <1>1, <1>2, <2>5, HandlerStepIs DEF PanelTypeOK, OkValue
  <2>8. ElectedIsReturned'
    <3>1. panelPc' = "returned" => Elected' # {} /\ \A u \in Elected' : verdict' = OkValue(u)
      BY <1>2, <2>4, <2>5, <2>6
    <3>2. QED
      BY <3>1 DEF ElectedIsReturned, Elected
  <2>9. BestBidWins'
    BY <1>1 DEF BestBidWins
  <2>10. QED
    BY <1>1, <1>2, <2>5, <2>7, <2>8, <2>9 DEF PanelInv, DecidesByItsRule
<1>5. CASE Answered # {} /\ BallotFails
  <2>1. handleTie
    BY <1>5 DEF Vote
  <2>2. Elected = {}
    <3>1. DOMAIN tally = {answer[a].output : a \in Answered}
      BY <1>1, <1>2, <1>5, TallyIs
    <3>2. QED
      BY <1>1, <1>2, <1>5, <3>1, BallotElects DEF Elected
  <2>3. \/ /\ panelPc' = "returned"
           /\ verdict' \in {PausedForHuman,
                            IF node.onTie = "first" THEN OkValue(answer[First(Answered)].output)
                            ELSE OkValue(OwnValue)}
           /\ verdict'.kind \in {"ok", "paused"}
        \/ panelPc' = "asking" /\ verdict' = verdict /\ node.onTie = "judge"
    BY <2>1 DEF handleTie, Returns, Asks, PausedForHuman, OkValue
  <2>4. PanelTypeOK'
    BY <1>1, <1>2, <2>3, HandlerStepIs DEF PanelTypeOK
  <2>5. ElectedIsReturned'
    <3>1. First(Answered)' = First(Answered)
      BY <1>2
    <3>2. Elected' = {} /\ node' = node /\ answer' = answer
      BY <1>1, <1>2, <2>2
    <3>3. QED
      BY <2>3, <3>1, <3>2 DEF ElectedIsReturned, Elected, OkValue, PausedForHuman
  <2>6. BestBidWins'
    BY <1>1 DEF BestBidWins
  <2>7. panelPc' = "asking" => (node.onTie = "judge" /\ Answered # {} /\ Elected = {})'
    BY <1>2, <1>5, <2>2, <2>3
  <2>8. QED
    BY <1>1, <1>2, <2>4, <2>5, <2>6, <2>7 DEF PanelInv, DecidesByItsRule
<1>6. QED
  BY <1>3, <1>4, <1>5

LEMMA VoteJudgedKeeps == PanelInv /\ VoteJudged => PanelInv'
<1> SUFFICES ASSUME PanelInv, VoteJudged
             PROVE  PanelInv'
  OBVIOUS
<1>1. UNCHANGED <<node, answer, late, gaveUp>> /\ node.kind = "vote" /\ panelPc = "asking"
  BY DEF VoteJudged
<1>2. /\ PanelTypeOK /\ node' = node /\ (\A b \in gaveUp' : answer'[b] = Failed)
      /\ Elected' = Elected /\ Elected = {} /\ node.onTie = "judge"
  BY <1>1, HandlerStepIs DEF PanelInv
<1>3. \/ panelPc' = "returned" /\ verdict' = OkValue(OwnValue)
      \/ panelPc' = "rejected" /\ verdict' = verdict
  BY DEF VoteJudged, Returns, Rejects
<1>4. PanelTypeOK'
  BY <1>1, <1>2, <1>3, HandlerStepIs DEF PanelTypeOK, OkValue
<1>5. ElectedIsReturned'
  <2>1. Elected' = {} /\ node'.onTie # "first"
    BY <1>2
  <2>2. QED
    BY <1>3, <2>1 DEF ElectedIsReturned, Elected
<1>6. BestBidWins'
  BY <1>1 DEF BestBidWins
<1>7. QED
  BY <1>1, <1>2, <1>3, <1>4, <1>5, <1>6 DEF PanelInv, DecidesByItsRule

\* The auction is decided among the bids, or left to the fallback if there are none.
LEMMA AuctionKeeps == PanelInv /\ (Auction \/ FallbackAnswers) => PanelInv'
<1> SUFFICES ASSUME PanelInv, Auction \/ FallbackAnswers
             PROVE  PanelInv'
  OBVIOUS
<1>1. UNCHANGED <<node, answer, late, gaveUp>> /\ node.kind = "auction"
  BY DEF Auction, FallbackAnswers
<1>2. /\ PanelTypeOK /\ node' = node /\ (\A b \in gaveUp' : answer'[b] = Failed)
      /\ Bids' = Bids /\ Outbids' = Outbids /\ \A b : Won(b)' = Won(b)
  BY <1>1, HandlerStepIs
<1> DEFINE eligible == {a \in Answered \ gaveUp :
                          node.reserve # NoFigure /\ answer[a].usd # NoFigure
                            => answer[a].usd <= node.reserve}
<1>3. Bids = eligible
  BY BidsAreEligible DEF PanelInv
<1>4. eligible' = eligible
  BY <1>1 DEF Answered
<1> HIDE DEF eligible
<1>5. \/ /\ Bids # {} /\ panelPc' = "returned" /\ verdict' = Won(Best(Bids, Outbids))
      \/ /\ Bids = {}
         /\ \/ panelPc' = "returned" /\ verdict' \in {OkValue(OwnValue), NodeFailed}
            \/ panelPc' \in {"asking", "rejected"} /\ verdict' = verdict
  BY <1>1 DEF PanelInv, Auction, FallbackAnswers, Returns, Asks, Rejects
<1>6. PanelTypeOK'
  BY <1>1, <1>2, <1>5, HandlerStepIs DEF PanelTypeOK, OkValue, Won, NodeFailed
<1>7. BestBidWins'
  <2>1. CASE Bids # {}
    <3>1. PICK w : w = Best(Bids, Outbids)
      OBVIOUS
    <3>2. /\ w \in Bids
          /\ \A a \in Bids : <<a, w>> \notin Outbids /\ (a < w => <<w, a>> \in Outbids)
      BY <1>1, <1>2, <2>1, <3>1, BestOfBids
    <3>3. verdict' = Won(w) /\ verdict'.winner = w
      BY <1>5, <2>1, <3>1 DEF Won
    <3>4. "winner" \in DOMAIN verdict'
      BY <3>3 DEF Won
    <3>5. /\ verdict'.winner \in eligible' /\ (verdict = Won(verdict.winner))'
          /\ \A a \in eligible' : /\ <<a, verdict'.winner>> \notin Outbids'
                                  /\ a < verdict'.winner => <<verdict'.winner, a>> \in Outbids'
      <4>1. (verdict = Won(verdict.winner))'
        BY <1>1, <3>3 DEF Won
      <4>2. QED
        BY <1>2, <1>3, <1>4, <3>2, <3>3, <4>1
    <3>6. QED
      BY <3>4, <3>5 DEF BestBidWins, eligible
  <2>2. CASE Bids = {}
    <3>1. eligible' = {}
      BY <1>3, <1>4, <2>2
    <3>2. panelPc' = "returned" => verdict' \in {OkValue(OwnValue), NodeFailed}
      BY <1>5, <2>2
    <3>3. "winner" \notin DOMAIN OkValue(OwnValue) /\ "winner" \notin DOMAIN NodeFailed
      BY DEF OkValue, NodeFailed
    <3>4. QED
      BY <3>1, <3>2, <3>3 DEF BestBidWins, eligible
  <2>3. QED
    BY <2>1, <2>2
<1>8. ElectedIsReturned'
  BY <1>1 DEF ElectedIsReturned
<1>9. panelPc' = "asking" => Bids' = {}
  BY <1>2, <1>5
<1>10. QED
  BY <1>1, <1>2, <1>6, <1>7, <1>8, <1>9 DEF PanelInv, DecidesByItsRule

LEMMA PanelStep == PanelInv /\ [PanelNext]_panelVars => PanelInv'
<1> SUFFICES ASSUME PanelInv, [PanelNext]_panelVars
             PROVE  PanelInv'
  OBVIOUS
<1>1. CASE Compare \/ CompareJudged
  BY <1>1, CompareKeeps
<1>2. CASE Vote
  BY <1>2, VoteKeeps
<1>3. CASE VoteJudged
  BY <1>3, VoteJudgedKeeps
<1>4. CASE Auction \/ FallbackAnswers
  BY <1>4, AuctionKeeps
<1>5. CASE \E a \in Panel : AnswerArrives(a) \/ BidTimesOut(a) \/ LateAnswer(a)
  BY <1>5, AgentStepKeeps
<1>6. CASE UNCHANGED panelVars
  <2>1. UNCHANGED <<node, answer, late, panelPc, verdict, gaveUp>>
    BY <1>6 DEF panelVars
  <2>2. /\ Answered' = Answered /\ Bids' = Bids /\ Outbids' = Outbids
        /\ \A v : Elects(v)' = Elects(v)
        /\ \A b : Won(b)' = Won(b)
    BY <2>1, HandlerStepIs
  <2>3. DecidesByItsRule' = DecidesByItsRule /\ Elected' = Elected
    BY <2>1, <2>2 DEF DecidesByItsRule, ElectedIsReturned, BestBidWins, Elected
  <2>4. QED
    BY <2>1, <2>2, <2>3 DEF PanelInv, PanelTypeOK
<1>7. QED
  BY <1>1, <1>2, <1>3, <1>4, <1>5, <1>6 DEF PanelNext, PanelHandler

\* A vote returns the value its ballot elects whenever there is one, and an auction is won
\* by the best bid that came in time: whatever the order of answers, ties and late bids,
\* for any number of agents, any weights and any reserve price.
THEOREM PanelsDecideByTheirRule == PanelSpec => []DecidesByItsRule
<1>1. PanelInv => DecidesByItsRule
  BY DEF PanelInv
<1>2. QED
  BY <1>1, PanelInvInit, PanelStep, PTL DEF PanelSpec

\* A panel's answers stay what agents may answer, and only bidders that were given up are
\* late.
THEOREM PanelTypesHold == PanelSpec => []PanelTypeOK
<1>1. PanelInv => PanelTypeOK
  BY DEF PanelInv
<1>2. QED
  BY <1>1, PanelInvInit, PanelStep, PTL DEF PanelSpec
=============================================================================
