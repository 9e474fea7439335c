---------------------------- MODULE FlowProgress ----------------------------
(***************************************************************************)
(* What running a flow means, whoever runs it: nodes are decided one at a  *)
(* time, always the first one in topological order that the outcomes so    *)
(* far enable and that is not yet decided; a failed or paused node ends    *)
(* the run.  FlowRunner and DurableFlow are checked to implement it.       *)
(***************************************************************************)
EXTENDS FlowGraph

VARIABLES flow,    \* the flow being run
          sorted,  \* its nodes in topological order
          done     \* the outcomes of the decided nodes

\* The nodes that may be decided: the entry, then the targets of open edges.
Enabled(f, outcomes) ==
  IF outcomes = <<>> THEN {f.entry} ELSE Opened(f, outcomes) \ DOMAIN outcomes

Init == sorted = topoOrder(flow) /\ done = <<>>

Decide(outcome) ==
  /\ \A n \in DOMAIN done : done[n] \notin {"failed", "paused"}
  /\ \E i \in DOMAIN sorted :
       /\ sorted[i] \in Enabled(flow, done)
       /\ \A j \in 1 .. i - 1 : sorted[j] \notin Enabled(flow, done)
       /\ done' = WithOutcome(done, sorted[i], outcome)
  /\ UNCHANGED <<flow, sorted>>

Next == \E outcome \in Outcome : Decide(outcome)

Spec == Init /\ [][Next]_<<flow, sorted, done>>
=============================================================================
