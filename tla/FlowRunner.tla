----------------------------- MODULE FlowRunner -----------------------------
(***************************************************************************)
(* runFlow of os-flow's runner.ts: one pass over the topological order of  *)
(* a flow, executing the nodes that earlier outcomes enabled.  An action   *)
(* is the code between two awaits (the debugger's beforeNode, the node's   *)
(* handler, the checkpoint callback); the abort signal may be raised       *)
(* between any two of them.                                                *)
(*                                                                         *)
(* What is decided outside the runner is chosen here: handler results, the *)
(* debugger's decisions, the verdicts of the workspace policy and of the   *)
(* determinism check.                                                      *)
(***************************************************************************)
EXTENDS FlowGraph

CONSTANTS
  Flows,     \* the flows a run may be started with
  Calls,     \* the options of a run: [mode, hosted, gated, debugged] records
  EveryN,    \* snapshot every N executed nodes (opts.snapshot.everyN)
  None       \* undefined

ASSUME RunnerAssumption == EveryN \in Nat \ {0}

Statuses == {"completed", "failed", "paused", "skipped", "cancelled", "threw"}

\* The ids of a flow are names; undefined is neither an id nor a status.
ASSUME FlowsAssumption ==
  /\ \A f \in Flows : f.nodes \in Seq(Nat) /\ None \notin Ids(f)
  /\ None \notin Statuses

VARIABLES
  flow,       \* the flow
  call,       \* the options it is run with
  seeds,      \* opts.seedOutcomes
  sorted,     \* the nodes in topological order (sorted.order)
  pc,         \* "called", "visit", "beforeNode", "handler", "checkpoint", "returned"
  node,       \* the node the loop is at
  outcomes,   \* the outcomes map
  executed,   \* the nodes executed, in order
  enabled,    \* the enabled set
  aborted,    \* opts.signal.aborted
  result,     \* what runFlow returned: [status, stoppedAt, reason]
  snapshot    \* the last snapshot emitted: [executed, outcomes, enabled]

vars == <<flow, call, seeds, sorted, pc, node, outcomes, executed, enabled,
          aborted, result, snapshot>>

NodeKinds == {"agent", "tool", "condition", "llm-branch"}

\* defaultStubHandlers: what a node kind comes to in a mode without effects
StubOutcome == [agent |-> "skipped", tool |-> "skipped", condition |-> "ok"]

StubModes == {"preview", "dry_run", "replay", "simulate"}

\* applyModeStubs: the kinds that have some handler in this call
HandledKinds ==
  call.hosted \cup IF call.mode \in StubModes THEN DOMAIN StubOutcome ELSE {}

\* Mutant of HandlerOutcomes: a throw is not turned into a failed outcome.
HandlerOutcomesUncaught(kind) ==
  IF kind \in call.hosted THEN Outcome \cup {None} ELSE {StubOutcome[kind]}

\* what running a node's handler may come to; a throw becomes "failed"
HandlerOutcomes(kind) ==
  IF kind \in call.hosted THEN Outcome ELSE {StubOutcome[kind]}

NoResult == [status |-> None, stoppedAt |-> None, reason |-> None]

Return(status, at, reason) ==
  /\ pc' = "returned"
  /\ result' = [status |-> status, stoppedAt |-> at, reason |-> reason]

Init ==
  /\ flow \in Flows
  /\ call \in Calls
  /\ seeds = <<>>
  /\ sorted = topoOrder(flow)
  /\ pc = "called"
  /\ node = None
  /\ outcomes = <<>>
  /\ executed = <<>>
  /\ enabled = {}
  /\ aborted \in BOOLEAN
  /\ result = NoResult
  /\ snapshot = None

-----------------------------------------------------------------------------
\* the checks before the loop, and the seeding of outcomes and enabled set
Start ==
  /\ pc = "called"
  /\ \/ aborted /\ Return("cancelled", None, "os.flow.cancelled")
     \/ ~aborted /\ auditGraph(flow) # {} /\ Return("failed", None, "graph_audit")
     \/ ~aborted /\ auditGraph(flow) = {} /\ call.gated
          /\ Return("failed", None, "policy.workspace_blocked")
     \/ ~aborted /\ auditGraph(flow) = {} /\ call.mode = "deterministic"
          /\ Return("failed", None, "flow.determinism_violation")
  /\ UNCHANGED <<flow, call, seeds, sorted, node, outcomes, executed, enabled, aborted, snapshot>>

Begin ==
  /\ pc = "called"
  /\ ~aborted
  /\ auditGraph(flow) = {}
  /\ pc' = "visit"
  /\ outcomes' = seeds
  /\ enabled' = SeedsEnable(flow, seeds)
  /\ UNCHANGED <<flow, call, seeds, sorted, node, executed, aborted, result, snapshot>>

\* the nodes of the order that the loop has not passed yet
Ahead ==
  LET at == IF node = None THEN 0 ELSE CHOOSE i \in DOMAIN sorted : sorted[i] = node
  IN SubSeq(sorted, at + 1, Len(sorted))

\* the positions ahead that the loop does not skip
Due == {i \in DOMAIN Ahead : Ahead[i] \in enabled \ DOMAIN outcomes}

\* Mutants of Visit: an aborted run waits; it names the node it was at last.
VisitUnlessAborted ==
  /\ pc = "visit"
  /\ Due # {}
  /\ ~aborted
  /\ pc' = "beforeNode" /\ node' = Ahead[Min(Due)]
  /\ UNCHANGED <<flow, call, seeds, sorted, outcomes, executed, enabled, aborted,
                 result, snapshot>>

VisitStopsBehind ==
  \/ VisitUnlessAborted
  \/ /\ pc = "visit"
     /\ Due # {}
     /\ aborted
     /\ Return("cancelled", node, "os.flow.cancelled")
     /\ UNCHANGED <<flow, call, seeds, sorted, node, outcomes, executed, enabled, aborted, snapshot>>

\* go on to the next enabled node, unless the run was aborted
Visit ==
  /\ pc = "visit"
  /\ Due # {}
  /\ IF aborted
     THEN Return("cancelled", Ahead[Min(Due)], "os.flow.cancelled") /\ UNCHANGED node
     ELSE pc' = "beforeNode" /\ node' = Ahead[Min(Due)] /\ UNCHANGED result
  /\ UNCHANGED <<flow, call, seeds, sorted, outcomes, executed, enabled, aborted, snapshot>>

\* the order is exhausted
Finish ==
  /\ pc = "visit"
  /\ Due = {}
  /\ LET allSkipped == /\ executed # <<>>
                       /\ \A n \in ToSet(executed) : outcomes[n] = "skipped"
     IN Return(IF allSkipped THEN "skipped" ELSE "completed", None, None)
  /\ UNCHANGED <<flow, call, seeds, sorted, node, outcomes, executed, enabled, aborted, snapshot>>

\* the outcome is known: record it, and call the checkpoint callback
Settle(outcome, why) ==
  /\ outcomes' = WithOutcome(outcomes, node, outcome)
  /\ executed' = Append(executed, node)
  /\ pc' = "checkpoint"
  /\ result' = [result EXCEPT !.reason = why]
  /\ UNCHANGED <<flow, call, seeds, sorted, node, enabled, aborted, snapshot>>

\* the debugger pauses the run before the node
DebuggerPauses ==
  /\ pc = "beforeNode"
  /\ call.debugged
  /\ \E reason \in {"breakpoint", "manual", "step"} : Return("paused", node, reason)
  /\ UNCHANGED <<flow, call, seeds, sorted, node, outcomes, executed, enabled, aborted, snapshot>>

\* the debugger answers with a mock outcome for the node
DebuggerMocks ==
  /\ pc = "beforeNode"
  /\ call.debugged
  /\ \E outcome \in Outcome : Settle(outcome, None)

\* the debugger lets the node run: without a handler it fails, a tool node
\* may be denied or held for approval by the policy, else its handler is called
RunNode ==
  /\ pc = "beforeNode"
  /\ \/ flow.kind[node] \notin HandledKinds /\ Settle("failed", "flow.handler_missing")
     \/ /\ flow.kind[node] \in HandledKinds \cap {"tool"}
        /\ call.gated
        /\ Settle("failed", "policy.tool_denied") \/ Settle("paused", "hitl")
     \/ /\ flow.kind[node] \in HandledKinds
        /\ pc' = "handler"
        /\ UNCHANGED <<flow, call, seeds, sorted, node, outcomes, executed, enabled,
                       aborted, result, snapshot>>

\* the handler resolves or throws
HandlerSettles ==
  /\ pc = "handler"
  /\ \E outcome \in HandlerOutcomes(flow.kind[node]) : Settle(outcome, None)

\* Mutant of Capture: the node is added to executed after the capture.
CaptureEarly ==
  snapshot' = IF Len(executed) % EveryN = 0
              THEN [executed |-> Front(executed), outcomes |-> outcomes, enabled |-> enabled]
              ELSE snapshot

\* buildSnapshotEmitter: every EveryN-th executed node is captured
Capture ==
  snapshot' = IF Len(executed) % EveryN = 0
              THEN [executed |-> executed, outcomes |-> outcomes, enabled |-> enabled]
              ELSE snapshot

\* Mutants of Checkpointed: a paused node does not stop the run; every target is
\* enabled whatever the outcome.
CheckpointedPausedGoesOn ==
  /\ pc = "checkpoint"
  /\ Capture
  /\ IF outcomes[node] = "failed"
     THEN Return("failed", node, result.reason) /\ UNCHANGED enabled
     ELSE /\ enabled' = enabled \cup Opened(flow, outcomes)
          /\ pc' = "visit"
          /\ result' = NoResult
  /\ UNCHANGED <<flow, call, seeds, sorted, node, outcomes, executed, aborted>>

CheckpointedEnablesAll ==
  /\ pc = "checkpoint"
  /\ Capture
  /\ IF outcomes[node] \in {"failed", "paused"}
     THEN Return(outcomes[node], node, result.reason) /\ UNCHANGED enabled
     ELSE /\ enabled' = enabled \cup {e.to : e \in EdgesFrom(flow, node)}
          /\ pc' = "visit"
          /\ result' = NoResult
  /\ UNCHANGED <<flow, call, seeds, sorted, node, outcomes, executed, aborted>>

\* the checkpoint resolved: capture, then stop at a failed or paused node or
\* enable the targets of the edges the outcome matches
Checkpointed ==
  /\ pc = "checkpoint"
  /\ Capture
  /\ IF outcomes[node] \in {"failed", "paused"}
     THEN Return(outcomes[node], node, result.reason) /\ UNCHANGED enabled
     ELSE /\ enabled' = enabled \cup
               {e.to : e \in {d \in EdgesFrom(flow, node) : edgeMatches(d.on, outcomes[node])}}
          /\ pc' = "visit"
          /\ result' = NoResult
  /\ UNCHANGED <<flow, call, seeds, sorted, node, outcomes, executed, aborted>>

\* the checkpoint callback rejects and so does runFlow
CheckpointThrows ==
  /\ pc = "checkpoint"
  /\ Return("threw", node, None)
  /\ UNCHANGED <<flow, call, seeds, sorted, node, outcomes, executed, enabled, aborted, snapshot>>

\* the caller raises the abort signal
Abort ==
  /\ pc # "returned"
  /\ ~aborted
  /\ aborted' = TRUE
  /\ UNCHANGED <<flow, call, seeds, sorted, pc, node, outcomes, executed, enabled, result, snapshot>>

-----------------------------------------------------------------------------
RunnerStep ==
  \/ Start \/ Begin \/ Visit \/ Finish
  \/ DebuggerPauses \/ DebuggerMocks \/ RunNode \/ HandlerSettles
  \/ Checkpointed \/ CheckpointThrows

Next == RunnerStep \/ Abort

Spec == Init /\ [][Next]_vars

(* The awaits of the runner settle: handlers, debugger and checkpoint       *)
(* answer.  Nobody has to abort.                                           *)
FairSpec == Spec /\ WF_vars(RunnerStep)

-----------------------------------------------------------------------------
(* Properties                                                              *)

NodesOf == Ids(flow)

\* The type invariant of a run.
TypeOK ==
  /\ pc \in {"called", "visit", "beforeNode", "handler", "checkpoint", "returned"}
  /\ node \in NodesOf \cup {None}
  /\ DOMAIN outcomes \subseteq NodesOf /\ \A n \in DOMAIN outcomes : outcomes[n] \in Outcome
  /\ executed \in Seq(NodesOf)
  /\ enabled \subseteq NodesOf \cup {flow.entry}
  /\ aborted \in BOOLEAN
  /\ result.status \in Statuses \cup {None}
  /\ result.stoppedAt \in NodesOf \cup {None}

\* A run that completes has decided every node that its outcomes open: one
\* pass over the order suffices, no node is enabled behind the loop's back.
NothingLeftBehind ==
  result.status \in {"completed", "skipped"} => Opened(flow, outcomes) \subseteq DOMAIN outcomes

\* A node runs at most once in a run, and a seeded node never.
RunsOnce ==
  /\ Cardinality(ToSet(executed)) = Len(executed)
  /\ ToSet(executed) \cap DOMAIN seeds = {}

\* The status tells what happened: only the last executed node may have failed
\* or paused, the run then ends there with that status, and a run that
\* completes or is cancelled between nodes has neither.
StatusTellsOutcomes ==
  LET stopped == {n \in DOMAIN outcomes \ DOMAIN seeds : outcomes[n] \in {"failed", "paused"}}
  IN /\ \A n \in stopped : n = Last(executed)
     /\ result.status \in {"completed", "skipped", "cancelled"} => stopped = {}
     /\ result.status \in {"failed", "paused"} /\ stopped # {} =>
          /\ result.stoppedAt \in stopped
          /\ result.status = outcomes[result.stoppedAt]

\* No node runs twice, and the status tells what the nodes came to, wherever the run was
\* stopped, refused or aborted.
RunsAsItTells == RunsOnce /\ StatusTellsOutcomes

\* The snapshot a run leaves behind is a state the run was in: the executed
\* order is a prefix of the run's, and its outcomes are the seeds and exactly
\* those of that prefix.
SnapshotOfThePast ==
  snapshot # None =>
    /\ IsPrefix(snapshot.executed, executed)
    /\ DOMAIN snapshot.outcomes = DOMAIN seeds \cup ToSet(snapshot.executed)
    /\ \A n \in DOMAIN snapshot.outcomes : snapshot.outcomes[n] = outcomes[n]

\* On every graph, malformed ones included, the analyses that a run relies on agree with
\* what they stand for: the audit with paths, the sort with the flow's topological orders.
AnalysesAreExact ==
  pc = "called" => AuditPassesExactly(flow) /\ SortReturnsTheLeast(flow)

\* The run was stopped between two nodes, by the signal or by the debugger.
StoppedBetween ==
  /\ result.stoppedAt # None
  /\ \/ result.status = "cancelled"
     \/ result.status = "paused" /\ result.stoppedAt \notin DOMAIN outcomes

\* A run that is stopped between two nodes, wherever the loop was when the signal was
\* raised, names the node at which a run seeded with its outcomes would go on: that run
\* could begin with it and with none before it.  The enabled set, grown edge by edge, and
\* the place in the order then agree with what runFlow computes from seeds.
StopsWhereItGoesOn ==
  StoppedBetween =>
    LET open == SeedsEnable(flow, outcomes)
    IN \E i \in DOMAIN sorted :
         /\ sorted[i] = result.stoppedAt
         /\ sorted[i] \in open
         /\ \A j \in 1 .. i - 1 : sorted[j] \notin open

\* Running a flow implements FlowProgress: the loop over the precomputed order
\* always decides the first node the outcomes enable.
Progress == INSTANCE FlowProgress WITH done <- outcomes
ImplementsFlowProgress == Progress!Spec

\* A run returns whatever its handlers come to, aborted or not.
Returns == <>(pc = "returned")

\* The starter flow of flow-template-seeds.ts, "Webhook -> agent -> tool, with HITL
\* on failure", has a failure edge to its human node: a run gives up at a failed
\* node only when that node has no edge for a failure.
FailureEdgesFollowed ==
  result.status = "failed" /\ result.stoppedAt # None =>
    \A e \in EdgesFrom(flow, result.stoppedAt) : ~edgeMatches(e.on, "failed")
=============================================================================
