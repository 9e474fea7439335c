----------------------------- MODULE SidecarRuns -----------------------------
(***************************************************************************)
(* The runs of the desktop's sidecar process: sidecar.mjs sets up a trace, *)
(* a headless runner and an abort controller for every runner.runFlow,     *)
(* keeps rows and spans from the events of the run, and takes              *)
(* runner.cancelRun and runner.dispose meanwhile.  A line of stdin is read *)
(* between two tasks of the event loop, so never between the end of one    *)
(* node and the start of the next.  Nodes are visited as FlowRunner says;  *)
(* here a run is what it tells its observer.                               *)
(***************************************************************************)
EXTENDS Naturals, Sequences

CONSTANTS
  FlowLength,  \* bound: nodes a run visits
  MaxTraces    \* bound: runs started

ASSUME SidecarRunsAssumption == FlowLength \in Nat \ {0} /\ MaxTraces \in Nat

Traces == 1 .. MaxTraces
NodeOutcomes == {"ok", "skipped", "failed", "paused"}
NoResult == "none"
Results == {"completed", "skipped", "failed", "paused", "cancelled"}

VARIABLES
  runner,             \* whether there is one: runner.dispose takes it away
  traceRows,          \* the rows, newest first: [traceId, status]
  traceSpans,         \* of each trace: the status of its root span and of its node spans
  activeControllers,  \* traces whose run can be cancelled
  signalled,          \* traces whose controller was aborted
  visited,            \* history: the outcomes of the run's nodes so far
  outcomeOf,          \* history: the result of the run, or "rejected"
  acknowledged        \* history: nodes begun when a cancellation was first acknowledged

sidecarVars == <<runner, traceRows, traceSpans, activeControllers, signalled, visited,
                 outcomeOf, acknowledged>>

SidecarInit ==
  /\ runner = TRUE
  /\ traceRows = <<>>
  /\ traceSpans = <<>>
  /\ activeControllers = {}
  /\ signalled = {}
  /\ visited = <<>>
  /\ outcomeOf = <<>>
  /\ acknowledged = <<>>

outcomeStatus(outcome) == IF outcome = "failed" THEN "error" ELSE outcome

spanRootStatusFromRun(result) ==
  CASE result = "completed" -> "ok" [] result = "failed" -> "error" [] OTHER -> result

\* every node of the run was skipped
AllSkipped(nodes) == \A n \in DOMAIN nodes : nodes[n] = "skipped"

\* what a run returns that came to its end, as agents and tools let it in a dry run
Completion(nodes) == IF AllSkipped(nodes) THEN "skipped" ELSE "completed"

-----------------------------------------------------------------------------
\* runner.runFlow up to the first node.  The run may end before: with a flow that fails
\* its audit, or by a rejection (an unknown mode), after which the trace stays as it is.
RunFlow ==
  /\ runner
  /\ Len(traceRows) < MaxTraces
  /\ \E begins \in {"node", "failed", "rejected"} :
       /\ traceRows' = <<[traceId |-> Len(traceRows) + 1,
                          status  |-> IF begins = "failed" THEN "error" ELSE "ok"]>>
                        \o traceRows
       /\ traceSpans' = Append(traceSpans, CASE begins = "node" -> <<"ok", "ok">>
                                             [] begins = "failed" -> <<"error">>
                                             [] OTHER -> <<"ok">>)
       /\ activeControllers' =
            IF begins = "node" THEN activeControllers \cup {Len(traceRows')}
                               ELSE activeControllers
       /\ outcomeOf' = Append(outcomeOf, IF begins = "node" THEN NoResult ELSE begins)
  /\ visited' = Append(visited, <<>>)
  /\ acknowledged' = Append(acknowledged, FlowLength)
  /\ UNCHANGED <<runner, signalled>>

\* Mutant of RowOf: the newest row is taken for the run's.
RowNewest(t) == 1

\* the row of the trace
RowOf(t) == CHOOSE i \in DOMAIN traceRows : traceRows[i].traceId = t

\* finalizeTrace and the finally block; spans is what the trace has come to
Finish(t, result, spans) ==
  /\ traceSpans' =
       [traceSpans EXCEPT ![t] = [spans EXCEPT ![1] = spanRootStatusFromRun(result)]]
  /\ traceRows' = [traceRows EXCEPT ![RowOf(t)].status = spanRootStatusFromRun(result)]
  /\ activeControllers' = activeControllers \ {t}
  /\ outcomeOf' = [outcomeOf EXCEPT ![t] = result]

\* node:end, and what the runner does next: it returns, sees the signal, or begins the
\* next node
NodeEnd(t) ==
  /\ t \in activeControllers
  /\ \E outcome \in NodeOutcomes :
       LET spans == [traceSpans[t] EXCEPT ![Len(traceSpans[t])] = outcomeStatus(outcome)]
       IN /\ visited' = [visited EXCEPT ![t] = Append(@, outcome)]
          /\ \/ outcome \in {"failed", "paused"} /\ Finish(t, outcome, spans)
             \/ outcome \in {"ok", "skipped"} /\ Finish(t, Completion(visited'[t]), spans)
             \/ /\ outcome \in {"ok", "skipped"}
                /\ Len(spans) <= FlowLength
                /\ IF t \in signalled THEN Finish(t, "cancelled", spans)
                   ELSE /\ traceSpans' = [traceSpans EXCEPT ![t] = Append(spans, "ok")]
                        /\ UNCHANGED <<traceRows, activeControllers, outcomeOf>>
  /\ UNCHANGED <<runner, signalled, acknowledged>>

\* runner.cancelRun of a run that is active; of any other it changes nothing
CancelRun(t) ==
  /\ t \in activeControllers
  /\ signalled' = signalled \cup {t}
  /\ acknowledged' = IF t \in signalled THEN acknowledged
                     ELSE [acknowledged EXCEPT ![t] = Len(traceSpans[t]) - 1]
  /\ UNCHANGED <<runner, traceRows, traceSpans, activeControllers, visited, outcomeOf>>

\* runner.dispose, whatever runs
RunnerDispose ==
  /\ runner' = FALSE
  /\ UNCHANGED <<traceRows, traceSpans, activeControllers, signalled, visited, outcomeOf,
                 acknowledged>>

SidecarNext ==
  \/ RunFlow \/ RunnerDispose
  \/ \E t \in Traces : NodeEnd(t) \/ CancelRun(t)

SidecarSpec == SidecarInit /\ [][SidecarNext]_sidecarVars

-----------------------------------------------------------------------------
SidecarTypeOK ==
  /\ runner \in BOOLEAN
  /\ traceRows \in Seq([traceId : Traces, status : {"ok", "error", "skipped", "paused", "cancelled"}])
  /\ traceSpans \in Seq(Seq({"ok", "error", "skipped", "paused", "cancelled"}))
  /\ Len(traceSpans) = Len(traceRows)
  /\ signalled \subseteq DOMAIN traceSpans
  /\ visited \in Seq(Seq(NodeOutcomes))
  /\ outcomeOf \in Seq(Results \cup {NoResult, "rejected"})

\* However runs overlap, the trace of a run that has come to a result tells it: in the
\* row and the root span the result, in one span for each node visited its outcome; of a
\* run that came to its end the row says "skipped" exactly when no node of it ran, as in a
\* dry run; the runs still to be cancelled are those without a result; and a run whose
\* cancellation was acknowledged begins no other node.
TracesTellRuns ==
  \A i \in DOMAIN traceRows :
    LET t == traceRows[i].traceId
        statuses == [n \in DOMAIN visited[t] |-> outcomeStatus(visited[t][n])]
    IN /\ t \in activeControllers <=> outcomeOf[t] = NoResult
       /\ outcomeOf[t] \in Results =>
            /\ traceRows[i].status = spanRootStatusFromRun(outcomeOf[t])
            /\ traceSpans[t] = <<traceRows[i].status>> \o statuses
       /\ outcomeOf[t] \in {"completed", "skipped"} =>
            (traceRows[i].status = "skipped" <=> AllSkipped(visited[t]))
       /\ Len(traceSpans[t]) - 1 <= acknowledged[t]
=============================================================================
