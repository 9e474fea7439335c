------------------------------- MODULE Tracing -------------------------------
(***************************************************************************)
(* From a flow's events to a telemetry system: createBusOnEvent publishes  *)
(* on the event bus, the trace collector opens and closes spans, the       *)
(* OpenTelemetry exporter buffers the closed ones and hands them over in   *)
(* chunks, whose callbacks come in any order or never.  Everything up to   *)
(* the hand-over happens within the call of onEvent, so an event is one    *)
(* step.  Calls of runFlow and resumeFlow with one run id follow each      *)
(* other; runs with different ids interleave.  Events that neither open    *)
(* nor close a span (cost.tick, run:cancelled) are left out, and so is the *)
(* exporter's shutdown, which only calls the target's.                     *)
(***************************************************************************)
EXTENDS Naturals, Sequences, FiniteSets, Functions

CONSTANTS
  RunIds,         \* the runs, each a trace
  TracedNodes,    \* the nodes of their flow, each a span
  NodeEndings,    \* outcomes of a node, as the status of its span
  BatchSize,      \* the exporter's limit
  MaxExecutions   \* bound: executions of one node of one run

ASSUME TracingAssumption ==
  /\ NodeEndings \subseteq {"ok", "error", "paused", "skipped"}
  /\ BatchSize \in Nat \ {0}
  /\ MaxExecutions \in Nat

SpanKeys == RunIds \X TracedNodes
Spans == [key : SpanKeys, nth : 1 .. MaxExecutions, status : NodeEndings \cup {"ok"}]

VARIABLES
  outcomesOf,  \* of each key: how its executions ended, in order
  subs,        \* how often the collector is subscribed (a '*' and a 'flow.*', say)
  open,        \* the collector's open spans: the execution that opened each
  buf,         \* the exporter's buffer
  chunks,      \* the chunks handed over and not called back
  delivered    \* the spans that the telemetry system has taken

tracingVars == <<outcomesOf, subs, open, buf, chunks, delivered>>

TracingInit ==
  /\ outcomesOf = [k \in SpanKeys |-> <<>>]
  /\ subs \in 1 .. 2
  /\ open = <<>>
  /\ buf = <<>>
  /\ chunks = {}
  /\ delivered = <<>>

Latest(k) == outcomesOf[k][Len(outcomesOf[k])]
IsRunning(k) == outcomesOf[k] # <<>> /\ Latest(k) = "running"
RunIsBetweenNodes(run) == \A n \in TracedNodes : ~IsRunning(<<run, n>>)

-----------------------------------------------------------------------------
(* collector and exporter, as functions on [open, buf, chunks] *)

Pipeline == [open |-> open, buf |-> buf, chunks |-> chunks]

\* Mutant of Flushed: the buffer is copied and keeps its spans.
FlushedCopy(p) ==
  IF p.buf = <<>> THEN p ELSE [p EXCEPT !.chunks = @ \cup {p.buf}]

\* flush: the whole buffer is handed over
Flushed(p) ==
  IF p.buf = <<>> THEN p ELSE [p EXCEPT !.buf = <<>>, !.chunks = @ \cup {p.buf}]

\* the exporter's export, which flushes without waiting
Exported(p, span) ==
  LET q == [p EXCEPT !.buf = Append(@, span)]
  IN IF Len(q.buf) >= BatchSize THEN Flushed(q) ELSE q

\* Mutant of Started: a span that is open stays as it is.
StartedOnce(p, k) ==
  IF k \in DOMAIN p.open THEN p
  ELSE [p EXCEPT !.open = [o \in DOMAIN @ \cup {k} |->
                             IF o = k THEN Len(outcomesOf[k]) + 1 ELSE @[o]]]

\* handleStart: a span left open by an earlier execution is dropped
Started(p, k) ==
  [p EXCEPT !.open = [o \in DOMAIN @ \cup {k} |->
                        IF o = k THEN Len(outcomesOf[k]) + 1 ELSE @[o]]]

\* handleEnd: nothing without an open span
Ended(p, k, status) ==
  IF k \notin DOMAIN p.open THEN p
  ELSE Exported([p EXCEPT !.open = Restrict(@, DOMAIN @ \ {k})],
                [key |-> k, nth |-> p.open[k], status |-> status])

\* publish calls the handler once for each subscription that matches: the pipeline
\* after one call and after two
Published(once, twice) ==
  LET p == CASE subs = 0 -> Pipeline [] subs = 1 -> once [] OTHER -> twice
  IN open' = p.open /\ buf' = p.buf /\ chunks' = p.chunks

-----------------------------------------------------------------------------
\* node:start
NodeStarts(k) ==
  /\ RunIsBetweenNodes(k[1])
  /\ Len(outcomesOf[k]) < MaxExecutions
  /\ outcomesOf' = [outcomesOf EXCEPT ![k] = Append(@, "running")]
  /\ Published(Started(Pipeline, k), Started(Started(Pipeline, k), k))
  /\ UNCHANGED <<subs, delivered>>

\* node:end
NodeEnds(k) ==
  /\ IsRunning(k)
  /\ \E status \in NodeEndings :
       /\ outcomesOf' = [outcomesOf EXCEPT ![k][Len(outcomesOf[k])] = status]
       /\ Published(Ended(Pipeline, k, status), Ended(Ended(Pipeline, k, status), k, status))
  /\ UNCHANGED <<subs, delivered>>

\* the checkpoint callback rejects, and the run with it: no event
RunLeaves(k) ==
  /\ IsRunning(k)
  /\ outcomesOf' = [outcomesOf EXCEPT ![k][Len(outcomesOf[k])] = "left"]
  /\ UNCHANGED <<subs, open, buf, chunks, delivered>>

\* node:resumed, of a node whose outcome is on record: a later call of resumeFlow
NodeResumed(k) ==
  /\ RunIsBetweenNodes(k[1])
  /\ outcomesOf[k] # <<>>
  /\ Latest(k) \in {"ok", "skipped", "left"}
  /\ Published(Ended(Pipeline, k, "ok"), Ended(Ended(Pipeline, k, "ok"), k, "ok"))
  /\ UNCHANGED <<outcomesOf, subs, delivered>>

\* an embedder calls flush
FlushCalled ==
  /\ buf # <<>>
  /\ buf' = Flushed(Pipeline).buf
  /\ chunks' = Flushed(Pipeline).chunks
  /\ UNCHANGED <<outcomesOf, subs, open, delivered>>

Unsubscribe ==
  /\ subs > 0
  /\ subs' = subs - 1
  /\ UNCHANGED <<outcomesOf, open, buf, chunks, delivered>>

\* close: publish rejects from now on, which the bridge's caller does not see
CloseBus ==
  /\ subs' = 0
  /\ UNCHANGED <<outcomesOf, open, buf, chunks, delivered>>

\* the target takes a chunk
ChunkTaken ==
  /\ \E chunk \in chunks :
       /\ chunks' = chunks \ {chunk}
       /\ delivered' = delivered \o chunk
  /\ UNCHANGED <<outcomesOf, subs, open, buf>>

\* it throws, or calls back with code 1: nobody has the spans any more
ChunkLost ==
  /\ \E chunk \in chunks : chunks' = chunks \ {chunk}
  /\ UNCHANGED <<outcomesOf, subs, open, buf, delivered>>

TracingNext ==
  \/ \E k \in SpanKeys : NodeStarts(k) \/ NodeEnds(k) \/ RunLeaves(k) \/ NodeResumed(k)
  \/ FlushCalled \/ Unsubscribe \/ CloseBus \/ ChunkTaken \/ ChunkLost

TracingSpec == TracingInit /\ [][TracingNext]_tracingVars

-----------------------------------------------------------------------------
TracingTypeOK ==
  /\ outcomesOf \in [SpanKeys -> Seq(NodeEndings \cup {"running", "left"})]
  /\ subs \in 0 .. 2
  /\ open \in [DOMAIN open -> 1 .. MaxExecutions] /\ DOMAIN open \subseteq SpanKeys
  /\ buf \in Seq(Spans) /\ Len(buf) < BatchSize
  /\ \A chunk \in chunks : chunk \in Seq(Spans) /\ Len(chunk) \in 1 .. BatchSize
  /\ delivered \in Seq(Spans)

Promise == INSTANCE SpanDelivery
  WITH Keys <- SpanKeys, Endings <- NodeEndings, executions <- outcomesOf,
       reported <- delivered

\* Through overlapping flushes, doubled subscriptions, runs that leave nodes open and
\* are resumed, and lost chunks, the telemetry system is never told of an execution
\* twice, nor of one with the outcome of another: the pipeline implements SpanDelivery.
ImplementsSpanDelivery == Promise!DeliverySpec
=============================================================================
