----------------------------- MODULE TraceDetail -----------------------------
(***************************************************************************)
(* The detail panel of the Traces screen, which is one component for all   *)
(* traces that are selected: useTraceSpans asks the sidecar for the spans  *)
(* of a trace, useTraceLiveSession listens to the events of its run.  Both *)
(* are asynchronous: a reply comes when it comes, and subscribeEvents has  *)
(* a function to stop listening only once listen has resolved, somewhat    *)
(* after the first events may have come.  One visit of the screen.         *)
(***************************************************************************)
EXTENDS Naturals, Sequences

CONSTANTS
  TraceIds,       \* the traces in the list, each the trace of one run
  NoTrace,
  MaxSelections,  \* bound: selections in one visit
  MaxTicks        \* bound: cost ticks of one run

ASSUME DetailAssumption == MaxTicks \in Nat

VARIABLES
  selected,    \* the trace in the panel
  listeners,   \* for each selection: its trace, how far listen is, whether it was left
  requests,    \* the selections whose traces.get is not answered
  overtaken,   \* history: a reply came before that to an earlier request
  spans,       \* what the panel shows: the trace the spans are of, and whether it loads
  live,        \* the traces of the run shown as active and of the cost, and the cost
  runs         \* the runs, as the sidecar has them: phase and cost ticks

detailVars == <<selected, listeners, requests, overtaken, spans, live, runs>>

NothingLive == [activeOf |-> NoTrace, costOf |-> NoTrace, cost |-> 0]

DetailInit ==
  /\ selected = NoTrace
  /\ listeners = <<>>
  /\ requests = {}
  /\ overtaken = FALSE
  /\ spans = [of |-> NoTrace, loading |-> FALSE]
  /\ live = NothingLive
  /\ runs = [t \in TraceIds |-> [phase |-> "idle", ticks |-> 0]]

-----------------------------------------------------------------------------
(* selection *)

\* Mutant of Unsubscribed: the listener that is held is kept.
UnsubscribedLater(sub) == IF sub.phase = "held" THEN sub ELSE [sub EXCEPT !.left = TRUE]

\* the cleanup: without the function of listen there is nothing to call
Unsubscribed(sub) ==
  IF sub.phase = "held" THEN [sub EXCEPT !.phase = "gone"] ELSE [sub EXCEPT !.left = TRUE]

\* the effects on [traceId]: the old one is cleaned up, spans are asked for, cost and
\* activity start from nothing, events are subscribed to
Select(t) ==
  /\ t # selected
  /\ Len(listeners) < MaxSelections
  /\ selected' = t
  /\ LET n == Len(listeners)
         before == IF n = 0 THEN <<>> ELSE [listeners EXCEPT ![n] = Unsubscribed(@)]
     IN /\ listeners' = Append(before, [trace |-> t, phase |-> "asked", left |-> FALSE])
        /\ requests' = requests \cup {n + 1}
  /\ spans' = [spans EXCEPT !.loading = TRUE]
  /\ live' = NothingLive
  /\ UNCHANGED <<overtaken, runs>>

\* traces.get answers, or fails, which shows the spans the panel knows of that trace
SpansArrive(n) ==
  /\ n \in requests
  /\ requests' = requests \ {n}
  /\ overtaken' = (overtaken \/ \E m \in requests : m < n)
  /\ spans' = [of |-> listeners[n].trace, loading |-> FALSE]
  /\ UNCHANGED <<selected, listeners, live, runs>>

\* the listener is in place, then its promise resolves
ListenProceeds(n) ==
  /\ \/ listeners[n].phase = "asked" /\ listeners' = [listeners EXCEPT ![n].phase = "heard"]
     \/ listeners[n].phase = "heard" /\ listeners' = [listeners EXCEPT ![n].phase = "held"]
  /\ UNCHANGED <<selected, requests, overtaken, spans, live, runs>>

-----------------------------------------------------------------------------
(* events of the sidecar *)

\* some handler made for trace t is called
Heard(t) ==
  \E n \in DOMAIN listeners : listeners[n].trace = t /\ listeners[n].phase \in {"heard", "held"}

\* the handlers of t set the state of the panel
Shows(t, l) == live' = IF Heard(t) THEN l ELSE live

\* trace.started
RunStarts(t) ==
  /\ runs[t].phase = "idle"
  /\ runs' = [runs EXCEPT ![t].phase = "running"]
  /\ Shows(t, [NothingLive EXCEPT !.activeOf = t])
  /\ UNCHANGED <<selected, listeners, requests, overtaken, spans>>

\* cost.tick, which carries the totals so far
CostTicks(t) ==
  /\ runs[t].phase = "running"
  /\ runs[t].ticks < MaxTicks
  /\ runs' = [runs EXCEPT ![t].ticks = @ + 1]
  /\ Shows(t, [live EXCEPT !.costOf = t, !.cost = runs[t].ticks + 1])
  /\ UNCHANGED <<selected, listeners, requests, overtaken, spans>>

\* trace.completed, or flow.run.cancelled
RunEnds(t) ==
  /\ runs[t].phase = "running"
  /\ runs' = [runs EXCEPT ![t].phase = "over"]
  /\ Shows(t, [live EXCEPT !.activeOf = NoTrace])
  /\ UNCHANGED <<selected, listeners, requests, overtaken, spans>>

\* the button is there while a run shows as active; it cancels that of the selected trace
CancelLiveRun == live.activeOf # NoTrace /\ RunEnds(selected)

DetailNext ==
  \/ \E t \in TraceIds : Select(t) \/ RunStarts(t) \/ CostTicks(t) \/ RunEnds(t)
  \/ \E n \in DOMAIN listeners : SpansArrive(n) \/ ListenProceeds(n)
  \/ CancelLiveRun

DetailSpec == DetailInit /\ [][DetailNext]_detailVars

-----------------------------------------------------------------------------
DetailTypeOK ==
  /\ selected \in TraceIds \cup {NoTrace}
  /\ listeners \in Seq([trace : TraceIds, phase : {"asked", "heard", "held", "gone"},
                        left : BOOLEAN])
  /\ requests \subseteq DOMAIN listeners
  /\ overtaken \in BOOLEAN
  /\ spans \in [of : TraceIds \cup {NoTrace}, loading : BOOLEAN]
  /\ live \in [activeOf : TraceIds \cup {NoTrace}, costOf : TraceIds \cup {NoTrace},
               cost : 0 .. MaxTicks]
  /\ runs \in [TraceIds -> [phase : {"idle", "running", "over"}, ticks : 0 .. MaxTicks]]

\* Once every request is answered, and they were answered in their order, the panel shows
\* the spans of the trace that is selected, whatever it showed meanwhile.
SpansSettle == requests = {} /\ ~overtaken => spans = [of |-> selected, loading |-> FALSE]

\* Cost and activity are those of the selected trace, and an activity is not stale.
LiveIsSelected ==
  /\ live.activeOf \in {NoTrace, selected}
  /\ live.costOf \in {NoTrace, selected}
  /\ live.activeOf # NoTrace => /\ runs[selected].phase = "running"
                                /\ live.cost = runs[selected].ticks

\* In whatever order replies, events and the promises of listen come after traces were
\* selected one after the other, the panel comes to show the spans of the selected trace
\* and shows its cost and activity, as long as no reply was overtaken and no selection
\* left behind a listener that it could not stop.
PanelShowsSelected ==
  /\ SpansSettle
  /\ (\A n \in DOMAIN listeners : listeners[n].left => listeners[n].phase = "asked")
       => LiveIsSelected
=============================================================================
