---------------------------- MODULE SpanDelivery ----------------------------
(***************************************************************************)
(* What the observability pipeline promises of the executions of a node:   *)
(* any of them may go unreported, but none is reported twice, or before it *)
(* has ended, or with the outcome of another one.                          *)
(***************************************************************************)
EXTENDS Sequences, Naturals

CONSTANTS
  Keys,       \* a node of a run
  Endings     \* the outcomes that a span reports

VARIABLES
  executions,  \* of each key: the outcomes of its executions, in order
  reported     \* the spans the telemetry system has taken

deliveryVars == <<executions, reported>>

\* an execution that is under way, and one that its run left without an event
Running == "running"
Left == "left"

DeliveryInit ==
  /\ executions = [k \in Keys |-> <<>>]
  /\ reported = <<>>

Begin(k) ==
  /\ executions' = [executions EXCEPT ![k] = Append(@, Running)]
  /\ UNCHANGED reported

End(k) ==
  /\ executions[k] # <<>>
  /\ executions[k][Len(executions[k])] = Running
  /\ \E e \in Endings \cup {Left} :
       executions' = [executions EXCEPT ![k][Len(executions[k])] = e]
  /\ UNCHANGED reported

\* the span tells how its execution ended, or "ok" of one whose recorded outcome was
\* taken over by a later call
Truthful(span) ==
  /\ span.nth \in DOMAIN executions[span.key]
  /\ LET ending == executions[span.key][span.nth]
     IN \/ ending \in Endings /\ span.status = ending
        \/ ending = Left /\ span.status = "ok"

Execution(span) == <<span.key, span.nth>>

Report ==
  /\ reported' # reported
  /\ SubSeq(reported', 1, Len(reported)) = reported
  /\ \A i \in DOMAIN reported' : Truthful(reported'[i])
  /\ \A i, j \in DOMAIN reported' :
       Execution(reported'[i]) = Execution(reported'[j]) => i = j
  /\ UNCHANGED executions

DeliveryNext == Report \/ \E k \in Keys : Begin(k) \/ End(k)

DeliverySpec == DeliveryInit /\ [][DeliveryNext]_deliveryVars
=============================================================================
