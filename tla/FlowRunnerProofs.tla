-------------------------- MODULE FlowRunnerProofs --------------------------
(***************************************************************************)
(* What holds of every run of runFlow, for all flows, calls and snapshot   *)
(* intervals: the safety properties of FlowRunner from one inductive       *)
(* invariant, and that every step of a run is one of FlowProgress.  The    *)
(* invariant is stated of seeded runs as well, so that it carries over to  *)
(* the runs that are branched from a snapshot, to any depth.               *)
(***************************************************************************)
EXTENDS FlowBranch, FlowGraphProofs

-----------------------------------------------------------------------------
(* The inductive invariant, in named parts.  It holds of seeded runs, too. *)

Stopping == {"failed", "paused"}

Reasons == {None, "os.flow.cancelled", "graph_audit", "policy.workspace_blocked",
            "flow.determinism_violation", "breakpoint", "manual", "step",
            "flow.handler_missing", "policy.tool_denied", "hitl"}

Results == [status : Statuses \cup {None}, stoppedAt : NodesOf \cup {None}, reason : Reasons]

RunTypes ==
  /\ flow \in Flows
  /\ sorted = topoOrder(flow)
  /\ pc \in {"called", "visit", "beforeNode", "handler", "checkpoint", "returned"}
  /\ node \in NodesOf \cup {None}
  /\ DOMAIN seeds \subseteq NodesOf
  /\ seeds \in [DOMAIN seeds -> Outcome \ Stopping]
  /\ DOMAIN outcomes \subseteq NodesOf
  /\ outcomes \in [DOMAIN outcomes -> Outcome]
  /\ executed \in Seq(NodesOf)
  /\ enabled \subseteq NodesOf
  /\ aborted \in BOOLEAN
  /\ result \in Results

\* A run the loop of which has not begun.
Unstarted == node = None /\ outcomes = <<>> /\ executed = <<>> /\ enabled = {} /\ snapshot = None

\* A run the loop of which has begun: the flow passed the audit and the seeds are in.
Started == auditGraph(flow) = {} /\ DOMAIN seeds \subseteq DOMAIN outcomes

Phases ==
  /\ pc = "called" => Unstarted
  /\ pc \notin {"called", "returned"} => Started
  /\ pc = "returned" =>
       \/ Started
       \/ Unstarted /\ result.status \in {"failed", "cancelled"} /\ result.stoppedAt = None

\* Where the loop is at a node, the node is an enabled one that is not decided yet;
\* after its outcome it is the last one executed.
AtNode ==
  /\ pc \in {"beforeNode", "handler"} => node \in enabled \ DOMAIN outcomes
  /\ pc = "handler" => flow.kind[node] \in HandledKinds
  /\ pc = "checkpoint" => executed # <<>> /\ node = Last(executed) /\ node \in DOMAIN outcomes

Executions ==
  /\ Distinct(executed)
  /\ ToSet(executed) = DOMAIN outcomes \ DOMAIN seeds

\* A failed or paused node is the last one executed and ends the run.
Stops ==
  \A n \in DOMAIN outcomes : outcomes[n] \in Stopping =>
    /\ pc \in {"checkpoint", "returned"}
    /\ executed # <<>> /\ n = Last(executed)
    /\ pc = "returned" => result.status \in {outcomes[n], "threw"} /\ result.stoppedAt = n

Answers ==
  /\ pc # "returned" => result.status = None /\ result.stoppedAt = None
  /\ pc = "returned" => result.status \in Statuses

\* The run ended before the order was exhausted.
EndedEarly == pc = "returned" /\ result.status \notin {"completed", "skipped"}

\* What is enabled is the entry or opened by an outcome, and all that outcomes open
\* is enabled or decided.
Enabling ==
  /\ enabled \subseteq {flow.entry} \cup Opened(flow, outcomes)
  /\ \A e \in flow.edges :
       e.from \in DOMAIN outcomes /\ edgeMatches(e.on, outcomes[e.from]) =>
         \/ e.to \in enabled \cup DOMAIN outcomes
         \/ pc = "checkpoint" /\ e.from = node
         \/ EndedEarly

Place(order, n) == CHOOSE i \in DOMAIN order : order[i] = n

At == IF node = None THEN 0 ELSE Place(sorted, node)

\* Every enabled node is decided, or still ahead of the loop, or the loop is at it.
NoneBehind ==
  \A n \in enabled :
    \/ n \in DOMAIN outcomes
    \/ Place(sorted, n) > At
    \/ pc \in {"beforeNode", "handler"} /\ n = node
    \/ EndedEarly

SnapshotTypes == snapshot # None => snapshot.executed \in Seq(NodesOf)

StartsAtEntry == seeds = <<>> /\ DOMAIN outcomes # {} => flow.entry \in DOMAIN outcomes

RunInv ==
  /\ RunTypes
  /\ Phases
  /\ AtNode
  /\ Executions
  /\ Stops
  /\ Answers
  /\ Enabling
  /\ NoneBehind
  /\ StartsAtEntry
  /\ NothingLeftBehind
  /\ SnapshotTypes
  /\ SnapshotOfThePast

-----------------------------------------------------------------------------
(* The order and the places in it.                                         *)

\* The order of an audited flow has every node once, sources before targets.
LEMMA SortedPlaces ==
  ASSUME flow \in Flows, sorted = topoOrder(flow), auditGraph(flow) = {}
  PROVE  /\ sorted \in Seq(NodesOf) /\ Distinct(sorted) /\ ToSet(sorted) = NodesOf
         /\ flow.entry \in NodesOf
         /\ \A n \in NodesOf : Place(sorted, n) \in DOMAIN sorted /\ sorted[Place(sorted, n)] = n
         /\ \A i \in DOMAIN sorted : Place(sorted, sorted[i]) = i
         /\ \A e \in flow.edges : /\ e.from \in NodesOf /\ e.to \in NodesOf
                                  /\ Place(sorted, e.from) < Place(sorted, e.to)
         /\ DOMAIN sorted = 1 .. Len(sorted) /\ Len(sorted) \in Nat
         /\ None \notin NodesOf
<1>1. Listed(flow) /\ None \notin NodesOf
  BY FlowsAssumption DEF Listed, NodesOf
<1>2. /\ Shaped(flow) /\ flow.entry \in NodesOf
      /\ PartialOrder(flow, sorted)
      /\ ToSet(sorted) = NodesOf
  BY <1>1, AuditedFlowsAreSorted DEF NodesOf
<1>3. sorted \in Seq(NodesOf) /\ Distinct(sorted) /\ SourcesFirst(flow, sorted)
  BY <1>2 DEF PartialOrder, NodesOf
<1>4. \A n \in NodesOf : Place(sorted, n) \in DOMAIN sorted /\ sorted[Place(sorted, n)] = n
  BY <1>2 DEF Place, ToSet
<1>5. \A i \in DOMAIN sorted : sorted[i] \in NodesOf
  BY <1>3
<1>6. \A i \in DOMAIN sorted : Place(sorted, sorted[i]) = i
  BY <1>3, <1>4, <1>5 DEF Distinct
<1>7. ASSUME NEW e \in flow.edges
      PROVE  /\ e.from \in NodesOf /\ e.to \in NodesOf
             /\ Place(sorted, e.from) < Place(sorted, e.to)
  <2>1. e.from \in NodesOf /\ e.to \in NodesOf
    BY <1>2 DEF Shaped, NodesOf
  <2>2. PICK j \in DOMAIN sorted : j < Place(sorted, e.to) /\ sorted[j] = e.from
    BY <1>3, <1>4, <2>1 DEF SourcesFirst
  <2>3. QED
    BY <1>6, <2>1, <2>2
<1>8. DOMAIN sorted = 1 .. Len(sorted) /\ Len(sorted) \in Nat
  BY <1>3
<1>9. QED
  BY <1>1, <1>2, <1>3, <1>4, <1>6, <1>7, <1>8

\* The loop is at a place of the order, or before the first.
LEMMA Places ==
  ASSUME RunTypes, Started
  PROVE  /\ sorted \in Seq(NodesOf) /\ Distinct(sorted) /\ ToSet(sorted) = NodesOf
         /\ flow.entry \in NodesOf
         /\ \A n \in NodesOf : Place(sorted, n) \in DOMAIN sorted /\ sorted[Place(sorted, n)] = n
         /\ \A i \in DOMAIN sorted : Place(sorted, sorted[i]) = i
         /\ \A e \in flow.edges : /\ e.from \in NodesOf /\ e.to \in NodesOf
                                  /\ Place(sorted, e.from) < Place(sorted, e.to)
         /\ DOMAIN sorted = 1 .. Len(sorted) /\ Len(sorted) \in Nat
         /\ None \notin NodesOf
         /\ At \in 0 .. Len(sorted)
<1>1. flow \in Flows /\ sorted = topoOrder(flow) /\ auditGraph(flow) = {}
  BY DEF RunTypes, Started
<1>2. /\ \A n \in NodesOf : Place(sorted, n) \in DOMAIN sorted
      /\ DOMAIN sorted = 1 .. Len(sorted) /\ Len(sorted) \in Nat
  BY <1>1, SortedPlaces
<1>3. At \in 0 .. Len(sorted)
  <2>1. CASE node = None
    BY <1>2, <2>1 DEF At
  <2>2. CASE node # None
    <3>1. Place(sorted, node) \in DOMAIN sorted
      BY <1>2, <2>2 DEF RunTypes
    <3>2. QED
      BY <1>2, <2>2, <3>1 DEF At
  <2>3. QED
    BY <2>1, <2>2
<1>4. QED
  BY <1>1, <1>3, SortedPlaces

\* The loop goes on to the first enabled and undecided node ahead, and ends when
\* there is none.
LEMMA NextDue ==
  ASSUME RunTypes, Started
  PROVE  /\ Due = {} => \A n \in enabled : n \in DOMAIN outcomes \/ Place(sorted, n) <= At
         /\ Due # {} =>
              /\ Ahead[Min(Due)] \in enabled \ DOMAIN outcomes
              /\ Place(sorted, Ahead[Min(Due)]) > At
              /\ \A n \in enabled \ DOMAIN outcomes :
                   Place(sorted, n) > At => Place(sorted, n) >= Place(sorted, Ahead[Min(Due)])
<1>1. /\ sorted \in Seq(NodesOf) /\ DOMAIN sorted = 1 .. Len(sorted) /\ Len(sorted) \in Nat
      /\ At \in 0 .. Len(sorted)
      /\ \A n \in NodesOf : Place(sorted, n) \in DOMAIN sorted /\ sorted[Place(sorted, n)] = n
      /\ \A i \in DOMAIN sorted : Place(sorted, sorted[i]) = i
  BY Places
<1>2. Ahead = SubSeq(sorted, At + 1, Len(sorted))
  BY DEF Ahead, At, Place
<1>3. /\ DOMAIN Ahead = 1 .. Len(sorted) - At
      /\ \A i \in 1 .. Len(sorted) - At : Ahead[i] = sorted[At + i] /\ At + i \in DOMAIN sorted
  BY <1>1, <1>2
<1>4. \A i \in 1 .. Len(sorted) - At : Place(sorted, Ahead[i]) = At + i
  BY <1>1, <1>3
<1>5. ASSUME NEW n \in enabled \ DOMAIN outcomes, Place(sorted, n) > At
      PROVE  Place(sorted, n) - At \in Due
  <2>1. n \in NodesOf
    BY DEF RunTypes
  <2>2. Place(sorted, n) - At \in 1 .. Len(sorted) - At
    BY <1>1, <1>5, <2>1
  <2>3. At + (Place(sorted, n) - At) = Place(sorted, n)
    BY <1>1, <2>1
  <2>4. Ahead[Place(sorted, n) - At] = n
    BY <1>1, <1>3, <2>1, <2>2, <2>3
  <2>5. QED
    BY <1>3, <2>2, <2>4 DEF Due
<1>6. CASE Due = {}
  <2>1. \A n \in enabled : Place(sorted, n) \in Int /\ At \in Int
    BY <1>1 DEF RunTypes
  <2>2. QED
    BY <1>5, <1>6, <2>1
<1>7. CASE Due # {}
  <2>1. Due \subseteq 1 .. Len(sorted) - At
    BY <1>3 DEF Due
  <2>2. Min(Due) \in Due /\ \A i \in Due : Min(Due) <= i
    <3>1. Due \subseteq Nat
      BY <2>1
    <3>2. QED
      BY <1>7, <3>1, MinIsLeast
  <2>3. Ahead[Min(Due)] \in enabled \ DOMAIN outcomes
    BY <2>2 DEF Due
  <2>4. Place(sorted, Ahead[Min(Due)]) = At + Min(Due) /\ Min(Due) \in 1 .. Len(sorted) - At
    BY <1>4, <2>1, <2>2
  <2>5. ASSUME NEW n \in enabled \ DOMAIN outcomes, Place(sorted, n) > At
        PROVE  Place(sorted, n) >= Place(sorted, Ahead[Min(Due)])
    <3>1. Min(Due) <= Place(sorted, n) - At
      BY <1>5, <2>2, <2>5
    <3>2. Place(sorted, n) \in Nat
      BY <1>1 DEF RunTypes
    <3>3. QED
      BY <1>1, <2>4, <3>1, <3>2
  <2>6. QED
    BY <1>1, <1>7, <2>3, <2>4, <2>5
<1>8. QED
  BY <1>6, <1>7

-----------------------------------------------------------------------------
(* Every step keeps the invariant.                                         *)

LEMMA InitHolds == Init => RunInv
<1> SUFFICES ASSUME Init
             PROVE  RunInv
  OBVIOUS
<1> USE DEF Init
<1>1. RunTypes
  <2>1. result \in Results
    BY DEF Results, NoResult, Reasons
  <2>2. seeds \in [DOMAIN seeds -> Outcome \ Stopping] /\ DOMAIN seeds \subseteq NodesOf
    OBVIOUS
  <2>3. outcomes \in [DOMAIN outcomes -> Outcome] /\ DOMAIN outcomes \subseteq NodesOf
    OBVIOUS
  <2>4. QED
    BY <2>1, <2>2, <2>3 DEF RunTypes
<1>2. Phases /\ AtNode
  BY DEF Phases, AtNode, Unstarted
<1>3. Executions /\ Stops /\ Answers
  BY DEF Executions, Stops, Answers, NoResult, Distinct, ToSet
<1>4. Enabling /\ NoneBehind
  BY DEF Enabling, NoneBehind
<1>5. StartsAtEntry /\ NothingLeftBehind /\ SnapshotTypes /\ SnapshotOfThePast
  BY FlowsAssumption
  DEF StartsAtEntry, NothingLeftBehind, SnapshotTypes, SnapshotOfThePast, NoResult, Statuses
<1>6. QED
  BY <1>1, <1>2, <1>3, <1>4, <1>5 DEF RunInv

\* What returning leaves to show: the status fits what was decided.
LEMMA ReturnKeeps ==
  ASSUME RunInv, NEW status \in Statuses, NEW at \in NodesOf \cup {None}, NEW reason \in Reasons,
         Return(status, at, reason),
         UNCHANGED <<flow, call, seeds, sorted, node, outcomes, executed, enabled, aborted>>,
         Started \/ (Unstarted' /\ status \in {"failed", "cancelled"} /\ at = None),
         \A n \in DOMAIN outcomes : outcomes[n] \in Stopping =>
           executed # <<>> /\ n = Last(executed) /\ status \in {outcomes[n], "threw"} /\ at = n,
         status \in {"completed", "skipped"} =>
           pc = "visit" /\ enabled \subseteq DOMAIN outcomes,
         SnapshotTypes' /\ SnapshotOfThePast'
  PROVE  RunInv'
<1>1. pc' = "returned" /\ result' = [status |-> status, stoppedAt |-> at, reason |-> reason]
  BY DEF Return
<1>2. result'.status = status /\ result'.stoppedAt = at
  BY <1>1
<1>3. NodesOf' = NodesOf
  BY DEF NodesOf
<1>4. RunTypes'
  <2>1. result' \in Results'
    BY <1>1, <1>3 DEF Results
  <2>2. QED
    BY <1>1, <1>3, <2>1 DEF RunInv, RunTypes
<1>5. Phases'
  BY <1>1, <1>2 DEF Phases, Started
<1>6. AtNode' /\ Answers'
  BY <1>1, <1>2 DEF AtNode, Answers
<1>7. Executions'
  BY DEF RunInv, Executions
<1>8. Stops'
  BY <1>1, <1>2 DEF Stops
<1>9. Enabling'
  BY <1>1, <1>2 DEF RunInv, Enabling, EndedEarly
<1>10. NoneBehind'
  BY <1>1, <1>2 DEF NoneBehind, EndedEarly
<1>11. StartsAtEntry'
  BY DEF RunInv, StartsAtEntry
<1>12. NothingLeftBehind'
  <2>1. CASE status \in {"completed", "skipped"}
    <3>1. Opened(flow, outcomes) \subseteq enabled \cup DOMAIN outcomes
      BY <2>1, <1>1 DEF RunInv, Enabling, EndedEarly, Opened
    <3>2. QED
      BY <2>1, <3>1 DEF NothingLeftBehind
  <2>2. CASE status \notin {"completed", "skipped"}
    BY <1>2, <2>2 DEF NothingLeftBehind
  <2>3. QED
    BY <2>1, <2>2
<1>13. QED
  BY <1>4, <1>5, <1>6, <1>7, <1>8, <1>9, <1>10, <1>11, <1>12 DEF RunInv

\* A snapshot taken before stays one of the past.
LEMMA SnapshotStays ==
  ASSUME RunInv, UNCHANGED <<seeds, outcomes, executed, snapshot>>
  PROVE  SnapshotOfThePast'
BY DEF RunInv, SnapshotOfThePast

LEMMA SnapshotStaysTyped ==
  ASSUME RunInv, UNCHANGED <<flow, snapshot>>
  PROVE  SnapshotTypes'
BY DEF RunInv, SnapshotTypes, NodesOf

\* Outside a node's checkpoint and after the end nothing has stopped the run.
LEMMA NoneStopped ==
  ASSUME RunInv, pc \notin {"checkpoint", "returned"}, NEW n \in DOMAIN outcomes
  PROVE  outcomes[n] \notin Stopping
BY DEF RunInv, Stops

LEMMA StartKeeps ==
  ASSUME RunInv, Start
  PROVE  RunInv'
<1>1. PICK status \in {"cancelled", "failed"}, reason \in Reasons : Return(status, None, reason)
  BY DEF Start, Reasons
<1>2. /\ pc = "called"
      /\ UNCHANGED <<flow, call, seeds, sorted, node, outcomes, executed, enabled, aborted, snapshot>>
  BY DEF Start
<1>3. status \in Statuses /\ status \notin {"completed", "skipped"}
  BY DEF Statuses
<1>4. Unstarted'
  BY <1>2 DEF RunInv, Phases, Unstarted
<1>5. \A n \in DOMAIN outcomes : outcomes[n] \notin Stopping
  BY <1>2, NoneStopped
<1>6. SnapshotTypes' /\ SnapshotOfThePast'
  BY <1>2, SnapshotStays, SnapshotStaysTyped
<1>7. QED
  BY <1>1, <1>2, <1>3, <1>4, <1>5, <1>6, ReturnKeeps

\* When nothing is due, all that was enabled is decided.
LEMMA AllDecided ==
  ASSUME RunInv, pc = "visit", Due = {}
  PROVE  enabled \subseteq DOMAIN outcomes
<1>1. Started
  BY DEF RunInv, Phases
<1>2. \A n \in enabled : n \in DOMAIN outcomes \/ Place(sorted, n) <= At
  BY <1>1, NextDue DEF RunInv
<1>3. \A n \in enabled : n \in DOMAIN outcomes \/ Place(sorted, n) > At
  BY DEF RunInv, NoneBehind, EndedEarly
<1>4. \A n \in enabled : Place(sorted, n) \in Nat /\ At \in Nat
  BY <1>1, Places DEF RunInv, RunTypes
<1>5. QED
  BY <1>2, <1>3, <1>4

LEMMA FinishKeeps ==
  ASSUME RunInv, Finish
  PROVE  RunInv'
<1>1. PICK status \in {"skipped", "completed"} : Return(status, None, None)
  BY DEF Finish
<1>2. /\ pc = "visit" /\ Due = {}
      /\ UNCHANGED <<flow, call, seeds, sorted, node, outcomes, executed, enabled, aborted, snapshot>>
  BY DEF Finish
<1>3. Started
  BY <1>2 DEF RunInv, Phases
<1>4. enabled \subseteq DOMAIN outcomes
  BY <1>2, AllDecided
<1>5. \A n \in DOMAIN outcomes : outcomes[n] \notin Stopping
  BY <1>2, NoneStopped
<1>6. SnapshotTypes' /\ SnapshotOfThePast'
  BY <1>2, SnapshotStays, SnapshotStaysTyped
<1>7. status \in Statuses /\ None \in Reasons
  BY DEF Statuses, Reasons
<1>8. QED
  BY <1>1, <1>2, <1>3, <1>4, <1>5, <1>6, <1>7, ReturnKeeps

LEMMA DebuggerPausesKeeps ==
  ASSUME RunInv, DebuggerPauses
  PROVE  RunInv'
<1>1. PICK reason \in {"breakpoint", "manual", "step"} : Return("paused", node, reason)
  BY DEF DebuggerPauses
<1>2. /\ pc = "beforeNode"
      /\ UNCHANGED <<flow, call, seeds, sorted, node, outcomes, executed, enabled, aborted, snapshot>>
  BY DEF DebuggerPauses
<1>3. Started /\ node \in NodesOf \cup {None}
  BY <1>2 DEF RunInv, Phases, RunTypes
<1>4. \A n \in DOMAIN outcomes : outcomes[n] \notin Stopping
  BY <1>2, NoneStopped
<1>5. SnapshotTypes' /\ SnapshotOfThePast'
  BY <1>2, SnapshotStays, SnapshotStaysTyped
<1>6. "paused" \in Statuses /\ reason \in Reasons
  BY DEF Statuses, Reasons
<1>7. QED
  BY <1>1, <1>2, <1>3, <1>4, <1>5, <1>6, ReturnKeeps

LEMMA CheckpointThrowsKeeps ==
  ASSUME RunInv, CheckpointThrows
  PROVE  RunInv'
<1>1. /\ pc = "checkpoint" /\ Return("threw", node, None)
      /\ UNCHANGED <<flow, call, seeds, sorted, node, outcomes, executed, enabled, aborted, snapshot>>
  BY DEF CheckpointThrows
<1>2. Started /\ node \in NodesOf \cup {None}
  BY <1>1 DEF RunInv, Phases, RunTypes
<1>3. \A n \in DOMAIN outcomes : outcomes[n] \in Stopping => executed # <<>> /\ n = Last(executed) /\ n = node
  BY <1>1 DEF RunInv, Stops, AtNode
<1>4. SnapshotTypes' /\ SnapshotOfThePast'
  BY <1>1, SnapshotStays, SnapshotStaysTyped
<1>5. "threw" \in Statuses /\ None \in Reasons
  BY DEF Statuses, Reasons
<1>6. QED
  BY <1>1, <1>2, <1>3, <1>4, <1>5, ReturnKeeps

LEMMA BeginKeeps ==
  ASSUME RunInv, Begin
  PROVE  RunInv'
<1>1. /\ pc = "called" /\ pc' = "visit"
      /\ auditGraph(flow) = {}
      /\ outcomes' = seeds
      /\ enabled' = SeedsEnable(flow, seeds)
      /\ UNCHANGED <<flow, call, seeds, sorted, node, executed, aborted, result, snapshot>>
  BY DEF Begin
<1>2. node = None /\ outcomes = <<>> /\ executed = <<>> /\ snapshot = None
  BY <1>1 DEF RunInv, Phases, Unstarted
<1>3. NodesOf' = NodesOf
  BY <1>1 DEF NodesOf
<1>4. Started' /\ RunTypes
  BY <1>1 DEF Started, RunInv
<1>5. enabled' \subseteq NodesOf
  <2>1. flow.entry \in NodesOf /\ \A e \in flow.edges : e.to \in NodesOf
    <3>1. Listed(flow)
      BY <1>4, FlowsAssumption DEF Listed, RunTypes
    <3>2. QED
      BY <1>1, <3>1, AuditedFlowsAreSorted DEF Shaped, NodesOf
  <2>2. QED
    BY <1>1, <2>1 DEF SeedsEnable, Opened
<1>6. RunTypes'
  <2>1. result' \in Results'
    BY <1>1, <1>3, <1>4 DEF RunTypes, Results
  <2>2. QED
    BY <1>1, <1>3, <1>4, <1>5, <2>1 DEF RunTypes
<1>7. Phases' /\ AtNode' /\ Answers'
  BY <1>1, <1>4 DEF Phases, AtNode, Answers, RunInv
<1>8. Executions' /\ Stops'
  <2>1. \A n \in DOMAIN seeds : seeds[n] \notin Stopping
    BY <1>4 DEF RunTypes
  <2>2. QED
    BY <1>1, <1>2, <2>1 DEF Executions, Stops, Distinct, ToSet
<1>9. Enabling'
  BY <1>1 DEF Enabling, SeedsEnable, Opened
<1>10. NoneBehind'
  <2>1. \A n \in NodesOf : Place(sorted, n) \in 1 .. Len(sorted)
    BY <1>1, <1>4, SortedPlaces DEF RunTypes
  <2>2. At' = 0
    BY <1>1, <1>2 DEF At
  <2>3. QED
    BY <1>1, <1>5, <2>1, <2>2 DEF NoneBehind
<1>11. StartsAtEntry' /\ NothingLeftBehind'
  BY <1>1, FlowsAssumption DEF StartsAtEntry, NothingLeftBehind, RunInv, Answers, Statuses
<1>12. SnapshotOfThePast'
  BY <1>1, <1>2 DEF SnapshotOfThePast
<1>13. SnapshotTypes'
  BY <1>1, SnapshotStaysTyped
<1>14. QED
  BY <1>6, <1>7, <1>8, <1>9, <1>10, <1>11, <1>12, <1>13 DEF RunInv

LEMMA VisitKeeps ==
  ASSUME RunInv, Visit
  PROVE  RunInv'
<1> DEFINE next == Ahead[Min(Due)]
<1>1. /\ pc = "visit" /\ Due # {}
      /\ UNCHANGED <<flow, call, seeds, sorted, outcomes, executed, enabled, aborted, snapshot>>
  BY DEF Visit
<1>2. RunTypes /\ Started
  BY <1>1 DEF RunInv, Phases
<1>3. /\ next \in enabled \ DOMAIN outcomes
      /\ Place(sorted, next) > At
      /\ \A n \in enabled \ DOMAIN outcomes :
           Place(sorted, n) > At => Place(sorted, n) >= Place(sorted, next)
  BY <1>1, <1>2, NextDue
<1>4. CASE aborted
  <2>1. Return("cancelled", next, "os.flow.cancelled") /\ UNCHANGED node
    BY <1>4 DEF Visit
  <2>2. \A n \in DOMAIN outcomes : outcomes[n] \notin Stopping
    BY <1>1, NoneStopped
  <2>3. SnapshotTypes' /\ SnapshotOfThePast'
    BY <1>1, SnapshotStays, SnapshotStaysTyped
  <2>4. "cancelled" \in Statuses /\ "os.flow.cancelled" \in Reasons /\ next \in NodesOf \cup {None}
    BY <1>2, <1>3 DEF Statuses, Reasons, RunTypes
  <2> HIDE DEF next
  <2>5. QED
    BY <1>1, <1>2, <2>1, <2>2, <2>3, <2>4, ReturnKeeps
<1>5. CASE ~aborted
  <2>1. pc' = "beforeNode" /\ node' = next /\ UNCHANGED result
    BY <1>5 DEF Visit
  <2> HIDE DEF next
  <2>2. NodesOf' = NodesOf /\ next \in NodesOf
    BY <1>1, <1>2, <1>3 DEF NodesOf, RunTypes
  <2>3. RunTypes'
    <3>1. result' \in Results'
      BY <1>2, <2>1, <2>2 DEF RunTypes, Results
    <3>2. QED
      BY <1>1, <1>2, <2>1, <2>2, <3>1 DEF RunTypes
  <2>4. Phases' /\ AtNode' /\ Answers'
    BY <1>1, <1>2, <1>3, <2>1 DEF Phases, AtNode, Answers, RunInv, Started
  <2>5. Executions' /\ Stops'
    BY <1>1, <2>1 DEF RunInv, Executions, Stops
  <2>6. Enabling'
    BY <1>1, <2>1 DEF RunInv, Enabling, EndedEarly
  <2>7. NoneBehind'
    <3> SUFFICES ASSUME NEW n \in enabled, n \notin DOMAIN outcomes, n # next
                 PROVE  Place(sorted, n) > At'
      BY <1>1, <2>1 DEF NoneBehind
    <3>1. Place(sorted, n) > At
      BY <1>1 DEF RunInv, NoneBehind, EndedEarly
    <3>2. Place(sorted, n) >= Place(sorted, next)
      BY <1>3, <3>1
    <3>3. n \in NodesOf /\ next # None
      BY <1>2, <2>2, Places DEF RunTypes
    <3>4. /\ Place(sorted, n) \in Nat /\ Place(sorted, next) \in Nat
          /\ sorted[Place(sorted, n)] = n /\ sorted[Place(sorted, next)] = next
      BY <1>2, <2>2, <3>3, Places
    <3>5. At' = Place(sorted, next)
      BY <1>1, <2>1, <3>3 DEF At
    <3>6. QED
      BY <3>2, <3>4, <3>5
  <2>8. StartsAtEntry' /\ NothingLeftBehind'
    BY <1>1, <2>1 DEF RunInv, StartsAtEntry, NothingLeftBehind
  <2>9. SnapshotTypes' /\ SnapshotOfThePast'
    BY <1>1, SnapshotStays, SnapshotStaysTyped
  <2>10. QED
    BY <2>3, <2>4, <2>5, <2>6, <2>7, <2>8, <2>9 DEF RunInv
<1>6. QED
  BY <1>4, <1>5

\* Setting the reason of a result leaves the rest of it.
LEMMA ReasonRecorded ==
  ASSUME NEW S, NEW T, NEW U, NEW r \in [status : S, stoppedAt : T, reason : U], NEW why \in U
  PROVE  /\ [r EXCEPT !.reason = why] \in [status : S, stoppedAt : T, reason : U]
         /\ [r EXCEPT !.reason = why].status = r.status
         /\ [r EXCEPT !.reason = why].stoppedAt = r.stoppedAt
OBVIOUS

\* A prefix is one of the longer sequence, too, and has only elements of it.
LEMMA PrefixOfLonger ==
  ASSUME NEW S, NEW s \in Seq(S), NEW t \in Seq(S), NEW x \in S, IsPrefix(s, t)
  PROVE  IsPrefix(s, Append(t, x))
BY DEF IsPrefix

LEMMA PrefixHasNoOthers ==
  ASSUME NEW S, NEW s \in Seq(S), NEW t \in Seq(S), IsPrefix(s, t)
  PROVE  ToSet(s) \subseteq ToSet(t)
<1>1. ASSUME NEW i \in DOMAIN s
      PROVE  i \in DOMAIN t /\ s[i] = t[i]
  BY DEF IsPrefix
<1>2. QED
  BY <1>1 DEF ToSet

LEMMA SettleKeeps ==
  ASSUME RunInv, pc \in {"beforeNode", "handler"},
         NEW outcome \in Outcome, NEW why \in Reasons, Settle(outcome, why)
  PROVE  RunInv'
<1>1. /\ pc' = "checkpoint"
      /\ executed' = Append(executed, node)
      /\ UNCHANGED <<flow, call, seeds, sorted, node, enabled, aborted, snapshot>>
  BY DEF Settle
<1>2. RunTypes /\ Started /\ node \in enabled \ DOMAIN outcomes /\ node \in NodesOf
  BY DEF RunInv, Phases, AtNode, RunTypes
<1>3. /\ DOMAIN outcomes' = DOMAIN outcomes \cup {node}
      /\ outcomes'[node] = outcome
      /\ \A n \in DOMAIN outcomes : outcomes'[n] = outcomes[n]
      /\ outcomes' = [n \in DOMAIN outcomes \cup {node} |->
                        IF n = node THEN outcome ELSE outcomes[n]]
  <2>1. outcomes' = WithOutcome(outcomes, node, outcome)
    BY DEF Settle
  <2>2. QED
    BY <1>2, <2>1 DEF WithOutcome
<1>4. NodesOf' = NodesOf
  BY <1>1 DEF NodesOf
<1>5. result' \in Results /\ result'.status = result.status /\ result'.stoppedAt = result.stoppedAt
  <2>1. result \in Results /\ result' = [result EXCEPT !.reason = why]
    BY <1>2 DEF RunTypes, Settle
  <2>2. QED
    BY <2>1, ReasonRecorded DEF Results
<1>6. /\ executed' \in Seq(NodesOf) /\ Distinct(executed')
      /\ ToSet(executed') = ToSet(executed) \cup {node}
      /\ Last(executed') = node /\ executed' # <<>>
  <2>1. node \notin ToSet(executed) /\ Distinct(executed) /\ executed \in Seq(NodesOf)
    BY <1>2 DEF RunInv, Executions, RunTypes
  <2>2. /\ executed' \in Seq(NodesOf) /\ Distinct(executed')
        /\ ToSet(executed') = ToSet(executed) \cup {node}
    BY <1>1, <1>2, <2>1, AppendDistinct
  <2>3. Len(executed') = Len(executed) + 1 /\ executed'[Len(executed) + 1] = node
    BY <1>1, <2>1
  <2>4. Last(executed') = node /\ executed' # <<>>
    BY <1>1, <2>1, <2>3 DEF Last
  <2>5. QED
    BY <2>2, <2>4
<1>7. RunTypes'
  <2>1. result' \in Results'
    BY <1>4, <1>5 DEF Results
  <2>2. outcomes' \in [DOMAIN outcomes' -> Outcome]
    <3>1. \A n \in DOMAIN outcomes : outcomes[n] \in Outcome
      BY <1>2 DEF RunTypes
    <3>2. QED
      BY <1>3, <3>1
  <2>3. QED
    BY <1>1, <1>2, <1>3, <1>4, <1>6, <2>1, <2>2 DEF RunTypes
<1>8. Phases' /\ AtNode'
  BY <1>1, <1>2, <1>3, <1>6 DEF Phases, AtNode, Started
<1>9. Executions'
  BY <1>1, <1>2, <1>3, <1>6 DEF RunInv, Executions, Started
<1>10. Stops'
  <2>1. \A n \in DOMAIN outcomes : outcomes'[n] \notin Stopping
    BY <1>3, NoneStopped
  <2>2. QED
    BY <1>1, <1>3, <1>6, <2>1 DEF Stops
<1>11. Answers'
  BY <1>1, <1>5 DEF RunInv, Answers
<1>12. Enabling'
  BY <1>1, <1>3, SMTT(30) DEF RunInv, Enabling, Opened, EndedEarly
<1>13. NoneBehind'
  BY <1>1, <1>3 DEF RunInv, NoneBehind, EndedEarly, At
<1>14. StartsAtEntry'
  <2>1. CASE DOMAIN outcomes = {}
    <3>1. Opened(flow, outcomes) = {}
      BY <2>1 DEF Opened
    <3>2. node = flow.entry
      BY <1>2, <3>1 DEF RunInv, Enabling
    <3>3. QED
      BY <1>1, <1>3, <3>2 DEF StartsAtEntry
  <2>2. CASE DOMAIN outcomes # {}
    BY <1>1, <1>3, <2>2 DEF RunInv, StartsAtEntry
  <2>3. QED
    BY <2>1, <2>2
<1>15. NothingLeftBehind'
  BY <1>5, FlowsAssumption DEF RunInv, Answers, NothingLeftBehind, Statuses
<1>16. SnapshotOfThePast'
  <2>1. SUFFICES ASSUME snapshot # None
                 PROVE  /\ IsPrefix(snapshot.executed, executed')
                        /\ DOMAIN snapshot.outcomes = DOMAIN seeds \cup ToSet(snapshot.executed)
                        /\ \A n \in DOMAIN snapshot.outcomes : snapshot.outcomes[n] = outcomes'[n]
    BY <1>1 DEF SnapshotOfThePast
  <2>2. /\ IsPrefix(snapshot.executed, executed)
        /\ DOMAIN snapshot.outcomes = DOMAIN seeds \cup ToSet(snapshot.executed)
        /\ \A n \in DOMAIN snapshot.outcomes : snapshot.outcomes[n] = outcomes[n]
        /\ snapshot.executed \in Seq(NodesOf)
    BY <2>1 DEF RunInv, SnapshotOfThePast, SnapshotTypes
  <2>3. IsPrefix(snapshot.executed, executed')
    BY <1>1, <1>2, <2>2, PrefixOfLonger DEF RunTypes
  <2>4. DOMAIN snapshot.outcomes \subseteq DOMAIN outcomes
    <3>1. ToSet(snapshot.executed) \subseteq ToSet(executed)
      BY <1>2, <2>2, PrefixHasNoOthers DEF RunTypes
    <3>2. QED
      BY <1>2, <2>2, <3>1 DEF RunInv, Executions, Started
  <2>5. QED
    BY <1>3, <2>2, <2>3, <2>4
<1>17. SnapshotTypes'
  BY <1>1, SnapshotStaysTyped
<1>18. QED
  BY <1>7, <1>8, <1>9, <1>10, <1>11, <1>12, <1>13, <1>14, <1>15, <1>16, <1>17 DEF RunInv

LEMMA DebuggerMocksKeeps ==
  ASSUME RunInv, DebuggerMocks
  PROVE  RunInv'
<1>1. PICK outcome \in Outcome : Settle(outcome, None)
  BY DEF DebuggerMocks
<1>2. pc = "beforeNode" /\ None \in Reasons
  BY DEF DebuggerMocks, Reasons
<1>3. QED
  BY <1>1, <1>2, SettleKeeps

LEMMA HandlerSettlesKeeps ==
  ASSUME RunInv, HandlerSettles
  PROVE  RunInv'
<1>1. PICK outcome \in HandlerOutcomes(flow.kind[node]) : Settle(outcome, None)
  BY DEF HandlerSettles
<1>2. pc = "handler" /\ None \in Reasons
  BY DEF HandlerSettles, Reasons
<1>3. outcome \in Outcome
  <2>1. flow.kind[node] \in HandledKinds
    BY <1>2 DEF RunInv, AtNode
  <2>2. QED
    BY <2>1 DEF HandlerOutcomes, HandledKinds, StubOutcome, Outcome
<1>4. QED
  BY <1>1, <1>2, <1>3, SettleKeeps

LEMMA RunNodeKeeps ==
  ASSUME RunInv, RunNode
  PROVE  RunInv'
<1>1. pc = "beforeNode"
  BY DEF RunNode
<1>2. CASE Settle("failed", "flow.handler_missing") \/ Settle("failed", "policy.tool_denied")
             \/ Settle("paused", "hitl")
  <2>1. /\ "failed" \in Outcome /\ "paused" \in Outcome
        /\ {"flow.handler_missing", "policy.tool_denied", "hitl"} \subseteq Reasons
    BY DEF Outcome, Reasons
  <2>2. QED
    BY <1>1, <1>2, <2>1, SettleKeeps
<1>3. CASE /\ flow.kind[node] \in HandledKinds
           /\ pc' = "handler"
           /\ UNCHANGED <<flow, call, seeds, sorted, node, outcomes, executed, enabled,
                          aborted, result, snapshot>>
  <2>1. RunTypes'
    BY <1>3 DEF RunInv, RunTypes, NodesOf, Results
  <2>2. Phases' /\ AtNode' /\ Answers'
    BY <1>1, <1>3 DEF RunInv, Phases, AtNode, Answers, Started, HandledKinds
  <2>3. Executions' /\ Stops'
    BY <1>1, <1>3 DEF RunInv, Executions, Stops
  <2>4. Enabling' /\ NoneBehind'
    BY <1>1, <1>3 DEF RunInv, Enabling, NoneBehind, EndedEarly, At
  <2>5. StartsAtEntry' /\ NothingLeftBehind'
    BY <1>3 DEF RunInv, StartsAtEntry, NothingLeftBehind
  <2>6. SnapshotTypes' /\ SnapshotOfThePast'
    BY <1>3, SnapshotStays, SnapshotStaysTyped
  <2>7. QED
    BY <2>1, <2>2, <2>3, <2>4, <2>5, <2>6 DEF RunInv
<1>4. QED
  BY <1>2, <1>3 DEF RunNode

\* A capture is a state of the run, and keeps an earlier one otherwise.
LEMMA CaptureIsOfNow ==
  ASSUME RunInv, Started, Capture, UNCHANGED <<flow, seeds, outcomes, executed>>
  PROVE  SnapshotTypes' /\ SnapshotOfThePast'
<1>1. CASE Len(executed) % EveryN = 0
  <2>1. snapshot' = [executed |-> executed, outcomes |-> outcomes, enabled |-> enabled]
    BY <1>1 DEF Capture
  <2>2. snapshot'.executed = executed /\ snapshot'.outcomes = outcomes
    BY <2>1
  <2>3. executed \in Seq(NodesOf)
    BY DEF RunInv, RunTypes
  <2>4. IsPrefix(executed, executed)
    BY <2>3 DEF IsPrefix
  <2>5. DOMAIN outcomes = DOMAIN seeds \cup ToSet(executed)
    BY DEF RunInv, Executions, Started
  <2>6. QED
    BY <2>2, <2>3, <2>4, <2>5 DEF SnapshotTypes, SnapshotOfThePast, NodesOf
<1>2. CASE Len(executed) % EveryN # 0
  <2>1. UNCHANGED snapshot
    BY <1>2 DEF Capture
  <2>2. QED
    BY <2>1, SnapshotStays, SnapshotStaysTyped
<1>3. QED
  BY <1>1, <1>2

LEMMA CheckpointedKeeps ==
  ASSUME RunInv, Checkpointed
  PROVE  RunInv'
<1>1. /\ pc = "checkpoint" /\ Capture
      /\ UNCHANGED <<flow, call, seeds, sorted, node, outcomes, executed, aborted>>
  BY DEF Checkpointed
<1>2. RunTypes /\ Started /\ executed # <<>> /\ node = Last(executed) /\ node \in DOMAIN outcomes
  BY <1>1 DEF RunInv, Phases, AtNode
<1>3. SnapshotTypes' /\ SnapshotOfThePast'
  BY <1>1, <1>2, CaptureIsOfNow
<1>4. \A n \in DOMAIN outcomes : outcomes[n] \in Stopping => n = node
  BY <1>1, <1>2 DEF RunInv, Stops
<1>5. CASE outcomes[node] \in Stopping
  <2>1. Return(outcomes[node], node, result.reason) /\ UNCHANGED enabled
    BY <1>5 DEF Checkpointed, Stopping
  <2>2. /\ outcomes[node] \in Statuses /\ outcomes[node] \notin {"completed", "skipped"}
        /\ node \in NodesOf \cup {None} /\ result.reason \in Reasons
    BY <1>2, <1>5 DEF RunTypes, Results, Statuses, Stopping
  <2>3. QED
    BY <1>1, <1>2, <1>3, <1>4, <2>1, <2>2, ReturnKeeps
<1>6. CASE outcomes[node] \notin Stopping
  <2> DEFINE targets == {e.to : e \in {d \in EdgesFrom(flow, node) : edgeMatches(d.on, outcomes[node])}}
  <2>1. enabled' = enabled \cup targets /\ pc' = "visit" /\ result' = NoResult
    BY <1>6 DEF Checkpointed, Stopping
  <2>2. targets = {e.to : e \in {d \in flow.edges : d.from = node /\ edgeMatches(d.on, outcomes[node])}}
    BY DEF EdgesFrom
  <2> HIDE DEF targets
  <2>3. \A n \in targets : n \in NodesOf /\ Place(sorted, n) > At
    <3>1. /\ \A e \in flow.edges : /\ e.from \in NodesOf /\ e.to \in NodesOf
                                   /\ Place(sorted, e.from) < Place(sorted, e.to)
          /\ \A n \in NodesOf : Place(sorted, n) \in DOMAIN sorted
          /\ DOMAIN sorted = 1 .. Len(sorted) /\ Len(sorted) \in Nat
          /\ None \notin NodesOf
      BY <1>2, Places
    <3>2. At = Place(sorted, node)
      BY <1>2, <3>1 DEF At, RunTypes
    <3>3. QED
      BY <2>2, <3>1, <3>2
  <2>4. NodesOf' = NodesOf /\ At' = At
    BY <1>1 DEF NodesOf, At
  <2>5. RunTypes'
    <3>1. result' \in Results'
      BY <2>1 DEF Results, NoResult, Reasons
    <3>2. enabled' \subseteq NodesOf
      BY <1>2, <2>1, <2>3 DEF RunTypes
    <3>3. QED
      BY <1>1, <1>2, <2>1, <2>4, <3>1, <3>2 DEF RunTypes
  <2>6. Phases' /\ AtNode' /\ Answers'
    BY <1>1, <1>2, <2>1 DEF Phases, AtNode, Answers, Started, NoResult
  <2>7. Executions'
    BY <1>1 DEF RunInv, Executions
  <2>8. Stops'
    BY <1>1, <1>4, <1>6 DEF Stops
  <2>9. Enabling'
    <3>1. targets \subseteq Opened(flow, outcomes)
      BY <1>2, <2>2 DEF Opened
    <3>2. \A e \in flow.edges :
             e.from \in DOMAIN outcomes /\ edgeMatches(e.on, outcomes[e.from]) =>
               e.to \in enabled \cup targets \cup DOMAIN outcomes
      BY <1>1, <2>2 DEF RunInv, Enabling, EndedEarly
    <3>3. QED
      BY <1>1, <2>1, <3>1, <3>2 DEF RunInv, Enabling
  <2>10. NoneBehind'
    <3>1. \A n \in enabled : n \in DOMAIN outcomes \/ Place(sorted, n) > At
      BY <1>1 DEF RunInv, NoneBehind, EndedEarly
    <3>2. QED
      BY <1>1, <2>1, <2>3, <2>4, <3>1 DEF NoneBehind
  <2>11. StartsAtEntry'
    BY <1>1 DEF RunInv, StartsAtEntry
  <2>12. NothingLeftBehind'
    BY <2>1, FlowsAssumption DEF NothingLeftBehind, NoResult, Statuses
  <2>13. QED
    BY <1>3, <2>5, <2>6, <2>7, <2>8, <2>9, <2>10, <2>11, <2>12 DEF RunInv
<1>7. QED
  BY <1>5, <1>6

\* Neither the caller's abort nor a step of others is a step of the loop.
LEMMA OthersKeep ==
  ASSUME RunInv, Abort \/ UNCHANGED vars
  PROVE  RunInv'
<1>1. /\ UNCHANGED <<flow, call, seeds, sorted, pc, node, outcomes, executed, enabled, result, snapshot>>
      /\ aborted' \in BOOLEAN
  BY DEF Abort, vars, RunInv, RunTypes
<1>2. RunTypes'
  BY <1>1 DEF RunInv, RunTypes, NodesOf, Results
<1>3. Phases' /\ AtNode' /\ Answers'
  BY <1>1 DEF RunInv, Phases, AtNode, Answers, Started, Unstarted, HandledKinds
<1>4. Executions' /\ Stops'
  BY <1>1 DEF RunInv, Executions, Stops
<1>5. Enabling' /\ NoneBehind'
  BY <1>1 DEF RunInv, Enabling, NoneBehind, EndedEarly, At
<1>6. StartsAtEntry' /\ NothingLeftBehind'
  BY <1>1 DEF RunInv, StartsAtEntry, NothingLeftBehind
<1>7. SnapshotTypes' /\ SnapshotOfThePast'
  BY <1>1, SnapshotStays, SnapshotStaysTyped
<1>8. QED
  BY <1>2, <1>3, <1>4, <1>5, <1>6, <1>7 DEF RunInv

LEMMA StepKeeps == RunInv /\ [Next]_vars => RunInv'
<1> SUFFICES ASSUME RunInv, [Next]_vars
             PROVE  RunInv'
  OBVIOUS
<1>1. CASE Start \/ Begin \/ Visit \/ Finish
  BY <1>1, StartKeeps, BeginKeeps, VisitKeeps, FinishKeeps
<1>2. CASE DebuggerPauses \/ DebuggerMocks \/ RunNode \/ HandlerSettles
  BY <1>2, DebuggerPausesKeeps, DebuggerMocksKeeps, RunNodeKeeps, HandlerSettlesKeeps
<1>3. CASE Checkpointed \/ CheckpointThrows
  BY <1>3, CheckpointedKeeps, CheckpointThrowsKeeps
<1>4. CASE Abort \/ UNCHANGED vars
  BY <1>4, OthersKeep
<1>5. QED
  BY <1>1, <1>2, <1>3, <1>4 DEF Next, RunnerStep

-----------------------------------------------------------------------------
(* The theorems.                                                           *)

\* Whatever flow is run however, the inductive invariant holds.
THEOREM RunsAreSound == Spec => []RunInv
<1>1. Init => RunInv
  BY InitHolds
<1>2. RunInv /\ [Next]_vars => RunInv'
  BY StepKeeps
<1>3. QED
  BY <1>1, <1>2, PTL DEF Spec

\* A run's state is well typed.
THEOREM RunTypesHold == Spec => []TypeOK
<1>1. RunInv => TypeOK
  BY DEF RunInv, RunTypes, TypeOK, Results
<1>2. QED
  BY <1>1, RunsAreSound, PTL

\* One pass over the order suffices: a run that completes has decided all that its
\* outcomes open.
THEOREM OnePassSuffices == Spec => []NothingLeftBehind
<1>1. RunInv => NothingLeftBehind
  BY DEF RunInv
<1>2. QED
  BY <1>1, RunsAreSound, PTL

\* No node runs twice, and the status tells what the nodes came to.
THEOREM RunsTellTruly == Spec => []RunsAsItTells
<1>1. RunInv => RunsOnce
  <2> SUFFICES ASSUME RunInv
               PROVE  RunsOnce
    OBVIOUS
  <2>1. executed \in Seq(NodesOf) /\ Distinct(executed) /\ ToSet(executed) \cap DOMAIN seeds = {}
    BY DEF RunInv, RunTypes, Executions
  <2>2. QED
    BY <2>1, DistinctCounts DEF RunsOnce
<1>2. RunInv => StatusTellsOutcomes
  <2> SUFFICES ASSUME RunInv
               PROVE  StatusTellsOutcomes
    OBVIOUS
  <2> DEFINE stopped == {n \in DOMAIN outcomes \ DOMAIN seeds : outcomes[n] \in {"failed", "paused"}}
  <2>1. \A n \in stopped :
          /\ pc \in {"checkpoint", "returned"} /\ n = Last(executed)
          /\ pc = "returned" => result.status \in {outcomes[n], "threw"} /\ result.stoppedAt = n
    BY DEF RunInv, Stops, Stopping
  <2>2. pc # "returned" => result.status = None
    BY DEF RunInv, Answers
  <2>3. result.status \in Statuses => pc = "returned"
    BY <2>2, FlowsAssumption
  <2>4. \A n \in stopped : outcomes[n] \in {"failed", "paused"}
    OBVIOUS
  <2> HIDE DEF stopped
  <2>5. result.status \in {"completed", "skipped", "cancelled"} => stopped = {}
    BY <2>1, <2>3, <2>4 DEF Statuses
  <2>6. result.status \in {"failed", "paused"} /\ stopped # {} =>
          result.stoppedAt \in stopped /\ result.status = outcomes[result.stoppedAt]
    BY <2>1, <2>3 DEF Statuses
  <2>7. QED
    BY <2>1, <2>5, <2>6 DEF StatusTellsOutcomes, stopped
<1>3. RunInv => RunsAsItTells
  BY <1>1, <1>2 DEF RunsAsItTells
<1>4. QED
  BY <1>3, RunsAreSound, PTL

\* The audit and the order of every run are exact, whatever flow it is called with.
THEOREM AnalysesStayExact == Spec => []AnalysesAreExact
<1>1. RunInv => AnalysesAreExact
  <2> SUFFICES ASSUME RunInv
               PROVE  AuditPassesExactly(flow) /\ SortReturnsTheLeast(flow)
    BY DEF AnalysesAreExact
  <2>1. Listed(flow)
    BY FlowsAssumption DEF RunInv, RunTypes, Listed
  <2>2. QED
    BY <2>1, AuditIsExactOnPaths, SortIsExact
<1>2. QED
  BY <1>1, RunsAreSound, PTL

\* A snapshot is a state the run was in.
THEOREM SnapshotsAreOfThePast == Spec => []SnapshotOfThePast
<1>1. RunInv => SnapshotOfThePast
  BY DEF RunInv
<1>2. QED
  BY <1>1, RunsAreSound, PTL

-----------------------------------------------------------------------------
(* The refinement of FlowProgress.                                         *)

\* The first node that outcomes open, or the entry, stands in the order.
FirstOpenIs(n) ==
  \E i \in DOMAIN sorted :
    /\ sorted[i] = n
    /\ sorted[i] \in SeedsEnable(flow, outcomes)
    /\ \A j \in 1 .. i - 1 : sorted[j] \notin SeedsEnable(flow, outcomes)

\* Of what is enabled, the first that is undecided is also the first that the outcomes open.
LEMMA FirstEnabledIsFirstOpen ==
  ASSUME RunInv, seeds = <<>>, pc \notin {"called", "checkpoint", "returned"},
         NEW n \in enabled \ DOMAIN outcomes,
         \A m \in enabled : m \in DOMAIN outcomes \/ m = n \/ Place(sorted, m) > Place(sorted, n)
  PROVE  FirstOpenIs(n)
<1>1. RunTypes /\ Started /\ n \in NodesOf
  BY DEF RunInv, Phases, RunTypes
<1>2. /\ DOMAIN sorted = 1 .. Len(sorted) /\ Len(sorted) \in Nat
      /\ \A m \in NodesOf : Place(sorted, m) \in DOMAIN sorted /\ sorted[Place(sorted, m)] = m
      /\ \A k \in DOMAIN sorted : Place(sorted, sorted[k]) = k /\ sorted[k] \in NodesOf
  BY <1>1, Places
<1> DEFINE i == Place(sorted, n)
           open == SeedsEnable(flow, outcomes)
<1>3. i \in DOMAIN sorted /\ sorted[i] = n
  BY <1>1, <1>2
<1>4. open = IF outcomes = <<>> THEN {flow.entry} ELSE Opened(flow, outcomes) \ DOMAIN outcomes
  BY DEF SeedsEnable
<1>5. enabled \subseteq {flow.entry} \cup Opened(flow, outcomes)
  BY DEF RunInv, Enabling
<1> HIDE DEF i, open
<1>6. CASE outcomes = <<>>
  <2>1. DOMAIN outcomes = {}
    BY <1>6
  <2>2. Opened(flow, outcomes) = {}
    BY <2>1 DEF Opened
  <2>3. n = flow.entry
    BY <1>5, <2>2
  <2>4. open = {n}
    BY <1>4, <1>6, <2>3
  <2>5. \A j \in 1 .. i - 1 : sorted[j] # n
    BY <1>2, <1>3
  <2>6. QED
    BY <1>3, <2>4, <2>5 DEF open, FirstOpenIs
<1>7. CASE outcomes # <<>>
  <2>1. open = Opened(flow, outcomes) \ DOMAIN outcomes
    BY <1>4, <1>7
  <2>2. DOMAIN outcomes # {}
    BY <1>1, <1>7, NoOutcomes DEF RunTypes
  <2>3. flow.entry \in DOMAIN outcomes
    BY <2>2 DEF RunInv, StartsAtEntry
  <2>4. n \in open
    BY <1>5, <2>1, <2>3
  <2>5. Opened(flow, outcomes) \ DOMAIN outcomes \subseteq enabled
    BY DEF RunInv, Enabling, Opened, EndedEarly
  <2>6. ASSUME NEW j \in 1 .. i - 1
        PROVE  sorted[j] \notin open
    <3>1. j \in DOMAIN sorted /\ j < i
      BY <1>2, <1>3
    <3>2. Place(sorted, sorted[j]) = j
      BY <1>2, <3>1
    <3>3. sorted[j] # n
      BY <1>3, <3>1, <3>2 DEF i
    <3>4. ~(Place(sorted, sorted[j]) > Place(sorted, n))
      BY <1>2, <1>3, <3>1, <3>2 DEF i
    <3>5. QED
      BY <2>1, <2>5, <3>3, <3>4
  <2>7. QED
    BY <1>3, <2>4, <2>6 DEF open, FirstOpenIs
<1>8. QED
  BY <1>6, <1>7

\* The node the loop is at is the first that the outcomes open, or the entry.
LEMMA NodeIsNext ==
  ASSUME RunInv, seeds = <<>>, pc \in {"beforeNode", "handler"}
  PROVE  FirstOpenIs(node)
<1>1. Started /\ node \in enabled \ DOMAIN outcomes /\ node \in NodesOf
  BY DEF RunInv, Phases, AtNode, RunTypes
<1>2. At = Place(sorted, node)
  BY <1>1, Places DEF At, RunInv
<1>3. \A n \in enabled : n \in DOMAIN outcomes \/ Place(sorted, n) > At \/ n = node
  BY DEF RunInv, NoneBehind, EndedEarly
<1>4. QED
  BY <1>1, <1>2, <1>3, FirstEnabledIsFirstOpen

\* So is the node that the loop would go on to.
LEMMA DueIsNext ==
  ASSUME RunInv, seeds = <<>>, pc = "visit", Due # {}
  PROVE  FirstOpenIs(Ahead[Min(Due)]) /\ Ahead[Min(Due)] \in NodesOf \ DOMAIN outcomes
<1> DEFINE n == Ahead[Min(Due)]
<1>1. RunTypes /\ Started
  BY DEF RunInv, Phases
<1>2. /\ n \in enabled \ DOMAIN outcomes
      /\ \A m \in enabled \ DOMAIN outcomes :
           Place(sorted, m) > At => Place(sorted, m) >= Place(sorted, n)
  BY <1>1, NextDue
<1>3. \A m \in enabled : m \in DOMAIN outcomes \/ Place(sorted, m) > At
  BY DEF RunInv, NoneBehind, EndedEarly
<1>4. enabled \subseteq NodesOf
  BY <1>1 DEF RunTypes
<1>5. /\ DOMAIN sorted = 1 .. Len(sorted) /\ Len(sorted) \in Nat
      /\ \A m \in NodesOf : Place(sorted, m) \in DOMAIN sorted /\ sorted[Place(sorted, m)] = m
  BY <1>1, Places
<1> HIDE DEF n
<1>6. ASSUME NEW m \in enabled, m \notin DOMAIN outcomes, m # n
      PROVE  Place(sorted, m) > Place(sorted, n)
  <2>1. Place(sorted, m) >= Place(sorted, n)
    BY <1>2, <1>3, <1>6
  <2>2. Place(sorted, m) # Place(sorted, n)
    BY <1>2, <1>4, <1>5, <1>6
  <2>3. Place(sorted, m) \in Nat /\ Place(sorted, n) \in Nat
    BY <1>2, <1>4, <1>5
  <2>4. QED
    BY <2>1, <2>2, <2>3
<1>7. FirstOpenIs(n)
  BY <1>2, <1>6, FirstEnabledIsFirstOpen
<1>8. QED
  BY <1>2, <1>4, <1>7 DEF n

\* A run that is stopped is stopped at the first open node, and stays there.
LEMMA StopStays ==
  ASSUME RunInv, seeds = <<>>, StopsWhereItGoesOn, [Next]_vars
  PROVE  StopsWhereItGoesOn'
<1>1. CASE pc' # "returned"
  <2>1. RunInv'
    BY StepKeeps
  <2>2. result'.stoppedAt = None
    BY <1>1, <2>1 DEF RunInv, Answers
  <2>3. QED
    BY <2>2 DEF StopsWhereItGoesOn, StoppedBetween
<1>2. CASE pc = "returned"
  <2>1. UNCHANGED <<flow, sorted, outcomes, result>>
    BY <1>2 DEF Next, RunnerStep, Start, Begin, Visit, Finish, DebuggerPauses, DebuggerMocks,
                RunNode, HandlerSettles, Checkpointed, CheckpointThrows, Abort, vars
  <2>2. QED
    BY <2>1 DEF StopsWhereItGoesOn, StoppedBetween
<1>3. CASE pc # "returned" /\ pc' = "returned"
  <2>1. CASE Start \/ Finish
    BY <2>1 DEF Start, Finish, Return, StopsWhereItGoesOn, StoppedBetween
  <2>2. CASE Visit
    <3>1. /\ pc = "visit" /\ Due # {}
          /\ result'.stoppedAt = Ahead[Min(Due)] /\ UNCHANGED <<flow, sorted, outcomes>>
      BY <1>3, <2>2 DEF Visit, Return
    <3>2. FirstOpenIs(result'.stoppedAt)
      BY <3>1, DueIsNext
    <3>3. QED
      BY <3>1, <3>2 DEF StopsWhereItGoesOn, FirstOpenIs
  <2>3. CASE DebuggerPauses
    <3>1. /\ pc = "beforeNode"
          /\ result'.stoppedAt = node /\ UNCHANGED <<flow, sorted, outcomes>>
      BY <2>3 DEF DebuggerPauses, Return
    <3>2. FirstOpenIs(result'.stoppedAt)
      BY <3>1, NodeIsNext
    <3>3. QED
      BY <3>1, <3>2 DEF StopsWhereItGoesOn, FirstOpenIs
  <2>4. CASE Checkpointed
    <3>1. /\ pc = "checkpoint" /\ UNCHANGED outcomes
          /\ result'.status # "cancelled" /\ result'.stoppedAt = node
      BY <1>3, <2>4 DEF Checkpointed, Return
    <3>2. node \in DOMAIN outcomes
      BY <3>1 DEF RunInv, AtNode
    <3>3. QED
      BY <3>1, <3>2 DEF StopsWhereItGoesOn, StoppedBetween
  <2>5. CASE CheckpointThrows
    BY <2>5 DEF CheckpointThrows, Return, StopsWhereItGoesOn, StoppedBetween
  <2>6. CASE Begin \/ DebuggerMocks \/ RunNode \/ HandlerSettles \/ Abort \/ UNCHANGED vars
    BY <1>3, <2>6 DEF Begin, DebuggerMocks, RunNode, HandlerSettles, Settle, Abort, vars
  <2>7. QED
    BY <2>1, <2>2, <2>3, <2>4, <2>5, <2>6 DEF Next, RunnerStep
<1>4. QED
  BY <1>1, <1>2, <1>3

\* Recording the outcome of the node is deciding the next node.
LEMMA SettleDecides ==
  ASSUME RunInv, seeds = <<>>, pc \in {"beforeNode", "handler"},
         NEW outcome \in Outcome, NEW why, Settle(outcome, why)
  PROVE  Progress!Next
<1> DEFINE open == Progress!Enabled(flow, outcomes)
<1>0. open = SeedsEnable(flow, outcomes)
  BY DEF Progress!Enabled, Progress!Opened, SeedsEnable, Opened, Progress!edgeMatches, edgeMatches
<1>1. PICK i \in DOMAIN sorted :
        /\ sorted[i] = node
        /\ sorted[i] \in open
        /\ \A j \in 1 .. i - 1 : sorted[j] \notin open
  BY <1>0, NodeIsNext DEF FirstOpenIs
<1>2. \A n \in DOMAIN outcomes : outcomes[n] \notin {"failed", "paused"}
  BY NoneStopped DEF Stopping
<1>3. outcomes' = Progress!WithOutcome(outcomes, sorted[i], outcome)
  BY <1>1 DEF Settle, WithOutcome, Progress!WithOutcome
<1>4. UNCHANGED <<flow, sorted>>
  BY DEF Settle
<1>5. Progress!Decide(outcome)
  BY <1>1, <1>2, <1>3, <1>4 DEF Progress!Decide
<1>6. outcome \in Progress!Outcome
  BY DEF Outcome, Progress!Outcome
<1>7. QED
  BY <1>5, <1>6 DEF Progress!Next

\* Every step of a run decides the next node or leaves the progress as it is.
LEMMA StepProgresses ==
  RunInv /\ seeds = <<>> /\ [Next]_vars => [Progress!Next]_<<flow, sorted, outcomes>>
<1> SUFFICES ASSUME RunInv, seeds = <<>>, [Next]_vars
             PROVE  [Progress!Next]_<<flow, sorted, outcomes>>
  OBVIOUS
<1>1. CASE Begin
  <2>1. pc = "called" /\ outcomes' = seeds /\ UNCHANGED <<flow, sorted>>
    BY <1>1 DEF Begin
  <2>2. outcomes = <<>>
    BY <2>1 DEF RunInv, Phases, Unstarted
  <2>3. QED
    BY <2>1, <2>2
<1>2. CASE DebuggerMocks
  BY <1>2, SettleDecides DEF DebuggerMocks
<1>3. CASE RunNode
  BY <1>3, SettleDecides DEF RunNode, Outcome
<1>4. CASE HandlerSettles
  <2>1. flow.kind[node] \in HandledKinds /\ pc = "handler"
    BY <1>4 DEF HandlerSettles, RunInv, AtNode
  <2>2. HandlerOutcomes(flow.kind[node]) \subseteq Outcome
    BY <2>1 DEF HandlerOutcomes, HandledKinds, StubOutcome, Outcome
  <2>3. QED
    BY <1>4, <2>1, <2>2, SettleDecides DEF HandlerSettles
<1>5. CASE Start \/ Visit \/ Finish \/ DebuggerPauses
  BY <1>5 DEF Start, Visit, Finish, DebuggerPauses
<1>6. CASE Checkpointed \/ CheckpointThrows \/ Abort \/ UNCHANGED vars
  BY <1>6 DEF Checkpointed, CheckpointThrows, Abort, vars
<1>7. QED
  BY <1>1, <1>2, <1>3, <1>4, <1>5, <1>6 DEF Next, RunnerStep

\* A run that is not branched has no seeds.
LEMMA Unseeded == Spec => [](seeds = <<>>)
<1>1. Init => seeds = <<>>
  BY DEF Init
<1>2. seeds = <<>> /\ [Next]_vars => (seeds = <<>>)'
  BY DEF Next, RunnerStep, Start, Begin, Visit, Finish, DebuggerPauses, DebuggerMocks, RunNode,
         HandlerSettles, Settle, Checkpointed, CheckpointThrows, Abort, vars
<1>3. QED
  BY <1>1, <1>2, PTL DEF Spec

\* A run stopped between two nodes, by signal or debugger, names the node at which a run
\* seeded with its outcomes goes on, whatever flow it is.
THEOREM StoppedRunsGoOnThere == Spec => []StopsWhereItGoesOn
<1>1. Init => StopsWhereItGoesOn
  BY FlowsAssumption DEF Init, NoResult, StopsWhereItGoesOn, StoppedBetween
<1>2. RunInv /\ seeds = <<>> /\ StopsWhereItGoesOn /\ [Next]_vars => StopsWhereItGoesOn'
  BY StopStays
<1>3. QED
  BY <1>1, <1>2, RunsAreSound, Unseeded, PTL DEF Spec

\* The order that the progress goes by is that of the run.
LEMMA SameOrder ==
  ASSUME NEW f
  PROVE  Progress!topoOrder(f) = topoOrder(f)
<1> DEFINE next(order) ==
             {n \in ToSet(f.nodes) \ ToSet(order) :
                \A e \in f.edges : e.to = n => e.from \in ToSet(order)}
           sort == CHOOSE order : order = [k \in Nat |->
                     IF k = 0 THEN <<>>
                     ELSE IF next(order[k - 1]) = {} THEN order[k - 1]
                          ELSE Append(order[k - 1], Min(next(order[k - 1])))]
<1>1. topoOrder(f) = sort[Len(f.nodes)]
  BY DEF topoOrder, Ids
<1>2. Progress!topoOrder(f) = sort[Len(f.nodes)]
  BY DEF Progress!topoOrder, Progress!Ids, Progress!ToSet, ToSet, Progress!Min, Min
<1>3. QED
  BY <1>1, <1>2

\* Running a flow makes its progress: the loop over the precomputed order decides the
\* first node that the outcomes enable, whatever flow it is and wherever it ends.
THEOREM RunsMakeProgress == Spec => ImplementsFlowProgress
<1>1. Init => Progress!Init
  BY SameOrder DEF Init, Progress!Init
<1>2. RunInv /\ seeds = <<>> /\ [Next]_vars => [Progress!Next]_<<flow, sorted, outcomes>>
  BY StepProgresses
<1>3. QED
  BY <1>1, <1>2, RunsAreSound, Unseeded, PTL DEF Spec, ImplementsFlowProgress, Progress!Spec

-----------------------------------------------------------------------------
(* The inductive invariant, in named parts, beside that of the runner.     *)

\* A run never changes what it was seeded with.
SeedsKept == \A n \in DOMAIN seeds \cap DOMAIN outcomes : outcomes[n] = seeds[n]

\* The node was opened by the outcome of a node executed before the i-th.
OpenedBefore(n, i) ==
  \E e \in flow.edges : /\ e.to = n
                        /\ edgeMatches(e.on, outcomes[e.from])
                        /\ \E j \in DOMAIN executed : j < i /\ executed[j] = e.from

\* A run without seeds begins at the entry, which is enabled until it is decided, and
\* goes on to nodes that earlier ones opened.
NoSeeds == seeds = <<>>
RunsFromEntry ==
  NoSeeds =>
    /\ pc \notin {"called", "returned"} => flow.entry \in enabled
    /\ result.status \in {"completed", "skipped"} => flow.entry \in DOMAIN outcomes
    /\ \A i \in DOMAIN executed : \/ i = 1 /\ executed[i] = flow.entry
                                  \/ OpenedBefore(executed[i], i)

RunExtra == SeedsKept /\ RunsFromEntry

\* A branch is seeded with the nodes before its branch point, as its parent decided them.
FromParent ==
  generation > 0 =>
    /\ parent.executed \in Seq(NodesOf) /\ Distinct(parent.executed)
    /\ branchPoint \in ToSet(parent.executed)
    /\ DOMAIN seeds =
         {parent.executed[i] : i \in 1 .. Place(parent.executed, branchPoint) - 1}
    /\ \A n \in DOMAIN seeds : seeds[n] = parent.outcomes[n]

\* What a first branch is seeded with opens its branch point, unless that is the entry.
SeedsOpenPoint ==
  /\ generation \in Nat
  /\ generation = 0 => NoSeeds
  /\ generation = 1 => \/ NoSeeds /\ branchPoint = flow.entry
                       \/ branchPoint \in Opened(flow, seeds)

BranchInv ==
  /\ RunInv
  /\ RunExtra
  /\ FromParent
  /\ SeedsOpenPoint

-----------------------------------------------------------------------------
(* Every step of a run keeps what branches rely on.                        *)

LEMMA SettleExtra ==
  ASSUME RunInv, RunExtra, RunInv', pc \in {"beforeNode", "handler"},
         NEW outcome \in Outcome, NEW why, Settle(outcome, why)
  PROVE  RunExtra'
<1>1. /\ pc' = "checkpoint" /\ executed' = Append(executed, node)
      /\ outcomes' = WithOutcome(outcomes, node, outcome)
      /\ UNCHANGED <<flow, seeds, enabled>>
  BY DEF Settle
<1>2. /\ RunTypes /\ Started /\ node \in enabled \ DOMAIN outcomes /\ node \in NodesOf
      /\ executed \in Seq(NodesOf)
      /\ ToSet(executed) = DOMAIN outcomes \ DOMAIN seeds
  BY DEF RunInv, Phases, AtNode, RunTypes, Executions
<1>3. /\ DOMAIN outcomes' = DOMAIN outcomes \cup {node}
      /\ \A n \in DOMAIN outcomes : outcomes'[n] = outcomes[n]
  BY <1>1, <1>2 DEF WithOutcome
<1>4. SeedsKept'
  BY <1>1, <1>2, <1>3 DEF RunExtra, SeedsKept, Started
<1>5. /\ DOMAIN executed' = DOMAIN executed \cup {Len(executed) + 1}
      /\ \A i \in DOMAIN executed : executed'[i] = executed[i] /\ i < Len(executed) + 1
      /\ executed'[Len(executed) + 1] = node
      /\ Len(executed) \in Nat /\ DOMAIN executed = 1 .. Len(executed)
  BY <1>1, <1>2
<1>6. ASSUME NoSeeds, NEW i \in DOMAIN executed'
      PROVE  \/ i = 1 /\ executed'[i] = flow.entry
             \/ OpenedBefore(executed[i], i)'
  <2>1. ToSet(executed) = DOMAIN outcomes
    BY <1>2, <1>6 DEF NoSeeds
  <2>2. \A j \in DOMAIN executed : executed[j] \in DOMAIN outcomes
    BY <2>1 DEF ToSet
  <2>3. CASE i \in DOMAIN executed
    <3>1. CASE i = 1 /\ executed[i] = flow.entry
      BY <1>5, <2>3, <3>1
    <3>2. CASE OpenedBefore(executed[i], i)
      <4>1. PICK e \in flow.edges, j \in DOMAIN executed :
              /\ e.to = executed[i] /\ edgeMatches(e.on, outcomes[e.from])
              /\ j < i /\ executed[j] = e.from
        BY <3>2 DEF OpenedBefore
      <4>2. outcomes'[e.from] = outcomes[e.from]
        BY <1>3, <2>2, <4>1
      <4>3. executed'[i] = executed[i] /\ executed'[j] = executed[j] /\ j \in DOMAIN executed'
        BY <1>5, <2>3
      <4>4. QED
        BY <1>1, <4>1, <4>2, <4>3 DEF OpenedBefore
    <3>3. QED
      BY <1>6, <2>3, <3>1, <3>2 DEF RunExtra, RunsFromEntry
  <2>4. CASE i = Len(executed) + 1
    <3>1. executed'[i] = node
      BY <1>5, <2>4
    <3>2. CASE DOMAIN outcomes = {}
      <4>1. Opened(flow, outcomes) = {}
        BY <3>2 DEF Opened
      <4>2. node = flow.entry
        BY <1>2, <4>1 DEF RunInv, Enabling
      <4>3. Len(executed) = 0
        <5>1. 1 \notin DOMAIN executed
          BY <2>2, <3>2
        <5>2. QED
          BY <1>5, <5>1
      <4>4. QED
        BY <2>4, <3>1, <4>2, <4>3
    <3>3. CASE DOMAIN outcomes # {}
      <4>1. node # flow.entry
        BY <1>2, <1>6, <3>3 DEF RunInv, StartsAtEntry, NoSeeds
      <4>2. PICK e \in flow.edges :
              e.to = node /\ e.from \in DOMAIN outcomes /\ edgeMatches(e.on, outcomes[e.from])
        BY <1>2, <4>1 DEF RunInv, Enabling, Opened
      <4>3. PICK j \in DOMAIN executed : executed[j] = e.from
        BY <2>1, <4>2 DEF ToSet
      <4>4. outcomes'[e.from] = outcomes[e.from] /\ j < i /\ j \in DOMAIN executed' /\ executed'[j] = e.from
        BY <1>3, <1>5, <2>4, <4>2, <4>3
      <4>5. QED
        BY <1>1, <3>1, <4>2, <4>4 DEF OpenedBefore
    <3>4. QED
      BY <3>2, <3>3
  <2>5. QED
    BY <1>5, <2>3, <2>4
<1>7. result'.status = None
  BY <1>1 DEF RunInv, Answers
<1>8. RunsFromEntry'
  <2>1. pc \notin {"called", "returned"}
    OBVIOUS
  <2>2. None \notin {"completed", "skipped"}
    BY FlowsAssumption DEF Statuses
  <2>3. NoSeeds' = NoSeeds
    BY <1>1 DEF NoSeeds
  <2>4. QED
    BY <1>1, <1>6, <1>7, <2>1, <2>2, <2>3 DEF RunExtra, RunsFromEntry
<1>9. QED
  BY <1>4, <1>8 DEF RunExtra

LEMMA FinishExtra ==
  ASSUME RunInv, RunExtra, Finish
  PROVE  RunExtra'
<1>1. /\ pc = "visit" /\ Due = {} /\ pc' = "returned"
      /\ UNCHANGED <<flow, seeds, outcomes, executed, enabled>>
  BY DEF Finish, Return
<1>2. enabled \subseteq DOMAIN outcomes
  BY <1>1, AllDecided
<1>3. SeedsKept' /\ RunsFromEntry'
  BY <1>1, <1>2 DEF RunExtra, SeedsKept, RunsFromEntry, OpenedBefore, NoSeeds
<1>4. QED
  BY <1>3 DEF RunExtra

LEMMA BeginExtra ==
  ASSUME RunInv, RunExtra, RunInv', Begin
  PROVE  RunExtra'
<1>1. /\ pc = "called" /\ pc' = "visit" /\ outcomes' = seeds
      /\ enabled' = SeedsEnable(flow, seeds)
      /\ UNCHANGED <<flow, seeds, executed>>
  BY DEF Begin
<1>2. executed = <<>> /\ result'.status = None
  BY <1>1 DEF RunInv, Phases, Unstarted, Answers
<1>3. SeedsKept'
  BY <1>1 DEF SeedsKept
<1>4. DOMAIN executed' = {}
  BY <1>1, <1>2
<1>5. RunsFromEntry'
  BY <1>1, <1>2, <1>4, FlowsAssumption DEF RunsFromEntry, SeedsEnable, NoSeeds, Statuses
<1>6. QED
  BY <1>3, <1>5 DEF RunExtra

LEMMA StepExtra ==
  ASSUME RunInv, RunExtra, [Next]_vars
  PROVE  RunExtra'
<1>1. RunInv'
  BY StepKeeps
<1>2. CASE DebuggerMocks
  BY <1>1, <1>2, SettleExtra DEF DebuggerMocks
<1>3. CASE HandlerSettles
  <2>1. flow.kind[node] \in HandledKinds /\ pc = "handler"
    BY <1>3 DEF HandlerSettles, RunInv, AtNode
  <2>2. HandlerOutcomes(flow.kind[node]) \subseteq Outcome
    BY <2>1 DEF HandlerOutcomes, HandledKinds, StubOutcome, Outcome
  <2>3. QED
    BY <1>1, <1>3, <2>1, <2>2, SettleExtra DEF HandlerSettles
<1>4. CASE RunNode
  <2>1. CASE \E outcome \in Outcome, why \in Reasons : Settle(outcome, why)
    BY <1>1, <1>4, <2>1, SettleExtra DEF RunNode
  <2>2. CASE /\ pc' = "handler"
             /\ UNCHANGED <<flow, call, seeds, sorted, node, outcomes, executed, enabled,
                            aborted, result, snapshot>>
    BY <1>4, <2>2 DEF RunNode, RunExtra, SeedsKept, RunsFromEntry, OpenedBefore, NoSeeds
  <2>3. QED
    BY <1>4, <2>1, <2>2 DEF RunNode, Outcome, Reasons
<1>5. CASE Finish
  BY <1>5, FinishExtra
<1>6. CASE Begin
  BY <1>1, <1>6, BeginExtra
<1>7. CASE Visit \/ Checkpointed
  <2>1. /\ pc \in {"visit", "checkpoint"} /\ enabled \subseteq enabled'
        /\ UNCHANGED <<flow, seeds, outcomes, executed>>
    BY <1>7 DEF Visit, Checkpointed, Return
  <2>2. result'.status \notin {"completed", "skipped"}
    <3>1. result'.status \in {None, "cancelled", "failed", "paused"}
      <4>1. CASE pc' = "returned"
        <5>1. CASE Visit
          BY <4>1, <5>1 DEF Visit, Return
        <5>2. CASE Checkpointed
          BY <4>1, <5>2 DEF Checkpointed, Return
        <5>3. QED
          BY <1>7, <5>1, <5>2
      <4>2. CASE pc' # "returned"
        BY <1>1, <4>2 DEF RunInv, Answers
      <4>3. QED
        BY <4>1, <4>2
    <3>2. QED
      BY <3>1, FlowsAssumption DEF Statuses
  <2>3. QED
    BY <2>1, <2>2 DEF RunExtra, SeedsKept, RunsFromEntry, OpenedBefore, NoSeeds
<1>8. CASE Start \/ DebuggerPauses \/ CheckpointThrows
  <2>1. /\ pc' = "returned" /\ UNCHANGED <<flow, seeds, outcomes, executed>>
        /\ result'.status \notin {"completed", "skipped"}
    BY <1>8 DEF Start, DebuggerPauses, CheckpointThrows, Return
  <2>2. QED
    BY <2>1 DEF RunExtra, SeedsKept, RunsFromEntry, OpenedBefore, NoSeeds
<1>9. CASE Abort \/ UNCHANGED vars
  <2>1. UNCHANGED <<flow, seeds, pc, outcomes, executed, enabled, result>>
    BY <1>9 DEF Abort, vars
  <2>2. QED
    BY <2>1 DEF RunExtra, SeedsKept, RunsFromEntry, OpenedBefore, NoSeeds
<1>10. QED
  BY <1>2, <1>3, <1>4, <1>5, <1>6, <1>7, <1>8, <1>9 DEF Next, RunnerStep

-----------------------------------------------------------------------------
(* Branching.                                                              *)

\* What precedes an element of a sequence of distinct elements.
LEMMA Before ==
  ASSUME NEW S, NEW s \in Seq(S), Distinct(s), NEW x \in ToSet(s)
  PROVE  /\ DOMAIN s = 1 .. Len(s) /\ Len(s) \in Nat
         /\ Place(s, x) \in DOMAIN s /\ s[Place(s, x)] = x
         /\ ToSet(SubSeq(s, 1, Place(s, x) - 1)) = {s[i] : i \in 1 .. Place(s, x) - 1}
         /\ \A i \in 1 .. Place(s, x) - 1 : i \in DOMAIN s /\ i < Place(s, x) /\ s[i] # x
<1>1. DOMAIN s = 1 .. Len(s) /\ Len(s) \in Nat
  OBVIOUS
<1>2. Place(s, x) \in DOMAIN s /\ s[Place(s, x)] = x
  BY DEF Place, ToSet
<1> DEFINE p == Place(s, x)
<1> HIDE DEF p
<1>3. p \in 1 .. Len(s) /\ s[p] = x
  BY <1>1, <1>2 DEF p
<1>4. /\ DOMAIN SubSeq(s, 1, p - 1) = 1 .. p - 1
      /\ \A i \in 1 .. p - 1 : SubSeq(s, 1, p - 1)[i] = s[i]
  BY <1>1, <1>3
<1>5. ToSet(SubSeq(s, 1, p - 1)) = {s[i] : i \in 1 .. p - 1}
  BY <1>4 DEF ToSet
<1>6. \A i \in 1 .. p - 1 : i \in DOMAIN s /\ i < p /\ s[i] # x
  BY <1>1, <1>3 DEF Distinct
<1>7. QED
  BY <1>1, <1>2, <1>5, <1>6 DEF p

\* A snapshot's nodes and outcomes are those of its run, up to some point.
LEMMA SnapshotShape ==
  ASSUME RunInv, pc = "returned", snapshot # None
  PROVE  /\ snapshot.executed \in Seq(NodesOf) /\ Distinct(snapshot.executed)
         /\ DOMAIN snapshot.executed \subseteq DOMAIN executed
         /\ \A i \in DOMAIN snapshot.executed : snapshot.executed[i] = executed[i]
         /\ ToSet(snapshot.executed) \subseteq DOMAIN snapshot.outcomes
         /\ ToSet(snapshot.executed) \subseteq DOMAIN outcomes
         /\ \A n \in ToSet(snapshot.executed) : snapshot.outcomes[n] = outcomes[n]
         /\ \A i, k \in DOMAIN snapshot.executed :
              i < k => outcomes[snapshot.executed[i]] \in Outcome \ Stopping
<1> DEFINE s == snapshot.executed
<1>1. /\ s \in Seq(NodesOf) /\ executed \in Seq(NodesOf) /\ IsPrefix(s, executed)
      /\ DOMAIN snapshot.outcomes = DOMAIN seeds \cup ToSet(s)
      /\ \A n \in DOMAIN snapshot.outcomes : snapshot.outcomes[n] = outcomes[n]
  BY DEF RunInv, SnapshotOfThePast, SnapshotTypes, RunTypes
<1>2. Distinct(executed) /\ ToSet(executed) \subseteq DOMAIN outcomes
  BY DEF RunInv, Executions
<1> HIDE DEF s
<1>3. /\ DOMAIN s = 1 .. Len(s) /\ Len(s) \in Nat
      /\ DOMAIN executed = 1 .. Len(executed) /\ Len(executed) \in Nat
  BY <1>1
<1>4. DOMAIN s \subseteq DOMAIN executed /\ \A i \in DOMAIN s : s[i] = executed[i]
  BY <1>1 DEF IsPrefix
<1>5. Distinct(s)
  BY <1>2, <1>4 DEF Distinct
<1>6. ToSet(s) \subseteq ToSet(executed)
  BY <1>4 DEF ToSet
<1>7. ASSUME NEW i \in DOMAIN s, NEW k \in DOMAIN s, i < k
      PROVE  outcomes[s[i]] \in Outcome \ Stopping
  <2>1. s[i] \in DOMAIN outcomes /\ s[i] = executed[i]
    BY <1>2, <1>4, <1>6 DEF ToSet
  <2>2. Last(executed) = executed[Len(executed)] /\ Len(executed) \in DOMAIN executed /\ i # Len(executed)
    BY <1>3, <1>4, <1>7 DEF Last
  <2>3. s[i] # Last(executed)
    BY <1>2, <1>4, <2>1, <2>2 DEF Distinct
  <2>4. outcomes[s[i]] \in Outcome
    BY <2>1 DEF RunInv, RunTypes
  <2>5. QED
    BY <2>1, <2>3, <2>4 DEF RunInv, Stops
<1>8. QED
  BY <1>1, <1>2, <1>4, <1>5, <1>6, <1>7 DEF s

\* Branching at a node seeds the branch with what was decided before it.
LEMMA BranchSeeds ==
  ASSUME BranchInv, NEW id, Branch(id)
  PROVE  /\ UNCHANGED <<flow, call, sorted>> /\ parent' = snapshot /\ branchPoint' = id
         /\ snapshot.executed \in Seq(NodesOf) /\ Distinct(snapshot.executed)
         /\ id \in ToSet(snapshot.executed)
         /\ DOMAIN seeds' = {snapshot.executed[i] : i \in 1 .. Place(snapshot.executed, id) - 1}
         /\ \A n \in DOMAIN seeds' :
              /\ n \in ToSet(snapshot.executed)
              /\ seeds'[n] = snapshot.outcomes[n]
              /\ seeds'[n] = outcomes[n]
              /\ seeds'[n] \in Outcome \ Stopping
         /\ seeds' \in [DOMAIN seeds' -> Outcome \ Stopping]
<1> DEFINE s == snapshot.executed
           prior == ToSet(SubSeq(s, 1, Place(s, id) - 1)) \cap DOMAIN snapshot.outcomes
<1>1. /\ pc = "returned" /\ snapshot # None /\ id \in ToSet(s)
      /\ seeds' = SeedsBefore(snapshot, id)
      /\ parent' = snapshot /\ branchPoint' = id
      /\ UNCHANGED <<flow, call, sorted>>
  BY DEF Branch
<1>2. seeds' = [n \in prior |-> snapshot.outcomes[n]]
  BY <1>1 DEF SeedsBefore, Place
<1>3. /\ s \in Seq(NodesOf) /\ Distinct(s)
      /\ ToSet(s) \subseteq DOMAIN snapshot.outcomes
      /\ \A n \in ToSet(s) : snapshot.outcomes[n] = outcomes[n]
      /\ \A i, k \in DOMAIN s : i < k => outcomes[s[i]] \in Outcome \ Stopping
  BY <1>1, SnapshotShape DEF BranchInv
<1> HIDE DEF s
<1>4. /\ Place(s, id) \in DOMAIN s
      /\ ToSet(SubSeq(s, 1, Place(s, id) - 1)) = {s[i] : i \in 1 .. Place(s, id) - 1}
      /\ \A i \in 1 .. Place(s, id) - 1 : i \in DOMAIN s /\ i < Place(s, id)
  BY <1>1, <1>3, Before
<1>5. \A n \in {s[i] : i \in 1 .. Place(s, id) - 1} :
        n \in ToSet(s) /\ outcomes[n] \in Outcome \ Stopping
  BY <1>3, <1>4 DEF ToSet
<1>6. prior = {s[i] : i \in 1 .. Place(s, id) - 1}
  BY <1>3, <1>4, <1>5
<1> HIDE DEF prior
<1>7. /\ DOMAIN seeds' = prior
      /\ \A n \in prior : seeds'[n] = snapshot.outcomes[n] /\ seeds'[n] = outcomes[n]
  BY <1>2, <1>3, <1>5, <1>6
<1>8. seeds' \in [prior -> Outcome \ Stopping]
  BY <1>2, <1>3, <1>5, <1>6
<1>9. QED
  BY <1>1, <1>3, <1>5, <1>6, <1>7, <1>8 DEF s

LEMMA BranchKeepsRun ==
  ASSUME BranchInv, NEW id, Branch(id)
  PROVE  RunInv'
<1>1. /\ pc' = "called" /\ node' = None /\ outcomes' = <<>> /\ executed' = <<>> /\ enabled' = {}
      /\ aborted' = FALSE /\ result' = NoResult /\ snapshot' = None
      /\ UNCHANGED <<flow, call, sorted>>
  BY DEF Branch
<1>2. /\ NodesOf' = NodesOf
      /\ seeds' \in [DOMAIN seeds' -> Outcome \ Stopping]
      /\ DOMAIN seeds' \subseteq NodesOf
  <2>1. /\ snapshot.executed \in Seq(NodesOf)
        /\ \A n \in DOMAIN seeds' : n \in ToSet(snapshot.executed)
        /\ seeds' \in [DOMAIN seeds' -> Outcome \ Stopping]
    BY BranchSeeds
  <2>2. ToSet(snapshot.executed) \subseteq NodesOf
    BY <2>1 DEF ToSet
  <2>3. QED
    BY <1>1, <2>1, <2>2 DEF NodesOf
<1>3. RunTypes'
  <2>1. result' \in Results'
    BY <1>1 DEF Results, NoResult, Reasons
  <2>2. outcomes' \in [DOMAIN outcomes' -> Outcome] /\ DOMAIN outcomes' = {}
    BY <1>1
  <2>3. executed' \in Seq(NodesOf)
    BY <1>1
  <2>4. QED
    BY <1>1, <1>2, <2>1, <2>2, <2>3 DEF BranchInv, RunInv, RunTypes
<1>4. Phases' /\ AtNode'
  BY <1>1 DEF Phases, AtNode, Unstarted
<1>5. Executions' /\ Stops' /\ Answers'
  BY <1>1 DEF Executions, Stops, Answers, NoResult, Distinct, ToSet
<1>6. Enabling' /\ NoneBehind'
  BY <1>1 DEF Enabling, NoneBehind
<1>7. StartsAtEntry' /\ NothingLeftBehind' /\ SnapshotTypes' /\ SnapshotOfThePast'
  BY <1>1, FlowsAssumption
  DEF StartsAtEntry, NothingLeftBehind, SnapshotTypes, SnapshotOfThePast, NoResult, Statuses
<1>8. QED
  BY <1>3, <1>4, <1>5, <1>6, <1>7 DEF RunInv

LEMMA BranchKeeps ==
  ASSUME BranchInv, NEW id, Branch(id)
  PROVE  BranchInv'
<1> DEFINE s == snapshot.executed
           p == Place(s, id)
<1>1. /\ pc = "returned" /\ pc' = "called" /\ outcomes' = <<>> /\ executed' = <<>>
      /\ result' = NoResult /\ snapshot # None
      /\ generation' = generation + 1
  BY DEF Branch
<1>2. /\ UNCHANGED <<flow, call, sorted>> /\ parent' = snapshot /\ branchPoint' = id
      /\ s \in Seq(NodesOf) /\ Distinct(s) /\ id \in ToSet(s)
      /\ DOMAIN seeds' = {s[i] : i \in 1 .. p - 1}
      /\ \A n \in DOMAIN seeds' : seeds'[n] = snapshot.outcomes[n] /\ seeds'[n] = outcomes[n]
  BY BranchSeeds
<1>3. seeds' \in [DOMAIN seeds' -> Outcome \ Stopping]
  BY BranchSeeds
<1>4. RunExtra'
  <2>1. DOMAIN outcomes' = {} /\ DOMAIN executed' = {}
    BY <1>1
  <2>2. QED
    BY <1>1, <2>1, FlowsAssumption DEF RunExtra, SeedsKept, RunsFromEntry, NoResult, Statuses
<1>5. FromParent'
  BY <1>2 DEF FromParent, NodesOf
<1>6. SeedsOpenPoint'
  <2>1. generation \in Nat /\ (generation = 0 => NoSeeds)
    BY DEF BranchInv, SeedsOpenPoint
  <2>2. CASE generation # 0
    BY <1>1, <2>1, <2>2 DEF SeedsOpenPoint
  <2>3. CASE generation = 0
    <3>1. /\ p \in DOMAIN s /\ s[p] = id /\ DOMAIN s = 1 .. Len(s) /\ Len(s) \in Nat
      BY <1>2, Before
    <3>2. /\ DOMAIN s \subseteq DOMAIN executed /\ \A i \in DOMAIN s : s[i] = executed[i]
      BY <1>1, SnapshotShape DEF BranchInv
    <3>3. DOMAIN executed \subseteq Nat \ {0}
      <4>1. executed \in Seq(NodesOf)
        BY DEF BranchInv, RunInv, RunTypes
      <4>2. QED
        BY <4>1
    <3> HIDE DEF s, p
    <3>4. \/ p = 1 /\ id = flow.entry
          \/ OpenedBefore(id, p)
      BY <2>1, <2>3, <3>1, <3>2 DEF BranchInv, RunExtra, RunsFromEntry
    <3>5. CASE p = 1 /\ id = flow.entry
      <4>1. DOMAIN seeds' = {}
        BY <1>2, <3>5
      <4>2. seeds' = <<>>
        BY <1>3, <4>1, NoOutcomes
      <4>3. QED
        BY <1>1, <1>2, <2>3, <3>5, <4>2 DEF SeedsOpenPoint, NoSeeds
    <3>6. CASE OpenedBefore(id, p)
      <4>1. PICK e \in flow.edges, j \in DOMAIN executed :
              e.to = id /\ edgeMatches(e.on, outcomes[e.from]) /\ j < p /\ executed[j] = e.from
        BY <3>6 DEF OpenedBefore
      <4>2. j \in 1 .. p - 1 /\ s[j] = e.from
        BY <3>1, <3>2, <3>3, <4>1
      <4>3. e.from \in DOMAIN seeds' /\ seeds'[e.from] = outcomes[e.from]
        BY <1>2, <4>2
      <4>4. id \in Opened(flow, seeds')
        BY <4>1, <4>3 DEF Opened
      <4>5. QED
        BY <1>1, <1>2, <2>3, <4>4 DEF SeedsOpenPoint
    <3>7. QED
      BY <3>4, <3>5, <3>6
  <2>4. QED
    BY <2>2, <2>3
<1>7. RunInv'
  BY BranchKeepsRun
<1>8. QED
  BY <1>4, <1>5, <1>6, <1>7 DEF BranchInv

LEMMA BranchStepKeeps == BranchInv /\ [BranchNext]_branchVars => BranchInv'
<1> SUFFICES ASSUME BranchInv, [BranchNext]_branchVars
             PROVE  BranchInv'
  OBVIOUS
<1>1. CASE [Next]_vars /\ UNCHANGED <<generation, branchPoint, parent>>
  <2>1. RunInv' /\ RunExtra'
    BY <1>1, StepKeeps, StepExtra DEF BranchInv
  <2>2. UNCHANGED <<flow, seeds>>
    BY <1>1 DEF Next, RunnerStep, Start, Begin, Visit, Finish, DebuggerPauses, DebuggerMocks, RunNode,
                HandlerSettles, Settle, Checkpointed, CheckpointThrows, Abort, vars
  <2>3. FromParent' /\ SeedsOpenPoint'
    BY <1>1, <2>2 DEF BranchInv, FromParent, SeedsOpenPoint, NoSeeds, NodesOf
  <2>4. QED
    BY <2>1, <2>3 DEF BranchInv
<1>2. CASE \E id \in Ids(flow) : Branch(id)
  BY <1>2, BranchKeeps
<1>3. QED
  BY <1>1, <1>2 DEF BranchNext, branchVars

-----------------------------------------------------------------------------
(* The theorems.                                                           *)

\* However often runs are branched from runs, the inductive invariant holds.
THEOREM BranchesAreSound == BranchSpec => []BranchInv
<1>1. BranchInit => BranchInv
  <2> SUFFICES ASSUME BranchInit
               PROVE  BranchInv
    OBVIOUS
  <2>1. RunInv
    BY InitHolds DEF BranchInit
  <2>2. RunExtra /\ FromParent /\ SeedsOpenPoint
    BY FlowsAssumption
    DEF BranchInit, Init, RunExtra, SeedsKept, RunsFromEntry, FromParent, SeedsOpenPoint, NoSeeds,
        NoResult, Statuses
  <2>3. QED
    BY <2>1, <2>2 DEF BranchInv
<1>2. BranchInv /\ [BranchNext]_branchVars => BranchInv'
  BY BranchStepKeeps
<1>3. QED
  BY <1>1, <1>2, PTL DEF BranchSpec

\* A branch goes on where its past ends, however often runs are branched from runs: what was
\* executed before the branch point keeps its outcome and is not run again, and a branch that
\* completes has decided all that its outcomes, seeds included, open.
THEOREM BranchesGoOn == BranchSpec => []BranchGoesOn
<1>1. BranchInv => PastIsKept
  <2> SUFFICES ASSUME BranchInv, generation > 0, pc # "called",
                      NEW i \in 1 .. Place(parent.executed, branchPoint) - 1
               PROVE  /\ parent.executed[i] \notin ToSet(executed)
                      /\ parent.executed[i] \in DOMAIN outcomes =>
                           outcomes[parent.executed[i]] = parent.outcomes[parent.executed[i]]
                      /\ result.status \notin {None, "cancelled", "failed"} =>
                           parent.executed[i] \in DOMAIN outcomes
    BY DEF PastIsKept, Place
  <2> DEFINE n == parent.executed[i]
  <2>1. n \in DOMAIN seeds /\ seeds[n] = parent.outcomes[n]
    BY DEF BranchInv, FromParent
  <2> HIDE DEF n
  <2>2. n \notin ToSet(executed)
    BY <2>1 DEF BranchInv, RunInv, Executions
  <2>3. n \in DOMAIN outcomes => outcomes[n] = seeds[n]
    BY <2>1 DEF BranchInv, RunExtra, SeedsKept
  <2>4. result.status \notin {None, "cancelled", "failed"} => n \in DOMAIN outcomes
    BY <2>1 DEF BranchInv, RunInv, Phases, Started, Answers
  <2>5. QED
    BY <2>1, <2>2, <2>3, <2>4 DEF n
<1>2. BranchInv => BranchGoesOn
  BY <1>1 DEF BranchGoesOn, BranchInv, RunInv
<1>3. QED
  BY <1>2, BranchesAreSound, PTL

\* A run that is branched once executes its branch point again before it completes: a run
\* without seeds leaves a snapshot in which some node before the branch point opens it.
\* (Of a branch of a branch this is not so: the seeds of the first branch are not in the
\* executed order that the second one is cut from.)
THEOREM FirstBranchesReexecute ==
  ASSUME MaxGeneration = 1
  PROVE  BranchSpec => []BranchPointReexecuted
<1>1. BranchInit => generation <= 1
  BY DEF BranchInit
<1>2. generation <= 1 /\ BranchInv /\ [BranchNext]_branchVars => (generation <= 1)'
  <2> SUFFICES ASSUME generation <= 1, BranchInv, [BranchNext]_branchVars
               PROVE  generation' <= 1
    OBVIOUS
  <2>1. generation \in Nat
    BY DEF BranchInv, SeedsOpenPoint
  <2>2. generation' = generation \/ (generation < MaxGeneration /\ generation' = generation + 1)
    BY DEF BranchNext, Branch, branchVars
  <2>3. QED
    BY <2>1, <2>2
<1>3. generation <= 1 /\ BranchInv => BranchPointReexecuted
  <2> SUFFICES ASSUME generation = 1, BranchInv, result.status \in {"completed", "skipped"}
               PROVE  branchPoint \in ToSet(executed)
    BY DEF BranchInv, SeedsOpenPoint, BranchPointReexecuted
  <2>1. branchPoint \notin DOMAIN seeds
    <3>1. /\ parent.executed \in Seq(NodesOf) /\ Distinct(parent.executed)
          /\ branchPoint \in ToSet(parent.executed)
          /\ DOMAIN seeds = {parent.executed[i] : i \in 1 .. Place(parent.executed, branchPoint) - 1}
      BY DEF BranchInv, FromParent
    <3>2. \A i \in 1 .. Place(parent.executed, branchPoint) - 1 : parent.executed[i] # branchPoint
      BY <3>1, Before
    <3>3. QED
      BY <3>1, <3>2
  <2>2. branchPoint \in DOMAIN outcomes
    <3>1. CASE NoSeeds /\ branchPoint = flow.entry
      BY <3>1 DEF BranchInv, RunExtra, RunsFromEntry
    <3>2. CASE branchPoint \in Opened(flow, seeds)
      <4>1. DOMAIN seeds \subseteq DOMAIN outcomes
        <5>1. pc = "returned" /\ result.status \notin {"failed", "cancelled"}
          BY FlowsAssumption DEF BranchInv, RunInv, Answers, Statuses
        <5>2. QED
          BY <5>1 DEF BranchInv, RunInv, Phases, Started
      <4>2. \A n \in DOMAIN seeds : outcomes[n] = seeds[n]
        BY <4>1 DEF BranchInv, RunExtra, SeedsKept
      <4>3. branchPoint \in Opened(flow, outcomes)
        BY <3>2, <4>1, <4>2 DEF Opened
      <4>4. QED
        BY <4>3 DEF BranchInv, RunInv, NothingLeftBehind
    <3>3. QED
      BY <3>1, <3>2 DEF BranchInv, SeedsOpenPoint
  <2>3. QED
    BY <2>1, <2>2 DEF BranchInv, RunInv, Executions
<1>4. QED
  BY <1>1, <1>2, <1>3, BranchesAreSound, PTL DEF BranchSpec
=============================================================================
