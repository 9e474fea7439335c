---------------------------- MODULE DurableFlow -----------------------------
(***************************************************************************)
(* resumeFlow of os-flow's durable.ts over the FileCheckpointStore of      *)
(* os-storage: every executed node appends one JSONL line to the file of   *)
(* its run, and a later call for the same run replays the file.  Between   *)
(* two awaits the process may die, or the append may reject; either leaves *)
(* the line it was writing absent, whole, cut off somewhere, or whole but  *)
(* for its newline.  What is appended next is glued to a line without      *)
(* newline and both are corrupt, also where load accepted that line.       *)
(***************************************************************************)
EXTENDS FlowGraph

CONSTANTS
  Flows,            \* the flows that may be run
  HandlerOutcomes,  \* what a handler may come to
  Tears,            \* whether an interrupted append may leave a line without newline
  MaxInterrupts,    \* bound: interrupted calls
  MaxCalls,         \* bound: calls of resumeFlow for the run
  None              \* undefined

\* The ids of a flow are names; undefined is no outcome.
ASSUME DurableAssumption ==
  /\ \A f \in Flows : f.nodes \in Seq(Nat)
  /\ HandlerOutcomes \subseteq Outcome
  /\ None \notin Outcome \cup {"completed"}

VARIABLES
  flow,        \* the flow
  sorted,      \* its nodes in topological order
  file,        \* its lines, oldest first: [node, outcome] records, or Corrupt
  rest,        \* the line behind the last newline, a part of a record or all of it; or <<>>
  pc,          \* "down", "visit", "handler", "append", "returned"
  pos,         \* how far the loop over sorted has come
  outcomes,    \* the outcomes map
  enabled,     \* the enabled set
  status,      \* the status of the call that returned last
  calls,       \* calls of resumeFlow so far
  interrupts,  \* interrupted calls so far
  started,     \* history: the nodes whose handler was ever called
  repeats,     \* history: handler calls for a node started before
  acked        \* history: nodes whose ok or skipped checkpoint was acknowledged

vars == <<flow, sorted, file, rest, pc, pos, outcomes, enabled, status,
          calls, interrupts, started, repeats, acked>>

\* Mutant of Resumable: a failed or paused checkpoint counts, too.
ResumableAll == Outcome

\* isResumable
Resumable == {"ok", "true", "false", "skipped"}

\* a line that JSON.parse rejects
Corrupt == [node |-> None, outcome |-> None]

\* linesOf: a rest counts as a line
Lines == file \o rest

\* Mutant of Loaded: a corrupt line makes the whole file unreadable.
LoadedIfWhole(lines) == {i \in DOMAIN lines : \A j \in DOMAIN lines : lines[j] # Corrupt}

\* load: the lines that are returned; corrupt ones are skipped
Loaded(lines) == {i \in DOMAIN lines : lines[i] # Corrupt}

\* Mutant of Replayed: the last record is taken for an unfinished one.
ReplayedButLast(lines, loaded) ==
  LET prior == {i \in loaded : /\ \E j \in loaded : j > i
                               /\ \A j \in loaded : j <= i => lines[j].outcome \in Resumable}
      last(n) == Max({i \in prior : lines[i].node = n})
  IN [n \in {lines[i].node : i \in prior} |-> lines[last(n)].outcome]

\* replay: the records before the first one that is not resumable
Replayed(lines, loaded) ==
  LET prior == {i \in loaded : \A j \in loaded : j <= i => lines[j].outcome \in Resumable}
      last(n) == Max({i \in prior : lines[i].node = n})
  IN [n \in {lines[i].node : i \in prior} |-> lines[last(n)].outcome]

Init ==
  /\ flow \in Flows
  /\ sorted = topoOrder(flow)
  /\ file = <<>>
  /\ rest = <<>>
  /\ pc = "down"
  /\ pos = 0
  /\ outcomes = <<>>
  /\ enabled = {}
  /\ status = None
  /\ calls = 0
  /\ interrupts = 0
  /\ started = {}
  /\ repeats = 0
  /\ acked = {}

-----------------------------------------------------------------------------
\* resumeFlow is called: the audit refuses the flow, or the file is replayed
Resume ==
  /\ pc \in {"down", "returned"}
  /\ calls < MaxCalls
  /\ calls' = calls + 1
  /\ pos' = 0
  /\ IF auditGraph(flow) # {}
     THEN /\ pc' = "returned"
          /\ status' = "failed"
          /\ outcomes' = <<>>
          /\ enabled' = {}
     ELSE /\ pc' = "visit"
          /\ status' = None
          /\ outcomes' = Replayed(Lines, Loaded(Lines))
          /\ enabled' = SeedsEnable(flow, outcomes')
  /\ UNCHANGED <<flow, sorted, file, rest, interrupts, started, repeats, acked>>

\* the positions ahead that the loop does not skip
Due == {i \in DOMAIN sorted : i > pos /\ sorted[i] \in enabled \ DOMAIN outcomes}

\* the next enabled node's handler is called
Visit ==
  /\ pc = "visit"
  /\ Due # {}
  /\ pos' = Min(Due)
  /\ pc' = "handler"
  /\ started' = started \cup {sorted[pos']}
  /\ repeats' = repeats + IF sorted[pos'] \in started THEN 1 ELSE 0
  /\ UNCHANGED <<flow, sorted, file, rest, outcomes, enabled, status, calls, interrupts, acked>>

\* the order is exhausted ("skipped", a completion of skipped nodes only, included)
Finish ==
  /\ pc = "visit"
  /\ Due = {}
  /\ pc' = "returned"
  /\ status' = "completed"
  /\ UNCHANGED <<flow, sorted, file, rest, pos, outcomes, enabled, calls, interrupts,
                 started, repeats, acked>>

\* Mutant of HandlerSettles: a handler that throws leaves the outcome undefined.
HandlerSettlesUncaught ==
  /\ pc = "handler"
  /\ \E outcome \in HandlerOutcomes \cup {None} :
       outcomes' = WithOutcome(outcomes, sorted[pos], outcome)
  /\ pc' = "append"
  /\ UNCHANGED <<flow, sorted, file, rest, pos, enabled, status, calls, interrupts,
                 started, repeats, acked>>

\* the handler resolves or throws, or there is none: a failed outcome
HandlerSettles ==
  /\ pc = "handler"
  /\ \E outcome \in HandlerOutcomes : outcomes' = WithOutcome(outcomes, sorted[pos], outcome)
  /\ pc' = "append"
  /\ UNCHANGED <<flow, sorted, file, rest, pos, enabled, status, calls, interrupts,
                 started, repeats, acked>>

\* the record of the node
Line == [node |-> sorted[pos], outcome |-> outcomes[sorted[pos]]]

\* the whole line reaches the file; glued to a rest, nothing can be read of the two
WriteLine ==
  /\ file' = Append(file, IF rest = <<>> THEN Line ELSE Corrupt)
  /\ rest' = <<>>

\* a part of the line reaches the file, or all of it but the newline
TearLine ==
  /\ rest' \in {<<part>> : part \in {Corrupt} \cup (IF rest = <<>> THEN {Line} ELSE {})}
  /\ UNCHANGED file

\* append resolves: stop at a failed or paused node, else enable its targets
Checkpointed ==
  /\ pc = "append"
  /\ WriteLine
  /\ LET outcome == outcomes[sorted[pos]]
     IN IF outcome \in Resumable
        THEN /\ enabled' = enabled \cup
                  {e.to : e \in {d \in EdgesFrom(flow, sorted[pos]) : edgeMatches(d.on, outcome)}}
             /\ acked' = acked \cup {sorted[pos]}
             /\ pc' = "visit"
             /\ UNCHANGED status
        ELSE /\ pc' = "returned"
             /\ status' = outcome
             /\ UNCHANGED <<enabled, acked>>
  /\ UNCHANGED <<flow, sorted, pos, outcomes, calls, interrupts, started, repeats>>

\* the process dies, or append rejects and resumeFlow with it: the line that was
\* being written is absent, whole, or without its newline
Interrupt ==
  /\ pc \in {"visit", "handler", "append"}
  /\ interrupts < MaxInterrupts
  /\ interrupts' = interrupts + 1
  /\ pc' = "down"
  /\ \/ UNCHANGED <<file, rest>>
     \/ pc = "append" /\ WriteLine
     \/ pc = "append" /\ Tears /\ TearLine
  /\ UNCHANGED <<flow, sorted, pos, outcomes, enabled, status, calls, started, repeats, acked>>

Next == Resume \/ Visit \/ Finish \/ HandlerSettles \/ Checkpointed \/ Interrupt

Spec == Init /\ [][Next]_vars

-----------------------------------------------------------------------------
(* Properties                                                              *)

\* The type invariant of the store and of the call under way.
TypeOK ==
  /\ \A i \in DOMAIN Lines :
       Lines[i] # Corrupt => Lines[i].node \in Ids(flow) /\ Lines[i].outcome \in Outcome
  /\ Len(rest) <= 1
  /\ pc \in {"down", "visit", "handler", "append", "returned"}
  /\ pos \in 0 .. Len(sorted)
  /\ DOMAIN outcomes \cup enabled \cup started \cup acked \subseteq Ids(flow)
  /\ status \in {"completed", "failed", "paused", None}

\* The lines before the first corrupt one.
Intact == {i \in DOMAIN file : \A j \in 1 .. i : file[j] # Corrupt}

\* What the intact part of the file lets a later call replay is at every moment
\* the progress of one run of the flow, however calls were interrupted, failed,
\* paused and repeated.  A record that lacks its newline is not part of it: it is
\* replayed, and lost at the next append.
Progress == INSTANCE FlowProgress WITH done <- Replayed(file, Intact)
ImplementsFlowProgress == Progress!Spec

\* What a call that comes now replays.
Remembered == Replayed(Lines, Loaded(Lines))

\* Whatever happened to the file, the next call replays all that a call could have
\* replayed before.  A step takes back the progress of at most one node, whose record
\* lacks nothing but its newline: load had accepted it until the next append.
ReplayOnlyGrows ==
  [][\A n \in DOMAIN Remembered :
       \/ n \in DOMAIN Remembered' /\ Remembered'[n] = Remembered[n]
       \/ rest # <<>> /\ n = rest[1].node]_vars

\* Every record can be replayed: none is corrupt, failed or paused.
Replayable == \A i \in DOMAIN Lines : Lines[i].outcome \in Resumable

\* durable.test.ts, "resumes from checkpoint, skipping completed nodes": a node
\* whose ok or skipped checkpoint was acknowledged is not run again, as long as
\* the file holds nothing but such checkpoints.
CompletedNodesSkipped == pc = "handler" /\ Replayable => sorted[pos] \notin acked

\* The same, whatever else the file holds: header of durable.ts, "resumeFlow that
\* respects prior progress".
PriorProgressRespected == pc = "handler" => sorted[pos] \notin acked

\* As long as no node fails or pauses and no line is corrupt, an interruption
\* repeats at most the node it interrupted.
OneRepeatPerInterrupt == Replayable => repeats <= interrupts

\* What was acknowledged is not run again and an interruption costs one repetition,
\* wherever calls were interrupted and however often they are repeated.
RepeatsAreBounded == CompletedNodesSkipped /\ OneRepeatPerInterrupt

\* A call that completes has decided every node its outcomes open, the replayed
\* ones included, even when the file lost lines in the middle.
NothingLeftBehind ==
  pc = "returned" /\ status = "completed" => Opened(flow, outcomes) \subseteq DOMAIN outcomes
=============================================================================
