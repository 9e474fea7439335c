------------------------------ MODULE FlowDebug ------------------------------
(***************************************************************************)
(* createInMemoryDebugger of os-flow, given to several runs at once.  A    *)
(* run asks it before every node, and tells it after every node, a mocked  *)
(* one included; a run that is told to pause returns, and may be called    *)
(* again.  The person at the debugger calls its controls at any time, also *)
(* while nodes are running.                                                *)
(***************************************************************************)
EXTENDS Naturals, FiniteSets

CONSTANTS
  DebuggedRuns,   \* the runs that share the debugger
  DebuggedNodes   \* the nodes of their flow

VARIABLES
  mode,          \* "run", "paused", "step"
  pausedReason,  \* "breakpoint", "manual", "step"
  breakpoints,
  mocks,         \* the nodes with a mocked outcome
  place,         \* where each run is: "between" nodes, "in" one, "returned"
  control,       \* history: the last call of pause, step or resume
  went           \* history: the nodes each run has really begun since, up to 2

debugVars == <<mode, pausedReason, breakpoints, mocks, place, control, went>>

DebugInit ==
  /\ mode = "run"
  /\ pausedReason = "manual"
  /\ breakpoints = {}
  /\ mocks = {}
  /\ place = [r \in DebuggedRuns |-> "between"]
  /\ control = "resume"
  /\ went = [r \in DebuggedRuns |-> 0]

-----------------------------------------------------------------------------
(* the controls *)

Controlled(call) ==
  /\ control' = call
  /\ went' = [r \in DebuggedRuns |-> 0]
  /\ UNCHANGED <<breakpoints, mocks, place>>

Pause ==
  /\ mode' = "paused"
  /\ pausedReason' = "manual"
  /\ Controlled("pause")

Step ==
  /\ mode' = "step"
  /\ UNCHANGED pausedReason
  /\ Controlled("step")

Resume ==
  /\ mode' = "run"
  /\ UNCHANGED pausedReason
  /\ Controlled("resume")

\* setBreakpoints replaces them all
SetBreakpoints(ids) ==
  /\ breakpoints' = ids
  /\ UNCHANGED <<mode, pausedReason, mocks, place, control, went>>

\* setMock and clearMock
Mock(ids) ==
  /\ mocks' = ids
  /\ Cardinality((mocks \ ids) \cup (ids \ mocks)) = 1
  /\ UNCHANGED <<mode, pausedReason, breakpoints, place, control, went>>

-----------------------------------------------------------------------------
(* the runs *)

Goes(r, real) ==
  /\ place' = [place EXCEPT ![r] = "in"]
  /\ went' = IF real /\ went[r] < 2 THEN [went EXCEPT ![r] = @ + 1] ELSE went
  /\ UNCHANGED <<mode, pausedReason>>

Stops(r) ==
  /\ place' = [place EXCEPT ![r] = "returned"]
  /\ UNCHANGED went

\* beforeNode: a mock is applied in any mode, and a breakpoint stops no step
BeforeNode(r, n) ==
  /\ place[r] = "between"
  /\ \/ n \in mocks /\ Goes(r, FALSE)
     \/ /\ n \notin mocks
        /\ \/ mode = "paused" /\ Stops(r) /\ UNCHANGED <<mode, pausedReason>>
           \/ /\ mode = "run" /\ n \in breakpoints
              /\ Stops(r)
              /\ mode' = "paused"
              /\ pausedReason' = "breakpoint"
           \/ mode = "run" /\ n \notin breakpoints /\ Goes(r, TRUE)
           \/ mode = "step" /\ Goes(r, TRUE)
  /\ UNCHANGED <<breakpoints, mocks, control>>

\* Mutant of AfterNode: a step ends only with the run's next pause.
AfterNodeInMode(r) ==
  /\ place[r] = "in"
  /\ place' = [place EXCEPT ![r] = "between"]
  /\ UNCHANGED <<mode, pausedReason, breakpoints, mocks, control, went>>

\* afterNode: the first node that ends, of whichever run, uses up the step
AfterNode(r) ==
  /\ place[r] = "in"
  /\ place' = [place EXCEPT ![r] = "between"]
  /\ IF mode = "step"
     THEN mode' = "paused" /\ pausedReason' = "step"
     ELSE UNCHANGED <<mode, pausedReason>>
  /\ UNCHANGED <<breakpoints, mocks, control, went>>

\* runFlow once more, with what the paused call had come to
CalledAgain(r) ==
  /\ place[r] = "returned"
  /\ place' = [place EXCEPT ![r] = "between"]
  /\ UNCHANGED <<mode, pausedReason, breakpoints, mocks, control, went>>

DebugNext ==
  \/ Pause \/ Step \/ Resume
  \/ \E ids \in SUBSET DebuggedNodes : SetBreakpoints(ids) \/ Mock(ids)
  \/ \E r \in DebuggedRuns :
       \/ \E n \in DebuggedNodes : BeforeNode(r, n)
       \/ AfterNode(r)
       \/ CalledAgain(r)

DebugSpec == DebugInit /\ [][DebugNext]_debugVars

-----------------------------------------------------------------------------
DebugTypeOK ==
  /\ mode \in {"run", "paused", "step"}
  /\ pausedReason \in {"breakpoint", "manual", "step"}
  /\ breakpoints \subseteq DebuggedNodes
  /\ mocks \subseteq DebuggedNodes
  /\ place \in [DebuggedRuns -> {"between", "in", "returned"}]
  /\ control \in {"pause", "step", "resume"}
  /\ went \in [DebuggedRuns -> 0 .. 2]

\* However nodes of several runs overlap the controls, and whatever is mocked or has a
\* breakpoint meanwhile: after pause no run begins another real node, and after step
\* none begins a second one, until the next control.
ControlsAreObeyed ==
  \A r \in DebuggedRuns : /\ control = "pause" => went[r] = 0
                          /\ control = "step" => went[r] <= 1
=============================================================================
