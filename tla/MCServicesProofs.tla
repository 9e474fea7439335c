-------------------------- MODULE MCServicesProofs --------------------------
(***************************************************************************)
(* The services side by side.  Each step of MCServices is one of a single  *)
(* component and leaves the others alone, so a behaviour of it is one of   *)
(* every component's own specification, and what was proved of that holds  *)
(* here: the types of all of them at once.                                 *)
(***************************************************************************)
EXTENDS MCServices, ServiceProofs, DesktopProofs, AgentProofs

-----------------------------------------------------------------------------
(* A step of the services is a step of each component, or none of its.     *)

\* The components all begin in one of their initial states.
LEMMA AllBegin ==
  Init => /\ CodingInit /\ PanelInit /\ RoundsInit /\ BridgeInit /\ SidecarInit /\ TracingInit
          /\ DebugInit /\ BreakerInit /\ InboxInit /\ PickerInit /\ DetailInit /\ NotifyInit
          /\ FeedInit /\ OAuthInit /\ TriggersInit
BY DEF Init

\* One moves, and the others stay.
LEMMA OneMoves ==
  ASSUME [Next]_vars
  PROVE  /\ [CodingNext]_codingVars /\ [PanelNext]_panelVars /\ [RoundsNext]_roundsVars
         /\ [BridgeNext]_bridgeVars /\ [SidecarNext]_sidecarVars /\ [TracingNext]_tracingVars
         /\ [DebugNext]_debugVars /\ [BreakerNext]_breakerVars /\ [InboxNext]_inboxVars
         /\ [PickerNext]_pickerVars /\ [DetailNext]_detailVars /\ [NotifyNext]_notifyVars
         /\ [FeedNext]_feedVars /\ [OAuthNext]_oauthVars /\ [TriggersNext]_triggerVars
<1>1. CASE UNCHANGED vars
  <2>1. UNCHANGED <<codingVars, panelVars, roundsVars, bridgeVars, sidecarVars, tracingVars,
                    debugVars, breakerVars, inboxVars, pickerVars, detailVars, notifyVars,
                    feedVars, oauthVars, triggerVars>>
    BY <1>1, Zenon DEF vars, triggerVars
  <2>2. QED
    BY <2>1, Zenon
<1>2. CASE Next
  BY <1>2, Zenon DEF Next, Only, triggerVars, TriggersNext
<1>3. QED
  BY <1>1, <1>2

\* A behaviour of the services is one of every component's specification.
LEMMA EachIsItsOwn ==
  Spec => /\ CodingSpec /\ PanelSpec /\ RoundsSpec /\ BridgeSpec /\ SidecarSpec /\ TracingSpec
          /\ DebugSpec /\ BreakerSpec /\ InboxSpec /\ PickerSpec /\ DetailSpec /\ NotifySpec
          /\ FeedSpec /\ OAuthSpec /\ TriggersSpec
BY AllBegin, OneMoves, PTL
   DEF Spec, CodingSpec, PanelSpec, RoundsSpec, BridgeSpec, SidecarSpec, TracingSpec, DebugSpec,
       BreakerSpec, InboxSpec, PickerSpec, DetailSpec, NotifySpec, FeedSpec, OAuthSpec, TriggersSpec

-----------------------------------------------------------------------------
(* What the services guarantee side by side.                               *)

\* Every component's variables stay in their types, for all values of the constants: no
\* worktree or name nobody handed out, no chunk that is empty or longer than the batch
\* size, no request without a number, no selection beyond the entries there are, and no
\* list longer than it may be.
THEOREM ServicesStayTyped == Spec => []TypeOK
BY EachIsItsOwn, CodingTypesHold, PanelTypesHold, RoundsTypesHold, BridgeTypesHold,
   SidecarTypesHold, TracingTypes, DebugTypesHold, BreakerTypesHold, InboxTypesHold,
   PickerTypesHold, DetailTypesHold, NotifyTypesHold, FeedTypesHold, OAuthTypesHold,
   TriggersTypesHold, PTL
   DEF TypeOK

\* The invariants of the components hold beside each other, and so do the promises about
\* their steps.
THEOREM ServicesStaySound ==
  Spec => /\ [](/\ WorktreesAreSound /\ ReportIsWhole /\ DecidesByItsRule /\ EndsInTime
                /\ RepliesReachTheirCaller /\ TracesTellRuns /\ ControlsAreObeyed
                /\ DecisionStands /\ EnterRunsTheChosen /\ PanelShowsSelected
                /\ StoredUnlessOvertaken /\ FeedIsWhole /\ DispatchesKeepTime /\ BurstsAreQuiet)
          /\ CoolsDown /\ MovesAreLegal /\ ImplementsSpanDelivery
BY EachIsItsOwn, WorktreesStaySound, ReportsAreWhole, PanelsDecideByTheirRule, RunsEndInTime,
   RepliesAreTheCallers, TracesTell, ControlsAreObeyedAlways, DecisionsStand, EnterObeys,
   PanelComesToShowSelected, ListIsStored, FeedStaysWhole, TriggersKeepTime, BurstsStayQuiet,
   BreakerCoolsDown, ConnectionsMoveLegally, PipelineKeepsItsPromise, PTL
=============================================================================
