----------------------------- MODULE MCServices -----------------------------
(***************************************************************************)
(* Instances, for TLC, of the components that stand beside the flow runner *)
(* and the audit log.  They share no state: a behaviour is one of service, *)
(* chosen at the start, and the others stay as a fixed initial state.      *)
(***************************************************************************)
EXTENDS CodingRuns, AgentPanel, AgentRounds, SidecarBridge, SidecarRuns, Tracing, FlowDebug,
        CircuitBreaker, HitlInbox, ListPicker, TraceDetail, Notifications, EventFeed,
        OAuthCallback, Triggers, TLC

VARIABLE service

Services == {"coding", "panel", "rounds", "bridge", "sidecar", "tracing", "debugger",
             "breaker", "inbox", "picker", "detail", "notify", "feed", "oauth", "cron", "watch"}

-----------------------------------------------------------------------------
(* constants *)

\* three shards, two of whom have names that come out the same
MCShards == 1 .. 3
MCBaseName == [s \in MCShards |-> IF s = 3 THEN "b" ELSE "a"]
MCProviderOf == [s \in MCShards |-> IF s = 3 THEN "q" ELSE "p"]
MCTaskResults == {[status |-> "ok", edited |-> TRUE, missing |-> FALSE],
                  [status |-> "timeout", edited |-> FALSE, missing |-> FALSE], Without("threw")}
MCJobs == {j \in Job : /\ j.kind = "benchmark" => ~j.parallel
                       /\ j.dryRun \in {{}, {1}, MCShards}
                       /\ j.dryRun # {} => j.kind = "delegation" /\ j.parallel /\ ~j.isolate}

\* Four agents, that half of them may be no majority, who may agree, differ and answer
\* with nothing; three ballots need no tie to be told apart.
MCPanelAgents == 1 .. 4
Answer(output, usd, latency) == [output |-> output, usd |-> usd, latency |-> latency]
MCAgentResults == {Answer(1, 1, 2), Answer(2, 2, 1), Answer(NoFigure, NoFigure, NoFigure)}
VoteNodes(ballots, ties) ==
  [kind : {"vote"}, ballot : ballots, weights : {2 :> 3 @@ 3 :> 2}, percent : {60},
   onTie : ties, judger : {TRUE}]
MCPanelNodes ==
  [kind : {"compare"}, selection : {"manual", "all", "fastest", "cheapest", "judge"},
   judger : {TRUE}]
  \cup [kind : {"compare"}, selection : {"eval"}, judger : {FALSE}]
  \cup VoteNodes({"majority"}, {"human", "first", "judge"})
  \cup VoteNodes({"weighted", "unanimous", "quorum"}, {"human"})
  \cup [kind : {"auction"}, criteria : {"lowest-cost", "fastest", "highest-confidence"},
        reserve : {NoFigure, 1}, timeout : {TRUE}, fallback : {TRUE}]
  \cup [kind : {"auction"}, criteria : {"lowest-cost"}, reserve : {1}, timeout : {FALSE},
        fallback : {FALSE}]

Replies(says, done, cost) == [says : says, done : done, cost : cost]
DebateNode(ends) ==
  [kind |-> "debate", ends |-> ends, n |-> 2, board |-> Silent, volunteer |-> FALSE,
   cost |-> Silent, steps |-> Silent, replies |-> Replies({1, 2}, {FALSE}, {0})]
BoardNode(ends, first, volunteer, cost, steps, replies) ==
  [kind |-> "blackboard", ends |-> ends, n |-> 2, board |-> first, volunteer |-> volunteer,
   cost |-> cost, steps |-> steps, replies |-> replies]
ConsensusNodes ==
  {BoardNode("consensus", first, FALSE, Silent, Silent,
             Replies({Silent, 1, 2}, {FALSE}, {0})) : first \in {Silent, 1}}
MCRoundNodes ==
  {DebateNode("judge-decides"), DebateNode("on-agreement")}
  \cup {BoardNode(ends, Silent, v, Silent, Silent, Replies({Silent}, BOOLEAN, {0})) :
          ends \in {"rounds", "agent-signal"}, v \in BOOLEAN}
  \cup {BoardNode("budget", Silent, FALSE, l[1], l[2], Replies({Silent}, {FALSE}, {0, 1, 2})) :
          l \in {<<3, Silent>>, <<Silent, 4>>, <<0, 2>>}}
  \cup ConsensusNodes

\* entries 1 and 3 are of the group shown last; the query a ranks them first and last
MCGroupOf == 1 :> "second" @@ 2 :> "first" @@ 3 :> "second"
MCGroupOrder == <<"first", "second">>
MCScores == [a |-> <<1, 2, 1>>, b |-> <<3, 0, 6>>]

\* one type with a routing of its own, which the group of types may also have
MCKeysOf == "error.network" :> <<"error.network", "error.*">>
Preference(quiet, routing) == [quiet |-> quiet, routing |-> routing]
MCPrefChoices ==
  {Preference("off", <<>>), Preference("all", "error.*" :> "panel"),
   Preference("critical", "error.*" :> "panel" @@ "error.network" :> "silent")}

MCInterval == "fast" :> 1 @@ "slow" :> 2

-----------------------------------------------------------------------------
(* the specification *)

vars == <<service, codingVars, panelVars, roundsVars, bridgeVars, sidecarVars, tracingVars,
          debugVars, breakerVars, inboxVars, pickerVars, detailVars, notifyVars, feedVars,
          oauthVars, schedulerVars, watchVars>>

\* the choices of the initial states, where they do not matter
Fixed ==
  /\ service # "coding" => job = CHOOSE j \in Jobs : TRUE
  /\ service # "panel" => node = CHOOSE n \in PanelNodes : n.kind = "compare"
  /\ service # "rounds" => topic = CHOOSE t \in RoundNodes : TRUE
  /\ service # "tracing" => subs = 1
  /\ service # "picker" => picker = "search" /\ available = {}
  /\ service # "notify" => prefs = CHOOSE p \in PrefChoices : TRUE

Init ==
  /\ service \in Services
  /\ Fixed
  /\ CodingInit /\ PanelInit /\ RoundsInit /\ BridgeInit /\ SidecarInit /\ TracingInit
  /\ DebugInit /\ BreakerInit /\ InboxInit /\ PickerInit /\ DetailInit /\ NotifyInit
  /\ FeedInit /\ OAuthInit /\ TriggersInit

Only(s) ==
  /\ service = s
  /\ UNCHANGED service
  /\ s # "coding" => UNCHANGED codingVars
  /\ s # "panel" => UNCHANGED panelVars
  /\ s # "rounds" => UNCHANGED roundsVars
  /\ s # "bridge" => UNCHANGED bridgeVars
  /\ s # "sidecar" => UNCHANGED sidecarVars
  /\ s # "tracing" => UNCHANGED tracingVars
  /\ s # "debugger" => UNCHANGED debugVars
  /\ s # "breaker" => UNCHANGED breakerVars
  /\ s # "inbox" => UNCHANGED inboxVars
  /\ s # "picker" => UNCHANGED pickerVars
  /\ s # "detail" => UNCHANGED detailVars
  /\ s # "notify" => UNCHANGED notifyVars
  /\ s # "feed" => UNCHANGED feedVars
  /\ s # "oauth" => UNCHANGED oauthVars
  /\ s # "cron" => UNCHANGED schedulerVars
  /\ s # "watch" => UNCHANGED watchVars

Next ==
  \/ Only("coding") /\ CodingNext
  \/ Only("panel") /\ PanelNext
  \/ Only("rounds") /\ RoundsNext
  \/ Only("bridge") /\ BridgeNext
  \/ Only("sidecar") /\ SidecarNext
  \/ Only("tracing") /\ TracingNext
  \/ Only("debugger") /\ DebugNext
  \/ Only("breaker") /\ BreakerNext
  \/ Only("inbox") /\ InboxNext
  \/ Only("picker") /\ PickerNext
  \/ Only("detail") /\ DetailNext
  \/ Only("notify") /\ NotifyNext
  \/ Only("feed") /\ FeedNext
  \/ Only("oauth") /\ OAuthNext
  \/ Only("cron") /\ SchedulerNext
  \/ Only("watch") /\ WatchNext

\* both at once: a behaviour has one of the two
Fairness == WF_vars((Only("coding") /\ JobStep) \/ (Only("panel") /\ PanelFairStep))

Spec == Init /\ [][Next]_vars /\ Fairness

\* Every component's variables stay in their types: a worktree or branch that nobody
\* handed out, a chunk that is empty or longer than the batch size, a request without a
\* number, a late bidder that was not given up, a selection beyond the entries there are.
TypeOK ==
  /\ CodingTypeOK /\ PanelTypeOK /\ RoundsTypeOK /\ BridgeTypeOK /\ SidecarTypeOK
  /\ TracingTypeOK /\ DebugTypeOK /\ BreakerTypeOK /\ InboxTypeOK
  /\ PickerTypeOK /\ DetailTypeOK /\ NotifyTypeOK /\ FeedTypeOK /\ OAuthTypeOK /\ TriggersTypeOK

\* Every job that begins comes to an end and leaves nothing running, whatever git, the
\* agents and the artifacts do, as long as each of them answers; an auction with a timeout
\* comes to its decision though no bidder ever answers.
CallsSettle ==
  (jobPc = "looping" \/ AuctionOpen) ~>
    (IF service = "coding" THEN Over /\ ~Busy ELSE ~AuctionOpen)
=============================================================================
