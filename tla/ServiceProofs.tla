---------------------------- MODULE ServiceProofs ----------------------------
(***************************************************************************)
(* What the services beside the flow runner guarantee, for any number of   *)
(* operators, tasks, runs, callers, connections, triggers, shards and      *)
(* executions: the inbox, the debugger, the circuit breaker, the callback  *)
(* server of OAuth, the scheduler and the file watcher, the coding jobs,   *)
(* and the telemetry from the events of a run to the exporter.  Each of    *)
(* them has its inductive invariant, in which its property is embedded;    *)
(* the induction on naturals comes from FlowGraphProofs.                   *)
(***************************************************************************)
EXTENDS FlowGraphProofs, SequenceTheorems, HitlInbox, FlowDebug, CircuitBreaker, OAuthCallback,
        Triggers, CodingRuns, Tracing, TLAPS

-----------------------------------------------------------------------------
(* The inbox.                                                              *)

\* The decisions that calls returned are final ones, and those that the inbox holds.
Stands(inbox, decisions) ==
  \A id \in TaskIds : \A status \in decisions[id] :
    status # "open" /\ id \in DOMAIN inbox /\ inbox[id] = status

\* A reload brings back the last snapshot, for which the same must have held.
InboxInv ==
  /\ InboxTypeOK
  /\ Stands(byId, told)
  /\ Stands(snapshot, toldThen)

\* A step of the inbox keeps its invariant.
LEMMA InboxStep == InboxInv /\ [InboxNext]_inboxVars => InboxInv'
<1> SUFFICES ASSUME InboxInv, [InboxNext]_inboxVars
             PROVE  InboxInv'
  OBVIOUS
<1> USE DEF InboxInv, InboxTypeOK, Stands, Statuses
<1>1. ASSUME NEW id \in TaskIds, Enqueue(id)
      PROVE  InboxInv'
  <2>1. /\ byId' = [i \in DOMAIN byId \cup {id} |-> IF i = id THEN "open" ELSE byId[i]]
        /\ told' = [told EXCEPT ![id] = {}]
        /\ UNCHANGED <<snapshot, toldThen>>
    BY <1>1 DEF Enqueue, StatusGiven
  <2>2. Stands(byId', told')
    BY <2>1
  <2>3. QED
    BY <2>1, <2>2
<1>2. ASSUME NEW id \in TaskIds, NEW decision \in {"approved", "rejected"}, Decide(id, decision)
      PROVE  InboxInv'
  <2>1. /\ id \in DOMAIN byId
        /\ told' = [told EXCEPT ![id] = @ \cup {byId'[id]}]
        /\ UNCHANGED <<snapshot, toldThen>>
    BY <1>2 DEF Decide
  <2>2. \/ byId[id] = "open" /\ byId' = [byId EXCEPT ![id] = decision]
        \/ byId[id] # "open" /\ byId' = byId
    BY <1>2 DEF Decide
  <2>3. byId' \in [DOMAIN byId -> Statuses] /\ DOMAIN byId' = DOMAIN byId
    BY <2>1, <2>2
  <2>4. Stands(byId', told')
    <3>1. \A i \in TaskIds \ {id} : told'[i] = told[i] /\ (i \in DOMAIN byId => byId'[i] = byId[i])
      BY <2>1, <2>2
    <3>2. told'[id] = told[id] \cup {byId'[id]} /\ byId'[id] # "open"
      BY <2>1, <2>2
    <3>3. \A status \in told[id] : status = byId'[id]
      BY <2>2
    <3>4. QED
      BY <2>1, <2>3, <3>1, <3>2, <3>3
  <2>5. told' \in [TaskIds -> SUBSET Statuses]
    BY <2>1, <2>3
  <2>6. QED
    BY <2>1, <2>3, <2>4, <2>5
<1>3. CASE Snapshot
  BY <1>3 DEF Snapshot
<1>4. CASE Restore
  <2>1. byId' = [id \in DOMAIN snapshot |-> snapshot[id]] /\ told' = toldThen
        /\ UNCHANGED <<snapshot, toldThen>>
    BY <1>4 DEF Restore, StatusGiven
  <2>2. byId' = snapshot
    BY <2>1
  <2>3. QED
    BY <2>1, <2>2
<1>5. CASE UNCHANGED inboxVars
  BY <1>5 DEF inboxVars
<1>6. QED
  BY <1>1, <1>2, <1>3, <1>4, <1>5 DEF InboxNext

\* The inductive invariant holds throughout, and the types with it.
LEMMA InboxIsSound == InboxSpec => []InboxInv
<1>1. InboxInit => InboxInv
  BY DEF InboxInit, Nobodys, InboxInv, InboxTypeOK, Stands
<1>2. QED
  BY <1>1, InboxStep, PTL DEF InboxSpec

\* Tasks and snapshots of them have statuses, and operators are told statuses.
THEOREM InboxTypesHold == InboxSpec => []InboxTypeOK
<1>1. InboxInv => InboxTypeOK
  BY DEF InboxInv
<1>2. QED
  BY <1>1, InboxIsSound, PTL

\* Every operator who decided a task was told the decision that the inbox holds, however
\* many decide it, and across snapshots and reloads.
THEOREM DecisionsStand == InboxSpec => []DecisionStands
<1>1. InboxInv => DecisionStands
  BY DEF InboxInv, Stands, DecisionStands
<1>2. QED
  BY <1>1, InboxIsSound, PTL

-----------------------------------------------------------------------------
(* The debugger.                                                           *)

\* What keeps runs from beginning nodes: after pause the mode stays "paused"; after step
\* it never becomes "run", and a run that has taken its step is still in that node as long
\* as the step is not used up.
DebugInv ==
  /\ DebugTypeOK
  /\ control = "pause" => mode = "paused" /\ \A r \in DebuggedRuns : went[r] = 0
  /\ control = "step" =>
       /\ mode # "run"
       /\ \A r \in DebuggedRuns :
            /\ went[r] <= 1
            /\ went[r] = 1 /\ mode = "step" => place[r] = "in"

\* A step of the runs or of the person at the debugger keeps the invariant.
LEMMA DebugStep == DebugInv /\ [DebugNext]_debugVars => DebugInv'
<1> SUFFICES ASSUME DebugInv, [DebugNext]_debugVars
             PROVE  DebugInv'
  OBVIOUS
<1> USE DEF DebugInv, DebugTypeOK
<1>1. CASE Pause
  BY <1>1 DEF Pause, Controlled
<1>2. CASE Step
  BY <1>2 DEF Step, Controlled
<1>3. CASE Resume
  BY <1>3 DEF Resume, Controlled
<1>4. ASSUME NEW ids \in SUBSET DebuggedNodes, SetBreakpoints(ids) \/ Mock(ids)
      PROVE  DebugInv'
  BY <1>4 DEF SetBreakpoints, Mock
<1>5. ASSUME NEW r \in DebuggedRuns, NEW n \in DebuggedNodes, BeforeNode(r, n)
      PROVE  DebugInv'
  <2>1. place[r] = "between" /\ UNCHANGED <<breakpoints, mocks, control>>
    BY <1>5 DEF BeforeNode
  <2>2. CASE Goes(r, FALSE)
    BY <2>1, <2>2 DEF Goes
  <2>3. CASE Stops(r) /\ (UNCHANGED <<mode, pausedReason>>
                            \/ (mode = "run" /\ mode' = "paused" /\ pausedReason' = "breakpoint"))
    BY <2>1, <2>3 DEF Stops
  <2>4. CASE mode \in {"run", "step"} /\ Goes(r, TRUE)
    <3>1. /\ place' = [place EXCEPT ![r] = "in"]
          /\ went' = IF went[r] < 2 THEN [went EXCEPT ![r] = @ + 1] ELSE went
          /\ UNCHANGED <<mode, pausedReason>>
      BY <2>4 DEF Goes
    <3>2. went' \in [DebuggedRuns -> 0 .. 2] /\ place' \in [DebuggedRuns -> {"between", "in", "returned"}]
      BY <3>1
    <3>3. control # "pause"
      BY <2>4
    <3>4. control = "step" => went[r] = 0
      BY <2>1, <2>4
    <3>5. control = "step" => \A s \in DebuggedRuns :
                                /\ went'[s] <= 1
                                /\ went'[s] = 1 /\ mode' = "step" => place'[s] = "in"
      BY <3>1, <3>4
    <3>6. QED
      BY <2>1, <3>1, <3>2, <3>3, <3>5
  <2>5. QED
    BY <1>5, <2>2, <2>3, <2>4 DEF BeforeNode
<1>6. ASSUME NEW r \in DebuggedRuns, AfterNode(r)
      PROVE  DebugInv'
  BY <1>6 DEF AfterNode
<1>7. ASSUME NEW r \in DebuggedRuns, CalledAgain(r)
      PROVE  DebugInv'
  BY <1>7 DEF CalledAgain
<1>8. CASE UNCHANGED debugVars
  BY <1>8 DEF debugVars
<1>9. QED
  BY <1>1, <1>2, <1>3, <1>4, <1>5, <1>6, <1>7, <1>8 DEF DebugNext

\* The inductive invariant of the debugger.
LEMMA DebugIsSound == DebugSpec => []DebugInv
<1>1. DebugInit => DebugInv
  BY DEF DebugInit, DebugInv, DebugTypeOK
<1>2. QED
  BY <1>1, DebugStep, PTL DEF DebugSpec

\* Breakpoints and mocks are of nodes that are debugged, and no run goes more than twice
\* since the last control as far as it is counted.
THEOREM DebugTypesHold == DebugSpec => []DebugTypeOK
<1>1. DebugInv => DebugTypeOK
  BY DEF DebugInv
<1>2. QED
  BY <1>1, DebugIsSound, PTL

\* However many runs share the debugger: after pause no run begins another real node, and
\* after step none begins a second one, until the next control.
THEOREM ControlsAreObeyedAlways == DebugSpec => []ControlsAreObeyed
<1>1. DebugInv => ControlsAreObeyed
  BY DEF DebugInv, ControlsAreObeyed
<1>2. QED
  BY <1>1, DebugIsSound, PTL

-----------------------------------------------------------------------------
(* The circuit breaker.                                                    *)

\* While it is open, the breaker knows when it opened; when it has left that state, the
\* cooldown is over, and stays so until it opens again.
BreakerInv ==
  /\ BreakerTypeOK
  /\ openings.ever \in BOOLEAN
  /\ circuit = "open" => openings.ever /\ openedAt = openings.at
  /\ circuit # "open" /\ openings.ever => clock - openings.at >= resetAfter

\* A result in any state of the breaker, an admission and the clock keep the invariant.
LEMMA BreakerStep == BreakerInv /\ [BreakerNext]_breakerVars => BreakerInv'
<1> SUFFICES ASSUME BreakerInv, [BreakerNext]_breakerVars
             PROVE  BreakerInv'
  OBVIOUS
<1>0. {failureThreshold, resetAfter, halfOpenTarget, MaxTime} \subseteq Nat \ {0}
  BY BreakerAssumption DEF BreakerAssumption
<1> USE DEF BreakerInv, BreakerTypeOK
<1>1. ASSUME NEW c \in Callers, Admit(c)
      PROVE  BreakerInv'
  BY <1>0, <1>1 DEF Admit
<1>2. ASSUME NEW c \in Callers, recordSuccess(c)
      PROVE  BreakerInv'
  <2>1. c \in calling /\ calling' = calling \ {c} /\ UNCHANGED clock
    BY <1>2 DEF recordSuccess
  <2>2. CASE circuit # "half-open"
    <3>1. consecutiveFailures' = 0 /\ StaysAsItIs /\ UNCHANGED halfOpenSuccesses
      BY <1>2, <2>2 DEF recordSuccess
    <3>2. QED
      BY <2>1, <3>1 DEF StaysAsItIs
  <2>3. CASE circuit = "half-open" /\ halfOpenSuccesses + 1 < halfOpenTarget
    <3>1. halfOpenSuccesses' = halfOpenSuccesses + 1 /\ StaysAsItIs /\ UNCHANGED consecutiveFailures
      BY <1>2, <2>3 DEF recordSuccess
    <3>2. QED
      BY <1>0, <2>1, <2>3, <3>1 DEF StaysAsItIs
  <2>4. CASE circuit = "half-open" /\ ~(halfOpenSuccesses + 1 < halfOpenTarget)
    <3>1. /\ circuit' = "closed" /\ consecutiveFailures' = 0 /\ halfOpenSuccesses' = 0
          /\ UNCHANGED <<openedAt, openings>>
      BY <1>2, <2>4 DEF recordSuccess
    <3>2. QED
      BY <1>0, <2>1, <2>4, <3>1
  <2>5. QED
    BY <2>2, <2>3, <2>4
<1>3. ASSUME NEW c \in Callers, recordFailure(c)
      PROVE  BreakerInv'
  <2>1. calling' = calling \ {c} /\ UNCHANGED clock
    BY <1>3 DEF recordFailure
  <2>2. CASE Opens /\ consecutiveFailures' \in Nat /\ halfOpenSuccesses' \in {0, halfOpenSuccesses}
    BY <1>0, <2>1, <2>2 DEF Opens
  <2>3. CASE StaysAsItIs /\ consecutiveFailures' \in Nat /\ UNCHANGED halfOpenSuccesses
    BY <2>1, <2>3 DEF StaysAsItIs
  <2>4. QED
    BY <1>3, <2>2, <2>3 DEF recordFailure, FailsHalfOpen
<1>4. CASE Tick
  BY <1>0, <1>4 DEF Tick
<1>5. CASE UNCHANGED breakerVars
  BY <1>5 DEF breakerVars
<1>6. QED
  BY <1>1, <1>2, <1>3, <1>4, <1>5 DEF BreakerNext

\* A call that is admitted, whatever became of the circuit since it opened last, comes
\* after the cooldown.
LEMMA AdmittedAfterCooldown ==
  ASSUME BreakerInv, [BreakerNext]_breakerVars,
         calling \subseteq calling', calling # calling', openings.ever
  PROVE  clock - openings.at >= resetAfter
<1>1. PICK c \in Callers : Admit(c)
  BY DEF BreakerNext, breakerVars, recordSuccess, recordFailure, Tick
<1>2. CASE circuit = "open"
  BY <1>1, <1>2 DEF Admit, BreakerInv
<1>3. CASE circuit # "open"
  BY <1>3 DEF BreakerInv
<1>4. QED
  BY <1>2, <1>3

\* The inductive invariant of the breaker.
LEMMA BreakerIsSound == BreakerSpec => []BreakerInv
<1>1. BreakerInit => BreakerInv
  BY BreakerAssumption DEF BreakerInit, BreakerInv, BreakerTypeOK, BreakerAssumption
<1>2. QED
  BY <1>1, BreakerStep, PTL DEF BreakerSpec

\* Half open, the breaker counts no more successes than close it, and it never opened
\* later than now.
THEOREM BreakerTypesHold == BreakerSpec => []BreakerTypeOK
<1>1. BreakerInv => BreakerTypeOK
  BY DEF BreakerInv
<1>2. QED
  BY <1>1, BreakerIsSound, PTL

\* Once the circuit has opened, nobody is admitted until the cooldown is over, counted from
\* the last opening, for any threshold, cooldown and number of callers.
THEOREM BreakerCoolsDown == BreakerSpec => CoolsDown
<1>1. BreakerInv /\ [BreakerNext]_breakerVars
        => [calling \subseteq calling' /\ calling # calling' /\ openings.ever
              => clock - openings.at >= resetAfter]_breakerVars
  BY AdmittedAfterCooldown
<1>2. QED
  BY <1>1, BreakerIsSound, PTL DEF BreakerSpec, CoolsDown

-----------------------------------------------------------------------------
(* The callback server.                                                    *)

\* A connection whose requests do not overlap has one of them under way at most.
OneInFlight ==
  \A c \in Connections \ overlapped : \A i, j \in InFlight(c) : i = j

\* That request has the connection as it is stored, or it got as far as being connected,
\* stored or not.
InFlightIsCurrent ==
  \A c \in Connections \ overlapped : \A i \in InFlight(c) :
    LET req == callbacks[i]
    IN /\ req.phase = "found" => req.pending = stored[c]
       /\ req.phase = "failed" => /\ req.pending = "authorizing"
                                  /\ stored[c] \in {"authorizing", "connected"}

OAuthInv == OAuthTypeOK /\ OneInFlight /\ InFlightIsCurrent

Callbacks == [of : Connections, brings : {"code", "error", "nothing"}, pending : OAuthStates,
             phase : {"unknown", "found", "failed", "replied"},
             status : {0, 200, 400, 500, 502}]

FailedOf(i) == [callbacks[i] EXCEPT !.phase = "failed"]

\* A request that is replied to, or that has failed, is still the one it was.
LEMMA RequestEdited ==
  ASSUME OAuthTypeOK, NEW i \in DOMAIN callbacks
  PROVE  /\ callbacks[i] \in Callbacks
         /\ \A status \in {0, 200, 400, 500, 502} :
              /\ Reply(i, status) \in Callbacks
              /\ Reply(i, status).phase = "replied"
              /\ Reply(i, status).of = callbacks[i].of
              /\ Reply(i, status).pending = callbacks[i].pending
         /\ FailedOf(i) \in Callbacks
         /\ FailedOf(i).phase = "failed"
         /\ FailedOf(i).of = callbacks[i].of
         /\ FailedOf(i).pending = callbacks[i].pending
<1>1. callbacks \in Seq(Callbacks)
  BY DEF OAuthTypeOK, Callbacks
<1>2. callbacks[i] \in Callbacks
  BY <1>1, ElementOfSeq
<1>3. ASSUME NEW req \in Callbacks, NEW phase \in {"replied", "failed"}
      PROVE  /\ [req EXCEPT !.phase = phase] \in Callbacks
             /\ [req EXCEPT !.phase = phase].phase = phase
             /\ [req EXCEPT !.phase = phase].of = req.of
             /\ [req EXCEPT !.phase = phase].pending = req.pending
  BY DEF Callbacks
<1>4. ASSUME NEW req \in Callbacks, NEW status \in {0, 200, 400, 500, 502}
      PROVE  [req EXCEPT !.phase = "replied", !.status = status]
               = [[req EXCEPT !.phase = "replied"] EXCEPT !.status = status]
  BY DEF Callbacks
<1>5. ASSUME NEW status \in {0, 200, 400, 500, 502}
      PROVE  /\ Reply(i, status) \in Callbacks
             /\ Reply(i, status).phase = "replied"
             /\ Reply(i, status).of = callbacks[i].of
             /\ Reply(i, status).pending = callbacks[i].pending
  <2> DEFINE req == [callbacks[i] EXCEPT !.phase = "replied"]
  <2>1. /\ req \in Callbacks /\ req.phase = "replied" /\ req.of = callbacks[i].of
        /\ req.pending = callbacks[i].pending
    BY <1>2, <1>3, ZenonT(60)
  <2>2. Reply(i, status) = [req EXCEPT !.status = status]
    BY <1>2, <1>4, Zenon DEF Reply
  <2> HIDE DEF req
  <2>3. QED
    <3>1. /\ [req EXCEPT !.status = status] \in Callbacks
          /\ [req EXCEPT !.status = status].phase = req.phase
          /\ [req EXCEPT !.status = status].of = req.of
          /\ [req EXCEPT !.status = status].pending = req.pending
      BY <2>1 DEF Callbacks
    <3>2. QED
      BY <2>1, <2>2, <3>1, ZenonT(60)
<1>6. /\ FailedOf(i) \in Callbacks
      /\ FailedOf(i).phase = "failed"
      /\ FailedOf(i).of = callbacks[i].of
      /\ FailedOf(i).pending = callbacks[i].pending
  BY <1>2, <1>3, Zenon DEF FailedOf
<1>7. QED
  BY <1>2, <1>5, <1>6

\* Request i becomes req, which failed or is replied to; no connection moves but its own.
RequestMoves(i, req) ==
  /\ req \in Callbacks /\ req.of = callbacks[i].of /\ req.pending = callbacks[i].pending
  /\ callbacks[i].phase # "replied"
  /\ \/ req.phase = "replied"
     \/ /\ req.phase = "failed" /\ req.pending = "authorizing"
        /\ req.of \in overlapped \/ stored'[req.of] \in {"authorizing", "connected"}
  /\ callbacks' = [callbacks EXCEPT ![i] = req]
  /\ overlapped' = overlapped
  /\ stored' \in [Connections -> OAuthStates]
  /\ \A c \in Connections : c # req.of => stored'[c] = stored[c]

\* What requests and replies do to the requests under way.
LEMMA RequestChanged ==
  ASSUME OAuthInv, NEW i \in DOMAIN callbacks, NEW req, RequestMoves(i, req)
  PROVE  OAuthInv'
<1>0. /\ OAuthTypeOK /\ OneInFlight /\ InFlightIsCurrent
      /\ req \in Callbacks /\ req.of = callbacks[i].of /\ req.pending = callbacks[i].pending
      /\ callbacks[i].phase # "replied"
      /\ \/ req.phase = "replied"
         \/ /\ req.phase = "failed" /\ req.pending = "authorizing"
            /\ req.of \in overlapped \/ stored'[req.of] \in {"authorizing", "connected"}
      /\ callbacks' = [callbacks EXCEPT ![i] = req]
      /\ overlapped' = overlapped
      /\ stored' \in [Connections -> OAuthStates]
      /\ \A c \in Connections : c # req.of => stored'[c] = stored[c]
  BY DEF OAuthInv, RequestMoves
<1>1. /\ DOMAIN callbacks' = DOMAIN callbacks
      /\ callbacks'[i] = req
      /\ \A j \in DOMAIN callbacks \ {i} : callbacks'[j] = callbacks[j]
  BY <1>0 DEF OAuthTypeOK
<1>2. OAuthTypeOK'
  BY <1>0 DEF OAuthTypeOK, Callbacks
<1>3. \A c \in Connections : InFlight(c)' \subseteq InFlight(c)
  BY <1>0, <1>1 DEF InFlight
<1>4. OneInFlight'
  BY <1>0, <1>3 DEF OneInFlight
<1>5. InFlightIsCurrent'
  <2>1. SUFFICES ASSUME NEW c \in Connections \ overlapped, NEW j \in InFlight(c)'
                 PROVE  /\ callbacks'[j].phase = "found" => callbacks'[j].pending = stored'[c]
                        /\ callbacks'[j].phase = "failed" =>
                             /\ callbacks'[j].pending = "authorizing"
                             /\ stored'[c] \in {"authorizing", "connected"}
    BY <1>0 DEF InFlightIsCurrent
  <2>2. j \in InFlight(c)
    BY <1>0, <1>3, <2>1
  <2>3. CASE j = i
    <3>1. req.of = c
      BY <1>0, <1>1, <2>1, <2>3 DEF InFlight
    <3>2. req.phase # "replied"
      BY <1>0, <1>1, <2>1, <2>3 DEF InFlight
    <3>3. QED
      BY <1>0, <1>1, <2>1, <2>3, <3>1, <3>2
  <2>4. CASE j # i
    <3>1. c # req.of
      <4>1. ASSUME c = req.of
            PROVE  FALSE
        <5>1. i \in InFlight(c)
          BY <1>0, <4>1 DEF InFlight
        <5>2. QED
          BY <1>0, <2>1, <2>2, <2>4, <5>1 DEF OneInFlight
      <4>2. QED
        BY <4>1
    <3>2. j \in DOMAIN callbacks
      BY <2>2 DEF InFlight
    <3>3. QED
      BY <1>0, <1>1, <2>1, <2>2, <2>4, <3>1, <3>2 DEF InFlightIsCurrent
  <2>5. QED
    BY <2>3, <2>4
<1>6. QED
  BY <1>2, <1>4, <1>5 DEF OAuthInv

\* Request i is replied to; no connection moves but its own.
ReplyMoves(i, status) ==
  /\ callbacks[i].phase # "replied" /\ callbacks' = [callbacks EXCEPT ![i] = Reply(i, status)]
  /\ overlapped' = overlapped
  /\ stored' \in [Connections -> OAuthStates]
  /\ \A c \in Connections : c # callbacks[i].of => stored'[c] = stored[c]

LEMMA RequestReplied ==
  ASSUME OAuthInv, NEW i \in DOMAIN callbacks, NEW status \in {0, 200, 400, 500, 502},
         ReplyMoves(i, status)
  PROVE  OAuthInv'
<1>1. PICK new : new = Reply(i, status)
  OBVIOUS
<1>2. /\ new \in Callbacks /\ new.phase = "replied"
      /\ new.of = callbacks[i].of /\ new.pending = callbacks[i].pending
  BY <1>1, RequestEdited DEF OAuthInv
<1>3. RequestMoves(i, new)
  BY <1>1, <1>2 DEF ReplyMoves, RequestMoves
<1>4. QED
  BY <1>3, RequestChanged

\* A reply to request i, and how the connection that it found moves with it.
LEMMA ErroredStep ==
  ASSUME OAuthInv, NEW i \in DOMAIN callbacks, NEW status \in {400, 502}, Errored(i, status),
         UNCHANGED overlapped, callbacks[i].phase \in {"found", "failed"}
  PROVE  /\ OAuthInv'
         /\ \A c \in Connections : \/ stored'[c] = stored[c]
                                   \/ <<stored[c], stored'[c]>> \in ALLOWED
                                   \/ c \in overlapped'
<1> DEFINE req == callbacks[i]
<1>1. /\ OAuthTypeOK /\ OneInFlight /\ InFlightIsCurrent
      /\ stored \in [Connections -> OAuthStates]
      /\ req \in Callbacks
  <2>1. OAuthTypeOK /\ OneInFlight /\ InFlightIsCurrent
    BY DEF OAuthInv
  <2>2. stored \in [Connections -> OAuthStates]
    BY <2>1 DEF OAuthTypeOK
  <2>3. QED
    BY <2>1, <2>2, RequestEdited
<1>2. i \in InFlight(req.of)
  BY DEF InFlight
<1>3. CASE isTransitionAllowed(req.pending, "errored")
  <2>1. /\ stored' = [stored EXCEPT ![req.of] = "errored"]
        /\ callbacks' = [callbacks EXCEPT ![i] = Reply(i, status)]
    BY <1>3 DEF Errored
  <2>2. stored' \in [Connections -> OAuthStates]
    BY <1>1, <2>1 DEF OAuthStates
  <2>3. OAuthInv'
    <3>1. \A c \in Connections : c # req.of => stored'[c] = stored[c]
      BY <1>1, <2>1
    <3>2. ReplyMoves(i, status)
      BY <2>1, <2>2, <3>1 DEF ReplyMoves
    <3>3. QED
      BY <3>2, RequestReplied
  <2>4. req.of \in overlapped \/ <<stored[req.of], "errored">> \in ALLOWED
    <3>1. req.of \in Connections
      BY <1>1 DEF Callbacks
    <3>2. /\ req.phase = "found" \/ req.phase = "failed"
          /\ <<req.pending, "errored">> \in ALLOWED
      BY <1>3 DEF isTransitionAllowed
    <3>3. <<"authorizing", "errored">> \in ALLOWED /\ <<"connected", "errored">> \in ALLOWED
      BY DEF ALLOWED
    <3>4. req.of \in overlapped
          \/ stored[req.of] \in {req.pending, "authorizing", "connected"}
      BY <1>1, <1>2, <3>1, <3>2 DEF InFlightIsCurrent
    <3>5. QED
      BY <3>2, <3>3, <3>4
  <2>5. QED
    BY <1>1, <2>1, <2>3, <2>4
<1>4. CASE ~isTransitionAllowed(req.pending, "errored")
  <2>1. /\ UNCHANGED stored
        /\ callbacks' = [callbacks EXCEPT ![i] = Reply(i, 500)]
    BY <1>4 DEF Errored
  <2>2. OAuthInv'
    <3>1. stored' \in [Connections -> OAuthStates] /\ \A c \in Connections : stored'[c] = stored[c]
      BY <1>1, <2>1
    <3>2. ReplyMoves(i, 500)
      BY <2>1, <3>1 DEF ReplyMoves
    <3>3. QED
      BY <3>2, RequestReplied
  <2>3. QED
    BY <2>1, <2>2
<1>5. QED
  BY <1>3, <1>4

\* A step of a browser, of the server or of the embedder keeps the invariant, and moves a
\* connection as the hub allows unless its requests overlap.
LEMMA OAuthStep ==
  OAuthInv /\ [OAuthNext]_oauthVars =>
    /\ OAuthInv'
    /\ \A c \in Connections : \/ stored'[c] = stored[c]
                              \/ <<stored[c], stored'[c]>> \in ALLOWED
                              \/ c \in overlapped'
<1> DEFINE Legal == \A c \in Connections : \/ stored'[c] = stored[c]
                                           \/ <<stored[c], stored'[c]>> \in ALLOWED
                                           \/ c \in overlapped'
<1> SUFFICES ASSUME OAuthInv, [OAuthNext]_oauthVars
             PROVE  OAuthInv' /\ Legal
  OBVIOUS
<1>0. OAuthTypeOK /\ OneInFlight /\ InFlightIsCurrent
  BY DEF OAuthInv
<1>1. ASSUME NEW c \in Connections, NEW to \in OAuthStates, EmbedderMoves(c, to)
      PROVE  OAuthInv' /\ Legal
  <2>1. /\ stored' = [stored EXCEPT ![c] = to]
        /\ <<stored[c], to>> \in ALLOWED
        /\ UNCHANGED callbacks
        /\ overlapped' = IF InFlight(c) = {} THEN overlapped ELSE overlapped \cup {c}
    BY <1>1 DEF EmbedderMoves, isTransitionAllowed
  <2>2. OAuthTypeOK'
    BY <1>0, <2>1 DEF OAuthTypeOK
  <2>3. \A d \in Connections : InFlight(d)' = InFlight(d)
    BY <2>1 DEF InFlight
  <2>4. OneInFlight'
    BY <1>0, <2>1, <2>3 DEF OneInFlight
  <2>5. \A d \in Connections \ overlapped' : InFlight(d) = {} \/ stored'[d] = stored[d]
    BY <1>0, <2>1 DEF OAuthTypeOK
  <2>6. InFlightIsCurrent'
    BY <1>0, <2>1, <2>3, <2>5 DEF InFlightIsCurrent
  <2>7. Legal
    BY <1>0, <2>1 DEF OAuthTypeOK
  <2>8. QED
    BY <2>2, <2>4, <2>6, <2>7 DEF OAuthInv
<1>2. ASSUME NEW c \in Connections, NEW brings \in {"code", "error", "nothing"},
             Callback(c, brings)
      PROVE  OAuthInv' /\ Legal
  <2>1. PICK phase \in {"unknown", "found"} :
          callbacks' = Append(callbacks,
            [of |-> c, brings |-> brings, pending |-> stored[c], phase |-> phase, status |-> 0])
    BY <1>2 DEF Callback
  <2>2. /\ UNCHANGED stored
        /\ overlapped' = IF InFlight(c) = {} THEN overlapped ELSE overlapped \cup {c}
    BY <1>2 DEF Callback
  <2> DEFINE req == [of |-> c, brings |-> brings, pending |-> stored[c], phase |-> phase,
                     status |-> 0]
             n == Len(callbacks) + 1
  <2>3. OAuthTypeOK'
    <3>1. req \in Callbacks
      BY <1>0 DEF OAuthTypeOK, Callbacks
    <3> HIDE DEF req
    <3>2. QED
      BY <1>0, <2>1, <2>2, <3>1 DEF OAuthTypeOK, Callbacks, req
  <2>4. /\ DOMAIN callbacks' = DOMAIN callbacks \cup {n} /\ n \notin DOMAIN callbacks
        /\ \A j \in DOMAIN callbacks : callbacks'[j] = callbacks[j]
        /\ callbacks'[n] = req
    BY <1>0, <2>1 DEF OAuthTypeOK
  <2>5. req.of = c /\ req.pending = stored[c] /\ req.phase \in {"unknown", "found"}
    OBVIOUS
  <2> HIDE DEF req, n
  <2>6. \A d \in Connections : InFlight(d)' \subseteq InFlight(d) \cup {n}
    BY <2>4 DEF InFlight
  <2>7. \A d \in Connections \ {c} : InFlight(d)' = InFlight(d)
    BY <2>4, <2>5 DEF InFlight
  <2>8. c \notin overlapped' => InFlight(c)' \subseteq {n}
    BY <2>2, <2>6
  <2>9. \A d \in Connections \ overlapped' : d # c => InFlight(d)' = InFlight(d) /\ d \notin overlapped
    BY <2>2, <2>7
  <2>10. OneInFlight'
    BY <1>0, <2>2, <2>8, <2>9 DEF OneInFlight
  <2>11. InFlightIsCurrent'
    <3>1. SUFFICES ASSUME NEW d \in Connections \ overlapped', NEW j \in InFlight(d)'
                   PROVE  /\ callbacks'[j].phase = "found" => callbacks'[j].pending = stored'[d]
                          /\ callbacks'[j].phase = "failed" =>
                               /\ callbacks'[j].pending = "authorizing"
                               /\ stored'[d] \in {"authorizing", "connected"}
      BY DEF InFlightIsCurrent
    <3>2. CASE d = c
      <4>1. callbacks'[j] = req
        BY <2>4, <2>8, <3>1, <3>2
      <4>2. QED
        BY <2>2, <2>5, <3>2, <4>1
    <3>3. CASE d # c
      <4>1. j \in InFlight(d) /\ d \notin overlapped
        BY <2>9, <3>1, <3>3
      <4>2. j \in DOMAIN callbacks
        BY <4>1 DEF InFlight
      <4>3. QED
        BY <1>0, <2>2, <2>4, <4>1, <4>2 DEF InFlightIsCurrent
    <3>4. QED
      BY <3>2, <3>3
  <2>12. QED
    BY <2>2, <2>3, <2>10, <2>11 DEF OAuthInv
<1>3. ASSUME NEW i \in DOMAIN callbacks, UnknownState(i)
      PROVE  OAuthInv' /\ Legal
  <2>1. /\ callbacks[i].phase = "unknown" /\ callbacks' = [callbacks EXCEPT ![i] = Reply(i, 400)]
        /\ UNCHANGED <<stored, overlapped>>
    BY <1>3 DEF UnknownState
  <2>2. QED
    <3>1. stored' \in [Connections -> OAuthStates] /\ stored' = stored
      BY <1>0, <2>1 DEF OAuthTypeOK
    <3>2. ReplyMoves(i, 400)
      BY <2>1, <3>1 DEF ReplyMoves
    <3>3. OAuthInv'
      BY <3>2, RequestReplied
    <3>4. QED
      BY <3>1, <3>3
<1>4. ASSUME NEW i \in DOMAIN callbacks, Refused(i)
      PROVE  OAuthInv' /\ Legal
  BY <1>4, ErroredStep DEF Refused
<1>5. ASSUME NEW i \in DOMAIN callbacks, CallbackFails(i)
      PROVE  OAuthInv' /\ Legal
  BY <1>5, ErroredStep DEF CallbackFails
<1>6. ASSUME NEW i \in DOMAIN callbacks, Exchanged(i)
      PROVE  OAuthInv' /\ Legal
  <2> DEFINE c == callbacks[i].of
  <2>1. /\ callbacks[i].phase = "found" /\ callbacks[i].pending = "authorizing"
        /\ UNCHANGED overlapped
    BY <1>0, <1>6 DEF Exchanged, isTransitionAllowed, ALLOWED
  <2>2. callbacks[i] \in Callbacks /\ c \in Connections
    <3>1. callbacks[i] \in Callbacks
      BY <1>0, RequestEdited
    <3>2. QED
      BY <3>1 DEF Callbacks
  <2>3. c \in overlapped \/ stored[c] = "authorizing"
    BY <1>0, <2>1, <2>2 DEF InFlightIsCurrent, InFlight
  <2>4. stored' = [stored EXCEPT ![c] = "connected"] \/ (UNCHANGED stored)
    BY <1>6 DEF Exchanged
  <2>5. Legal
    BY <1>0, <2>1, <2>3, <2>4 DEF OAuthTypeOK, ALLOWED
  <2>6. /\ stored' \in [Connections -> OAuthStates]
        /\ c \in overlapped \/ stored'[c] \in {"authorizing", "connected"}
        /\ \A d \in Connections \ {c} : stored'[d] = stored[d]
    BY <1>0, <2>2, <2>3, <2>4 DEF OAuthTypeOK, OAuthStates
  <2>7. \/ callbacks' = [callbacks EXCEPT ![i] = Reply(i, 200)]
        \/ callbacks' = [callbacks EXCEPT ![i] = FailedOf(i)]
    BY <1>6 DEF Exchanged, FailedOf
  <2>8. CASE callbacks' = [callbacks EXCEPT ![i] = Reply(i, 200)]
    <3>1. ReplyMoves(i, 200)
      BY <2>1, <2>6, <2>8 DEF ReplyMoves
    <3>2. OAuthInv'
      BY <3>1, RequestReplied
    <3>3. QED
      BY <2>5, <3>2
  <2>9. CASE callbacks' = [callbacks EXCEPT ![i] = FailedOf(i)]
    <3>1. /\ FailedOf(i) \in Callbacks /\ FailedOf(i).phase = "failed"
          /\ FailedOf(i).of = c /\ FailedOf(i).pending = callbacks[i].pending
      BY <1>0, RequestEdited
    <3>2. RequestMoves(i, FailedOf(i))
      BY <2>1, <2>6, <2>9, <3>1 DEF RequestMoves
    <3>3. OAuthInv'
      BY <3>2, RequestChanged
    <3>4. QED
      BY <2>5, <3>3
  <2>10. QED
    BY <2>7, <2>8, <2>9
<1>7. CASE UNCHANGED oauthVars
  BY <1>0, <1>7 DEF oauthVars, OAuthInv, OAuthTypeOK, OneInFlight, InFlightIsCurrent, InFlight
<1>8. QED
  BY <1>1, <1>2, <1>3, <1>4, <1>5, <1>6, <1>7 DEF OAuthNext

\* The inductive invariant of the callback server.
LEMMA OAuthIsSound == OAuthSpec => []OAuthInv
<1>1. OAuthInit => OAuthInv
  BY DEF OAuthInit, OAuthInv, OAuthTypeOK, OneInFlight, InFlightIsCurrent, InFlight, OAuthStates
<1>2. QED
  BY <1>1, OAuthStep, PTL DEF OAuthSpec

\* Connections are in states of the hub, and callbacks are of one of them.
THEOREM OAuthTypesHold == OAuthSpec => []OAuthTypeOK
<1>1. OAuthInv => OAuthTypeOK
  BY DEF OAuthInv
<1>2. QED
  BY <1>1, OAuthIsSound, PTL

\* Replayed, failed or late as any number of callbacks may be, a connection only moves as
\* the hub allows, unless its requests overlapped or it was moved meanwhile.
THEOREM ConnectionsMoveLegally == OAuthSpec => MovesAreLegal
<1>1. OAuthInv /\ [OAuthNext]_oauthVars
        => [\A c \in Connections : \/ stored'[c] = stored[c]
                                   \/ <<stored[c], stored'[c]>> \in ALLOWED
                                   \/ c \in overlapped']_oauthVars
  BY OAuthStep
<1>2. QED
  BY <1>1, OAuthIsSound, PTL DEF OAuthSpec, MovesAreLegal

-----------------------------------------------------------------------------
(* The scheduler and the file watcher.                                     *)

Slots == [id : CronIds, nextFireAt : Nat]

\* A trigger has one slot.
SlotsDistinct == \A i, j \in DOMAIN slots : slots[i].id = slots[j].id => i = j

\* A slot is due one interval after its last dispatch or its registration, by the clock that
\* was read then.
DueInTime == \A i \in DOMAIN slots :
               slots[i].nextFireAt = since[slots[i].id] + Interval[slots[i].id]

SchedulerInv ==
  /\ minute \in Nat
  /\ slots \in Seq(Slots)
  /\ lastTick \in [at : Nat, fired : SUBSET [id : CronIds, from : Nat], passed : SUBSET CronIds]
  /\ since \in [CronIds -> Nat]
  /\ SlotsDistinct
  /\ DueInTime
  /\ DispatchesKeepTime

\* As long as start was never called twice, the only watcher that delivers is the one that
\* stop would end.
OneDelivers == ~doubled => \A w \in DOMAIN watchers : watchers[w] => w = abort

WatchInv ==
  /\ watchers \in Seq(BOOLEAN) /\ abort \in Nat /\ doubled \in BOOLEAN
  /\ pendingTimer \in 0 .. 2
  /\ BurstsAreQuiet
  /\ OneDelivers

\* A slot that is passed is due one interval from the time of the tick, unless it was not due
\* yet.
LEMMA AdvancedSlot ==
  ASSUME NEW now \in Nat, NEW slot \in Slots
  PROVE  /\ Advanced(slot, now) \in Slots /\ Advanced(slot, now).id = slot.id
         /\ Advanced(slot, now).nextFireAt = IF slot.nextFireAt <= now
                                             THEN now + Interval[slot.id] ELSE slot.nextFireAt
<1>1. /\ slot.id \in CronIds /\ slot.nextFireAt \in Nat
      /\ Interval[slot.id] \in Nat \ {0}
  BY TriggersAssumption DEF Slots, TriggersAssumption
<1>2. CASE slot.nextFireAt > now
  <2>1. Advanced(slot, now) = slot
    BY <1>2 DEF Advanced
  <2>2. QED
    BY <1>1, <1>2, <2>1
<1>3. CASE ~(slot.nextFireAt > now)
  <2> DEFINE next == now + Interval[slot.id]
  <2>1. Advanced(slot, now) = [slot EXCEPT !.nextFireAt = next]
    BY <1>3 DEF Advanced, computeNext
  <2>2. next \in Nat
    BY <1>1
  <2> HIDE DEF next
  <2>3. /\ [slot EXCEPT !.nextFireAt = next] \in Slots
        /\ [slot EXCEPT !.nextFireAt = next].id = slot.id
        /\ [slot EXCEPT !.nextFireAt = next].nextFireAt = next
    BY <2>2 DEF Slots
  <2>4. /\ Advanced(slot, now) \in Slots /\ Advanced(slot, now).id = slot.id
        /\ Advanced(slot, now).nextFireAt = next
    BY <2>1, <2>3, Zenon
  <2>5. QED
    BY <1>1, <1>3, <2>4 DEF next
<1>4. QED
  BY <1>2, <1>3

\* A tick passes some of the slots, or all of them, whatever time it is given.
LEMMA TickStep ==
  ASSUME SchedulerInv, NEW now \in Nat, NEW throwsAt \in Nat, TickSlots(now, throwsAt)
  PROVE  SchedulerInv'
<1> DEFINE through == {i \in DOMAIN slots : i < throwsAt}
           firing == {slots[i].id : i \in {j \in through : slots[j].nextFireAt <= now}}
<1>1. /\ slots \in Seq(Slots) /\ minute \in Nat /\ since \in [CronIds -> Nat]
      /\ SlotsDistinct /\ DueInTime
  BY DEF SchedulerInv
<1>2. /\ slots' = [i \in DOMAIN slots |->
                     IF i < throwsAt THEN Advanced(slots[i], now) ELSE slots[i]]
      /\ since' = [c \in CronIds |-> IF c \in firing THEN now ELSE since[c]]
      /\ lastTick' = [at |-> now, fired |-> {[id |-> c, from |-> since[c]] : c \in firing},
                      passed |-> {slots[i].id : i \in through}]
      /\ minute' = minute
  BY DEF TickSlots
<1>3. \A i \in DOMAIN slots : slots[i] \in Slots /\ slots[i].id \in CronIds
                              /\ slots[i].nextFireAt \in Nat
                              /\ Interval[slots[i].id] \in Nat \ {0}
                              /\ since[slots[i].id] \in Nat
  <2>1. \A i \in DOMAIN slots : slots[i] \in Slots
    BY <1>1, ElementOfSeq
  <2>2. \A c \in CronIds : Interval[c] \in Nat \ {0} /\ since[c] \in Nat
    BY <1>1, TriggersAssumption
  <2>3. QED
    BY <2>1, <2>2 DEF Slots
<1>4. \A i \in DOMAIN slots :
        slots'[i] \in Slots /\ slots'[i].id = slots[i].id
  BY <1>1, <1>2, <1>3, AdvancedSlot
<1>5. slots' \in Seq(Slots) /\ DOMAIN slots' = DOMAIN slots
  <2>1. Len(slots) \in Nat /\ DOMAIN slots = 1 .. Len(slots)
    BY <1>1, LenProperties
  <2>2. /\ DOMAIN slots' = DOMAIN slots
        /\ slots' = [i \in DOMAIN slots |-> slots'[i]]
    BY <1>2
  <2>3. slots' \in [1 .. Len(slots) -> Slots]
    BY <1>4, <2>1, <2>2, Zenon
  <2>4. QED
    BY <2>1, <2>2, <2>3, SeqDef
<1>6. SlotsDistinct'
  BY <1>1, <1>4, <1>5 DEF SlotsDistinct
<1>7. firing \subseteq CronIds
  BY <1>3
<1>8. ASSUME NEW i \in DOMAIN slots
      PROVE  slots[i].id \in firing <=> (i < throwsAt /\ slots[i].nextFireAt <= now)
  <2>1. ASSUME slots[i].id \in firing
        PROVE  i < throwsAt /\ slots[i].nextFireAt <= now
    <3>1. PICK j \in DOMAIN slots : /\ j < throwsAt /\ slots[j].nextFireAt <= now
                                    /\ slots[j].id = slots[i].id
      BY <2>1
    <3>2. j = i
      BY <1>1, <3>1 DEF SlotsDistinct
    <3>3. QED
      BY <3>1, <3>2
  <2>2. QED
    BY <2>1
<1>9. DueInTime'
  <2>1. SUFFICES ASSUME NEW i \in DOMAIN slots
                 PROVE  slots'[i].nextFireAt = since'[slots[i].id] + Interval[slots[i].id]
    BY <1>4, <1>5 DEF DueInTime
  <2>2. slots[i].nextFireAt = since[slots[i].id] + Interval[slots[i].id]
    BY <1>1 DEF DueInTime
  <2>3. since'[slots[i].id] = IF slots[i].id \in firing THEN now ELSE since[slots[i].id]
    BY <1>2, <1>3
  <2>4. CASE i < throwsAt
    <3>1. slots'[i].nextFireAt = IF slots[i].nextFireAt <= now
                                 THEN now + Interval[slots[i].id] ELSE slots[i].nextFireAt
      BY <1>2, <1>3, <2>4, AdvancedSlot
    <3>2. QED
      BY <1>8, <2>2, <2>3, <2>4, <3>1
  <2>5. CASE ~(i < throwsAt)
    <3>1. slots'[i] = slots[i]
      BY <1>2, <2>5
    <3>2. QED
      BY <1>8, <2>2, <2>3, <2>5, <3>1
  <2>6. QED
    BY <2>4, <2>5
<1>10. DispatchesKeepTime'
  <2>1. ASSUME NEW c \in firing
        PROVE  now >= since[c] + Interval[c]
    <3>1. PICK i \in DOMAIN slots : slots[i].nextFireAt <= now /\ slots[i].id = c
      BY <2>1
    <3>2. slots[i].nextFireAt = since[c] + Interval[c]
      BY <1>1, <3>1 DEF DueInTime
    <3>3. QED
      BY <1>3, <3>1, <3>2
  <2>2. ASSUME NEW f \in lastTick'.fired
        PROVE  lastTick'.at >= f.from + Interval[f.id]
    <3>1. PICK c \in firing : f = [id |-> c, from |-> since[c]]
      BY <1>2, <2>2
    <3>2. f.id = c /\ f.from = since[c] /\ lastTick'.at = now
      BY <1>2, <3>1
    <3>3. QED
      BY <2>1, <3>2
  <2>3. ASSUME NEW c \in lastTick'.passed
        PROVE  lastTick'.at < since'[c] + Interval[c]
    <3>1. PICK i \in DOMAIN slots : i < throwsAt /\ slots[i].id = c
      BY <1>2, <2>3
    <3>2. since'[c] = IF slots[i].nextFireAt <= now THEN now ELSE since[c]
      BY <1>2, <1>3, <1>8, <3>1
    <3>3. slots[i].nextFireAt = since[c] + Interval[c]
      BY <1>1, <3>1 DEF DueInTime
    <3>4. Interval[c] \in Nat \ {0} /\ since[c] \in Nat /\ lastTick'.at = now
      BY <1>2, <1>3, <3>1
    <3>5. QED
      BY <3>2, <3>3, <3>4
  <2>4. QED
    BY <2>2, <2>3 DEF DispatchesKeepTime
<1>11. since' \in [CronIds -> Nat]
  BY <1>1, <1>2
<1>12. lastTick' \in [at : Nat, fired : SUBSET [id : CronIds, from : Nat], passed : SUBSET CronIds]
  <2>1. {[id |-> c, from |-> since[c]] : c \in firing} \subseteq [id : CronIds, from : Nat]
    BY <1>1, <1>7
  <2>2. {slots[i].id : i \in through} \subseteq CronIds
    BY <1>3
  <2>3. QED
    BY <1>2, <2>1, <2>2
<1>13. QED
  BY <1>1, <1>2, <1>5, <1>6, <1>9, <1>10, <1>11, <1>12 DEF SchedulerInv

\* A trigger that is registered takes its place among the slots, or keeps it.
LEMMA RegisterStep ==
  ASSUME SchedulerInv, NEW c \in CronIds, RegisterCron(c)
  PROVE  SchedulerInv'
<1> DEFINE slot == [id |-> c, nextFireAt |-> computeNext(c, minute)]
           known == {i \in DOMAIN slots : slots[i].id = c}
<1>1. /\ slots \in Seq(Slots) /\ minute \in Nat /\ since \in [CronIds -> Nat]
      /\ SlotsDistinct /\ DueInTime /\ DispatchesKeepTime
      /\ Interval[c] \in Nat \ {0}
      /\ lastTick \in [at : Nat, fired : SUBSET [id : CronIds, from : Nat],
                       passed : SUBSET CronIds]
  BY TriggersAssumption DEF SchedulerInv, TriggersAssumption
<1>2. /\ slots' = IF known = {} THEN Append(slots, slot)
                  ELSE [i \in DOMAIN slots |-> IF i \in known THEN slot ELSE slots[i]]
      /\ since' = [since EXCEPT ![c] = minute]
      /\ lastTick' = [lastTick EXCEPT !.passed = @ \ {c}]
      /\ minute' = minute
  BY DEF RegisterCron
<1>3. slot \in Slots /\ slot.id = c /\ slot.nextFireAt = minute + Interval[c]
  BY <1>1 DEF Slots, computeNext
<1> HIDE DEF slot
<1>4. slots' \in Seq(Slots)
  <2>1. CASE known = {}
    BY <1>1, <1>2, <1>3, <2>1, AppendProperties
  <2>2. CASE known # {}
    <3>1. \A i \in 1 .. Len(slots) : slots[i] \in Slots
      BY <1>1, ElementOfSeq, LenProperties
    <3>2. slots' = [i \in 1 .. Len(slots) |-> IF i \in known THEN slot ELSE slots[i]]
      BY <1>1, <1>2, <2>2, LenProperties
    <3>3. QED
      BY <1>1, <1>3, <3>1, <3>2, LenProperties, SeqDef
  <2>3. QED
    BY <2>1, <2>2
<1>5. ASSUME NEW i \in DOMAIN slots'
      PROVE  \/ i \in DOMAIN slots /\ slots'[i] = slots[i] /\ slots[i].id # c
             \/ /\ slots'[i] = slot
                /\ IF known = {} THEN i = Len(slots) + 1 ELSE i \in known
  <2>1. CASE known = {}
    BY <1>1, <1>2, <1>5, <2>1
  <2>2. CASE known # {}
    BY <1>1, <1>2, <1>5, <2>2
  <2>3. QED
    BY <2>1, <2>2
<1>6. SlotsDistinct'
  <2>1. SUFFICES ASSUME NEW i \in DOMAIN slots', NEW j \in DOMAIN slots',
                        slots'[i].id = slots'[j].id
                 PROVE  i = j
    BY DEF SlotsDistinct
  <2>2. \A a, b \in known : a = b
    BY <1>1 DEF SlotsDistinct
  <2>3. QED
    BY <1>1, <1>3, <1>5, <2>1, <2>2 DEF SlotsDistinct
<1>7. DueInTime'
  <2>1. SUFFICES ASSUME NEW i \in DOMAIN slots'
                 PROVE  slots'[i].nextFireAt = since'[slots'[i].id] + Interval[slots'[i].id]
    BY DEF DueInTime
  <2>2. CASE slots'[i] = slot
    BY <1>1, <1>2, <1>3, <2>2, SMTT(30)
  <2>3. CASE i \in DOMAIN slots /\ slots'[i] = slots[i] /\ slots[i].id # c
    <3>1. slots[i].id \in CronIds
      <4>1. slots[i] \in Slots
        BY <1>1, <2>3, ElementOfSeq
      <4>2. QED
        BY <4>1 DEF Slots
    <3>2. since'[slots[i].id] = since[slots[i].id]
      BY <1>1, <1>2, <2>3, <3>1
    <3>3. QED
      BY <1>1, <2>3, <3>2 DEF DueInTime
  <2>4. QED
    BY <1>5, <2>2, <2>3
<1>8. /\ lastTick' \in [at : Nat, fired : SUBSET [id : CronIds, from : Nat],
                        passed : SUBSET CronIds]
      /\ lastTick'.at = lastTick.at /\ lastTick'.fired = lastTick.fired
      /\ lastTick'.passed = lastTick.passed \ {c}
  BY <1>1, <1>2
<1>9. DispatchesKeepTime'
  <2>1. \A d \in lastTick'.passed : d # c /\ d \in lastTick.passed /\ since'[d] = since[d]
    BY <1>1, <1>2, <1>8
  <2>2. QED
    BY <1>1, <1>8, <2>1 DEF DispatchesKeepTime
<1>10. QED
  BY <1>1, <1>2, <1>4, <1>6, <1>7, <1>8, <1>9 DEF SchedulerInv

\* Whatever happens to the triggers, or to the watcher, the scheduler's invariant is kept.
LEMMA SchedulerStep == SchedulerInv /\ [TriggersNext]_triggerVars => SchedulerInv'
<1> SUFFICES ASSUME SchedulerInv, [TriggersNext]_triggerVars
             PROVE  SchedulerInv'
  OBVIOUS
<1>1. CASE MinutePasses
  BY <1>1 DEF MinutePasses, SchedulerInv, SlotsDistinct, DueInTime, DispatchesKeepTime
<1>2. CASE ResetSlots
  <2>1. /\ slots' = <<>> /\ UNCHANGED <<minute, since>>
        /\ lastTick' = [lastTick EXCEPT !.passed = {}]
    BY <1>2 DEF ResetSlots
  <2>2. /\ lastTick' \in [at : Nat, fired : SUBSET [id : CronIds, from : Nat],
                          passed : SUBSET CronIds]
        /\ lastTick'.at = lastTick.at /\ lastTick'.fired = lastTick.fired
        /\ lastTick'.passed = {}
    BY <2>1 DEF SchedulerInv
  <2>3. minute' \in Nat /\ slots' \in Seq(Slots) /\ since' \in [CronIds -> Nat]
    BY <2>1 DEF SchedulerInv
  <2>4. SlotsDistinct' /\ DueInTime'
    BY <2>1 DEF SlotsDistinct, DueInTime
  <2>5. DispatchesKeepTime'
    BY <2>2 DEF SchedulerInv, DispatchesKeepTime
  <2>6. QED
    BY <2>2, <2>3, <2>4, <2>5 DEF SchedulerInv
<1>3. ASSUME NEW now \in 1 .. MaxMinute, NEW i \in 1 .. Len(slots) + 1, TickSlots(now, i)
      PROVE  SchedulerInv'
  BY <1>3, TickStep, LenProperties DEF SchedulerInv
<1>4. CASE UNCHANGED schedulerVars
  BY <1>4 DEF schedulerVars, SchedulerInv, SlotsDistinct, DueInTime, DispatchesKeepTime
<1>5. WatchNext => UNCHANGED schedulerVars
  BY DEF WatchNext, StartWatch, StopWatch, FileChanges, TimerFires
<1>6. QED
  BY <1>1, <1>2, <1>3, <1>4, <1>5, RegisterStep DEF TriggersNext, SchedulerNext, triggerVars

\* The inductive invariants of the scheduler and of the watcher.
LEMMA SchedulerIsSound == TriggersSpec => []SchedulerInv
<1>1. TriggersInit => SchedulerInv
  BY DEF TriggersInit, SchedulerInv, SlotsDistinct, DueInTime, DispatchesKeepTime
<1>2. QED
  BY <1>1, SchedulerStep, PTL DEF TriggersSpec

\* For any cron triggers, intervals and times the ticks are given: none is dispatched sooner
\* than one interval after its dispatch before or its registration, and a tick leaves nothing
\* that is an interval old among what it got through.
THEOREM TriggersKeepTime == TriggersSpec => []DispatchesKeepTime
<1>1. SchedulerInv => DispatchesKeepTime
  BY DEF SchedulerInv
<1>2. QED
  BY <1>1, SchedulerIsSound, PTL

\* Appending leaves what was there in its place.
LEMMA AppendKeeps ==
  ASSUME NEW S, NEW s \in Seq(S), NEW e \in S, NEW i \in DOMAIN s
  PROVE  Append(s, e)[i] = s[i]
OBVIOUS

\* Whatever happens to the watcher, its timers or the scheduler keeps the watcher's
\* invariant.
LEMMA WatchStep == WatchInv /\ [TriggersNext]_triggerVars => WatchInv'
<1> SUFFICES ASSUME WatchInv, [TriggersNext]_triggerVars
             PROVE  WatchInv'
  OBVIOUS
<1> USE DEF WatchInv, BurstsAreQuiet, OneDelivers
<1>1. CASE StartWatch
  <2>1. /\ watchers' = Append(watchers, TRUE) /\ abort' = Len(watchers) + 1
        /\ doubled' = (doubled \/ abort # 0)
        /\ UNCHANGED <<timers, pendingTimer>>
    BY <1>1 DEF StartWatch
  <2>2. watchers' \in Seq(BOOLEAN) /\ abort' \in Nat \ {0}
    BY <2>1, AppendProperties, LenProperties
  <2>3. doubled' \in BOOLEAN
    BY <2>1
  <2>4. OneDelivers'
    <3>1. SUFFICES ASSUME ~doubled', NEW w \in DOMAIN watchers', watchers'[w]
                   PROVE  w = abort'
      BY DEF OneDelivers
    <3>2. ~doubled /\ abort = 0
      BY <2>1, <3>1
    <3>3. \A v \in DOMAIN watchers : ~watchers[v]
      BY <3>2
    <3>4. w \in DOMAIN watchers => watchers'[w] = watchers[w]
      BY <2>1, AppendKeeps
    <3>5. w \in DOMAIN watchers \/ w = Len(watchers) + 1
      <4>1. w \in 1 .. Len(watchers) + 1
        BY <2>1, <3>1, AppendProperties
      <4>2. DOMAIN watchers = 1 .. Len(watchers) /\ Len(watchers) \in Nat
        BY LenProperties
      <4>3. QED
        BY <4>1, <4>2
    <3>6. QED
      BY <2>1, <3>1, <3>3, <3>4, <3>5, Zenon
  <2>5. QED
    BY <2>1, <2>2, <2>3, <2>4
<1>2. CASE StopWatch
  <2>1. /\ timers' = timers \ {pendingTimer} /\ pendingTimer' = 0 /\ abort' = 0
        /\ watchers' = [w \in DOMAIN watchers |-> watchers[w] /\ w # abort]
        /\ UNCHANGED doubled
    BY <1>2 DEF StopWatch
  <2>2. watchers' \in Seq(BOOLEAN)
    <3>1. \A w \in DOMAIN watchers : (watchers[w] /\ w # abort) \in BOOLEAN
      BY Zenon
    <3>2. watchers' \in [1 .. Len(watchers) -> BOOLEAN] /\ Len(watchers) \in Nat
      <4>1. DOMAIN watchers = 1 .. Len(watchers) /\ Len(watchers) \in Nat
        BY LenProperties
      <4>2. QED
        BY <2>1, <3>1, <4>1, Zenon
    <3>3. QED
      BY <3>2, SeqDef
  <2>3. ~doubled => \A w \in DOMAIN watchers' : ~watchers'[w]
    BY <2>1, Zenon
  <2>4. timers' = {}
    BY <2>1
  <2>5. QED
    <3>1. timers' \subseteq {pendingTimer'} /\ pendingTimer' \in 0 .. 2
      BY <2>1, <2>4
    <3>2. abort' \in Nat /\ doubled' \in BOOLEAN
      BY <2>1
    <3>3. OneDelivers' /\ BurstsAreQuiet'
      BY <2>1, <2>3, <2>4, <3>1, Zenon
    <3>4. QED
      BY <2>2, <3>1, <3>2, <3>3
<1>3. ASSUME NEW w \in DOMAIN watchers, FileChanges(w)
      PROVE  WatchInv'
  <2>1. /\ watchers[w] /\ pendingTimer' = (pendingTimer % 2) + 1
        /\ timers' = (timers \ {pendingTimer}) \cup {pendingTimer'}
        /\ UNCHANGED <<watchers, abort, doubled>>
    BY <1>3 DEF FileChanges
  <2>2. pendingTimer' \in 0 .. 2
    BY <2>1
  <2>3. timers' = {pendingTimer'}
    BY <2>1
  <2>4. doubled \/ abort # 0
    BY <2>1, Zenon
  <2>5. QED
    BY <2>1, <2>2, <2>3, <2>4
<1>4. ASSUME NEW t \in timers, TimerFires(t)
      PROVE  WatchInv'
  BY <1>4 DEF TimerFires
<1>5. CASE UNCHANGED watchVars
  BY <1>5 DEF watchVars
<1>6. SchedulerNext => UNCHANGED watchVars
  BY DEF SchedulerNext, MinutePasses, ResetSlots, RegisterCron, TickSlots
<1>7. QED
  BY <1>1, <1>2, <1>3, <1>4, <1>5, <1>6 DEF TriggersNext, WatchNext, triggerVars

\* The watcher's holds as well.
LEMMA WatchIsSound == TriggersSpec => []WatchInv
<1>1. TriggersInit => WatchInv
  <2> SUFFICES ASSUME TriggersInit PROVE WatchInv
    OBVIOUS
  <2>1. /\ watchers = <<>> /\ abort = 0 /\ timers = {} /\ pendingTimer = 0 /\ doubled = FALSE
        /\ DOMAIN watchers = {}
    BY DEF TriggersInit
  <2>2. watchers \in Seq(BOOLEAN) /\ abort \in Nat /\ doubled \in BOOLEAN /\ pendingTimer \in 0 .. 2
    <3>1. watchers \in Seq(BOOLEAN)
      BY <2>1, EmptySeq, Zenon
    <3>2. doubled \in BOOLEAN
      BY <2>1, Zenon
    <3>3. QED
      BY <2>1, <3>1, <3>2
  <2>3. BurstsAreQuiet /\ OneDelivers
    BY <2>1, Zenon DEF BurstsAreQuiet, OneDelivers
  <2>4. QED
    BY <2>2, <2>3 DEF WatchInv
<1>2. QED
  BY <1>1, WatchStep, PTL DEF TriggersSpec

\* Events close to each other are dispatched once, and nothing is after stop, however often
\* the daemon is started and stopped, if never twice without a stop.
THEOREM BurstsStayQuiet == TriggersSpec => []BurstsAreQuiet
<1>1. WatchInv => BurstsAreQuiet
  BY DEF WatchInv
<1>2. QED
  BY <1>1, WatchIsSound, PTL

TriggersBounds ==
  /\ minute \in 1 .. MaxMinute
  /\ lastTick.at \in 0 .. MaxMinute
  /\ \A f \in lastTick.fired : f.from \in 0 .. MaxMinute
  /\ since \in [CronIds -> 0 .. MaxMinute]
  /\ abort <= Len(watchers)
  /\ timers \subseteq {1, 2} /\ hasPayload \in BOOLEAN

LEMMA TriggersBoundsKept ==
  ASSUME SchedulerInv, WatchInv, TriggersBounds, [TriggersNext]_triggerVars
  PROVE  TriggersBounds'
<1>0. /\ minute \in Nat /\ MaxMinute \in Nat /\ since \in [CronIds -> 0 .. MaxMinute]
      /\ minute \in 1 .. MaxMinute /\ minute \in 0 .. MaxMinute
      /\ lastTick \in [at : Nat, fired : SUBSET [id : CronIds, from : Nat], passed : SUBSET CronIds]
  BY TriggersAssumption DEF SchedulerInv, TriggersBounds
<1>1. CASE MinutePasses
  BY <1>0, <1>1 DEF MinutePasses, TriggersBounds, watchVars
<1>2. CASE ResetSlots
  <2>1. lastTick'.at = lastTick.at /\ lastTick'.fired = lastTick.fired
    BY <1>0, <1>2 DEF ResetSlots
  <2>2. QED
    BY <1>2, <2>1 DEF ResetSlots, TriggersBounds, watchVars
<1>3. ASSUME NEW c \in CronIds, RegisterCron(c)
      PROVE  TriggersBounds'
  <2>1. /\ since' = [since EXCEPT ![c] = minute]
        /\ lastTick' = [lastTick EXCEPT !.passed = @ \ {c}]
        /\ UNCHANGED <<minute, watchers, abort, timers, hasPayload>>
    BY <1>3 DEF RegisterCron, watchVars
  <2>2. since' \in [CronIds -> 0 .. MaxMinute]
    BY <1>0, <2>1
  <2>3. lastTick'.at = lastTick.at /\ lastTick'.fired = lastTick.fired
    BY <1>0, <2>1
  <2>4. QED
    BY <2>1, <2>2, <2>3 DEF TriggersBounds
<1>4. ASSUME NEW now \in 1 .. MaxMinute, NEW i \in 1 .. Len(slots) + 1, TickSlots(now, i)
      PROVE  TriggersBounds'
  <2>1. PICK firing : firing = {slots[k].id : k \in
                         {j \in {h \in DOMAIN slots : h < i} : slots[j].nextFireAt <= now}}
    OBVIOUS
  <2>2. /\ since' = [c \in CronIds |-> IF c \in firing THEN now ELSE since[c]]
        /\ lastTick'.at = now
        /\ lastTick'.fired = {[id |-> c, from |-> since[c]] : c \in firing}
        /\ UNCHANGED <<minute, watchers, abort, timers, hasPayload>>
    BY <1>4, <2>1 DEF TickSlots, watchVars
  <2>3. since' \in [CronIds -> 0 .. MaxMinute] /\ lastTick'.at \in 0 .. MaxMinute
    BY <1>0, <2>2
  <2>4. firing \subseteq CronIds
    <3>1. \A k \in DOMAIN slots : slots[k] \in Slots
      BY ElementOfSeq DEF SchedulerInv
    <3>2. QED
      BY <2>1, <3>1 DEF Slots
  <2>5. \A f \in lastTick'.fired : f.from \in 0 .. MaxMinute
    BY <1>0, <2>2, <2>4
  <2>6. QED
    BY <2>2, <2>3, <2>5 DEF TriggersBounds
<1>5. ASSUME WatchNext
      PROVE  TriggersBounds'
  <2>1. UNCHANGED <<minute, lastTick, since>>
    BY <1>5 DEF WatchNext, StartWatch, StopWatch, FileChanges, TimerFires, schedulerVars
  <2>2. /\ watchers \in Seq(BOOLEAN) /\ Len(watchers) \in Nat /\ abort \in Nat
        /\ abort <= Len(watchers) /\ pendingTimer \in 0 .. 2
    BY DEF WatchInv, TriggersBounds
  <2>3. abort' <= Len(watchers')
    <3>1. CASE StartWatch
      BY <2>2, <3>1 DEF StartWatch
    <3>2. CASE StopWatch
      <4>1. DOMAIN watchers = 1 .. Len(watchers)
        BY <2>2
      <4>2. Len(watchers') = Len(watchers) /\ abort' = 0
        BY <2>2, <3>2, <4>1 DEF StopWatch
      <4>3. QED
        BY <2>2, <4>2
    <3>3. CASE UNCHANGED <<watchers, abort>>
      BY <2>2, <3>3
    <3>4. QED
      BY <1>5, <3>1, <3>2, <3>3 DEF WatchNext, FileChanges, TimerFires
  <2>4. timers' \subseteq {1, 2} /\ hasPayload' \in BOOLEAN
    <3>1. timers \subseteq {1, 2} /\ hasPayload \in BOOLEAN
      BY DEF TriggersBounds
    <3>2. (pendingTimer % 2) + 1 \in {1, 2}
      BY <2>2
    <3>3. QED
      BY <1>5, <3>1, <3>2 DEF WatchNext, StartWatch, StopWatch, FileChanges, TimerFires
  <2>5. QED
    BY <2>1, <2>3, <2>4 DEF TriggersBounds
<1>6. CASE UNCHANGED triggerVars
  BY <1>6 DEF triggerVars, schedulerVars, watchVars, TriggersBounds
<1>7. QED
  BY <1>1, <1>2, <1>3, <1>4, <1>5, <1>6 DEF TriggersNext, SchedulerNext

\* Times stay below the bound, ticks get through triggers, and a timer or watcher is one that
\* was made.
THEOREM TriggersTypesHold == TriggersSpec => []TriggersTypeOK
<1>1. TriggersInit => TriggersBounds
  <2> SUFFICES ASSUME TriggersInit
               PROVE  TriggersBounds
    OBVIOUS
  <2>1. /\ minute = 1 /\ lastTick.at = 0 /\ lastTick.fired = {} /\ since = [c \in CronIds |-> 0]
        /\ watchers = <<>> /\ abort = 0 /\ timers = {} /\ hasPayload = FALSE
    BY DEF TriggersInit
  <2>2. MaxMinute \in Nat \ {0} /\ Len(watchers) = 0
    BY <2>1, TriggersAssumption
  <2>3. since \in [CronIds -> 0 .. MaxMinute]
    BY <2>1, <2>2
  <2>4. minute \in 1 .. MaxMinute /\ abort <= Len(watchers) /\ lastTick.at \in 0 .. MaxMinute
    BY <2>1, <2>2
  <2>5. QED
    BY <2>1, <2>3, <2>4 DEF TriggersBounds
<1>2. SchedulerInv /\ WatchInv /\ TriggersBounds => TriggersTypeOK
  <2> SUFFICES ASSUME SchedulerInv, WatchInv, TriggersBounds
               PROVE  TriggersTypeOK
    OBVIOUS
  <2>1. /\ minute \in 1 .. MaxMinute /\ slots \in Seq([id : CronIds, nextFireAt : Nat])
        /\ since \in [CronIds -> 0 .. MaxMinute]
    BY DEF SchedulerInv, Slots, TriggersBounds
  <2>2. lastTick \in [at : 0 .. MaxMinute, fired : SUBSET [id : CronIds, from : 0 .. MaxMinute],
                     passed : SUBSET CronIds]
    <3>1. /\ lastTick \in [at : Nat, fired : SUBSET [id : CronIds, from : Nat],
                           passed : SUBSET CronIds]
          /\ lastTick.at \in 0 .. MaxMinute
          /\ \A f \in lastTick.fired : f.from \in 0 .. MaxMinute
      BY DEF SchedulerInv, TriggersBounds
    <3>2. lastTick.fired \subseteq [id : CronIds, from : 0 .. MaxMinute]
      BY <3>1
    <3>3. QED
      BY <3>1, <3>2
  <2>3. /\ watchers \in Seq(BOOLEAN) /\ abort \in 0 .. Len(watchers)
        /\ timers \subseteq {1, 2} /\ pendingTimer \in 0 .. 2
        /\ hasPayload \in BOOLEAN /\ doubled \in BOOLEAN
    BY DEF WatchInv, TriggersBounds
  <2>4. QED
    BY <2>1, <2>2, <2>3 DEF TriggersTypeOK
<1>3. QED
  BY <1>1, <1>2, SchedulerIsSound, WatchIsSound, TriggersBoundsKept, PTL DEF TriggersSpec

-----------------------------------------------------------------------------
(* Coding jobs.                                                            *)

\* The stages at which an isolated shard has its worktree, or has just had it made.
Placed == {"ready", "launched", "running", "recording", "removing"}

\* The stages of a benchmark's provider that has its row.
Rowed == {"refused", "unusable", "removing", "done"}

\* the combination that a delegation refuses is not at work
Permitted == Delegation => ~(job.parallel /\ ~job.isolate /\ job.dryRun # Shards)

CodingShape ==
  /\ job \in Jobs
  /\ jobPc \in {"called", "looping", "returned", "rejected"}
  /\ stage \in [Shards -> Stages]
  /\ result \in [Shards -> Result \cup {NotYet}]
  /\ rows \in Seq(Shards)
  /\ worktrees \subseteq Shards

\* Where the shards of a job may be next to each other.
ShardsAtWork ==
  /\ jobPc = "called" => rows = <<>> /\ \A s \in Shards : stage[s] = "waiting"
  /\ jobPc = "looping" \/ (\E s \in Shards : stage[s] # "waiting") => Permitted
  /\ ~(Delegation /\ job.parallel) =>
       \A s, t \in Shards : stage[s] \in Active /\ stage[t] \in Active => s = t
  /\ ~Delegation => \A s \in Shards : stage[s] # "ready"
  /\ \A s \in Shards : stage[s] = "adding" => job.isolate
  /\ jobPc = "returned" => \A s \in Shards : stage[s] \notin Active \cup {"ready"}

\* Every worktree is the workplace of its shard, unless git or the call failed.
WorktreesTraced ==
  /\ job.isolate => \A s \in Shards : stage[s] \in Placed => s \in worktrees
  /\ \A s \in worktrees \ misfired :
       /\ job.isolate
       /\ stage[s] \in Placed \/ (Delegation /\ jobPc = "rejected" /\ s \in unrecorded)

ResultsKnown ==
  \A s \in Shards : /\ stage[s] \in {"recording", "removing", "done"} => result[s] \in Result
                    /\ stage[s] \in {"refused", "unusable"} => result[s] = Without("fail")

RowsOfProviders ==
  ~Delegation /\ jobPc # "rejected" =>
    /\ \A i, j \in DOMAIN rows : rows[i] = rows[j] => i = j
    /\ {rows[i] : i \in DOMAIN rows} = {s \in Shards : stage[s] \in Rowed}

CodingInv == CodingShape /\ ShardsAtWork /\ WorktreesTraced /\ ResultsKnown /\ RowsOfProviders /\ ReportIsWhole

\* The shards are finitely many numbers.
LEMMA ShardsFinite == IsFiniteSet(Shards) /\ Shards \subseteq Nat
BY ShardsAssumption, FS_CardinalityType

\* The list of a finite set of shards has each of them once, in their order.
LEMMA ListedInOrder ==
  ASSUME NEW S, S \subseteq Nat, IsFiniteSet(S)
  PROVE  /\ Cardinality(S) \in Nat /\ InOrder(S) \in [1 .. Cardinality(S) -> S]
         /\ \A i, j \in 1 .. Cardinality(S) : i < j => InOrder(S)[i] < InOrder(S)[j]
<1> DEFINE Orders(T, order) == /\ order \in [1 .. Cardinality(T) -> T]
                               /\ \A i, j \in 1 .. Cardinality(T) : i < j => order[i] < order[j]
           Sizes == {n \in Nat : \A T : T \subseteq Nat /\ IsFiniteSet(T) /\ Cardinality(T) = n
                                          => \E order : Orders(T, order)}
<1>1. 0 \in Sizes
  <2>1. SUFFICES ASSUME NEW T, T \subseteq Nat, IsFiniteSet(T), Cardinality(T) = 0
                 PROVE  Orders(T, <<>>)
    OBVIOUS
  <2>2. QED
    BY <2>1
<1>2. ASSUME NEW n \in Sizes
      PROVE  n + 1 \in Sizes
  <2>1. SUFFICES ASSUME NEW T, T \subseteq Nat, IsFiniteSet(T), Cardinality(T) = n + 1
                 PROVE  \E order : Orders(T, order)
    OBVIOUS
  <2>2. n \in Nat /\ T # {}
    BY <2>1, FS_EmptySet
  <2>3. PICK least \in T : \A x \in T : least <= x
    BY <2>1, <2>2, LeastNatural
  <2>4. /\ T \ {least} \subseteq Nat /\ IsFiniteSet(T \ {least})
        /\ Cardinality(T \ {least}) = n
    BY <2>1, <2>2, <2>3, FS_RemoveElement
  <2>5. PICK rest : Orders(T \ {least}, rest)
    BY <2>4
  <2> DEFINE order == [i \in 1 .. n + 1 |-> IF i = 1 THEN least ELSE rest[i - 1]]
  <2>6. /\ rest \in [1 .. n -> T \ {least}]
        /\ \A i, j \in 1 .. n : i < j => rest[i] < rest[j]
    BY <2>4, <2>5
  <2>7. \A i \in 1 .. n + 1 : i = 1 \/ (i - 1 \in 1 .. n /\ i # 1)
    BY <2>2
  <2>8. order \in [1 .. n + 1 -> T]
    BY <2>3, <2>6, <2>7
  <2>9. ASSUME NEW i \in 1 .. n + 1, NEW j \in 1 .. n + 1, i < j
        PROVE  order[i] < order[j]
    <3>1. j - 1 \in 1 .. n /\ j # 1 /\ order[j] = rest[j - 1]
      BY <2>2, <2>7, <2>9
    <3>2. CASE i = 1
      <4>1. rest[j - 1] \in T \ {least} /\ least \in Nat /\ rest[j - 1] \in Nat
        BY <2>1, <2>3, <2>6, <3>1
      <4>2. QED
        BY <2>3, <3>1, <3>2, <4>1
    <3>3. CASE i # 1
      BY <2>2, <2>6, <2>7, <2>9, <3>1, <3>3
    <3>4. QED
      BY <3>2, <3>3
  <2>10. Orders(T, order)
    BY <2>1, <2>8, <2>9
  <2>11. QED
    BY <2>10
<1>3. Cardinality(S) \in Nat
  BY FS_CardinalityType
<1>4. \E order : Orders(S, order)
  <2>1. Sizes \subseteq Nat
    OBVIOUS
  <2>2. Cardinality(S) \in Sizes
    <3> HIDE DEF Sizes
    <3>1. QED
      BY <1>1, <1>2, <1>3, <2>1, SetInduction
  <2>3. QED
    BY <2>2
<1>5. QED
  BY <1>3, <1>4 DEF InOrder

\* ... so it names each of them at one place.
LEMMA ListedOnce ==
  ASSUME NEW S, S \subseteq Nat, IsFiniteSet(S)
  PROVE  /\ InOrder(S) \in Seq(S)
         /\ \A i, j \in DOMAIN InOrder(S) : InOrder(S)[i] = InOrder(S)[j] => i = j
         /\ \A x \in S : \E i \in DOMAIN InOrder(S) : InOrder(S)[i] = x
         /\ S # {} => InOrder(S)[1] \in S
<1>1. PICK order, n : order = InOrder(S) /\ n = Cardinality(S)
  OBVIOUS
<1>2. /\ n \in Nat /\ order \in [1 .. n -> S] /\ order \in Seq(S) /\ DOMAIN order = 1 .. n
      /\ \A i, j \in 1 .. n : i < j => order[i] < order[j]
  <2>1. /\ n \in Nat /\ order \in [1 .. n -> S]
        /\ \A i, j \in 1 .. n : i < j => order[i] < order[j]
    BY <1>1, ListedInOrder
  <2>2. QED
    BY <2>1
<1>3. ASSUME NEW i \in 1 .. n, NEW j \in 1 .. n, order[i] = order[j]
      PROVE  i = j
  <2>1. order[i] \in Nat
    BY <1>2
  <2>2. ~(i < j) /\ ~(j < i)
    BY <1>2, <1>3, <2>1
  <2>3. QED
    BY <1>2, <2>2
<1>4. order \in Injection(1 .. n, S)
  BY <1>2, <1>3 DEF Injection, IsInjective
<1>5. order \in Surjection(1 .. n, S)
  <2>1. Cardinality(1 .. n) = n
    <3>1. IsFiniteSet(1 .. n) /\ Cardinality(1 .. n) = IF 1 > n THEN 0 ELSE n - 1 + 1
      BY <1>2, FS_Interval
    <3>2. QED
      BY <1>2, <3>1
  <2>2. QED
    BY <1>1, <1>4, <2>1, FS_Injection
<1>6. \A x \in S : \E i \in 1 .. n : order[i] = x
  BY <1>5 DEF Surjection
<1>7. S # {} => 1 \in 1 .. n
  <2>1. ASSUME NEW x \in S
        PROVE  1 \in 1 .. n
    <3>1. PICK i \in 1 .. n : order[i] = x
      BY <1>6
    <3>2. QED
      BY <1>2
  <2>2. QED
    BY <2>1
<1>8. /\ order \in Seq(S)
      /\ \A i, j \in DOMAIN order : order[i] = order[j] => i = j
      /\ \A x \in S : \E i \in DOMAIN order : order[i] = x
      /\ S # {} => order[1] \in S
  BY <1>2, <1>3, <1>6, <1>7
<1>9. QED
  BY <1>1, <1>8

\* A row that is added.
LEMMA RowAdded ==
  ASSUME NEW S, NEW s \in S, NEW list \in Seq(S),
         \A i, j \in DOMAIN list : list[i] = list[j] => i = j, \A i \in DOMAIN list : list[i] # s
  PROVE  /\ Append(list, s) \in Seq(S)
         /\ \A i, j \in DOMAIN Append(list, s) : Append(list, s)[i] = Append(list, s)[j] => i = j
         /\ \A x : (\E i \in DOMAIN Append(list, s) : Append(list, s)[i] = x)
                    <=> x = s \/ \E i \in DOMAIN list : list[i] = x
<1>1. PICK more : more = Append(list, s)
  OBVIOUS
<1>2. /\ more \in Seq(S) /\ DOMAIN more = DOMAIN list \cup {Len(list) + 1}
      /\ Len(list) + 1 \notin DOMAIN list
      /\ \A i \in DOMAIN list : more[i] = list[i]
      /\ more[Len(list) + 1] = s
  BY <1>1
<1>3. \A i, j \in DOMAIN more : more[i] = more[j] => i = j
  BY <1>2
<1>4. \A x : (\E i \in DOMAIN more : more[i] = x) <=> x = s \/ \E i \in DOMAIN list : list[i] = x
  BY <1>2
<1>5. QED
  BY <1>1, <1>2, <1>3, <1>4

\* A report lists its shards in two groups.
LEMMA RowsJoined ==
  ASSUME NEW S, NEW one \in Seq(S), NEW two \in Seq(S),
         \A i, j \in DOMAIN one : one[i] = one[j] => i = j,
         \A i, j \in DOMAIN two : two[i] = two[j] => i = j,
         \A i \in DOMAIN one, j \in DOMAIN two : one[i] # two[j]
  PROVE  /\ one \o two \in Seq(S)
         /\ \A i, j \in DOMAIN (one \o two) : (one \o two)[i] = (one \o two)[j] => i = j
         /\ \A x : (\E i \in DOMAIN (one \o two) : (one \o two)[i] = x)
                    <=> (\E i \in DOMAIN one : one[i] = x) \/ (\E i \in DOMAIN two : two[i] = x)
<1>1. PICK all, m, n : all = one \o two /\ m = Len(one) /\ n = Len(two)
  OBVIOUS
<1>2. /\ m \in Nat /\ n \in Nat /\ DOMAIN one = 1 .. m /\ DOMAIN two = 1 .. n
      /\ all \in Seq(S) /\ DOMAIN all = 1 .. m + n
      /\ \A i \in 1 .. m : all[i] = one[i]
      /\ \A i \in 1 .. n : all[m + i] = two[i]
  BY <1>1
<1>3. \A i \in 1 .. m + n : i \in 1 .. m \/ (i - m \in 1 .. n /\ m + (i - m) = i)
  BY <1>2
<1>4. \A i \in 1 .. m + n : \/ i \in 1 .. m /\ all[i] = one[i]
                            \/ i - m \in 1 .. n /\ all[i] = two[i - m]
  BY <1>2, <1>3
<1>5. ASSUME NEW i \in 1 .. m + n, NEW j \in 1 .. m + n, all[i] = all[j]
      PROVE  i = j
  <2>1. CASE i \in 1 .. m /\ j \in 1 .. m
    BY <1>2, <1>5, <2>1
  <2>2. CASE i - m \in 1 .. n /\ all[i] = two[i - m] /\ j - m \in 1 .. n /\ all[j] = two[j - m]
    <3>1. i - m = j - m
      BY <1>2, <1>5, <2>2
    <3>2. QED
      BY <1>2, <3>1
  <2>3. CASE i \in 1 .. m /\ j - m \in 1 .. n /\ all[j] = two[j - m]
    <3>1. PICK k : k = j - m
      OBVIOUS
    <3>2. i \in DOMAIN one /\ k \in DOMAIN two /\ one[i] = two[k]
      BY <1>2, <1>5, <2>3, <3>1
    <3>3. QED
      BY <3>2
  <2>4. CASE j \in 1 .. m /\ i - m \in 1 .. n /\ all[i] = two[i - m]
    BY <1>2, <1>5, <2>4
  <2>5. QED
    BY <1>4, <2>1, <2>2, <2>3, <2>4
<1>6. \A x : (\E i \in 1 .. m + n : all[i] = x)
              <=> (\E i \in 1 .. m : one[i] = x) \/ (\E i \in 1 .. n : two[i] = x)
  <2>1. \A i \in 1 .. m : i \in 1 .. m + n
    BY <1>2
  <2>2. \A i \in 1 .. n : m + i \in 1 .. m + n
    BY <1>2
  <2>3. QED
    BY <1>2, <1>4, <2>1, <2>2
<1>7. /\ all \in Seq(S)
      /\ \A i, j \in DOMAIN all : all[i] = all[j] => i = j
      /\ \A x : (\E i \in DOMAIN all : all[i] = x)
                 <=> (\E i \in DOMAIN one : one[i] = x) \/ (\E i \in DOMAIN two : two[i] = x)
  BY <1>2, <1>5, <1>6
<1>8. QED
  BY <1>1, <1>7

-----------------------------------------------------------------------------
(* The steps of a coding job.                                              *)

\* A call that has returned has nothing at work, so no more is done to it.
LEMMA StillOpen ==
  ASSUME CodingInv, NEW s \in Shards, stage[s] \in Active
  PROVE  jobPc \in {"looping", "rejected"}
<1>1. stage[s] # "waiting"
  BY DEF Active
<1>2. jobPc # "called"
  BY <1>1 DEF CodingInv, ShardsAtWork
<1>3. jobPc # "returned"
  BY DEF CodingInv, ReportIsWhole, Busy
<1>4. QED
  BY <1>2, <1>3 DEF CodingInv, CodingShape

\* A shard at work goes on to stage x, the call going on or being rejected.
LEMMA ShardGoesOn ==
  ASSUME CodingInv, NEW s \in Shards, stage[s] \in Active,
         NEW x \in Stages, x # "adding", x = "ready" => Delegation,
         stage' = [stage EXCEPT ![s] = x], job' = job, jobPc' \in {jobPc, "rejected"}
  PROVE  /\ stage' \in [Shards -> Stages] /\ stage'[s] = x
         /\ \A t \in Shards : t # s => stage'[t] = stage[t]
         /\ jobPc' \in {"looping", "rejected"} /\ ShardsAtWork' /\ ReportIsWhole'
<1>1. stage \in [Shards -> Stages]
  BY DEF CodingInv, CodingShape
<1>2. stage' \in [Shards -> Stages] /\ stage'[s] = x /\ \A t \in Shards : t # s => stage'[t] = stage[t]
  BY <1>1
<1>3. jobPc' \in {"looping", "rejected"}
  BY StillOpen
<1>4. stage[s] # "waiting" /\ Permitted /\ Permitted' /\ Delegation' = Delegation
  BY DEF Active, CodingInv, ShardsAtWork, Permitted, Delegation
<1>5. \A t \in Shards : stage'[t] \in Active => stage[t] \in Active
  BY <1>2
<1>6. ~(Delegation /\ job.parallel) =>
        \A t, u \in Shards : stage'[t] \in Active /\ stage'[u] \in Active => t = u
  BY <1>5 DEF CodingInv, ShardsAtWork
<1>7. ~Delegation => \A t \in Shards : stage'[t] # "ready"
  BY <1>2 DEF CodingInv, ShardsAtWork
<1>8. \A t \in Shards : stage'[t] = "adding" => job.isolate
  BY <1>2 DEF CodingInv, ShardsAtWork
<1>9. ShardsAtWork'
  BY <1>3, <1>4, <1>6, <1>7, <1>8 DEF ShardsAtWork
<1>10. ReportIsWhole'
  BY <1>3 DEF ReportIsWhole
<1>11. QED
  BY <1>2, <1>3, <1>9, <1>10

LEMMA WorktreeAddedKeeps ==
  ASSUME CodingInv, NEW s \in Shards, WorktreeAdded(s)
  PROVE  CodingInv'
<1>1. PICK x : x = IF Delegation THEN "ready" ELSE "launched"
  OBVIOUS
<1>2. /\ stage[s] = "adding" /\ worktrees' = worktrees \cup {s} /\ misfired' = misfired
      /\ stage' = [stage EXCEPT ![s] = x]
      /\ UNCHANGED <<job, jobPc, branch, result, rows, review, aborted, unrecorded>>
  BY <1>1 DEF WorktreeAdded, Added
<1>3. x \in Stages /\ x # "adding" /\ (x = "ready" => Delegation) /\ x \in Placed /\ x \notin Rowed
      /\ stage[s] \in Active /\ stage[s] \notin Rowed
  BY <1>1, <1>2 DEF Stages, Active, Placed, Rowed
<1>4. /\ stage' \in [Shards -> Stages] /\ stage'[s] = x
      /\ \A t \in Shards : t # s => stage'[t] = stage[t]
      /\ ShardsAtWork' /\ ReportIsWhole'
  BY <1>2, <1>3, ShardGoesOn
<1>5. CodingShape'
  BY <1>2, <1>4 DEF CodingInv, CodingShape
<1>6. WorktreesTraced'
  <2>1. job.isolate
    BY <1>2 DEF CodingInv, ShardsAtWork
  <2>2. \A t \in Shards : stage'[t] \in Placed => t \in worktrees'
    BY <1>2, <1>4, <2>1 DEF CodingInv, WorktreesTraced
  <2>3. \A t \in worktrees' \ misfired' :
          stage'[t] \in Placed \/ (Delegation /\ jobPc = "rejected" /\ t \in unrecorded)
    BY <1>2, <1>3, <1>4 DEF CodingInv, WorktreesTraced, CodingShape
  <2>4. QED
    BY <1>2, <2>1, <2>2, <2>3 DEF WorktreesTraced, Delegation
<1>7. ResultsKnown'
  BY <1>1, <1>2, <1>4 DEF CodingInv, ResultsKnown
<1>8. RowsOfProviders'
  <2>1. \A t \in Shards : stage'[t] \in Rowed <=> stage[t] \in Rowed
    BY <1>3, <1>4
  <2>2. QED
    BY <1>2, <2>1 DEF CodingInv, RowsOfProviders, Delegation
<1>9. QED
  BY <1>4, <1>5, <1>6, <1>7, <1>8 DEF CodingInv

LEMMA WorktreeRefusedKeeps ==
  ASSUME CodingInv, NEW s \in Shards, WorktreeRefused(s)
  PROVE  CodingInv'
<1>1. /\ stage[s] = "adding" /\ worktrees' \subseteq worktrees \cup {s} /\ worktrees \subseteq worktrees'
      /\ misfired' = misfired \cup {s} /\ stage' = [stage EXCEPT ![s] = "refused"]
      /\ result' = [result EXCEPT ![s] = Without("fail")]
      /\ rows' = IF Delegation THEN rows ELSE Append(rows, s)
      /\ UNCHANGED <<job, jobPc, nextShard, branch, review, aborted, unrecorded>>
  BY DEF WorktreeRefused, NotAdded
<1>2. /\ "refused" \in Stages /\ stage[s] \in Active /\ stage[s] \notin Rowed
      /\ "refused" \in Rowed /\ "refused" \notin Placed
  BY <1>1 DEF Stages, Active, Placed, Rowed
<1>3. /\ stage' \in [Shards -> Stages] /\ stage'[s] = "refused"
      /\ \A t \in Shards : t # s => stage'[t] = stage[t]
      /\ ShardsAtWork' /\ ReportIsWhole'
  BY <1>1, <1>2, ShardGoesOn
<1>4. /\ result' \in [Shards -> Result \cup {NotYet}] /\ result'[s] = Without("fail")
      /\ \A t \in Shards : t # s => result'[t] = result[t]
  BY <1>1 DEF CodingInv, CodingShape, Result, Without
<1>5. CodingShape'
  BY <1>1, <1>3, <1>4 DEF CodingInv, CodingShape
<1>6. WorktreesTraced'
  <2>1. job.isolate
    BY <1>1 DEF CodingInv, ShardsAtWork
  <2>2. \A t \in Shards : stage'[t] \in Placed => t \in worktrees'
    BY <1>1, <1>2, <1>3, <2>1 DEF CodingInv, WorktreesTraced
  <2>3. \A t \in worktrees' \ misfired' :
          stage'[t] \in Placed \/ (Delegation /\ jobPc = "rejected" /\ t \in unrecorded)
    BY <1>1, <1>3 DEF CodingInv, WorktreesTraced, CodingShape
  <2>4. QED
    BY <1>1, <2>1, <2>2, <2>3 DEF WorktreesTraced, Delegation
<1>7. ResultsKnown'
  BY <1>3, <1>4 DEF CodingInv, ResultsKnown
<1>8. RowsOfProviders'
  <2>1. SUFFICES ASSUME ~Delegation, jobPc # "rejected"
                 PROVE  /\ \A i, j \in DOMAIN rows' : rows'[i] = rows'[j] => i = j
                        /\ {rows'[i] : i \in DOMAIN rows'} = {t \in Shards : stage'[t] \in Rowed}
    BY <1>1 DEF RowsOfProviders, Delegation
  <2>2. /\ \A i, j \in DOMAIN rows : rows[i] = rows[j] => i = j
        /\ {rows[i] : i \in DOMAIN rows} = {t \in Shards : stage[t] \in Rowed}
        /\ rows \in Seq(Shards)
    BY <2>1 DEF CodingInv, RowsOfProviders, CodingShape
  <2>3. {t \in Shards : stage'[t] \in Rowed} = {t \in Shards : stage[t] \in Rowed} \cup {s}
    BY <1>2, <1>3
  <2>4. rows' = Append(rows, s) /\ \A i \in DOMAIN rows : rows[i] # s
    BY <1>1, <1>2, <2>1, <2>2
  <2>5. /\ \A i, j \in DOMAIN Append(rows, s) : Append(rows, s)[i] = Append(rows, s)[j] => i = j
        /\ \A t : (\E i \in DOMAIN Append(rows, s) : Append(rows, s)[i] = t)
                   <=> t = s \/ \E i \in DOMAIN rows : rows[i] = t
    BY <2>2, <2>4, RowAdded, ZenonT(60)
  <2>6. {rows'[i] : i \in DOMAIN rows'} = {rows[i] : i \in DOMAIN rows} \cup {s}
    BY <2>4, <2>5
  <2>7. QED
    BY <2>2, <2>3, <2>4, <2>5, <2>6
<1>9. QED
  BY <1>3, <1>5, <1>6, <1>7, <1>8 DEF CodingInv

LEMMA SetupRecordedKeeps ==
  ASSUME CodingInv, NEW s \in Shards, SetupRecorded(s)
  PROVE  CodingInv'
<1>1. /\ stage[s] = "refused" /\ stage' = [stage EXCEPT ![s] = "unusable"]
      /\ jobPc' \in {jobPc, "rejected"} /\ unrecorded \subseteq unrecorded'
      /\ UNCHANGED <<worktrees, misfired, job, branch, result, rows, review, aborted>>
  BY DEF SetupRecorded, worktreeVars
<1>2. /\ "unusable" \in Stages /\ stage[s] \in Active /\ stage[s] \in Rowed /\ stage[s] \notin Placed
      /\ "unusable" \in Rowed /\ "unusable" \notin Placed
  BY <1>1 DEF Stages, Active, Placed, Rowed
<1>3. /\ stage' \in [Shards -> Stages] /\ stage'[s] = "unusable"
      /\ \A t \in Shards : t # s => stage'[t] = stage[t]
      /\ jobPc' \in {"looping", "rejected"} /\ ShardsAtWork' /\ ReportIsWhole'
  BY <1>1, <1>2, ShardGoesOn
<1>4. CodingShape'
  BY <1>1, <1>3 DEF CodingInv, CodingShape
<1>5. \A t \in Shards : (stage'[t] \in Placed <=> stage[t] \in Placed) /\ (stage'[t] \in Rowed <=> stage[t] \in Rowed)
  BY <1>2, <1>3
<1>6. WorktreesTraced'
  BY <1>1, <1>5 DEF CodingInv, CodingShape, WorktreesTraced, Delegation
<1>7. ResultsKnown'
  BY <1>1, <1>3 DEF CodingInv, ResultsKnown
<1>8. RowsOfProviders'
  BY <1>1, <1>5 DEF CodingInv, RowsOfProviders, Delegation
<1>9. QED
  BY <1>3, <1>4, <1>6, <1>7, <1>8 DEF CodingInv

LEMMA RunTaskKeeps ==
  ASSUME CodingInv, NEW s \in Shards, RunTask(s)
  PROVE  CodingInv'
<1>1. /\ stage[s] = "launched" /\ stage' = [stage EXCEPT ![s] = "running"]
      /\ UNCHANGED <<worktrees, misfired, job, jobPc, branch, result, rows, review, aborted, unrecorded>>
  BY DEF RunTask, SettledLocals, worktreeVars
<1>2. /\ "running" \in Stages /\ stage[s] \in Active /\ stage[s] \notin Rowed /\ stage[s] \in Placed
      /\ "running" \notin Rowed /\ "running" \in Placed
  BY <1>1 DEF Stages, Active, Placed, Rowed
<1>3. /\ stage' \in [Shards -> Stages] /\ stage'[s] = "running"
      /\ \A t \in Shards : t # s => stage'[t] = stage[t]
      /\ ShardsAtWork' /\ ReportIsWhole'
  BY <1>1, <1>2, ShardGoesOn
<1>4. CodingShape'
  BY <1>1, <1>3 DEF CodingInv, CodingShape
<1>5. \A t \in Shards : (stage'[t] \in Placed <=> stage[t] \in Placed) /\ (stage'[t] \in Rowed <=> stage[t] \in Rowed)
  BY <1>2, <1>3
<1>6. WorktreesTraced'
  BY <1>1, <1>5 DEF CodingInv, CodingShape, WorktreesTraced, Delegation
<1>7. ResultsKnown'
  BY <1>1, <1>3 DEF CodingInv, ResultsKnown
<1>8. RowsOfProviders'
  BY <1>1, <1>5 DEF CodingInv, RowsOfProviders, Delegation
<1>9. QED
  BY <1>3, <1>4, <1>6, <1>7, <1>8 DEF CodingInv

LEMMA TaskSettledKeeps ==
  ASSUME CodingInv, NEW s \in Shards, TaskSettled(s)
  PROVE  CodingInv'
<1>1. /\ stage[s] = "running" /\ stage' = [stage EXCEPT ![s] = "recording"]
      /\ UNCHANGED <<worktrees, misfired, job, jobPc, branch, rows, review, aborted, unrecorded>>
  BY DEF TaskSettled, worktreeVars
<1>2. PICK r \in Result : result' = [result EXCEPT ![s] = r]
  BY JobsAssumption DEF TaskSettled
<1>3. /\ "recording" \in Stages /\ stage[s] \in Active /\ stage[s] \notin Rowed /\ stage[s] \in Placed
      /\ "recording" \notin Rowed /\ "recording" \in Placed
  BY <1>1 DEF Stages, Active, Placed, Rowed
<1>4. /\ stage' \in [Shards -> Stages] /\ stage'[s] = "recording"
      /\ \A t \in Shards : t # s => stage'[t] = stage[t]
      /\ ShardsAtWork' /\ ReportIsWhole'
  BY <1>1, <1>3, ShardGoesOn
<1>5. /\ result' \in [Shards -> Result \cup {NotYet}] /\ result'[s] \in Result
      /\ \A t \in Shards : t # s => result'[t] = result[t]
  BY <1>2 DEF CodingInv, CodingShape
<1>6. CodingShape'
  BY <1>1, <1>4, <1>5 DEF CodingInv, CodingShape
<1>7. \A t \in Shards : (stage'[t] \in Placed <=> stage[t] \in Placed) /\ (stage'[t] \in Rowed <=> stage[t] \in Rowed)
  BY <1>3, <1>4
<1>8. WorktreesTraced'
  BY <1>1, <1>7 DEF CodingInv, CodingShape, WorktreesTraced, Delegation
<1>9. ResultsKnown'
  BY <1>4, <1>5 DEF CodingInv, ResultsKnown
<1>10. RowsOfProviders'
  BY <1>1, <1>7 DEF CodingInv, RowsOfProviders, Delegation
<1>11. QED
  BY <1>4, <1>6, <1>8, <1>9, <1>10 DEF CodingInv

LEMMA RecordedKeeps ==
  ASSUME CodingInv, NEW s \in Shards, Recorded(s)
  PROVE  CodingInv'
<1>1. PICK x : x = IF job.isolate THEN "removing" ELSE "done"
  OBVIOUS
<1>2. /\ stage[s] = "recording" /\ stage' = [stage EXCEPT ![s] = x]
      /\ rows' = IF Delegation THEN rows ELSE Append(rows, s)
      /\ UNCHANGED <<worktrees, misfired, job, jobPc, branch, result, review, aborted, unrecorded>>
  BY <1>1 DEF Recorded, worktreeVars
<1>3. /\ x \in Stages /\ x # "adding" /\ x # "ready" /\ stage[s] \in Active /\ stage[s] \notin Rowed /\ stage[s] \in Placed
      /\ x \in Rowed /\ (x \in Placed <=> job.isolate) /\ x \in {"removing", "done"}
  BY <1>1, <1>2 DEF Stages, Active, Placed, Rowed
<1>4. /\ stage' \in [Shards -> Stages] /\ stage'[s] = x
      /\ \A t \in Shards : t # s => stage'[t] = stage[t]
      /\ ShardsAtWork' /\ ReportIsWhole'
  BY <1>2, <1>3, ShardGoesOn
<1>5. CodingShape'
  BY <1>2, <1>4 DEF CodingInv, CodingShape
<1>6. WorktreesTraced'
  <2>1. job.isolate => \A t \in Shards : stage'[t] \in Placed <=> stage[t] \in Placed
    BY <1>3, <1>4
  <2>2. QED
    BY <1>2, <2>1 DEF CodingInv, CodingShape, WorktreesTraced, Delegation
<1>7. ResultsKnown'
  BY <1>2, <1>3, <1>4 DEF CodingInv, ResultsKnown
<1>8. RowsOfProviders'
  <2>1. SUFFICES ASSUME ~Delegation, jobPc # "rejected"
                 PROVE  /\ \A i, j \in DOMAIN rows' : rows'[i] = rows'[j] => i = j
                        /\ {rows'[i] : i \in DOMAIN rows'} = {t \in Shards : stage'[t] \in Rowed}
    BY <1>2 DEF RowsOfProviders, Delegation
  <2>2. /\ \A i, j \in DOMAIN rows : rows[i] = rows[j] => i = j
        /\ {rows[i] : i \in DOMAIN rows} = {t \in Shards : stage[t] \in Rowed}
        /\ rows \in Seq(Shards)
    BY <2>1 DEF CodingInv, RowsOfProviders, CodingShape
  <2>3. {t \in Shards : stage'[t] \in Rowed} = {t \in Shards : stage[t] \in Rowed} \cup {s}
    BY <1>3, <1>4
  <2>4. rows' = Append(rows, s) /\ \A i \in DOMAIN rows : rows[i] # s
    BY <1>2, <1>3, <2>1, <2>2
  <2>5. /\ \A i, j \in DOMAIN Append(rows, s) : Append(rows, s)[i] = Append(rows, s)[j] => i = j
        /\ \A t : (\E i \in DOMAIN Append(rows, s) : Append(rows, s)[i] = t)
                   <=> t = s \/ \E i \in DOMAIN rows : rows[i] = t
    BY <2>2, <2>4, RowAdded, ZenonT(60)
  <2>6. {rows'[i] : i \in DOMAIN rows'} = {rows[i] : i \in DOMAIN rows} \cup {s}
    BY <2>4, <2>5
  <2>7. QED
    BY <2>2, <2>3, <2>4, <2>5, <2>6
<1>9. QED
  BY <1>4, <1>5, <1>6, <1>7, <1>8 DEF CodingInv

LEMMA NotRecordedKeeps ==
  ASSUME CodingInv, NEW s \in Shards, NotRecorded(s)
  PROVE  CodingInv'
<1>1. /\ stage[s] = "recording" /\ unrecorded' = unrecorded \cup {s}
      /\ UNCHANGED <<worktrees, misfired, job, branch, rows, review, aborted>>
  BY DEF NotRecorded, worktreeVars
<1>2. stage[s] \in Active /\ stage[s] \notin Rowed /\ stage[s] \in Placed /\ result[s] \in Result
  BY <1>1 DEF Active, Placed, Rowed, CodingInv, ResultsKnown
<1>3. CASE Delegation
  <2>1. stage' = [stage EXCEPT ![s] = "done"] /\ jobPc' = "rejected" /\ result' = result
    BY <1>3 DEF NotRecorded
  <2>2. "done" \in Stages /\ "done" \notin Placed
    BY DEF Stages, Placed
  <2>3. /\ stage' \in [Shards -> Stages] /\ stage'[s] = "done"
        /\ \A t \in Shards : t # s => stage'[t] = stage[t]
        /\ ShardsAtWork' /\ ReportIsWhole'
    BY <1>1, <1>2, <2>1, <2>2, ShardGoesOn
  <2>4. CodingShape'
    BY <1>1, <2>1, <2>3 DEF CodingInv, CodingShape
  <2>5. WorktreesTraced'
    BY <1>1, <1>3, <2>1, <2>2, <2>3 DEF CodingInv, CodingShape, WorktreesTraced, Delegation
  <2>6. ResultsKnown'
    BY <1>2, <2>1, <2>3 DEF CodingInv, ResultsKnown
  <2>7. RowsOfProviders'
    BY <2>1 DEF RowsOfProviders
  <2>8. QED
    BY <2>3, <2>4, <2>5, <2>6, <2>7 DEF CodingInv
<1>4. CASE ~Delegation /\ result[s].status # "threw"
  <2>1. result' = [result EXCEPT ![s] = Without("threw")] /\ UNCHANGED <<stage, jobPc>>
    BY <1>4 DEF NotRecorded
  <2>2. /\ result' \in [Shards -> Result \cup {NotYet}] /\ result'[s] \in Result
        /\ \A t \in Shards : t # s => result'[t] = result[t]
    BY <2>1 DEF CodingInv, CodingShape, Result, Without
  <2>3. CodingShape'
    BY <1>1, <2>1, <2>2 DEF CodingInv, CodingShape
  <2>4. jobPc' # "returned" /\ ReportIsWhole'
    BY <1>2, <2>1, StillOpen DEF ReportIsWhole
  <2>5. ShardsAtWork'
    BY <1>1, <2>1 DEF CodingInv, ShardsAtWork, Permitted, Delegation
  <2>6. WorktreesTraced'
    BY <1>1, <2>1 DEF CodingInv, WorktreesTraced, Delegation
  <2>7. ResultsKnown'
    BY <1>1, <2>1, <2>2 DEF CodingInv, ResultsKnown
  <2>8. RowsOfProviders'
    BY <1>1, <2>1 DEF CodingInv, RowsOfProviders, Delegation
  <2>9. QED
    BY <2>3, <2>4, <2>5, <2>6, <2>7, <2>8 DEF CodingInv
<1>5. CASE ~Delegation /\ result[s].status = "threw"
  <2>1. PICK x : x = IF job.isolate THEN "removing" ELSE "done"
    OBVIOUS
  <2>2. stage' = [stage EXCEPT ![s] = x] /\ jobPc' = "rejected" /\ result' = result
    BY <1>5, <2>1 DEF NotRecorded
  <2>3. /\ x \in Stages /\ x # "adding" /\ x # "ready" /\ x \in {"removing", "done"}
        /\ (x \in Placed <=> job.isolate)
    BY <2>1 DEF Stages, Placed
  <2>4. /\ stage' \in [Shards -> Stages] /\ stage'[s] = x
        /\ \A t \in Shards : t # s => stage'[t] = stage[t]
        /\ ShardsAtWork' /\ ReportIsWhole'
    BY <1>1, <1>2, <2>2, <2>3, ShardGoesOn
  <2>5. CodingShape'
    BY <1>1, <2>2, <2>4 DEF CodingInv, CodingShape
  <2>6. WorktreesTraced'
    <3>1. job.isolate => \A t \in Shards : stage'[t] \in Placed <=> stage[t] \in Placed
      BY <1>2, <2>3, <2>4
    <3>2. QED
      BY <1>1, <1>5, <2>2, <3>1 DEF CodingInv, CodingShape, WorktreesTraced, Delegation
  <2>7. ResultsKnown'
    BY <1>2, <2>2, <2>3, <2>4 DEF CodingInv, ResultsKnown
  <2>8. RowsOfProviders'
    BY <2>2 DEF RowsOfProviders
  <2>9. QED
    BY <2>4, <2>5, <2>6, <2>7, <2>8 DEF CodingInv
<1>6. QED
  BY <1>3, <1>4, <1>5

LEMMA FinalizedKeeps ==
  ASSUME CodingInv, NEW s \in Shards, Finalized(s)
  PROVE  CodingInv'
<1>1. /\ stage[s] = "removing" /\ stage' = [stage EXCEPT ![s] = "done"]
      /\ UNCHANGED <<job, jobPc, branch, result, rows, review, aborted, unrecorded>>
      /\ \A t \in worktrees' : t \in worktrees
      /\ \A t \in worktrees : t = s \/ t \in worktrees'
      /\ misfired \subseteq misfired' /\ (s \notin worktrees' \/ s \in misfired')
  BY DEF Finalized, SettledLocals, Removed, NotRemoved
<1>2. /\ "done" \in Stages /\ stage[s] \in Active /\ stage[s] \in Rowed /\ "done" \in Rowed
      /\ "done" \notin Placed
  BY <1>1 DEF Stages, Active, Placed, Rowed
<1>3. /\ stage' \in [Shards -> Stages] /\ stage'[s] = "done"
      /\ \A t \in Shards : t # s => stage'[t] = stage[t]
      /\ ShardsAtWork' /\ ReportIsWhole'
  BY <1>1, <1>2, ShardGoesOn
<1>4. CodingShape'
  BY <1>1, <1>3 DEF CodingInv, CodingShape
<1>5. WorktreesTraced'
  <2>1. job.isolate => \A t \in Shards : stage'[t] \in Placed => t \in worktrees'
    BY <1>1, <1>2, <1>3 DEF CodingInv, WorktreesTraced
  <2>2. \A t \in worktrees' \ misfired' :
          /\ job.isolate
          /\ stage'[t] \in Placed \/ (Delegation /\ jobPc = "rejected" /\ t \in unrecorded)
    BY <1>1, <1>3 DEF CodingInv, WorktreesTraced, CodingShape
  <2>3. QED
    BY <1>1, <2>1, <2>2 DEF WorktreesTraced, Delegation
<1>6. ResultsKnown'
  BY <1>1, <1>3 DEF CodingInv, ResultsKnown
<1>7. RowsOfProviders'
  <2>1. \A t \in Shards : stage'[t] \in Rowed <=> stage[t] \in Rowed
    BY <1>2, <1>3
  <2>2. QED
    BY <1>1, <2>1 DEF CodingInv, RowsOfProviders, Delegation
<1>8. QED
  BY <1>3, <1>4, <1>5, <1>6, <1>7 DEF CodingInv

\* The steps of the call itself, in none of which a shard at work moves.
LEMMA CallKeeps ==
  ASSUME CodingInv, Call
  PROVE  CodingInv'
<1>1. /\ jobPc = "called" /\ jobPc' = (IF MayCall THEN "looping" ELSE "rejected")
      /\ UNCHANGED <<worktrees, misfired, job, stage, branch, result, rows, review, aborted, unrecorded>>
  BY DEF Call, SettledLocals, worktreeVars
<1>2. rows = <<>> /\ \A s \in Shards : stage[s] = "waiting"
  BY <1>1 DEF CodingInv, ShardsAtWork
<1>3. jobPc' \in {"looping", "rejected"} /\ (jobPc' = "looping" => Permitted)
  BY <1>1 DEF MayCall, Permitted
<1>4. CodingShape' /\ ReportIsWhole'
  BY <1>1, <1>3 DEF CodingInv, CodingShape, ReportIsWhole
<1>5. ShardsAtWork'
  BY <1>1, <1>2, <1>3 DEF CodingInv, ShardsAtWork, Permitted, Delegation
<1>6. WorktreesTraced'
  BY <1>1 DEF CodingInv, WorktreesTraced, Delegation
<1>7. ResultsKnown'
  BY <1>1 DEF CodingInv, ResultsKnown
<1>8. RowsOfProviders'
  BY <1>1, <1>3 DEF CodingInv, RowsOfProviders, Delegation
<1>9. QED
  BY <1>4, <1>5, <1>6, <1>7, <1>8 DEF CodingInv

LEMMA StopKeeps ==
  ASSUME CodingInv, StopAtSignal \/ NoDirectory
  PROVE  CodingInv'
<1>1. /\ jobPc = "looping" /\ ~Busy /\ jobPc' \in {"returned", "rejected"}
      /\ jobPc' = "returned" => ~Delegation
      /\ UNCHANGED <<worktrees, misfired, job, stage, branch, result, rows, review, aborted, unrecorded>>
  BY DEF StopAtSignal, NoDirectory, SettledLocals, worktreeVars
<1>2. CodingShape'
  BY <1>1 DEF CodingInv, CodingShape
<1>3. ShardsAtWork'
  <2>1. jobPc' = "returned" => \A s \in Shards : stage[s] \notin Active \cup {"ready"}
    BY <1>1 DEF CodingInv, ShardsAtWork, Busy
  <2>2. QED
    BY <1>1, <2>1 DEF CodingInv, ShardsAtWork, Permitted, Delegation
<1>4. WorktreesTraced'
  BY <1>1 DEF CodingInv, WorktreesTraced, Delegation
<1>5. ResultsKnown'
  BY <1>1 DEF CodingInv, ResultsKnown
<1>6. RowsOfProviders'
  BY <1>1 DEF CodingInv, RowsOfProviders, Delegation
<1>7. ReportIsWhole'
  <2>1. SUFFICES ASSUME jobPc' = "returned"
                 PROVE  ReportIsWhole'
    BY DEF ReportIsWhole
  <2>2. \A s \in Shards : stage[s] \in Rowed <=> stage[s] # "waiting"
    <3>1. \A s \in Shards : stage[s] \in Stages /\ stage[s] \notin Active /\ stage[s] # "ready"
      BY <1>1, <2>1 DEF CodingInv, CodingShape, ShardsAtWork, Busy
    <3>2. QED
      BY <3>1 DEF Stages, Active, Rowed
  <2>3. /\ \A i, j \in DOMAIN rows : rows[i] = rows[j] => i = j
        /\ {rows[i] : i \in DOMAIN rows} = {s \in Shards : stage[s] # "waiting"}
    BY <1>1, <2>1, <2>2 DEF CodingInv, RowsOfProviders
  <2>4. ~Busy' /\ ~Delegation'
    BY <1>1, <2>1 DEF Busy, Delegation
  <2>5. QED
    BY <1>1, <2>3, <2>4 DEF ReportIsWhole
<1>8. QED
  BY <1>2, <1>3, <1>4, <1>5, <1>6, <1>7 DEF CodingInv

\* A shard is taken up, to stage x, while none is at work.
LEMMA TakenUp ==
  ASSUME CodingInv, jobPc = "looping", ~Busy, NEW s \in Shards, stage[s] \in {"waiting", "ready"},
         NEW x \in {"adding", "ready", "launched"}, x = "ready" => Delegation, x = "adding" => job.isolate,
         stage' = [stage EXCEPT ![s] = x],
         stage[s] = "ready" \/ ~job.isolate \/ x = "adding", stage[s] = "ready" => x # "adding",
         UNCHANGED <<worktrees, misfired, job, jobPc, result, rows, unrecorded>>
  PROVE  CodingInv'
<1>1. /\ stage[s] \notin Active /\ stage[s] \notin Rowed /\ x \in Stages /\ x \notin Rowed
      /\ (stage[s] \in Placed <=> stage[s] = "ready") /\ (x \in Placed <=> x # "adding")
  BY DEF Active, Rowed, Stages, Placed
<1>2. /\ stage' \in [Shards -> Stages] /\ stage'[s] = x
      /\ \A t \in Shards : t # s => stage'[t] = stage[t]
  BY <1>1 DEF CodingInv, CodingShape
<1>3. CodingShape' /\ ReportIsWhole'
  BY <1>2 DEF CodingInv, CodingShape, ReportIsWhole
<1>4. ShardsAtWork'
  <2>1. \A t \in Shards : stage'[t] \in Active => t = s
    BY <1>2 DEF Busy
  <2>2. \A t \in Shards : stage'[t] = "adding" => job.isolate
    BY <1>2 DEF CodingInv, ShardsAtWork
  <2>3. ~Delegation => \A t \in Shards : stage'[t] # "ready"
    BY <1>2 DEF CodingInv, ShardsAtWork
  <2>4. Permitted /\ Permitted' /\ Delegation' = Delegation
    BY DEF CodingInv, ShardsAtWork, Permitted, Delegation
  <2>5. QED
    BY <2>1, <2>2, <2>3, <2>4 DEF ShardsAtWork
<1>5. WorktreesTraced'
  <2>1. job.isolate => \A t \in Shards : stage'[t] \in Placed => t \in worktrees
    BY <1>1, <1>2 DEF CodingInv, WorktreesTraced
  <2>2. \A t \in worktrees \ misfired : /\ job.isolate
                                        /\ stage'[t] \in Placed
    <3>1. \A t \in worktrees \ misfired : t \in Shards /\ job.isolate /\ stage[t] \in Placed
      BY DEF CodingInv, CodingShape, WorktreesTraced
    <3>2. s \in worktrees \ misfired => stage[s] = "ready"
      BY <1>1, <3>1
    <3>3. QED
      BY <1>1, <1>2, <3>1, <3>2
  <2>3. QED
    BY <2>1, <2>2 DEF WorktreesTraced, Delegation
<1>6. ResultsKnown'
  BY <1>2 DEF CodingInv, ResultsKnown
<1>7. RowsOfProviders'
  <2>1. \A t \in Shards : stage'[t] \in Rowed <=> stage[t] \in Rowed
    BY <1>1, <1>2
  <2>2. QED
    BY <2>1 DEF CodingInv, RowsOfProviders, Delegation
<1>8. QED
  BY <1>3, <1>4, <1>5, <1>6, <1>7 DEF CodingInv

LEMMA PrepareKeeps ==
  ASSUME CodingInv, Prepare
  PROVE  CodingInv'
<1>1. PICK s : s = nextShard
  OBVIOUS
<1>2. /\ jobPc = "looping" /\ s \in Shards /\ stage[s] = "waiting" /\ ~Busy
      /\ UNCHANGED <<job, jobPc, result, rows, review, aborted, unrecorded>>
  BY <1>1 DEF Prepare
<1>3. CASE job.isolate
  <2>1. stage' = [stage EXCEPT ![s] = "adding"] /\ UNCHANGED <<worktrees, misfired>>
    BY <1>1, <1>3 DEF Prepare, Reserve
  <2>2. QED
    BY <1>2, <1>3, <2>1, TakenUp
<1>4. CASE ~job.isolate
  <2>1. PICK x : x = IF Delegation THEN "ready" ELSE "launched"
    OBVIOUS
  <2>2. stage' = [stage EXCEPT ![s] = x] /\ UNCHANGED <<worktrees, misfired>>
    BY <1>1, <1>4, <2>1 DEF Prepare, worktreeVars
  <2>3. x \in {"adding", "ready", "launched"} /\ x # "adding" /\ (x = "ready" => Delegation)
    BY <2>1
  <2>4. QED
    BY <1>2, <1>4, <2>2, <2>3, TakenUp
<1>5. QED
  BY <1>3, <1>4

LEMMA LaunchKeeps ==
  ASSUME CodingInv, Launch
  PROVE  CodingInv'
<1>1. PICK ready : ready = {s \in Shards : stage[s] = "ready"}
  OBVIOUS
<1>2. /\ Delegation /\ jobPc = "looping" /\ ~Busy /\ ready # {}
      /\ UNCHANGED <<worktrees, misfired, job, branch, result, rows, review, aborted, unrecorded>>
  BY <1>1 DEF Launch, SettledLocals, worktreeVars
<1>3. CASE job.parallel
  <2>1. stage' = [s \in Shards |-> IF s \in ready THEN "launched" ELSE stage[s]] /\ jobPc' = jobPc
    BY <1>1, <1>3 DEF Launch
  <2>2. stage \in [Shards -> Stages] /\ "launched" \in Stages
    BY DEF CodingInv, CodingShape, Stages
  <2>3. /\ stage' \in [Shards -> Stages]
        /\ \A s \in Shards : stage'[s] = IF stage[s] = "ready" THEN "launched" ELSE stage[s]
    BY <1>1, <2>1, <2>2
  <2>4. CodingShape' /\ ReportIsWhole'
    BY <1>2, <2>1, <2>3 DEF CodingInv, CodingShape, ReportIsWhole
  <2>5. \A s \in Shards : (stage'[s] \in Placed <=> stage[s] \in Placed) /\ (stage'[s] \in Rowed <=> stage[s] \in Rowed)
    BY <2>3 DEF Placed, Rowed
  <2>6. ShardsAtWork'
    <3>1. \A s \in Shards : stage'[s] # "adding"
      BY <1>2, <2>3 DEF Busy, Active
    <3>2. Permitted /\ Permitted' /\ Delegation' /\ job.parallel'
      BY <1>2, <1>3 DEF CodingInv, ShardsAtWork, Permitted, Delegation
    <3>3. QED
      BY <1>2, <2>1, <3>1, <3>2 DEF ShardsAtWork
  <2>7. WorktreesTraced'
    BY <1>2, <2>1, <2>5 DEF CodingInv, CodingShape, WorktreesTraced, Delegation
  <2>8. ResultsKnown'
    BY <1>2, <2>3 DEF CodingInv, ResultsKnown
  <2>9. RowsOfProviders'
    BY <1>2 DEF RowsOfProviders, Delegation
  <2>10. QED
    BY <2>4, <2>6, <2>7, <2>8, <2>9 DEF CodingInv
<1>4. CASE ~job.parallel /\ ~aborted
  <2>1. PICK s : s = InOrder(ready)[1]
    OBVIOUS
  <2>2. stage' = [stage EXCEPT ![s] = "launched"] /\ jobPc' = jobPc
    BY <1>1, <1>4, <2>1 DEF Launch
  <2>3. s \in ready
    <3>1. ready \subseteq Nat /\ IsFiniteSet(ready)
      <4>1. ready \in SUBSET Shards
        BY <1>1
      <4>2. QED
        BY <4>1, ShardsFinite, FS_Subset
    <3>2. QED
      BY <1>2, <2>1, <3>1, ListedOnce
  <2>4. s \in Shards /\ stage[s] = "ready"
    BY <1>1, <2>3
  <2>5. QED
    BY <1>2, <2>2, <2>4, TakenUp
<1>5. CASE ~job.parallel /\ aborted
  <2>1. jobPc' = "rejected" /\ stage' = stage
    BY <1>1, <1>5 DEF Launch
  <2>2. CodingShape' /\ ReportIsWhole'
    BY <1>2, <2>1 DEF CodingInv, CodingShape, ReportIsWhole
  <2>3. ShardsAtWork'
    BY <1>2, <2>1 DEF CodingInv, ShardsAtWork, Permitted, Delegation
  <2>4. WorktreesTraced'
    BY <1>2, <2>1 DEF CodingInv, WorktreesTraced, Delegation
  <2>5. ResultsKnown' /\ RowsOfProviders'
    BY <1>2, <2>1 DEF CodingInv, ResultsKnown, RowsOfProviders
  <2>6. QED
    BY <2>2, <2>3, <2>4, <2>5 DEF CodingInv
<1>6. QED
  BY <1>3, <1>4, <1>5

LEMMA ReportKeeps ==
  ASSUME CodingInv, Report
  PROVE  CodingInv'
<1>1. /\ jobPc = "looping" /\ AllSettled /\ jobPc' = "returned"
      /\ UNCHANGED <<worktrees, misfired, job, stage, result, aborted, unrecorded>>
  BY DEF Report, worktreeVars
<1>2. \A s \in Shards : stage[s] \in {"unusable", "done"}
  BY <1>1 DEF AllSettled
<1>3. \A s \in Shards : stage[s] \notin Active /\ stage[s] \in Rowed /\ stage[s] # "waiting"
  BY <1>2 DEF Active, Rowed
<1>4. /\ rows' \in Seq(Shards)
      /\ \A i, j \in DOMAIN rows' : rows'[i] = rows'[j] => i = j
      /\ {rows'[i] : i \in DOMAIN rows'} = Shards
  <2>1. CASE Delegation
    <3>1. PICK U, V : /\ U = {s \in Shards : stage[s] = "unusable"}
                      /\ V = {s \in Shards : stage[s] # "unusable"}
      OBVIOUS
    <3>2. rows' = InOrder(U) \o InOrder(V)
      BY <2>1, <3>1 DEF Report
    <3>3. /\ U \subseteq Nat /\ IsFiniteSet(U) /\ V \subseteq Nat /\ IsFiniteSet(V)
          /\ U \cup V = Shards /\ U \cap V = {}
      <4>1. U \in SUBSET Shards /\ V \in SUBSET Shards /\ U \cup V = Shards /\ U \cap V = {}
        BY <3>1
      <4>2. QED
        BY <4>1, ShardsFinite, FS_Subset
    <3>4. PICK one, two : one = InOrder(U) /\ two = InOrder(V)
      OBVIOUS
    <3>5. /\ one \in Seq(U) /\ \A i, j \in DOMAIN one : one[i] = one[j] => i = j
          /\ \A x \in U : \E i \in DOMAIN one : one[i] = x
      BY <3>3, <3>4, ListedOnce
    <3>6. /\ two \in Seq(V) /\ \A i, j \in DOMAIN two : two[i] = two[j] => i = j
          /\ \A x \in V : \E i \in DOMAIN two : two[i] = x
      BY <3>3, <3>4, ListedOnce
    <3>7. one \in Seq(Shards) /\ two \in Seq(Shards)
      BY <3>3, <3>5, <3>6
    <3>8. (\A i \in DOMAIN one : one[i] \in U) /\ (\A i \in DOMAIN two : two[i] \in V)
      BY <3>5, <3>6
    <3>9. \A i \in DOMAIN one, j \in DOMAIN two : one[i] # two[j]
      BY <3>3, <3>8
    <3>10. /\ one \o two \in Seq(Shards)
           /\ \A i, j \in DOMAIN (one \o two) : (one \o two)[i] = (one \o two)[j] => i = j
           /\ \A x : (\E i \in DOMAIN (one \o two) : (one \o two)[i] = x)
                      <=> (\E i \in DOMAIN one : one[i] = x) \/ (\E i \in DOMAIN two : two[i] = x)
      <4>1. /\ \A i, j \in DOMAIN one : one[i] = one[j] => i = j
            /\ \A i, j \in DOMAIN two : two[i] = two[j] => i = j
        BY <3>5, <3>6
      <4>2. QED
        BY <3>7, <3>9, <4>1, RowsJoined, Zenon
    <3>11. rows' = one \o two
      BY <3>2, <3>4
    <3>12. \A x : (\E i \in DOMAIN rows' : rows'[i] = x) <=> x \in Shards
      <4>1. \A x : x \in Shards <=> x \in U \/ x \in V
        BY <3>3
      <4>2. \A x : (\E i \in DOMAIN one : one[i] = x) <=> x \in U
        BY <3>5, <3>8
      <4>3. \A x : (\E i \in DOMAIN two : two[i] = x) <=> x \in V
        BY <3>6, <3>8
      <4>4. QED
        BY <3>10, <3>11, <4>1, <4>2, <4>3
    <3>13. {rows'[i] : i \in DOMAIN rows'} = Shards
      BY <3>12
    <3>14. QED
      BY <3>10, <3>11, <3>13
  <2>2. CASE ~Delegation
    <3>1. rows' = rows
      BY <2>2 DEF Report
    <3>2. {s \in Shards : stage[s] \in Rowed} = Shards
      BY <1>3
    <3>3. QED
      BY <1>1, <2>2, <3>1, <3>2 DEF CodingInv, CodingShape, RowsOfProviders
  <2>3. QED
    BY <2>1, <2>2
<1>5. CodingShape'
  BY <1>1, <1>4 DEF CodingInv, CodingShape
<1>6. ShardsAtWork'
  <2>1. \A s \in Shards : stage[s] \notin Active \cup {"ready"}
    BY <1>2, <1>3
  <2>2. QED
    BY <1>1, <2>1 DEF CodingInv, ShardsAtWork, Permitted, Delegation
<1>7. WorktreesTraced'
  BY <1>1 DEF CodingInv, WorktreesTraced, Delegation
<1>8. ResultsKnown'
  BY <1>1 DEF CodingInv, ResultsKnown
<1>9. RowsOfProviders'
  <2>1. {s \in Shards : stage'[s] \in Rowed} = Shards
    BY <1>1, <1>3
  <2>2. QED
    BY <1>4, <2>1 DEF RowsOfProviders
<1>10. ASSUME Delegation, ~review'
       PROVE  /\ \A s \in Shards :
                   result[s].status \in {"ok", "partial", "timeout"} /\ ~result[s].missing
              /\ \A s, t \in Shards :
                   result[s].edited /\ result[t].edited => ProviderOf[s] = ProviderOf[t]
  <2>1. ~SuggestHumanInbox
    BY <1>10 DEF Report
  <2>2. \A s \in Shards : result[s].status \in {"ok", "partial", "timeout", "fail", "threw"}
    BY <1>2 DEF CodingInv, ResultsKnown, Result, Without
  <2>3. QED
    BY <2>1, <2>2 DEF SuggestHumanInbox, Conflicts
<1>11. ReportIsWhole'
  <2>1. ~Busy' /\ Delegation' = Delegation /\ {s \in Shards : stage'[s] # "waiting"} = Shards
    BY <1>1, <1>3 DEF Busy, Delegation
  <2>2. {rows'[i] : i \in DOMAIN rows'} =
          IF Delegation' THEN Shards ELSE {s \in Shards : stage'[s] # "waiting"}
    BY <1>4, <2>1
  <2>3. Delegation' /\ ~review' =>
          /\ \A s \in Shards :
               result'[s].status \in {"ok", "partial", "timeout"} /\ ~result'[s].missing
          /\ \A s, t \in Shards :
               result'[s].edited /\ result'[t].edited => ProviderOf[s] = ProviderOf[t]
    BY <1>1, <1>10, <2>1
  <2>4. QED
    BY <1>4, <2>1, <2>2, <2>3 DEF ReportIsWhole
<1>12. QED
  BY <1>5, <1>6, <1>7, <1>8, <1>9, <1>11 DEF CodingInv

LEMMA CodingStep == CodingInv /\ [CodingNext]_codingVars => CodingInv'
<1> SUFFICES ASSUME CodingInv, [CodingNext]_codingVars
             PROVE  CodingInv'
  OBVIOUS
<1>1. CASE AbortJob \/ UNCHANGED codingVars
  <2>1. UNCHANGED <<worktrees, misfired, job, jobPc, stage, result, rows, review, unrecorded>>
    BY <1>1 DEF AbortJob, codingVars, worktreeVars
  <2>2. CodingShape' /\ ShardsAtWork' /\ WorktreesTraced'
    BY <2>1 DEF CodingInv, CodingShape, ShardsAtWork, WorktreesTraced, Permitted, Delegation
  <2>3. ResultsKnown' /\ RowsOfProviders'
    BY <2>1 DEF CodingInv, ResultsKnown, RowsOfProviders, Delegation
  <2>4. ReportIsWhole'
    BY <2>1 DEF CodingInv, ReportIsWhole, Delegation, Busy
  <2>5. QED
    BY <2>2, <2>3, <2>4 DEF CodingInv
<1>2. CASE Call \/ StopAtSignal \/ Prepare \/ NoDirectory \/ Launch \/ Report
  BY <1>2, CallKeeps, StopKeeps, PrepareKeeps, LaunchKeeps, ReportKeeps
<1>3. CASE \E s \in Shards : \/ WorktreeAdded(s) \/ WorktreeRefused(s) \/ SetupRecorded(s)
                             \/ RunTask(s) \/ TaskSettled(s) \/ Recorded(s) \/ NotRecorded(s)
                             \/ Finalized(s)
  BY <1>3, WorktreeAddedKeeps, WorktreeRefusedKeeps, SetupRecordedKeeps, RunTaskKeeps,
     TaskSettledKeeps, RecordedKeeps, NotRecordedKeeps, FinalizedKeeps
<1>4. QED
  BY <1>1, <1>2, <1>3 DEF CodingNext, JobStep

\* The invariant holds of every job, whatever git, agents, artifacts and the signal do.
THEOREM JobsAreSound == CodingSpec => []CodingInv
<1>1. CodingInit => CodingInv
  <2> SUFFICES ASSUME CodingInit
               PROVE  CodingInv
    OBVIOUS
  <2>1. CodingShape
    BY DEF CodingInit, WorktreesInit, CodingShape, Stages
  <2>2. \A s \in Shards : stage[s] = "waiting"
    BY DEF CodingInit
  <2>3. rows = <<>> /\ worktrees = {} /\ jobPc = "called"
    BY DEF CodingInit, WorktreesInit
  <2>4. ShardsAtWork /\ WorktreesTraced /\ ResultsKnown
    BY <2>2, <2>3 DEF ShardsAtWork, WorktreesTraced, ResultsKnown, Active, Placed
  <2>5. RowsOfProviders
    BY <2>2, <2>3 DEF RowsOfProviders, Rowed
  <2>6. ReportIsWhole
    BY <2>3 DEF ReportIsWhole
  <2>7. QED
    BY <2>1, <2>4, <2>5, <2>6 DEF CodingInv
<1>2. QED
  BY <1>1, CodingStep, PTL DEF CodingSpec

\* Two agents that may write never run at once in one directory, for any number of
\* shards, and a worktree that is left when nothing runs any more is one git failed on or
\* one of a delegation that rejected: the stage of a shard tells where it works.
THEOREM WorktreesStaySound == CodingSpec => []WorktreesAreSound
<1>1. CodingInv => WorktreesAreSound
  <2> SUFFICES ASSUME CodingInv
               PROVE  WorktreesAreSound
    OBVIOUS
  <2>1. ASSUME NEW s \in Shards, NEW t \in Shards, stage[s] = "running", stage[t] = "running",
               s \notin job.dryRun, t \notin job.dryRun, s # t
        PROVE  s \in worktrees /\ t \in worktrees
    <3>1. "running" \in Placed /\ "running" \in Active /\ "running" # "waiting"
      BY DEF Placed, Active
    <3>2. Permitted
      BY <2>1, <3>1 DEF CodingInv, ShardsAtWork
    <3>3. Delegation /\ job.parallel
      BY <2>1, <3>1 DEF CodingInv, ShardsAtWork
    <3>4. job.isolate
      BY <2>1, <3>2, <3>3 DEF Permitted
    <3>5. QED
      BY <2>1, <3>1, <3>4 DEF CodingInv, WorktreesTraced
  <2>2. WritersIsolated
    BY <2>1 DEF WritersIsolated
  <2>3. ASSUME Over, ~Busy, NEW s \in worktrees \ misfired
        PROVE  Delegation /\ jobPc = "rejected" /\ (s \in unrecorded \/ stage[s] = "ready")
    <3>1. s \in Shards /\ stage[s] \notin Active
      BY <2>3 DEF CodingInv, CodingShape, Busy
    <3>2. stage[s] \in Placed => stage[s] = "ready"
      BY <3>1 DEF Placed, Active
    <3>3. stage[s] = "ready" => Delegation
      BY <3>1 DEF CodingInv, ShardsAtWork
    <3>4. stage[s] = "ready" => jobPc # "returned"
      BY <3>1 DEF CodingInv, ShardsAtWork
    <3>5. QED
      BY <2>3, <3>2, <3>3, <3>4 DEF CodingInv, WorktreesTraced, Over
  <2>4. WorktreesAccountedFor
    BY <2>3 DEF WorktreesAccountedFor
  <2>5. QED
    BY <2>2, <2>4 DEF WorktreesAreSound
<1>2. QED
  BY <1>1, JobsAreSound, PTL

\* A report has one row for each of its shards, is made when none is at work, and leaves
\* out a human only when no shard failed, nothing is missing and the edits of a file are by
\* one provider.
THEOREM ReportsAreWhole == CodingSpec => []ReportIsWhole
<1>1. CodingInv => ReportIsWhole
  BY DEF CodingInv
<1>2. QED
  BY <1>1, JobsAreSound, PTL

\* The names in use are of shards that were taken up, and the one that is being set up is
\* the one that the loop is at.
NamesInUse == usedBranches \subseteq {branch[s] : s \in {t \in Shards : stage[t] # "waiting"}}
OneInSetup == \A s \in Shards : stage[s] \in {"adding", "refused"} => s = nextShard
NamedOnce == \A s \in Shards : stage[s] = "adding" => branch[s] \in Names

CodingBounds ==
  /\ WorktreesTypeOK
  /\ nextShard \in 1 .. Cardinality(Shards) + 1
  /\ branch \in [Shards -> Names \cup {NotYet}]
  /\ review \in BOOLEAN /\ aborted \in BOOLEAN
  /\ unrecorded \subseteq Shards
  /\ NamesInUse /\ OneInSetup /\ NamedOnce

\* A name that uniqueBranch makes is a name, and not one in use.
THEOREM NameIsFresh ==
  ASSUME NEW s \in Shards, IsFiniteSet(usedBranches),
         Cardinality(usedBranches) <= Cardinality(Shards)
  PROVE  uniqueBranch(s) \in Names /\ uniqueBranch(s) \notin usedBranches
<1>1. PICK c, m, base : c = Cardinality(usedBranches) /\ m = Cardinality(Shards) /\ base = BaseName[s]
  OBVIOUS
<1>2. c \in Nat /\ m \in Nat /\ c <= m
  BY <1>1, FS_CardinalityType, ShardsFinite
<1> DEFINE name(n) == [base |-> base, n |-> n]
           free == {n \in 0 .. c : name(n) \notin usedBranches}
<1>3. free # {}
  <2>1. SUFFICES ASSUME \A n \in 0 .. c : name(n) \in usedBranches
                 PROVE  FALSE
    OBVIOUS
  <2>2. PICK f : f = [n \in 0 .. c |-> name(n)]
    OBVIOUS
  <2>3. f \in [0 .. c -> usedBranches] /\ \A x, y \in 0 .. c : f[x] = f[y] => x = y
    <3>1. \A x, y : name(x) = name(y) => x = y
      <4>1. \A x : name(x).n = x
        OBVIOUS
      <4>2. QED
        BY <4>1
    <3>2. QED
      BY <2>1, <2>2, <3>1
  <2>4. IsFiniteSet(0 .. c) /\ Cardinality(0 .. c) = c + 1 /\ c < c + 1
    BY <1>2, FS_Interval
  <2>5. \E x, y \in 0 .. c : x # y /\ f[x] = f[y]
    <3>1. Cardinality(usedBranches) < Cardinality(0 .. c) /\ f \in [0 .. c -> usedBranches]
      BY <1>1, <2>3, <2>4
    <3>2. QED
      BY <2>4, <3>1, FS_PigeonHole, Zenon
  <2>6. QED
    BY <2>3, <2>5
<1>4. free \subseteq Nat
  BY <1>2
<1>5. PICK k : k = Min(free)
  OBVIOUS
<1>6. k \in free
  <2> HIDE DEF free
  <2>1. QED
    BY <1>3, <1>4, <1>5, MinIsLeast
<1>7. uniqueBranch(s) = name(k)
  BY <1>1, <1>5 DEF uniqueBranch
<1>8. k \in 0 .. m /\ base \in {BaseName[t] : t \in Shards}
  BY <1>1, <1>2, <1>6
<1>9. QED
  BY <1>1, <1>6, <1>7, <1>8 DEF Names

\* There are no more names in use than shards.
LEMMA NamesAreFew ==
  ASSUME NamesInUse
  PROVE  IsFiniteSet(usedBranches) /\ Cardinality(usedBranches) <= Cardinality(Shards)
<1>1. PICK all, names : all = [s \in Shards |-> branch[s]] /\ names = {branch[s] : s \in Shards}
  OBVIOUS
<1>2. usedBranches \subseteq names
  BY <1>1 DEF NamesInUse
<1>3. all \in Surjection(Shards, names)
  BY <1>1 DEF Surjection
<1>4. IsFiniteSet(names) /\ Cardinality(names) <= Cardinality(Shards)
  BY <1>3, ShardsFinite, FS_Surjection
<1>5. IsFiniteSet(usedBranches) /\ Cardinality(usedBranches) <= Cardinality(names)
  BY <1>2, <1>4, FS_Subset
<1>6. QED
  <2>1. /\ Cardinality(names) \in Nat /\ Cardinality(usedBranches) \in Nat
        /\ Cardinality(Shards) \in Nat
    BY <1>4, <1>5, ShardsFinite, FS_CardinalityType
  <2>2. QED
    BY <1>4, <1>5, <2>1

\* Shards and names apart, a step changes a few things.
LEMMA StageOnly ==
  ASSUME CodingShape, CodingBounds, UNCHANGED <<worktreeVars, branch>>,
         stage' \in [Shards -> Stages],
         \A s \in Shards : stage'[s] = stage[s] \/ stage'[s] \notin {"waiting", "adding", "refused"},
         \/ nextShard' = nextShard
         \/ /\ nextShard \in Shards /\ nextShard' = nextShard + 1
            /\ \A s \in Shards : stage'[s] \notin {"adding", "refused"},
         review' \in BOOLEAN, aborted' \in BOOLEAN, unrecorded' \subseteq Shards
  PROVE  CodingBounds'
<1>1. /\ WorktreesTypeOK /\ nextShard \in 1 .. Cardinality(Shards) + 1
      /\ branch \in [Shards -> Names \cup {NotYet}] /\ NamesInUse /\ OneInSetup /\ NamedOnce
  BY DEF CodingBounds
<1>2. WorktreesTypeOK'
  BY <1>1 DEF worktreeVars, WorktreesTypeOK
<1>3. nextShard' \in 1 .. Cardinality(Shards) + 1
  <2>1. Cardinality(Shards) \in Nat
    BY ShardsFinite, FS_CardinalityType
  <2>2. nextShard \in Shards => nextShard \in 1 .. Cardinality(Shards)
    BY ShardsAssumption
  <2>3. QED
    BY <1>1, <2>1, <2>2
<1>4. NamesInUse'
  BY <1>1 DEF NamesInUse, worktreeVars
<1>5. OneInSetup' /\ NamedOnce'
  BY <1>1 DEF OneInSetup, NamedOnce
<1>6. QED
  BY <1>1, <1>2, <1>3, <1>4, <1>5 DEF CodingBounds

LEMMA PrepareBounded ==
  ASSUME CodingShape, CodingBounds, Prepare
  PROVE  CodingBounds'
<1>0. /\ stage \in [Shards -> Stages] /\ job \in Job /\ nextShard \in Shards
      /\ stage[nextShard] = "waiting" /\ ~Busy
      /\ UNCHANGED <<job, review, aborted, unrecorded>>
      /\ review \in BOOLEAN /\ aborted \in BOOLEAN /\ unrecorded \subseteq Shards
  BY JobsAssumption DEF CodingShape, CodingBounds, Prepare
<1>1. \A s \in Shards : stage[s] \notin {"adding", "refused"}
  BY <1>0 DEF Busy, Active
<1>2. CASE job.isolate
  <2>1. PICK n, name : n = nextShard /\ name = uniqueBranch(n)
    OBVIOUS
  <2>2. /\ usedBranches' = usedBranches \cup {name}
        /\ UNCHANGED <<tasks, worktrees, gitBranches, misfired, nextShard>>
        /\ stage' = [stage EXCEPT ![n] = "adding"] /\ branch' = [branch EXCEPT ![n] = name]
    BY <1>2, <2>1 DEF Prepare, Reserve
  <2>3. name \in Names
    BY <1>0, <2>1, NamesAreFew, NameIsFresh DEF CodingBounds
  <2>4. WorktreesTypeOK'
    BY <2>2, <2>3 DEF CodingBounds, WorktreesTypeOK
  <2>5. branch' \in [Shards -> Names \cup {NotYet}]
    BY <2>2, <2>3 DEF CodingBounds
  <2>6. NamesInUse'
    <3>1. ASSUME NEW x \in usedBranches
          PROVE  \E s \in Shards : stage'[s] # "waiting" /\ branch'[s] = x
      <4>1. PICK s \in Shards : stage[s] # "waiting" /\ branch[s] = x
        BY <3>1 DEF CodingBounds, NamesInUse
      <4>2. s # n
        BY <1>0, <2>1, <4>1
      <4>3. stage'[s] = stage[s] /\ branch'[s] = branch[s]
        BY <1>0, <2>2, <4>2 DEF CodingBounds
      <4>4. QED
        BY <4>1, <4>3
    <3>2. stage'[n] = "adding" /\ branch'[n] = name /\ n \in Shards
      BY <1>0, <2>1, <2>2 DEF CodingBounds
    <3>3. QED
      BY <2>2, <3>1, <3>2 DEF NamesInUse
  <2>7. OneInSetup' /\ NamedOnce'
    <3>1. \A s \in Shards : stage'[s] \in {"adding", "refused"} => s = n /\ branch'[s] = name
      BY <1>0, <1>1, <2>2 DEF CodingBounds
    <3>2. QED
      BY <2>1, <2>2, <2>3, <3>1 DEF OneInSetup, NamedOnce
  <2>8. QED
    BY <1>0, <2>2, <2>4, <2>5, <2>6, <2>7 DEF CodingBounds
<1>3. CASE ~job.isolate
  <2>1. PICK to \in {"ready", "launched"} : stage' = [stage EXCEPT ![nextShard] = to]
    BY <1>3 DEF Prepare
  <2>2. nextShard' = nextShard + 1 /\ UNCHANGED <<worktreeVars, branch>>
    BY <1>3 DEF Prepare
  <2>3. stage' \in [Shards -> Stages]
    BY <1>0, <2>1 DEF Stages
  <2>4. \A s \in Shards : /\ stage'[s] = stage[s] \/ stage'[s] \notin {"waiting", "adding", "refused"}
                          /\ stage'[s] \notin {"adding", "refused"}
    BY <1>0, <1>1, <2>1
  <2>5. QED
    BY <1>0, <2>2, <2>3, <2>4, StageOnly
<1>4. QED
  BY <1>2, <1>3

\* git's answer: the shard that is set up is the one the loop is at
LEMMA AddedBounded ==
  ASSUME CodingShape, CodingBounds, NEW s \in Shards, WorktreeAdded(s)
  PROVE  CodingBounds'
<1>1. PICK name : name = branch[s]
  OBVIOUS
<1>2. /\ stage \in [Shards -> Stages] /\ stage[s] = "adding" /\ s = nextShard /\ name \in Names
      /\ gitBranches' = gitBranches \cup {name} /\ worktrees' = worktrees \cup {s}
      /\ tasks' = [t \in DOMAIN tasks \cup {s} |-> IF t = s THEN name ELSE tasks[t]]
      /\ UNCHANGED <<usedBranches, misfired, branch, review, aborted, unrecorded>>
      /\ nextShard' = nextShard + 1
  BY <1>1 DEF CodingShape, CodingBounds, OneInSetup, NamedOnce, WorktreeAdded, Added
<1>3. PICK to \in {"ready", "launched"} : stage' = [stage EXCEPT ![s] = to]
  BY DEF WorktreeAdded
<1>4. WorktreesTypeOK'
  BY <1>2 DEF CodingBounds, WorktreesTypeOK
<1>5. nextShard' \in 1 .. Cardinality(Shards) + 1
  <2>1. Cardinality(Shards) \in Nat /\ s \in 1 .. Cardinality(Shards)
    BY ShardsAssumption, FS_CardinalityType
  <2>2. QED
    BY <1>2, <2>1
<1>6. \A t \in Shards : stage'[t] \notin {"adding", "refused"}
  BY <1>2, <1>3 DEF CodingBounds, OneInSetup
<1>7. \A t \in Shards : stage'[t] = stage[t] \/ stage'[t] # "waiting"
  BY <1>2, <1>3
<1>8. NamesInUse'
  BY <1>2, <1>7 DEF CodingBounds, NamesInUse
<1>9. OneInSetup' /\ NamedOnce'
  BY <1>6 DEF OneInSetup, NamedOnce
<1>10. QED
  BY <1>2, <1>4, <1>5, <1>8, <1>9 DEF CodingBounds

LEMMA RefusedBounded ==
  ASSUME CodingShape, CodingBounds, NEW s \in Shards, WorktreeRefused(s)
  PROVE  CodingBounds'
<1>1. PICK name : name = branch[s]
  OBVIOUS
<1>2. /\ stage \in [Shards -> Stages] /\ stage[s] = "adding" /\ s = nextShard /\ name \in Names
      /\ gitBranches' \subseteq gitBranches \cup {name} /\ worktrees' \subseteq worktrees \cup {s}
      /\ misfired' = misfired \cup {s} /\ stage' = [stage EXCEPT ![s] = "refused"]
      /\ UNCHANGED <<usedBranches, tasks, nextShard, branch, review, aborted, unrecorded>>
  BY <1>1 DEF CodingShape, CodingBounds, OneInSetup, NamedOnce, WorktreeRefused, NotAdded
<1>3. WorktreesTypeOK'
  BY <1>2 DEF CodingBounds, WorktreesTypeOK
<1>4. \A t \in Shards : /\ stage'[t] \in {"adding", "refused"} => t = s \/ stage[t] = stage'[t]
                        /\ stage'[t] = "adding" => stage[t] = "adding"
                        /\ stage'[t] = stage[t] \/ stage'[t] # "waiting"
  BY <1>2
<1>5. NamesInUse'
  BY <1>2, <1>4 DEF CodingBounds, NamesInUse
<1>6. OneInSetup' /\ NamedOnce'
  BY <1>2, <1>4 DEF CodingBounds, OneInSetup, NamedOnce
<1>7. QED
  BY <1>2, <1>3, <1>5, <1>6 DEF CodingBounds

LEMMA FinalizedBounded ==
  ASSUME CodingShape, CodingBounds, NEW s \in Shards, Finalized(s)
  PROVE  CodingBounds'
<1>1. /\ stage \in [Shards -> Stages] /\ stage' = [stage EXCEPT ![s] = "done"]
      /\ UNCHANGED <<nextShard, branch, review, aborted, unrecorded, gitBranches>>
      /\ usedBranches' \subseteq usedBranches /\ worktrees' \subseteq worktrees
      /\ misfired' \subseteq misfired \cup {s}
  BY DEF CodingShape, Finalized, SettledLocals, Removed, NotRemoved
<1>2. tasks' \in [DOMAIN tasks' -> Names] /\ DOMAIN tasks' \subseteq Shards
  <2>1. tasks \in [DOMAIN tasks -> Names] /\ DOMAIN tasks \subseteq Shards
    BY DEF CodingBounds, WorktreesTypeOK
  <2>2. CASE tasks' = [t \in DOMAIN tasks \ {s} |-> tasks[t]]
    BY <2>1, <2>2
  <2>3. CASE tasks' = tasks
    BY <2>1, <2>3
  <2>4. QED
    BY <2>2, <2>3 DEF Finalized, Removed, NotRemoved
<1>3. WorktreesTypeOK'
  BY <1>1, <1>2 DEF CodingBounds, WorktreesTypeOK
<1>4. \A t \in Shards : stage'[t] = stage[t] \/ stage'[t] \notin {"waiting", "adding", "refused"}
  BY <1>1
<1>5. NamesInUse'
  BY <1>1, <1>4 DEF CodingBounds, NamesInUse
<1>6. OneInSetup' /\ NamedOnce'
  BY <1>1, <1>4 DEF CodingBounds, OneInSetup, NamedOnce
<1>7. QED
  BY <1>1, <1>3, <1>5, <1>6 DEF CodingBounds

LEMMA CodingBoundsKept ==
  ASSUME CodingInv, CodingInv', CodingBounds, [CodingNext]_codingVars
  PROVE  CodingBounds'
<1>0. /\ CodingShape /\ stage \in [Shards -> Stages] /\ stage' \in [Shards -> Stages]
      /\ review \in BOOLEAN /\ aborted \in BOOLEAN /\ unrecorded \subseteq Shards
  BY DEF CodingInv, CodingShape, CodingBounds
<1>1. CASE Call \/ StopAtSignal \/ NoDirectory
  BY <1>0, <1>1, StageOnly DEF Call, StopAtSignal, NoDirectory, SettledLocals
<1>2. CASE Launch
  <2>1. UNCHANGED <<worktreeVars, branch, nextShard, review, aborted, unrecorded>>
    BY <1>2 DEF Launch, SettledLocals
  <2>2. \A s \in Shards : stage'[s] = stage[s] \/ stage'[s] = "launched"
    <3>1. PICK first, ready :
            /\ ready = {s \in Shards : stage[s] = "ready"} /\ first = InOrder(ready)[1]
      OBVIOUS
    <3>2. \/ stage' = [s \in Shards |-> IF s \in ready THEN "launched" ELSE stage[s]]
          \/ stage' = stage \/ stage' = [stage EXCEPT ![first] = "launched"]
      BY <1>2, <3>1 DEF Launch
    <3>3. QED
      BY <1>0, <3>2
  <2>3. QED
    BY <1>0, <2>1, <2>2, StageOnly
<1>3. CASE Report
  <2>1. UNCHANGED <<worktreeVars, branch, nextShard, stage, aborted, unrecorded>>
    BY <1>3 DEF Report
  <2>2. review' \in BOOLEAN
    <3>1. SuggestHumanInbox \in BOOLEAN
      BY DEF SuggestHumanInbox, Conflicts
    <3>2. QED
      BY <1>0, <1>3, <3>1 DEF Report
  <2>3. QED
    BY <1>0, <2>1, <2>2, StageOnly
<1>4. CASE AbortJob
  <2>1. aborted' \in BOOLEAN
    BY <1>4 DEF AbortJob
  <2>2. QED
    BY <1>0, <1>4, <2>1, StageOnly DEF AbortJob
<1>5. ASSUME NEW s \in Shards, SetupRecorded(s)
      PROVE  CodingBounds'
  <2>1. /\ UNCHANGED <<worktreeVars, branch, review, aborted>>
        /\ unrecorded' \subseteq unrecorded \cup {s} /\ stage[s] = "refused"
        /\ stage' = [stage EXCEPT ![s] = "unusable"] /\ nextShard' = nextShard + 1
    BY <1>5 DEF SetupRecorded
  <2>2. nextShard \in Shards /\ \A t \in Shards : stage[t] \in {"adding", "refused"} => t = s
    BY <2>1 DEF CodingBounds, OneInSetup
  <2>3. \A t \in Shards : /\ stage'[t] \notin {"adding", "refused"}
                          /\ stage'[t] = stage[t] \/ stage'[t] # "waiting"
    BY <1>0, <2>1, <2>2
  <2>4. unrecorded' \subseteq Shards
    BY <1>0, <2>1
  <2>5. QED
    BY <1>0, <2>1, <2>2, <2>3, <2>4, StageOnly
<1>6. ASSUME NEW s \in Shards, RunTask(s) \/ TaskSettled(s) \/ Recorded(s) \/ NotRecorded(s)
      PROVE  CodingBounds'
  <2>1. /\ UNCHANGED <<worktreeVars, branch, nextShard, review, aborted>>
        /\ unrecorded' \subseteq unrecorded \cup {s}
    BY <1>6 DEF RunTask, TaskSettled, Recorded, NotRecorded, SettledLocals
  <2>2. \E to \in {"running", "recording", "removing", "done"} :
          stage' = stage \/ stage' = [stage EXCEPT ![s] = to]
    <3>1. CASE RunTask(s)
      BY <3>1 DEF RunTask
    <3>2. CASE TaskSettled(s)
      BY <3>2 DEF TaskSettled
    <3>3. CASE Recorded(s)
      BY <3>3 DEF Recorded
    <3>4. CASE NotRecorded(s)
      BY <3>4 DEF NotRecorded
    <3>5. QED
      BY <1>6, <3>1, <3>2, <3>3, <3>4
  <2>3. \A t \in Shards : \/ stage'[t] = stage[t]
                          \/ stage'[t] \notin {"waiting", "adding", "refused"}
    BY <1>0, <2>2
  <2>4. unrecorded' \subseteq Shards
    BY <1>0, <2>1
  <2>5. QED
    BY <1>0, <2>1, <2>3, <2>4, StageOnly
<1>7. CASE UNCHANGED codingVars
  BY <1>0, <1>7, StageOnly DEF codingVars
<1>8. QED
  BY <1>0, <1>1, <1>2, <1>3, <1>4, <1>5, <1>6, <1>7, PrepareBounded, AddedBounded,
     RefusedBounded, FinalizedBounded DEF CodingNext, JobStep

\* The names that a manager hands out are names of its tasks, whatever was refused or
\* removed before, and the loop stays among the shards.
THEOREM CodingTypesHold == CodingSpec => []CodingTypeOK
<1>1. CodingInit => CodingBounds
  <2> SUFFICES ASSUME CodingInit
               PROVE  CodingBounds
    OBVIOUS
  <2>1. /\ usedBranches = {} /\ tasks = <<>> /\ worktrees = {} /\ gitBranches = {}
        /\ misfired = {} /\ nextShard = 1 /\ stage = [s \in Shards |-> "waiting"]
        /\ branch = [s \in Shards |-> NotYet] /\ review = FALSE /\ aborted = FALSE
        /\ unrecorded = {}
    BY DEF CodingInit, WorktreesInit
  <2>2. WorktreesTypeOK
    BY <2>1 DEF WorktreesTypeOK
  <2>3. 1 \in 1 .. Cardinality(Shards) + 1
    BY ShardsFinite, FS_CardinalityType
  <2>4. NamesInUse /\ OneInSetup /\ NamedOnce
    BY <2>1 DEF NamesInUse, OneInSetup, NamedOnce
  <2>5. QED
    BY <2>1, <2>2, <2>3, <2>4 DEF CodingBounds
<1>2. CodingInv /\ CodingBounds => CodingTypeOK
  BY DEF CodingInv, CodingShape, CodingBounds, CodingTypeOK
<1>3. QED
  BY <1>1, <1>2, CodingBoundsKept, JobsAreSound, PTL DEF CodingSpec

-----------------------------------------------------------------------------
(* The inductive invariant.  SpanDelivery only speaks of what was          *)
(* delivered; what makes it true is that the same holds of every span that *)
(* is still on its way, and that a span that is open is not on its way.    *)

\* the executions that a sequence of spans tells of
ExecutionsOf(s) == {Promise!Execution(s[i]) : i \in DOMAIN s}

\* SpanDelivery's Truthful, for executions that ended as h says
TruthfulOf(h, span) ==
  /\ span.nth \in DOMAIN h[span.key]
  /\ LET ending == h[span.key][span.nth]
     IN \/ ending \in NodeEndings /\ span.status = ending
        \/ ending = "left" /\ span.status = "ok"

\* a sequence of such spans
SpansTell(s, h) == \A i \in DOMAIN s : TruthfulOf(h, s[i])

NoneTwice(s) ==
  \A i, j \in DOMAIN s : Promise!Execution(s[i]) = Promise!Execution(s[j]) => i = j

Disjoint(s, t) == ExecutionsOf(s) \cap ExecutionsOf(t) = {}

\* Buffered, handed over or delivered: a span tells the outcome of its execution.
SpansTruthful ==
  /\ SpansTell(buf, outcomesOf)
  /\ SpansTell(delivered, outcomesOf)
  /\ \A c \in chunks : SpansTell(c, outcomesOf)

\* No execution has two spans, wherever they are.
SpansDistinct ==
  /\ NoneTwice(buf) /\ NoneTwice(delivered) /\ Disjoint(buf, delivered)
  /\ \A c \in chunks : NoneTwice(c) /\ Disjoint(c, buf) /\ Disjoint(c, delivered)
  /\ \A c, d \in chunks : c # d => Disjoint(c, d)

\* As long as the collector is subscribed, a span that is open is that of the latest
\* execution, which has not ended with an event and is not told of anywhere.
OpenIsLatest ==
  subs # 0 =>
    \A k \in DOMAIN open :
      /\ outcomesOf[k] # <<>>
      /\ open[k] = Len(outcomesOf[k])
      /\ Latest(k) \in {"running", "left"}
      /\ <<k, open[k]>> \notin ExecutionsOf(buf) \cup ExecutionsOf(delivered)
      /\ \A c \in chunks : <<k, open[k]>> \notin ExecutionsOf(c)

PipelineInv == TracingTypeOK /\ SpansTruthful /\ SpansDistinct /\ OpenIsLatest

-----------------------------------------------------------------------------
(* What publishing comes to.                                               *)

\* The handler is not called, or what it comes to is what it comes to when called once.
LEMMA PublishedOnce ==
  ASSUME NEW once, Published(once, once)
  PROVE  /\ subs = 0 => UNCHANGED <<open, buf, chunks>>
         /\ subs # 0 => open' = once.open /\ buf' = once.buf /\ chunks' = once.chunks
<1>1. CASE subs = 0
  <2>1. (CASE subs = 0 -> Pipeline [] subs = 1 -> once [] OTHER -> once) = Pipeline
    <3>1. subs # 1
      BY <1>1
    <3>2. QED
      BY <1>1, <3>1, Zenon
  <2>2. open' = Pipeline.open /\ buf' = Pipeline.buf /\ chunks' = Pipeline.chunks
    BY <2>1, Zenon DEF Published
  <2>3. QED
    BY <1>1, <2>2 DEF Pipeline
<1>2. CASE subs # 0
  <2>1. (CASE subs = 0 -> Pipeline [] subs = 1 -> once [] OTHER -> once) = once
    BY <1>2, Zenon
  <2>2. QED
    BY <1>2, <2>1, Zenon DEF Published
<1>3. QED
  BY <1>1, <1>2

\* A span is opened once, however often the collector is subscribed.
LEMMA StartEffect ==
  ASSUME TracingTypeOK, NEW k \in SpanKeys,
         Published(Started(Pipeline, k), Started(Started(Pipeline, k), k))
  PROVE  /\ UNCHANGED <<buf, chunks>>
         /\ subs = 0 => open' = open
         /\ subs # 0 => /\ DOMAIN open' = DOMAIN open \cup {k}
                        /\ open' = [o \in DOMAIN open \cup {k} |->
                                      IF o = k THEN Len(outcomesOf[k]) + 1 ELSE open[o]]
<1> DEFINE once == Started(Pipeline, k)
<1>1. once = [open |-> [o \in DOMAIN open \cup {k} |->
                          IF o = k THEN Len(outcomesOf[k]) + 1 ELSE open[o]],
              buf |-> buf, chunks |-> chunks]
  BY DEF Started, Pipeline
<1>2. Started(once, k) = once
  BY <1>1 DEF Started
<1>3. QED
  BY <1>1, <1>2, PublishedOnce

\* The span that ends is exported once, however often the collector is subscribed.
LEMMA EndEffect ==
  ASSUME TracingTypeOK, NEW k \in SpanKeys, NEW status \in NodeEndings \cup {"ok"},
         Published(Ended(Pipeline, k, status), Ended(Ended(Pipeline, k, status), k, status)),
         NEW span, span = [key |-> k, nth |-> open[k], status |-> status]
  PROVE  IF subs = 0 \/ k \notin DOMAIN open THEN UNCHANGED <<open, buf, chunks>>
         ELSE /\ open' = [o \in DOMAIN open \ {k} |-> open[o]]
              /\ IF Len(Append(buf, span)) >= BatchSize
                 THEN buf' = <<>> /\ chunks' = chunks \cup {Append(buf, span)}
                 ELSE buf' = Append(buf, span) /\ chunks' = chunks
<1> DEFINE once == Ended(Pipeline, k, status)
           rest == [o \in DOMAIN open \ {k} |-> open[o]]
           more == Append(buf, span)
<1>1. CASE k \notin DOMAIN open
  <2>1. once = Pipeline /\ Ended(once, k, status) = once
    BY <1>1 DEF Ended, Pipeline
  <2>2. QED
    BY <1>1, <2>1, PublishedOnce DEF Pipeline
<1>2. CASE k \in DOMAIN open
  <2>1. once = Exported([open |-> rest, buf |-> buf, chunks |-> chunks], span)
    BY <1>2 DEF Ended, Pipeline, Restrict
  <2>2. Exported([open |-> rest, buf |-> buf, chunks |-> chunks], span)
          = IF Len(more) >= BatchSize
            THEN Flushed([open |-> rest, buf |-> more, chunks |-> chunks])
            ELSE [open |-> rest, buf |-> more, chunks |-> chunks]
    <3> DEFINE before == [open |-> rest, buf |-> buf, chunks |-> chunks]
               after == [open |-> rest, buf |-> more, chunks |-> chunks]
    <3>1. before.buf = buf /\ after.buf = more
      OBVIOUS
    <3>2. [before EXCEPT !.buf = more] = after
      <4>1. before \in [open : {rest}, buf : {buf, more}, chunks : {chunks}]
        OBVIOUS
      <4> HIDE DEF more, rest
      <4>2. QED
        BY <4>1
    <3> HIDE DEF before, after, more
    <3>3. [before EXCEPT !.buf = Append(@, span)] = after
      BY <3>1, <3>2 DEF more
    <3>4. QED
      BY <3>1, <3>3, Zenon DEF Exported, before, after
  <2>3. more # <<>>
    <3>1. span \in Spans /\ buf \in Seq(Spans)
      BY <1>2 DEF TracingTypeOK, Spans
    <3>2. QED
      BY <3>1, AppendProperties
  <2>4. once = IF Len(more) >= BatchSize
               THEN [open |-> rest, buf |-> <<>>, chunks |-> chunks \cup {more}]
               ELSE [open |-> rest, buf |-> more, chunks |-> chunks]
    BY <2>1, <2>2, <2>3 DEF Flushed
  <2>5. k \notin DOMAIN once.open
    BY <2>4
  <2>6. Ended(once, k, status) = once
    BY <2>5 DEF Ended
  <2>7. QED
    BY <1>2, <2>4, <2>6, PublishedOnce
<1>3. QED
  BY <1>1, <1>2

-----------------------------------------------------------------------------
(* Sequences of spans.                                                     *)

\* What a sequence tells of after a span is appended to it.
LEMMA SpanAppended ==
  ASSUME NEW s \in Seq(Spans), NEW span \in Spans, NEW h
  PROVE  /\ ExecutionsOf(Append(s, span)) = ExecutionsOf(s) \cup {Promise!Execution(span)}
         /\ SpansTell(s, h) /\ TruthfulOf(h, span) => SpansTell(Append(s, span), h)
         /\ NoneTwice(s) /\ Promise!Execution(span) \notin ExecutionsOf(s)
              => NoneTwice(Append(s, span))
<1> DEFINE t == Append(s, span)
           n == Len(s)
<1>1. /\ n \in Nat
      /\ DOMAIN s = 1 .. n /\ DOMAIN t = 1 .. n + 1
      /\ \A i \in 1 .. n : t[i] = s[i]
      /\ t[n + 1] = span
  OBVIOUS
<1>2. \A i \in 1 .. n + 1 : i \in 1 .. n \/ i = n + 1
  BY <1>1
<1>3. \A i \in 1 .. n : i \in 1 .. n + 1
  BY <1>1
<1>4. n + 1 \in 1 .. n + 1
  BY <1>1
<1> HIDE DEF t, n
<1>5. ExecutionsOf(t) = ExecutionsOf(s) \cup {Promise!Execution(span)}
  BY <1>1, <1>2, <1>3, <1>4, Zenon DEF ExecutionsOf
<1>6. SpansTell(s, h) /\ TruthfulOf(h, span) => SpansTell(t, h)
  BY <1>1, <1>2 DEF SpansTell
<1>7. ASSUME NoneTwice(s), Promise!Execution(span) \notin ExecutionsOf(s)
      PROVE  NoneTwice(t)
  BY <1>1, <1>2, <1>7 DEF NoneTwice, ExecutionsOf
<1>8. QED
  BY <1>5, <1>6, <1>7 DEF t

\* What a sequence tells of after another is put behind it.
LEMMA Joined ==
  ASSUME NEW s \in Seq(Spans), NEW c \in Seq(Spans), NEW h
  PROVE  /\ ExecutionsOf(s \o c) = ExecutionsOf(s) \cup ExecutionsOf(c)
         /\ SpansTell(s, h) /\ SpansTell(c, h) => SpansTell(s \o c, h)
         /\ NoneTwice(s) /\ NoneTwice(c) /\ Disjoint(s, c) => NoneTwice(s \o c)
<1> DEFINE t == s \o c
           n == Len(s)
           m == Len(c)
<1>1. /\ n \in Nat /\ m \in Nat
      /\ DOMAIN s = 1 .. n /\ DOMAIN c = 1 .. m /\ DOMAIN t = 1 .. n + m
      /\ \A i \in 1 .. n : t[i] = s[i]
      /\ \A i \in 1 .. m : t[n + i] = c[i]
  OBVIOUS
<1>2. \A i \in 1 .. n + m : i \in 1 .. n \/ \E j \in 1 .. m : i = n + j
  <2>1. \A i \in 1 .. n + m : i \in 1 .. n \/ (i - n \in 1 .. m /\ i = n + (i - n))
    BY <1>1
  <2>2. QED
    BY <2>1
<1>3. \A i \in 1 .. n : i \in 1 .. n + m
  BY <1>1
<1>4. \A j \in 1 .. m : n + j \in 1 .. n + m
  BY <1>1
<1> HIDE DEF t, n, m
<1>5. \A i \in DOMAIN t : \/ \E j \in DOMAIN s : t[i] = s[j]
                          \/ \E j \in DOMAIN c : t[i] = c[j]
  <2>1. SUFFICES ASSUME NEW i \in 1 .. n + m
                 PROVE  \/ \E j \in 1 .. n : t[i] = s[j]
                        \/ \E j \in 1 .. m : t[i] = c[j]
    BY <1>1
  <2>2. CASE i \in 1 .. n
    BY <1>1, <2>2
  <2>3. CASE \E j \in 1 .. m : i = n + j
    BY <1>1, <2>3
  <2>4. QED
    BY <1>2, <2>2, <2>3
<1>6. ExecutionsOf(t) = ExecutionsOf(s) \cup ExecutionsOf(c)
  <2>1. ExecutionsOf(t) \subseteq ExecutionsOf(s) \cup ExecutionsOf(c)
    BY <1>5, Zenon DEF ExecutionsOf
  <2>2. ExecutionsOf(s) \subseteq ExecutionsOf(t)
    BY <1>1, <1>3, Zenon DEF ExecutionsOf
  <2>3. ExecutionsOf(c) \subseteq ExecutionsOf(t)
    BY <1>1, <1>4, Zenon DEF ExecutionsOf
  <2>4. QED
    BY <2>1, <2>2, <2>3
<1>7. SpansTell(s, h) /\ SpansTell(c, h) => SpansTell(t, h)
  BY <1>5, Zenon DEF SpansTell
<1>8. ASSUME NoneTwice(s), NoneTwice(c), Disjoint(s, c)
      PROVE  NoneTwice(t)
  <2>1. SUFFICES ASSUME NEW i \in DOMAIN t, NEW j \in DOMAIN t,
                        Promise!Execution(t[i]) = Promise!Execution(t[j])
                 PROVE  i = j
    BY DEF NoneTwice
  <2>2. \A a \in 1 .. n, b \in 1 .. m : Promise!Execution(s[a]) # Promise!Execution(c[b])
    BY <1>1, <1>8, Zenon DEF Disjoint, ExecutionsOf
  <2>3. CASE i \in 1 .. n /\ j \in 1 .. n
    BY <1>1, <1>8, <2>1, <2>3 DEF NoneTwice
  <2>4. ASSUME NEW a \in 1 .. m, i = n + a, NEW b \in 1 .. m, j = n + b
        PROVE  i = j
    BY <1>1, <1>8, <2>1, <2>4 DEF NoneTwice
  <2>5. QED
    BY <1>1, <1>2, <2>1, <2>2, <2>3, <2>4, SMTT(30)
<1>9. QED
  BY <1>6, <1>7, <1>8 DEF t

\* Nothing is told by a sequence without spans.
LEMMA Empty ==
  /\ <<>> \in Seq(Spans) /\ Len(<<>>) = 0
  /\ ExecutionsOf(<<>>) = {} /\ NoneTwice(<<>>)
  /\ \A h : SpansTell(<<>>, h)
BY DEF ExecutionsOf, SpansTell, NoneTwice

\* A sequence that tells the truth knows of no execution that has not begun.
LEMMA Unbegun ==
  ASSUME NEW s \in Seq(Spans), NEW h \in [SpanKeys -> Seq(NodeEndings \cup {"running", "left"})],
         SpansTell(s, h), NEW k \in SpanKeys
  PROVE  <<k, Len(h[k]) + 1>> \notin ExecutionsOf(s)
<1>1. SUFFICES ASSUME NEW i \in DOMAIN s, <<s[i].key, s[i].nth>> = <<k, Len(h[k]) + 1>>
               PROVE  FALSE
  BY DEF ExecutionsOf, Promise!Execution
<1>2. s[i].key = k /\ s[i].nth = Len(h[k]) + 1
  BY <1>1
<1>3. Len(h[k]) + 1 \in DOMAIN h[k]
  BY <1>2 DEF SpansTell, TruthfulOf
<1>4. QED
  BY <1>3

-----------------------------------------------------------------------------
(* Every step.                                                             *)

\* The type invariant is inductive: a node begins no more often than MaxExecutions.
LEMMA TypeStep == TracingTypeOK /\ [TracingNext]_tracingVars => TracingTypeOK'
<1> SUFFICES ASSUME TracingTypeOK, [TracingNext]_tracingVars
             PROVE  TracingTypeOK'
  OBVIOUS
<1> DEFINE Histories == [SpanKeys -> Seq(NodeEndings \cup {"running", "left"})]
<1>1. CASE UNCHANGED tracingVars
  BY <1>1 DEF tracingVars, TracingTypeOK
<1>2. ASSUME NEW k \in SpanKeys, NodeStarts(k)
      PROVE  TracingTypeOK'
  <2>1. outcomesOf' \in Histories
    BY <1>2 DEF NodeStarts, TracingTypeOK
  <2>2. Len(outcomesOf[k]) + 1 \in 1 .. MaxExecutions
    BY <1>2, TracingAssumption DEF NodeStarts, TracingTypeOK, TracingAssumption
  <2>3. /\ UNCHANGED <<subs, delivered, buf, chunks>>
        /\ open' = open \/ open' = [o \in DOMAIN open \cup {k} |->
                                      IF o = k THEN Len(outcomesOf[k]) + 1 ELSE open[o]]
    BY <1>2, StartEffect DEF NodeStarts
  <2>4. open' \in [DOMAIN open' -> 1 .. MaxExecutions] /\ DOMAIN open' \subseteq SpanKeys
    BY <2>2, <2>3 DEF TracingTypeOK
  <2>5. QED
    BY <2>1, <2>3, <2>4 DEF TracingTypeOK
<1>3. ASSUME NEW k \in SpanKeys, NEW status \in NodeEndings \cup {"ok"},
             Published(Ended(Pipeline, k, status), Ended(Ended(Pipeline, k, status), k, status)),
             outcomesOf' \in Histories, UNCHANGED <<subs, delivered>>
      PROVE  TracingTypeOK'
  <2> DEFINE span == [key |-> k, nth |-> open[k], status |-> status]
             more == Append(buf, span)
  <2>1. IF subs = 0 \/ k \notin DOMAIN open THEN UNCHANGED <<open, buf, chunks>>
        ELSE /\ open' = [o \in DOMAIN open \ {k} |-> open[o]]
             /\ IF Len(more) >= BatchSize
                THEN buf' = <<>> /\ chunks' = chunks \cup {more}
                ELSE buf' = more /\ chunks' = chunks
    BY <1>3, EndEffect
  <2>2. CASE subs = 0 \/ k \notin DOMAIN open
    BY <1>3, <2>1, <2>2 DEF TracingTypeOK
  <2>3. CASE subs # 0 /\ k \in DOMAIN open
    <3>1. span \in Spans
      BY <2>3 DEF Spans, TracingTypeOK
    <3>2. more \in Seq(Spans) /\ Len(more) = Len(buf) + 1 /\ Len(buf) \in Nat
          /\ Len(buf) < BatchSize /\ BatchSize \in Nat
      BY <3>1, AppendProperties, TracingAssumption DEF TracingTypeOK, TracingAssumption
    <3>3. open' \in [DOMAIN open' -> 1 .. MaxExecutions] /\ DOMAIN open' \subseteq SpanKeys
      BY <2>1, <2>3 DEF TracingTypeOK
    <3> HIDE DEF more, span
    <3>4. buf' \in Seq(Spans) /\ Len(buf') < BatchSize
      <4>1. CASE Len(more) >= BatchSize
        <5>1. buf' = <<>>
          BY <2>1, <2>3, <4>1
        <5>2. 0 < BatchSize
          BY TracingAssumption DEF TracingAssumption
        <5>3. QED
          BY <5>1, <5>2, Empty
      <4>2. CASE ~(Len(more) >= BatchSize)
        BY <2>1, <2>3, <3>2, <4>2
      <4>3. QED
        BY <4>1, <4>2
    <3>5. \A chunk \in chunks' : chunk \in Seq(Spans) /\ Len(chunk) \in 1 .. BatchSize
      BY <2>1, <2>3, <3>2 DEF TracingTypeOK
    <3>6. QED
      BY <1>3, <3>3, <3>4, <3>5 DEF TracingTypeOK
  <2>4. QED
    BY <2>2, <2>3
<1>4. ASSUME NEW k \in SpanKeys, NodeEnds(k)
      PROVE  TracingTypeOK'
  <2>1. \A status \in NodeEndings :
          [outcomesOf EXCEPT ![k][Len(outcomesOf[k])] = status] \in Histories
    BY <1>4 DEF NodeEnds, IsRunning, TracingTypeOK
  <2>2. QED
    BY <1>3, <1>4, <2>1 DEF NodeEnds
<1>5. ASSUME NEW k \in SpanKeys, RunLeaves(k)
      PROVE  TracingTypeOK'
  BY <1>5 DEF RunLeaves, IsRunning, TracingTypeOK
<1>6. ASSUME NEW k \in SpanKeys, NodeResumed(k)
      PROVE  TracingTypeOK'
  BY <1>3, <1>6 DEF NodeResumed, TracingTypeOK
<1>7. CASE FlushCalled
  <2>1. buf' = <<>> /\ chunks' = chunks \cup {buf}
    BY <1>7 DEF FlushCalled, Flushed, Pipeline
  <2>2. Len(buf) \in 1 .. BatchSize
    BY <1>7, EmptySeq, TracingAssumption DEF FlushCalled, TracingTypeOK, TracingAssumption
  <2>3. QED
    BY <1>7, <2>1, <2>2, Empty, TracingAssumption DEF FlushCalled, TracingTypeOK, TracingAssumption
<1>8. CASE Unsubscribe \/ CloseBus
  BY <1>8 DEF Unsubscribe, CloseBus, TracingTypeOK
<1>9. CASE ChunkTaken \/ ChunkLost
  <2>1. PICK chunk \in chunks : /\ chunks' = chunks \ {chunk}
                                /\ delivered' = delivered \o chunk \/ delivered' = delivered
    BY <1>9 DEF ChunkTaken, ChunkLost
  <2>2. chunk \in Seq(Spans)
    BY DEF TracingTypeOK
  <2>3. delivered' \in Seq(Spans)
    BY <2>1, <2>2, ConcatProperties DEF TracingTypeOK
  <2>4. UNCHANGED <<outcomesOf, subs, open, buf>>
    BY <1>9 DEF ChunkTaken, ChunkLost
  <2>5. QED
    BY <2>1, <2>3, <2>4 DEF TracingTypeOK
<1>10. QED
  BY <1>1, <1>2, <1>4, <1>5, <1>6, <1>7, <1>8, <1>9 DEF TracingNext

\* What a span tells stays true: an execution that has ended has ended for good.
LEMMA TruthIsKept ==
  ASSUME TracingTypeOK, [TracingNext]_tracingVars,
         NEW s \in Seq(Spans), SpansTell(s, outcomesOf)
  PROVE  SpansTell(s, outcomesOf')
<1> SUFFICES ASSUME NEW i \in DOMAIN s
             PROVE  TruthfulOf(outcomesOf', s[i])
  BY DEF SpansTell
<1> DEFINE key == s[i].key
           nth == s[i].nth
<1>1. /\ key \in SpanKeys /\ TruthfulOf(outcomesOf, s[i])
      /\ outcomesOf[key] \in Seq(NodeEndings \cup {"running", "left"})
  <2>1. s[i] \in Spans
    BY ElementOfSeq
  <2>2. key \in SpanKeys
    BY <2>1 DEF Spans
  <2>3. TruthfulOf(outcomesOf, s[i])
    BY DEF SpansTell
  <2>4. QED
    BY <2>2, <2>3 DEF TracingTypeOK
<1>2. nth \in DOMAIN outcomesOf[key] /\ outcomesOf[key][nth] # "running"
  BY <1>1, TracingAssumption DEF TruthfulOf, TracingAssumption
<1>3. SUFFICES nth \in DOMAIN outcomesOf'[key] /\ outcomesOf'[key][nth] = outcomesOf[key][nth]
  BY <1>1 DEF TruthfulOf
<1>4. ASSUME NEW k \in SpanKeys, NodeStarts(k)
      PROVE  nth \in DOMAIN outcomesOf'[key] /\ outcomesOf'[key][nth] = outcomesOf[key][nth]
  <2>1. outcomesOf' = [outcomesOf EXCEPT ![k] = Append(@, "running")]
    BY <1>4 DEF NodeStarts
  <2>2. outcomesOf'[key] = outcomesOf[key]
          \/ outcomesOf'[key] = Append(outcomesOf[key], "running")
    <3>1. CASE key = k
      BY <1>1, <2>1, <3>1 DEF TracingTypeOK
    <3>2. CASE key # k
      BY <1>1, <2>1, <3>2 DEF TracingTypeOK
    <3>3. QED
      BY <3>1, <3>2
  <2>3. QED
    BY <1>1, <1>2, <2>2, SMTT(30)
<1>5. ASSUME NEW k \in SpanKeys, NodeEnds(k) \/ RunLeaves(k)
      PROVE  nth \in DOMAIN outcomesOf'[key] /\ outcomesOf'[key][nth] = outcomesOf[key][nth]
  <2>1. PICK ending : outcomesOf' = [outcomesOf EXCEPT ![k][Len(outcomesOf[k])] = ending]
    BY <1>5 DEF NodeEnds, RunLeaves
  <2>2. outcomesOf[k][Len(outcomesOf[k])] = "running"
    BY <1>5 DEF NodeEnds, RunLeaves, IsRunning, Latest
  <2>3. k = key => nth # Len(outcomesOf[key])
    BY <1>2, <2>2
  <2>4. \/ outcomesOf'[key] = outcomesOf[key]
        \/ /\ k = key
           /\ outcomesOf'[key] = [outcomesOf[key] EXCEPT ![Len(outcomesOf[key])] = ending]
    BY <1>1, <2>1 DEF TracingTypeOK
  <2>5. QED
    BY <1>1, <1>2, <2>3, <2>4
<1>6. CASE UNCHANGED outcomesOf
  BY <1>2, <1>6
<1>7. QED
  BY <1>4, <1>5, <1>6
     DEF TracingNext, tracingVars, NodeResumed, FlushCalled, Unsubscribe, CloseBus, ChunkTaken,
         ChunkLost

\* The span of a node that has ended, or was resumed, goes on its way.
LEMMA ExportStep ==
  ASSUME PipelineInv, TracingTypeOK', [TracingNext]_tracingVars,
         NEW k \in DOMAIN open, subs # 0, UNCHANGED <<subs, delivered>>,
         NEW span \in Spans, span.key = k, span.nth = open[k], TruthfulOf(outcomesOf', span),
         \A j \in SpanKeys \ {k} : outcomesOf'[j] = outcomesOf[j],
         open' = [o \in DOMAIN open \ {k} |-> open[o]],
         \/ buf' = Append(buf, span) /\ chunks' = chunks
         \/ buf' = <<>> /\ chunks' = chunks \cup {Append(buf, span)}
  PROVE  SpansTruthful' /\ SpansDistinct' /\ OpenIsLatest'
<1> DEFINE more == Append(buf, span)
           execution == Promise!Execution(span)
<1>1. /\ buf \in Seq(Spans) /\ delivered \in Seq(Spans) /\ DOMAIN open \subseteq SpanKeys
      /\ \A c \in chunks : c \in Seq(Spans)
  BY DEF PipelineInv, TracingTypeOK
<1>2. /\ SpansTell(buf, outcomesOf') /\ SpansTell(delivered, outcomesOf')
      /\ \A c \in chunks : SpansTell(c, outcomesOf')
  BY <1>1, TruthIsKept DEF PipelineInv, SpansTruthful
<1>3. /\ execution = <<k, open[k]>>
      /\ execution \notin ExecutionsOf(buf) \cup ExecutionsOf(delivered)
      /\ \A c \in chunks : execution \notin ExecutionsOf(c)
  BY DEF PipelineInv, OpenIsLatest, Promise!Execution
<1>4. /\ ExecutionsOf(more) = ExecutionsOf(buf) \cup {execution}
      /\ SpansTell(more, outcomesOf')
      /\ NoneTwice(more)
  BY <1>1, <1>2, <1>3, SpanAppended DEF PipelineInv, SpansDistinct
<1>5. \/ buf' = more /\ chunks' = chunks
      \/ buf' = <<>> /\ chunks' = chunks \cup {more}
  BY Zenon
<1> HIDE DEF more, execution
<1>6. SpansTruthful'
  BY <1>2, <1>4, <1>5, Empty DEF SpansTruthful
<1>7. SpansDistinct'
  <2>1. SpansDistinct
    BY DEF PipelineInv
  <2>2. /\ Disjoint(more, delivered) /\ Disjoint(<<>>, delivered)
        /\ \A c \in chunks : /\ Disjoint(c, more) /\ Disjoint(more, c)
                             /\ Disjoint(c, <<>>)
    BY <1>3, <1>4, <2>1, Empty, SMTT(30) DEF SpansDistinct, Disjoint
  <2>3. Disjoint(more, <<>>)
    BY Empty DEF Disjoint
  <2>4. CASE buf' = more /\ chunks' = chunks
    BY <1>4, <2>1, <2>2, <2>4 DEF SpansDistinct
  <2>5. CASE buf' = <<>> /\ chunks' = chunks \cup {more}
    BY <1>4, <2>1, <2>2, <2>3, <2>5, Empty DEF SpansDistinct
  <2>6. QED
    BY <1>5, <2>4, <2>5
<1>8. OpenIsLatest'
  <2>1. SUFFICES ASSUME NEW j \in DOMAIN open'
                 PROVE  /\ outcomesOf'[j] # <<>>
                        /\ open'[j] = Len(outcomesOf'[j])
                        /\ Latest(j)' \in {"running", "left"}
                        /\ <<j, open'[j]>> \notin ExecutionsOf(buf') \cup ExecutionsOf(delivered')
                        /\ \A c \in chunks' : <<j, open'[j]>> \notin ExecutionsOf(c)
    BY DEF OpenIsLatest
  <2>2. j \in DOMAIN open /\ j # k /\ j \in SpanKeys /\ open'[j] = open[j]
        /\ outcomesOf'[j] = outcomesOf[j]
    BY <1>1
  <2>3. <<j, open[j]>> # execution
    BY <1>3, <2>2
  <2>4. /\ outcomesOf[j] # <<>> /\ open[j] = Len(outcomesOf[j]) /\ Latest(j) \in {"running", "left"}
        /\ <<j, open[j]>> \notin ExecutionsOf(buf) \cup ExecutionsOf(delivered)
        /\ \A c \in chunks : <<j, open[j]>> \notin ExecutionsOf(c)
    BY <2>2 DEF PipelineInv, OpenIsLatest
  <2>5. <<j, open[j]>> \notin ExecutionsOf(more)
    BY <1>4, <2>3, <2>4
  <2>6. CASE buf' = more /\ chunks' = chunks
    BY <2>2, <2>4, <2>5, <2>6 DEF Latest
  <2>7. CASE buf' = <<>> /\ chunks' = chunks \cup {more}
    BY <2>2, <2>4, <2>5, <2>7, Empty DEF Latest
  <2>8. QED
    BY <1>5, <2>6, <2>7
<1>9. QED
  BY <1>6, <1>7, <1>8

\* Nothing is open, and nothing has been told, before the first event.
LEMMA PipelineInit == TracingInit => PipelineInv
<1> SUFFICES ASSUME TracingInit PROVE PipelineInv
  OBVIOUS
<1>1. TracingTypeOK
  <2>1. 0 < BatchSize
    BY TracingAssumption DEF TracingAssumption
  <2>2. QED
    BY <2>1, Empty DEF TracingInit, TracingTypeOK
<1>2. SpansTruthful
  BY Empty DEF TracingInit, SpansTruthful
<1>3. SpansDistinct
  BY Empty DEF TracingInit, SpansDistinct, Disjoint
<1>4. OpenIsLatest
  BY DEF TracingInit, OpenIsLatest
<1>5. QED
  BY <1>1, <1>2, <1>3, <1>4 DEF PipelineInv

\* Every step keeps the invariant.
LEMMA PipelineStep == PipelineInv /\ [TracingNext]_tracingVars => PipelineInv'
<1> SUFFICES ASSUME PipelineInv, [TracingNext]_tracingVars
             PROVE  PipelineInv'
  OBVIOUS
<1>1. TracingTypeOK /\ TracingTypeOK'
  BY TypeStep DEF PipelineInv
<1>2. /\ buf \in Seq(Spans) /\ delivered \in Seq(Spans)
      /\ \A c \in chunks : c \in Seq(Spans)
      /\ outcomesOf \in [SpanKeys -> Seq(NodeEndings \cup {"running", "left"})]
      /\ DOMAIN open \subseteq SpanKeys
  BY <1>1 DEF TracingTypeOK
<1>3. /\ SpansTell(buf, outcomesOf') /\ SpansTell(delivered, outcomesOf')
      /\ \A c \in chunks : SpansTell(c, outcomesOf')
  BY <1>1, <1>2, TruthIsKept DEF PipelineInv, SpansTruthful
<1>4. SpansTruthful /\ SpansDistinct /\ OpenIsLatest
  BY DEF PipelineInv
<1> SUFFICES SpansTruthful' /\ SpansDistinct' /\ OpenIsLatest'
  BY <1>1 DEF PipelineInv
<1>5. CASE UNCHANGED tracingVars
  BY <1>4, <1>5 DEF tracingVars, SpansTruthful, SpansDistinct, OpenIsLatest, Latest
<1>6. ASSUME NEW k \in SpanKeys, NodeStarts(k)
      PROVE  SpansTruthful' /\ SpansDistinct' /\ OpenIsLatest'
  <2>1. /\ UNCHANGED <<subs, buf, chunks, delivered>>
        /\ outcomesOf' = [outcomesOf EXCEPT ![k] = Append(@, "running")]
        /\ subs # 0 => open' = [o \in DOMAIN open \cup {k} |->
                                  IF o = k THEN Len(outcomesOf[k]) + 1 ELSE open[o]]
    BY <1>1, <1>6, StartEffect DEF NodeStarts
  <2>2. SpansTruthful' /\ SpansDistinct'
    BY <1>3, <1>4, <2>1 DEF SpansTruthful, SpansDistinct
  <2>3. ASSUME subs # 0, NEW j \in DOMAIN open'
        PROVE  /\ outcomesOf'[j] # <<>>
               /\ open'[j] = Len(outcomesOf'[j])
               /\ outcomesOf'[j][Len(outcomesOf'[j])] \in {"running", "left"}
               /\ <<j, open'[j]>> \notin ExecutionsOf(buf) \cup ExecutionsOf(delivered)
               /\ \A c \in chunks : <<j, open'[j]>> \notin ExecutionsOf(c)
    <3>1. CASE j = k
      <4>1. open'[j] = Len(outcomesOf[k]) + 1
        BY <2>1, <2>3, <3>1
      <4>2. outcomesOf'[j] = Append(outcomesOf[k], "running")
        BY <1>2, <2>1, <3>1
      <4>3. /\ <<k, Len(outcomesOf[k]) + 1>> \notin ExecutionsOf(buf) \cup ExecutionsOf(delivered)
            /\ \A c \in chunks : <<k, Len(outcomesOf[k]) + 1>> \notin ExecutionsOf(c)
        BY <1>2, <1>4, Unbegun DEF SpansTruthful
      <4>4. outcomesOf[k] \in Seq(NodeEndings \cup {"running", "left"})
        BY <1>2
      <4>5. /\ outcomesOf'[j] # <<>>
            /\ Len(outcomesOf'[j]) = Len(outcomesOf[k]) + 1
            /\ outcomesOf'[j][Len(outcomesOf'[j])] = "running"
        BY <4>2, <4>4
      <4>6. QED
        BY <3>1, <4>1, <4>3, <4>5
    <3>2. CASE j # k
      <4>1. j \in DOMAIN open /\ open'[j] = open[j] /\ outcomesOf'[j] = outcomesOf[j]
        BY <1>2, <2>1, <2>3, <3>2
      <4>2. QED
        BY <1>4, <2>3, <4>1 DEF OpenIsLatest, Latest
    <3>3. QED
      BY <3>1, <3>2
  <2>4. QED
    BY <2>1, <2>2, <2>3 DEF OpenIsLatest, Latest
<1>7. ASSUME NEW k \in SpanKeys, NEW status \in NodeEndings \cup {"ok"},
             Published(Ended(Pipeline, k, status), Ended(Ended(Pipeline, k, status), k, status)),
             UNCHANGED <<subs, delivered>>,
             \A j \in SpanKeys \ {k} : outcomesOf'[j] = outcomesOf[j],
             subs # 0 /\ k \in DOMAIN open =>
               /\ Len(outcomesOf[k]) \in DOMAIN outcomesOf'[k]
               /\ \/ outcomesOf'[k][Len(outcomesOf[k])] \in NodeEndings
                     /\ outcomesOf'[k][Len(outcomesOf[k])] = status
                  \/ outcomesOf'[k][Len(outcomesOf[k])] = "left" /\ status = "ok"
      PROVE  SpansTruthful' /\ SpansDistinct' /\ OpenIsLatest'
  <2> DEFINE span == [key |-> k, nth |-> open[k], status |-> status]
             more == Append(buf, span)
  <2>1. IF subs = 0 \/ k \notin DOMAIN open THEN UNCHANGED <<open, buf, chunks>>
        ELSE /\ open' = [o \in DOMAIN open \ {k} |-> open[o]]
             /\ IF Len(more) >= BatchSize
                THEN buf' = <<>> /\ chunks' = chunks \cup {more}
                ELSE buf' = more /\ chunks' = chunks
    BY <1>1, <1>7, EndEffect
  <2>2. CASE subs = 0 \/ k \notin DOMAIN open
    <3>1. UNCHANGED <<open, buf, chunks, delivered, subs>>
      BY <1>7, <2>1, <2>2
    <3>2. SpansTruthful' /\ SpansDistinct'
      BY <1>3, <1>4, <3>1 DEF SpansTruthful, SpansDistinct
    <3>3. subs # 0 => \A j \in DOMAIN open : outcomesOf'[j] = outcomesOf[j]
      BY <1>2, <1>7, <2>2
    <3>4. QED
      BY <1>4, <3>1, <3>2, <3>3 DEF OpenIsLatest, Latest
  <2>3. CASE subs # 0 /\ k \in DOMAIN open
    <3>1. span \in Spans
      BY <1>1, <2>3 DEF Spans, TracingTypeOK
    <3>2. open[k] = Len(outcomesOf[k])
      BY <1>4, <2>3 DEF OpenIsLatest
    <3>3. TruthfulOf(outcomesOf', span)
      BY <1>7, <2>3, <3>2 DEF TruthfulOf
    <3>4. span.key = k /\ span.nth = open[k]
      OBVIOUS
    <3> HIDE DEF span
    <3>5. \/ buf' = more /\ chunks' = chunks
          \/ buf' = <<>> /\ chunks' = chunks \cup {more}
      BY <2>1, <2>3
    <3>6. open' = [o \in DOMAIN open \ {k} |-> open[o]]
      BY <2>1, <2>3
    <3>7. QED
      BY <1>1, <1>7, <2>3, <3>1, <3>3, <3>4, <3>5, <3>6, ExportStep
  <2>4. QED
    BY <2>2, <2>3
<1>8. ASSUME NEW k \in SpanKeys, NodeEnds(k)
      PROVE  SpansTruthful' /\ SpansDistinct' /\ OpenIsLatest'
  <2>1. PICK status \in NodeEndings :
          /\ outcomesOf' = [outcomesOf EXCEPT ![k][Len(outcomesOf[k])] = status]
          /\ Published(Ended(Pipeline, k, status), Ended(Ended(Pipeline, k, status), k, status))
    BY <1>8 DEF NodeEnds
  <2>2. UNCHANGED <<subs, delivered>> /\ outcomesOf[k] # <<>>
    BY <1>8 DEF NodeEnds, IsRunning
  <2>3. \A j \in SpanKeys \ {k} : outcomesOf'[j] = outcomesOf[j]
    BY <1>2, <2>1
  <2>4. /\ Len(outcomesOf[k]) \in DOMAIN outcomesOf'[k]
        /\ outcomesOf'[k][Len(outcomesOf[k])] = status
    <3>1. outcomesOf'[k] = [outcomesOf[k] EXCEPT ![Len(outcomesOf[k])] = status]
      BY <1>2, <2>1
    <3>2. outcomesOf[k] \in Seq(NodeEndings \cup {"running", "left"})
      BY <1>2
    <3>3. QED
      BY <2>2, <3>1, <3>2
  <2>5. QED
    BY <1>7, <2>1, <2>2, <2>3, <2>4
<1>9. ASSUME NEW k \in SpanKeys, RunLeaves(k)
      PROVE  SpansTruthful' /\ SpansDistinct' /\ OpenIsLatest'
  <2>1. /\ UNCHANGED <<subs, open, buf, chunks, delivered>> /\ outcomesOf[k] # <<>>
        /\ outcomesOf' = [outcomesOf EXCEPT ![k][Len(outcomesOf[k])] = "left"]
    BY <1>9 DEF RunLeaves, IsRunning
  <2>2. SpansTruthful' /\ SpansDistinct'
    BY <1>3, <1>4, <2>1 DEF SpansTruthful, SpansDistinct
  <2>3. \A j \in SpanKeys :
          /\ j # k => outcomesOf'[j] = outcomesOf[j]
          /\ j = k => outcomesOf'[j] = [outcomesOf[j] EXCEPT ![Len(outcomesOf[j])] = "left"]
    BY <1>2, <2>1
  <2>4. /\ Len(outcomesOf'[k]) = Len(outcomesOf[k]) /\ outcomesOf'[k] # <<>>
        /\ outcomesOf'[k][Len(outcomesOf'[k])] = "left"
    <3>1. outcomesOf[k] \in Seq(NodeEndings \cup {"running", "left"})
      BY <1>2
    <3>2. QED
      BY <2>1, <2>3, <3>1
  <2>5. QED
    BY <1>2, <1>4, <2>1, <2>2, <2>3, <2>4 DEF OpenIsLatest, Latest
<1>10. ASSUME NEW k \in SpanKeys, NodeResumed(k)
       PROVE  SpansTruthful' /\ SpansDistinct' /\ OpenIsLatest'
  <2>1. /\ UNCHANGED <<outcomesOf, subs, delivered>>
        /\ Published(Ended(Pipeline, k, "ok"), Ended(Ended(Pipeline, k, "ok"), k, "ok"))
        /\ outcomesOf[k] # <<>>
        /\ Latest(k) \in {"ok", "skipped", "left"}
    BY <1>10 DEF NodeResumed
  <2>2. subs # 0 /\ k \in DOMAIN open => Latest(k) = "left"
    BY <1>4, <2>1 DEF OpenIsLatest
  <2>3. Len(outcomesOf[k]) \in DOMAIN outcomesOf[k]
    BY <1>2, <2>1, LenProperties
  <2>4. QED
    BY <1>7, <2>1, <2>2, <2>3 DEF Latest
<1>11. CASE FlushCalled
  <2>1. buf' = <<>> /\ chunks' = chunks \cup {buf} /\ UNCHANGED <<outcomesOf, subs, open, delivered>>
    BY <1>11 DEF FlushCalled, Flushed, Pipeline
  <2>2. SpansTruthful'
    BY <1>4, <2>1, Empty DEF SpansTruthful
  <2>3. SpansDistinct'
    BY <1>4, <2>1, Empty DEF SpansDistinct, Disjoint
  <2>4. OpenIsLatest'
    BY <1>4, <2>1, Empty DEF OpenIsLatest, Latest
  <2>5. QED
    BY <2>2, <2>3, <2>4
<1>12. CASE Unsubscribe \/ CloseBus
  <2>1. UNCHANGED <<outcomesOf, open, buf, chunks, delivered>> /\ (subs' # 0 => subs # 0)
    BY <1>1, <1>12 DEF Unsubscribe, CloseBus, TracingTypeOK
  <2>2. QED
    BY <1>4, <2>1 DEF SpansTruthful, SpansDistinct, OpenIsLatest, Latest
<1>13. CASE ChunkTaken
  <2>1. PICK chunk \in chunks : chunks' = chunks \ {chunk} /\ delivered' = delivered \o chunk
    BY <1>13 DEF ChunkTaken
  <2>2. UNCHANGED <<outcomesOf, subs, open, buf>>
    BY <1>13 DEF ChunkTaken
  <2>3. /\ ExecutionsOf(delivered') = ExecutionsOf(delivered) \cup ExecutionsOf(chunk)
        /\ SpansTell(delivered', outcomesOf) /\ NoneTwice(delivered')
    <3>1. Disjoint(delivered, chunk)
      BY <1>4, <2>1 DEF SpansDistinct, Disjoint
    <3>2. QED
      BY <1>2, <1>4, <2>1, <3>1, Joined DEF SpansTruthful, SpansDistinct
  <2>4. SpansTruthful'
    BY <1>4, <2>1, <2>2, <2>3 DEF SpansTruthful
  <2>5. SpansDistinct'
    BY <1>4, <2>1, <2>2, <2>3 DEF SpansDistinct, Disjoint
  <2>6. OpenIsLatest'
    BY <1>4, <2>1, <2>2, <2>3 DEF OpenIsLatest, Latest
  <2>7. QED
    BY <2>4, <2>5, <2>6
<1>14. CASE ChunkLost
  <2>1. PICK chunk \in chunks : chunks' = chunks \ {chunk}
    BY <1>14 DEF ChunkLost
  <2>2. UNCHANGED <<outcomesOf, subs, open, buf, delivered>>
    BY <1>14 DEF ChunkLost
  <2>3. QED
    BY <1>4, <2>1, <2>2 DEF SpansTruthful, SpansDistinct, OpenIsLatest, Latest
<1>15. QED
  BY <1>5, <1>6, <1>8, <1>9, <1>10, <1>11, <1>12, <1>13, <1>14 DEF TracingNext

-----------------------------------------------------------------------------
(* The theorems.                                                           *)

\* In every reachable state: whatever of a span is on its way tells the outcome of its
\* execution, and no execution has two spans.
THEOREM SpansAreSound == TracingSpec => []PipelineInv
BY PipelineInit, PipelineStep, PTL DEF TracingSpec

\* Histories, spans and chunks have their types; the buffer stays below the batch size
\* and a chunk never exceeds it.
THEOREM TracingTypes == TracingSpec => []TracingTypeOK
<1>1. PipelineInv => TracingTypeOK
  BY DEF PipelineInv
<1>2. QED
  BY <1>1, SpansAreSound, PTL

\* A step of the pipeline is a step of what it promises, or none.
LEMMA DeliveryStep ==
  ASSUME PipelineInv, PipelineInv', [TracingNext]_tracingVars
  PROVE  [Promise!DeliveryNext]_(Promise!deliveryVars)
<1>1. ASSUME NEW k \in SpanKeys, NodeStarts(k)
      PROVE  Promise!Begin(k)
  BY <1>1 DEF NodeStarts, Promise!Begin, Promise!Running
<1>2. ASSUME NEW k \in SpanKeys, NodeEnds(k) \/ RunLeaves(k)
      PROVE  Promise!End(k)
  BY <1>2 DEF NodeEnds, RunLeaves, IsRunning, Latest, Promise!End, Promise!Running, Promise!Left
<1>3. CASE ChunkTaken
  <2>1. PICK chunk \in chunks : chunks' = chunks \ {chunk} /\ delivered' = delivered \o chunk
    BY <1>3 DEF ChunkTaken
  <2>2. delivered \in Seq(Spans) /\ chunk \in Seq(Spans) /\ Len(chunk) \in 1 .. BatchSize
    BY DEF PipelineInv, TracingTypeOK
  <2>3. delivered' # delivered
    <3>1. Len(delivered') = Len(delivered) + Len(chunk) /\ Len(delivered) \in Nat
      BY <2>1, <2>2, ConcatProperties
    <3>2. QED
      BY <2>2, <3>1
  <2>4. SubSeq(delivered', 1, Len(delivered)) = delivered
    <3>1. SubSeq(delivered \o chunk, 1, Len(delivered)) = SubSeq(delivered, 1, Len(delivered))
      BY <2>2
    <3>2. SubSeq(delivered, 1, Len(delivered)) = delivered
      BY <2>2
    <3>3. QED
      BY <2>1, <3>1, <3>2
  <2>5. SpansTell(delivered', outcomesOf') /\ NoneTwice(delivered') /\ UNCHANGED outcomesOf
    BY <1>3 DEF ChunkTaken, PipelineInv, SpansTruthful, SpansDistinct
  <2>6. \A i \in DOMAIN delivered' : Promise!Truthful(delivered'[i])
    BY <2>5 DEF SpansTell, TruthfulOf, Promise!Truthful, Promise!Left
  <2>7. QED
    BY <2>3, <2>4, <2>5, <2>6 DEF Promise!DeliveryNext, Promise!Report, NoneTwice
<1>4. CASE UNCHANGED <<outcomesOf, delivered>>
  BY <1>4 DEF Promise!deliveryVars
<1>5. QED
  BY <1>1, <1>2, <1>3, <1>4
     DEF Promise!DeliveryNext, TracingNext, tracingVars, NodeResumed, FlushCalled, Unsubscribe,
         CloseBus, ChunkLost

\* Through overlapping flushes, doubled subscriptions, runs that leave nodes open and are
\* resumed, and lost chunks, no execution is reported twice, or before it has ended, or
\* with the outcome of another.
THEOREM PipelineKeepsItsPromise == TracingSpec => ImplementsSpanDelivery
<1>1. TracingInit => Promise!DeliveryInit
  BY DEF TracingInit, Promise!DeliveryInit
<1>2. PipelineInv /\ PipelineInv' /\ [TracingNext]_tracingVars
        => [Promise!DeliveryNext]_(Promise!deliveryVars)
  BY DeliveryStep
<1>3. QED
  BY <1>1, <1>2, SpansAreSound, PTL DEF TracingSpec, ImplementsSpanDelivery, Promise!DeliverySpec
=============================================================================
