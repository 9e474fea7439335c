--------------------------- MODULE SidecarBridge ----------------------------
(***************************************************************************)
(* The desktop's bridge to its Node sidecar: SidecarManager of sidecar.rs, *)
(* one reader thread per process it has started, and what sidecar.mjs does *)
(* with a line: it answers at once, or later, or never.  Commands and the  *)
(* tray call request on the main thread, so one request is under way at a  *)
(* time; requests that timed out may be answered still.  Pipes keep their  *)
(* order, and a process that is killed leaves its reader what it wrote.    *)
(***************************************************************************)
EXTENDS Naturals, Sequences

CONSTANTS
  MaxStarts,    \* bound: processes started
  MaxRequests,  \* bound: requests made
  Nobody        \* no process, no request, no reply

ASSUME BridgeAssumption == MaxStarts \in Nat \ {0} /\ MaxRequests \in Nat \ {0}

Processes == 1 .. MaxStarts
Requests == [id : 1 .. MaxRequests, n : 1 .. MaxRequests]

VARIABLES
  child,     \* the process the manager holds, with its stdin, or Nobody
  started,   \* processes started so far
  nextId,    \* NEXT_ID
  pending,   \* the ids in the pending map
  caller,    \* the main thread: where it is, in which call, with which request
  channel,   \* the reply sent to the caller's channel, or Nobody
  toHost,    \* stdin of each process: requests
  fromHost,  \* stdout of each process: the requests it has answered
  working,   \* the requests each process has read and not answered
  alive,     \* the processes that live
  reading,   \* the processes whose reader thread lives
  made,      \* history: requests made so far, which number the requests
  missed,    \* history: ids whose reply found no entry in the map
  cleared    \* history: ids in the map when a reader emptied it at its end

managerVars == <<child, started, nextId>>
hostVars == <<toHost, fromHost, working, alive>>
bridgeVars == <<managerVars, hostVars, pending, caller, channel, reading, made, missed,
                cleared>>

At(place) == [caller EXCEPT !.at = place]

BridgeInit ==
  /\ child = Nobody
  /\ started = 0
  /\ nextId = 1
  /\ pending = {}
  /\ caller = [at |-> "idle", call |-> "request", req |-> Nobody]
  /\ channel = Nobody
  /\ toHost = [p \in Processes |-> <<>>]
  /\ fromHost = [p \in Processes |-> <<>>]
  /\ working = [p \in Processes |-> {}]
  /\ alive = {}
  /\ reading = {}
  /\ made = 0
  /\ missed = {}
  /\ cleared = {}

-----------------------------------------------------------------------------
(* the main thread *)

\* Mutant of FreshId: every process has its requests counted from one.
FreshIdPerProcess == IF child = Nobody THEN 1 ELSE nextId

\* next_id: the counter outlives the processes
FreshId == nextId

\* request up to the map: ensure_started trusts in the child it has, dead or alive.
\* lifecycle.dispose makes a request of its own, runner.dispose.
Request(call) ==
  /\ caller.at = "idle"
  /\ made < MaxRequests
  /\ IF child # Nobody
     THEN UNCHANGED <<child, started, alive, reading>>
     ELSE /\ started < MaxStarts
          /\ started' = started + 1
          /\ child' = started'
          /\ alive' = alive \cup {started'}
          /\ reading' = reading \cup {started'}
  /\ made' = made + 1
  /\ nextId' = FreshId + 1
  /\ caller' = [at |-> "insert", call |-> call, req |-> [id |-> FreshId, n |-> made']]
  /\ channel' = Nobody
  /\ UNCHANGED <<toHost, fromHost, working, pending, missed, cleared>>

Insert ==
  /\ caller.at = "insert"
  /\ pending' = pending \cup {caller.req.id}
  /\ caller' = At("write")
  /\ UNCHANGED <<managerVars, hostVars, channel, reading, made, missed, cleared>>

Write ==
  /\ caller.at = "write"
  /\ child \in alive
  /\ toHost' = [toHost EXCEPT ![child] = Append(@, caller.req)]
  /\ caller' = At("await")
  /\ UNCHANGED <<managerVars, fromHost, working, alive, pending, channel, reading, made,
                 missed, cleared>>

\* the request ends, with whatever result; the tail of lifecycle.dispose follows
Ends ==
  /\ caller' = At(IF caller.call = "dispose" THEN "kill" ELSE "idle")
  /\ UNCHANGED <<managerVars, hostVars, pending, channel, reading, made, missed, cleared>>

\* nobody reads the pipe any more: the entry stays in the map
WriteFails == caller.at = "write" /\ child \notin alive /\ Ends

Receives == caller.at = "await" /\ channel # Nobody /\ Ends

\* recv_timeout: the sender was dropped, or ten seconds are over; then the entry stays
GivesUp == caller.at = "await" /\ channel = Nobody /\ Ends

Kill ==
  /\ caller.at = "kill"
  /\ alive' = alive \ {child}
  /\ toHost' = [toHost EXCEPT ![child] = <<>>]
  /\ working' = [working EXCEPT ![child] = {}]
  /\ child' = Nobody
  /\ caller' = At("clear")
  /\ UNCHANGED <<started, nextId, fromHost, pending, channel, reading, made, missed, cleared>>

Clear ==
  /\ caller.at = "clear"
  /\ pending' = {}
  /\ caller' = At("idle")
  /\ UNCHANGED <<managerVars, hostVars, channel, reading, made, missed, cleared>>

-----------------------------------------------------------------------------
(* the sidecar process and the reader thread of each *)

HostReads(p) ==
  /\ toHost[p] # <<>>
  /\ working' = [working EXCEPT ![p] = @ \cup {Head(toHost[p])}]
  /\ toHost' = [toHost EXCEPT ![p] = Tail(@)]
  /\ UNCHANGED <<managerVars, fromHost, alive, pending, caller, channel, reading, made,
                 missed, cleared>>

\* respond or respondError, in any order; an error that main only logs answers nothing
HostAnswers(p) ==
  /\ \E r \in working[p] :
       /\ working' = [working EXCEPT ![p] = @ \ {r}]
       /\ fromHost' \in {fromHost, [fromHost EXCEPT ![p] = Append(@, r)]}
  /\ UNCHANGED <<managerVars, toHost, alive, pending, caller, channel, reading, made,
                 missed, cleared>>

HostDies(p) ==
  /\ p \in alive
  /\ alive' = alive \ {p}
  /\ toHost' = [toHost EXCEPT ![p] = <<>>]
  /\ working' = [working EXCEPT ![p] = {}]
  /\ UNCHANGED <<managerVars, fromHost, pending, caller, channel, reading, made, missed,
                 cleared>>

\* A reply is removed from the map and sent; nobody receives it if its request is over.
ReaderDelivers(p) ==
  /\ fromHost[p] # <<>>
  /\ LET reply == Head(fromHost[p])
     IN /\ pending' = pending \ {reply.id}
        /\ missed' = IF reply.id \in pending THEN missed ELSE missed \cup {reply.id}
        /\ channel' = IF /\ reply.id \in pending
                         /\ caller.at \in {"write", "await"}
                         /\ caller.req.id = reply.id
                      THEN reply ELSE channel
  /\ fromHost' = [fromHost EXCEPT ![p] = Tail(@)]
  /\ UNCHANGED <<managerVars, toHost, working, alive, caller, reading, made, cleared>>

\* The end of the output empties the map, whosever requests are in it.
ReaderEnds(p) ==
  /\ p \in reading \ alive
  /\ fromHost[p] = <<>>
  /\ reading' = reading \ {p}
  /\ cleared' = cleared \cup pending
  /\ pending' = {}
  /\ UNCHANGED <<managerVars, hostVars, caller, channel, made, missed>>

BridgeNext ==
  \/ \E call \in {"request", "dispose"} : Request(call)
  \/ Insert \/ Write \/ WriteFails \/ Receives \/ GivesUp \/ Kill \/ Clear
  \/ \E p \in Processes : \/ HostReads(p) \/ HostAnswers(p) \/ HostDies(p)
                          \/ ReaderDelivers(p) \/ ReaderEnds(p)

BridgeSpec == BridgeInit /\ [][BridgeNext]_bridgeVars

-----------------------------------------------------------------------------
BridgeTypeOK ==
  /\ child \in Processes \cup {Nobody}
  /\ started \in 0 .. MaxStarts
  /\ nextId \in 1 .. MaxRequests + 1
  /\ pending \subseteq 1 .. MaxRequests
  /\ caller.at \in {"idle", "insert", "write", "await", "kill", "clear"}
  /\ caller.call \in {"request", "dispose"}
  /\ caller.req \in Requests \cup {Nobody}
  /\ channel \in Requests \cup {Nobody}
  /\ toHost \in [Processes -> Seq(Requests)]
  /\ fromHost \in [Processes -> Seq(Requests)]
  /\ working \in [Processes -> SUBSET Requests]
  /\ alive \subseteq reading
  /\ reading \subseteq 1 .. started

\* What the main thread receives is the reply to the very request it waits for, however
\* late the replies to earlier ones come, and from whichever process; and the reply to
\* that request finds its entry in the map, unless the reader of a process that is over
\* has emptied it.
RepliesReachTheirCaller ==
  /\ channel # Nobody => channel = caller.req
  /\ caller.at \in {"write", "await"} /\ caller.req.id \in missed =>
       caller.req.id \in cleared
=============================================================================
