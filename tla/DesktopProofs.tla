---------------------------- MODULE DesktopProofs ----------------------------
(***************************************************************************)
(* What the desktop and its sidecar process guarantee, for any number of   *)
(* processes, requests, runs, selections, events and entries: that a       *)
(* caller receives the reply to its own request, that the traces of        *)
(* overlapping runs tell them, that the panel of traces comes to show the  *)
(* selected one, that the newest notifications are those that are stored,  *)
(* that the event feed loses nothing and stays in order, and that Enter in *)
(* a list runs the best match.  Each component has its inductive           *)
(* invariant, in which its property is embedded.                           *)
(***************************************************************************)
EXTENDS FlowGraphProofs, SequenceTheorems, SidecarBridge, SidecarRuns, TraceDetail,
        Notifications, EventFeed, ListPicker, TLAPS

-----------------------------------------------------------------------------
(* Pipes.                                                                  *)

\* What a pipe holds when something was appended to it, and when its head was taken.
LEMMA Appended ==
  ASSUME NEW S, NEW s \in Seq(S), NEW x \in S
  PROVE  /\ Append(s, x) \in Seq(S)
         /\ DOMAIN Append(s, x) = DOMAIN s \cup {Len(s) + 1} /\ Len(s) + 1 \notin DOMAIN s
         /\ \A i \in DOMAIN s : Append(s, x)[i] = s[i]
         /\ Append(s, x)[Len(s) + 1] = x
OBVIOUS

LEMMA Taken ==
  ASSUME NEW S, NEW s \in Seq(S), s # <<>>
  PROVE  /\ Head(s) \in S /\ Tail(s) \in Seq(S)
         /\ 1 \in DOMAIN s /\ Head(s) = s[1]
         /\ \A i \in DOMAIN Tail(s) : i + 1 \in DOMAIN s /\ Tail(s)[i] = s[i + 1] /\ i \in Nat \ {0}
OBVIOUS

-----------------------------------------------------------------------------
(* The bridge to the sidecar.                                              *)

CallerStates == [at : {"idle", "insert", "write", "await", "kill", "clear"},
            call : {"request", "dispose"}, req : Requests \cup {Nobody}]

BridgeTypes ==
  /\ child \in Processes \cup {Nobody}
  /\ started \in 0 .. MaxStarts
  /\ made \in 0 .. MaxRequests
  /\ nextId = made + 1
  /\ pending \subseteq 1 .. made /\ missed \subseteq 1 .. made /\ cleared \subseteq 1 .. made
  /\ caller \in CallerStates
  /\ channel \in Requests \cup {Nobody}
  /\ toHost \in [Processes -> Seq(Requests)]
  /\ fromHost \in [Processes -> Seq(Requests)]
  /\ working \in [Processes -> SUBSET Requests]
  /\ alive \subseteq reading
  /\ reading \subseteq 1 .. started

\* The requests are numbered as they are made, over all processes.
Numbered(r) == r.id \in 1 .. made /\ r.n = r.id

RequestsNumbered ==
  \A p \in Processes :
    /\ \A i \in DOMAIN toHost[p] : Numbered(toHost[p][i])
    /\ \A r \in working[p] : Numbered(r)
    /\ \A i \in DOMAIN fromHost[p] : Numbered(fromHost[p][i])

\* Where the newest request may be: on its way to a process, worked on, or on its way back.
Holds(p, place) ==
  CASE place = "toHost" -> \E i \in DOMAIN toHost[p] : toHost[p][i].id = made
    [] place = "working" -> \E r \in working[p] : r.id = made
    [] place = "fromHost" -> \E i \in DOMAIN fromHost[p] : fromHost[p][i].id = made

Nowhere == \A p \in Processes : \A place \in {"toHost", "working", "fromHost"} : ~Holds(p, place)

\* It is there once at most.
NewestOnce ==
  /\ \A p, q \in Processes : \A a, b \in {"toHost", "working", "fromHost"} :
       Holds(p, a) /\ Holds(q, b) => p = q /\ a = b
  /\ \A p \in Processes :
       /\ \A i, j \in DOMAIN toHost[p] :
            toHost[p][i].id = made /\ toHost[p][j].id = made => i = j
       /\ \A i, j \in DOMAIN fromHost[p] :
            fromHost[p][i].id = made /\ fromHost[p][j].id = made => i = j

\* The main thread waits for the newest request, which is nowhere before it was written;
\* its entry is in the map until its reply has come or a reader has emptied the map.
CallerWaits ==
  /\ caller.at \in {"insert", "write", "await"} =>
       made # 0 /\ caller.req = [id |-> made, n |-> made]
  /\ caller.at \in {"insert", "write"} => Nowhere
  /\ caller.at = "insert" => made \notin missed
  /\ caller.at \in {"write", "await"} =>
       /\ made \in pending \cup cleared \/ (caller.at = "await" /\ Nowhere)
       /\ made \in missed => made \in cleared
  /\ channel # Nobody => channel = caller.req

BridgeInv ==
  /\ BridgeTypes
  /\ RequestsNumbered
  /\ NewestOnce
  /\ CallerWaits


\* What is neither written nor read leaves the newest request where it is.
LEMMA PipesStay ==
  ASSUME BridgeInv, UNCHANGED <<toHost, fromHost, working, made>>
  PROVE  RequestsNumbered' /\ NewestOnce' /\ Nowhere' = Nowhere
BY DEF BridgeInv, RequestsNumbered, Numbered, NewestOnce, Nowhere, Holds

LEMMA RequestKeeps ==
  ASSUME BridgeInv, NEW call \in {"request", "dispose"}, Request(call)
  PROVE  BridgeInv'
<1>1. /\ caller.at = "idle" /\ made < MaxRequests
      /\ made' = made + 1 /\ nextId' = nextId + 1
      /\ caller' = [at |-> "insert", call |-> call, req |-> [id |-> nextId, n |-> made']]
      /\ channel' = Nobody
      /\ UNCHANGED <<toHost, fromHost, working, pending, missed, cleared>>
  BY DEF Request, FreshId
<1>2. /\ BridgeTypes /\ made \in Nat /\ MaxRequests \in Nat /\ MaxStarts \in Nat /\ started \in Nat
  BY BridgeAssumption DEF BridgeInv, BridgeTypes
<1>3. /\ child' \in Processes \cup {Nobody} /\ started' \in 0 .. MaxStarts
      /\ alive' \subseteq reading' /\ reading' \subseteq 1 .. started'
  <2>1. CASE child # Nobody
    BY <1>2, <2>1 DEF Request, BridgeTypes
  <2>2. CASE child = Nobody
    <3>1. /\ started < MaxStarts /\ started' = started + 1 /\ child' = started'
          /\ alive' = alive \cup {started'} /\ reading' = reading \cup {started'}
      BY <2>2 DEF Request
    <3>2. 1 .. started \subseteq 1 .. started' /\ started' \in 1 .. started' /\ started' \in Processes
      BY <1>2, <3>1 DEF Processes
    <3>3. QED
      BY <1>2, <3>1, <3>2 DEF BridgeTypes
  <2>3. QED
    BY <2>1, <2>2
<1>4. 1 .. made \subseteq 1 .. made' /\ made' \in 1 .. MaxRequests /\ made' \notin 1 .. made
  BY <1>1, <1>2
<1>5. /\ caller' \in CallerStates
      /\ caller'.at = "insert" /\ caller'.req = [id |-> made', n |-> made']
  BY <1>1, <1>2, <1>4 DEF CallerStates, BridgeTypes, Requests
<1>6. BridgeTypes'
  BY <1>1, <1>2, <1>3, <1>4, <1>5 DEF BridgeTypes
<1>7. RequestsNumbered'
  BY <1>1, <1>4 DEF BridgeInv, RequestsNumbered, Numbered
<1>8. /\ \A p \in Processes : \A i \in DOMAIN toHost[p] : toHost[p][i].id # made'
      /\ \A p \in Processes : \A r \in working[p] : r.id # made'
      /\ \A p \in Processes : \A i \in DOMAIN fromHost[p] : fromHost[p][i].id # made'
  BY <1>4 DEF BridgeInv, RequestsNumbered, Numbered
<1>9. Nowhere'
  BY <1>1, <1>8 DEF Nowhere, Holds
<1>10. NewestOnce'
  BY <1>1, <1>8, <1>9 DEF NewestOnce, Nowhere
<1>11. CallerWaits'
  <2>1. made' \notin missed' /\ made' # 0
    BY <1>1, <1>2, <1>4 DEF BridgeTypes
  <2>2. QED
    BY <1>1, <1>5, <1>9, <2>1 DEF CallerWaits
<1>12. QED
  BY <1>6, <1>7, <1>10, <1>11 DEF BridgeInv

\* The main thread goes on to another place with the same request.
LEMMA AtPlace ==
  ASSUME BridgeInv, NEW place \in {"idle", "insert", "write", "await", "kill", "clear"}, caller' = At(place)
  PROVE  caller' \in CallerStates /\ caller'.at = place /\ caller'.req = caller.req /\ caller'.call = caller.call
<1>1. caller \in CallerStates
  BY DEF BridgeInv, BridgeTypes
<1>2. caller' = [caller EXCEPT !.at = place]
  BY DEF At
<1>3. QED
  BY <1>1, <1>2 DEF CallerStates

LEMMA InsertKeeps ==
  ASSUME BridgeInv, Insert
  PROVE  BridgeInv'
<1>1. /\ caller.at = "insert" /\ pending' = pending \cup {caller.req.id}
      /\ caller' = At("write")
      /\ UNCHANGED <<child, started, nextId, toHost, fromHost, working, alive, channel, reading, made, missed, cleared>>
  BY DEF Insert, managerVars, hostVars
<1>2. caller' \in CallerStates /\ caller'.at = "write" /\ caller'.req = caller.req
  BY <1>1, AtPlace
<1>3. made # 0 /\ caller.req = [id |-> made, n |-> made] /\ Nowhere /\ made \notin missed
  BY <1>1 DEF BridgeInv, CallerWaits
<1>4. made \in 1 .. made
  BY <1>3, BridgeAssumption DEF BridgeInv, BridgeTypes
<1>5. BridgeTypes'
  <2>1. BridgeTypes
    BY DEF BridgeInv
  <2>2. pending' \subseteq 1 .. made
    BY <1>1, <1>3, <1>4, <2>1 DEF BridgeTypes
  <2>3. QED
    BY <1>1, <1>2, <2>1, <2>2 DEF BridgeTypes
<1>6. RequestsNumbered' /\ NewestOnce' /\ Nowhere'
  BY <1>1, <1>3, PipesStay
<1>7. CallerWaits'
  BY <1>1, <1>2, <1>3, <1>6 DEF BridgeInv, CallerWaits
<1>8. QED
  BY <1>5, <1>6, <1>7 DEF BridgeInv

LEMMA WriteKeeps ==
  ASSUME BridgeInv, Write
  PROVE  BridgeInv'
<1> DEFINE r == caller.req
<1>1. /\ caller.at = "write" /\ child \in alive
      /\ toHost' = [toHost EXCEPT ![child] = Append(@, r)]
      /\ caller' = At("await")
      /\ UNCHANGED <<child, started, nextId, fromHost, working, alive, pending, channel, reading, made, missed, cleared>>
  BY DEF Write, managerVars
<1>2. /\ BridgeTypes
      /\ caller' \in CallerStates /\ caller'.at = "await" /\ caller'.req = r
  BY <1>1, AtPlace DEF BridgeInv
<1>3. made # 0 /\ r = [id |-> made, n |-> made] /\ Nowhere
  BY <1>1 DEF BridgeInv, CallerWaits
<1>4. made \in 1 .. MaxRequests /\ r \in Requests /\ made \in 1 .. made
  BY <1>2, <1>3, BridgeAssumption DEF BridgeTypes, Requests
<1>5. child \in Processes
  BY <1>1, <1>2, BridgeAssumption DEF BridgeTypes, Processes
<1> DEFINE s == toHost[child]
<1> HIDE DEF r
<1>6. /\ toHost' \in [Processes -> Seq(Requests)]
      /\ \A p \in Processes : p # child => toHost'[p] = toHost[p]
      /\ toHost'[child] = Append(s, r)
  BY <1>1, <1>2, <1>4, <1>5 DEF BridgeTypes
<1>7. s \in Seq(Requests)
  BY <1>2, <1>5 DEF BridgeTypes
<1> HIDE DEF s
<1>8. /\ DOMAIN toHost'[child] = DOMAIN s \cup {Len(s) + 1} /\ Len(s) + 1 \notin DOMAIN s
      /\ \A i \in DOMAIN s : toHost'[child][i] = s[i]
      /\ toHost'[child][Len(s) + 1] = r
  BY <1>4, <1>6, <1>7, Appended
<1>9. BridgeTypes'
  BY <1>1, <1>2, <1>6 DEF BridgeTypes
<1>10. RequestsNumbered'
  <2>1. \A i \in DOMAIN toHost'[child] : toHost'[child][i].id \in 1 .. made /\ toHost'[child][i].n = toHost'[child][i].id
    BY <1>3, <1>4, <1>5, <1>8 DEF BridgeInv, RequestsNumbered, Numbered, s
  <2>2. QED
    BY <1>1, <1>6, <2>1 DEF BridgeInv, RequestsNumbered, Numbered
<1>11. NewestOnce'
  <2>1. /\ \A p \in Processes : \A i \in DOMAIN toHost[p] : toHost[p][i].id # made
        /\ \A p \in Processes : \A q \in working[p] : q.id # made
        /\ \A p \in Processes : \A i \in DOMAIN fromHost[p] : fromHost[p][i].id # made
    BY <1>3 DEF Nowhere, Holds
  <2>2. \A i \in DOMAIN toHost'[child] : toHost'[child][i].id = made => i = Len(s) + 1
    BY <1>5, <1>8, <2>1 DEF s
  <2>3. \A p \in Processes : \A a \in {"toHost", "working", "fromHost"} :
          Holds(p, a)' => p = child /\ a = "toHost"
    BY <1>1, <1>6, <2>1 DEF Holds
  <2>4. \A p \in Processes :
          /\ \A i, j \in DOMAIN toHost'[p] :
               toHost'[p][i].id = made' /\ toHost'[p][j].id = made' => i = j
          /\ \A i, j \in DOMAIN fromHost'[p] :
               fromHost'[p][i].id = made' /\ fromHost'[p][j].id = made' => i = j
    BY <1>1, <1>6, <2>1, <2>2
  <2>5. QED
    BY <2>3, <2>4 DEF NewestOnce
<1>12. CallerWaits'
  <2>1. made \in pending \cup cleared /\ (made \in missed => made \in cleared)
    BY <1>1 DEF BridgeInv, CallerWaits
  <2>2. channel # Nobody => channel = r
    BY DEF BridgeInv, CallerWaits, r
  <2>3. QED
    BY <1>1, <1>2, <1>3, <2>1, <2>2 DEF CallerWaits
<1>13. QED
  BY <1>9, <1>10, <1>11, <1>12 DEF BridgeInv

\* The main thread leaves a request behind, or comes back from it.
LEMMA CallerLeaves ==
  ASSUME BridgeInv, BridgeTypes', UNCHANGED <<toHost, fromHost, working, made, channel>>,
         NEW place \in {"idle", "kill", "clear"}, caller' = At(place)
  PROVE  BridgeInv'
<1>1. caller'.at = place /\ caller'.req = caller.req
  BY AtPlace
<1>2. RequestsNumbered' /\ NewestOnce'
  BY PipesStay
<1>3. CallerWaits'
  BY <1>1 DEF BridgeInv, CallerWaits
<1>4. QED
  BY <1>2, <1>3 DEF BridgeInv

LEMMA EndsKeeps ==
  ASSUME BridgeInv, Ends
  PROVE  BridgeInv'
<1>1. PICK place \in {"kill", "idle"} : caller' = At(place)
  BY DEF Ends
<1>2. UNCHANGED <<child, started, nextId, toHost, fromHost, working, alive, pending, channel, reading,
                  made, missed, cleared>>
  BY DEF Ends, managerVars, hostVars
<1>3. caller' \in CallerStates
  BY <1>1, AtPlace
<1>4. BridgeTypes'
  BY <1>2, <1>3 DEF BridgeInv, BridgeTypes
<1>5. QED
  BY <1>1, <1>2, <1>4, CallerLeaves

LEMMA ClearKeeps ==
  ASSUME BridgeInv, Clear
  PROVE  BridgeInv'
<1>1. /\ pending' = {} /\ caller' = At("idle")
      /\ UNCHANGED <<child, started, nextId, toHost, fromHost, working, alive, channel, reading,
                     made, missed, cleared>>
  BY DEF Clear, managerVars, hostVars
<1>2. caller' \in CallerStates
  BY <1>1, AtPlace
<1>3. BridgeTypes'
  BY <1>1, <1>2 DEF BridgeInv, BridgeTypes
<1>4. QED
  BY <1>1, <1>3, CallerLeaves

\* What a process that is over was sent or worked on is lost; what it has written is not.
LEMMA ProcessOver ==
  ASSUME BridgeInv, NEW p, UNCHANGED <<fromHost, made>>,
         toHost' = [toHost EXCEPT ![p] = <<>>], working' = [working EXCEPT ![p] = {}]
  PROVE  /\ toHost' \in [Processes -> Seq(Requests)]
         /\ working' \in [Processes -> SUBSET Requests]
         /\ RequestsNumbered' /\ NewestOnce' /\ (Nowhere => Nowhere')
<1>1. toHost \in [Processes -> Seq(Requests)] /\ working \in [Processes -> SUBSET Requests]
  BY DEF BridgeInv, BridgeTypes
<1>2. \A q \in Processes :
        IF q = p THEN toHost'[q] = <<>> /\ working'[q] = {}
                 ELSE toHost'[q] = toHost[q] /\ working'[q] = working[q]
  <2>1. DOMAIN toHost = Processes /\ DOMAIN working = Processes
    BY <1>1
  <2>2. QED
    BY <2>1
<1>3. toHost' \in [Processes -> Seq(Requests)] /\ working' \in [Processes -> SUBSET Requests]
  <2>1. <<>> \in Seq(Requests) /\ {} \in SUBSET Requests
    OBVIOUS
  <2>2. \A q \in Processes : toHost'[q] \in Seq(Requests)
    BY <1>1, <1>2, <2>1
  <2>3. \A q \in Processes : working'[q] \in SUBSET Requests
    BY <1>1, <1>2, <2>1
  <2>4. toHost' = [q \in Processes |-> toHost'[q]] /\ working' = [q \in Processes |-> working'[q]]
    BY <1>1
  <2>5. QED
    BY <2>2, <2>3, <2>4
<1>4. \A q \in Processes : DOMAIN toHost'[q] = {} \/ (q # p /\ toHost'[q] = toHost[q])
  BY <1>2
<1>5. \A q \in Processes : \A r \in working'[q] : r \in working[q]
  BY <1>2
<1>6. \A q \in Processes : \A a \in {"toHost", "working", "fromHost"} : Holds(q, a)' => Holds(q, a)
  BY <1>4, <1>5 DEF Holds
<1>7. RequestsNumbered'
  BY <1>4, <1>5 DEF BridgeInv, RequestsNumbered, Numbered
<1>8. NewestOnce'
  BY <1>4, <1>6 DEF BridgeInv, NewestOnce
<1>9. QED
  BY <1>3, <1>6, <1>7, <1>8 DEF Nowhere

LEMMA KillKeeps ==
  ASSUME BridgeInv, Kill
  PROVE  BridgeInv'
<1>1. /\ alive' = alive \ {child} /\ child' = Nobody /\ caller' = At("clear")
      /\ toHost' = [toHost EXCEPT ![child] = <<>>] /\ working' = [working EXCEPT ![child] = {}]
      /\ UNCHANGED <<started, nextId, fromHost, pending, channel, reading, made, missed, cleared>>
  BY DEF Kill
<1>2. caller' \in CallerStates /\ caller'.at = "clear" /\ caller'.req = caller.req
  BY <1>1, AtPlace
<1>3. /\ toHost' \in [Processes -> Seq(Requests)] /\ working' \in [Processes -> SUBSET Requests]
      /\ RequestsNumbered' /\ NewestOnce'
  BY <1>1, ProcessOver
<1>4. BridgeTypes'
  BY <1>1, <1>2, <1>3 DEF BridgeInv, BridgeTypes
<1>5. CallerWaits'
  BY <1>1, <1>2 DEF BridgeInv, CallerWaits
<1>6. QED
  BY <1>3, <1>4, <1>5 DEF BridgeInv

LEMMA HostDiesKeeps ==
  ASSUME BridgeInv, NEW p \in Processes, HostDies(p)
  PROVE  BridgeInv'
<1>1. /\ alive' = alive \ {p}
      /\ toHost' = [toHost EXCEPT ![p] = <<>>] /\ working' = [working EXCEPT ![p] = {}]
      /\ UNCHANGED <<child, started, nextId, fromHost, pending, caller, channel, reading, made,
                     missed, cleared>>
  BY DEF HostDies, managerVars
<1>2. /\ toHost' \in [Processes -> Seq(Requests)] /\ working' \in [Processes -> SUBSET Requests]
      /\ RequestsNumbered' /\ NewestOnce' /\ (Nowhere => Nowhere')
  BY <1>1, ProcessOver
<1>3. BridgeTypes'
  BY <1>1, <1>2 DEF BridgeInv, BridgeTypes
<1>4. CallerWaits'
  BY <1>1, <1>2 DEF BridgeInv, CallerWaits
<1>5. QED
  BY <1>2, <1>3, <1>4 DEF BridgeInv

\* A process reads or answers: the newest request is in at most one place still.
LEMMA HostReadsKeeps ==
  ASSUME BridgeInv, NEW p \in Processes, HostReads(p)
  PROVE  BridgeInv'
<1> DEFINE s == toHost[p]
<1>1. /\ s # <<>>
      /\ working' = [working EXCEPT ![p] = @ \cup {Head(s)}]
      /\ toHost' = [toHost EXCEPT ![p] = Tail(@)]
      /\ UNCHANGED <<child, started, nextId, fromHost, alive, pending, caller, channel, reading,
                     made, missed, cleared>>
  BY DEF HostReads, managerVars
<1>2. BridgeTypes
  BY DEF BridgeInv
<1>3. s \in Seq(Requests)
  BY <1>2 DEF BridgeTypes
<1>4. /\ toHost'[p] = Tail(s) /\ working'[p] = working[p] \cup {Head(s)}
      /\ \A q \in Processes : q # p => toHost'[q] = toHost[q] /\ working'[q] = working[q]
  BY <1>1, <1>2 DEF BridgeTypes
<1> HIDE DEF s
<1>5. /\ Head(s) \in Requests /\ Tail(s) \in Seq(Requests)
      /\ 1 \in DOMAIN s /\ Head(s) = s[1]
      /\ \A i \in DOMAIN Tail(s) : i + 1 \in DOMAIN s /\ Tail(s)[i] = s[i + 1] /\ i \in Nat \ {0}
  BY <1>1, <1>3, Taken
<1>6. BridgeTypes'
  <2>1. toHost' \in [Processes -> Seq(Requests)]
    BY <1>1, <1>2, <1>5 DEF BridgeTypes, s
  <2>2. working' \in [Processes -> SUBSET Requests]
    BY <1>1, <1>2, <1>5 DEF BridgeTypes
  <2>3. QED
    BY <1>1, <1>2, <2>1, <2>2 DEF BridgeTypes
<1>7. /\ \A i \in DOMAIN s : Numbered(s[i])
      /\ \A i, j \in DOMAIN s : s[i].id = made /\ s[j].id = made => i = j
      /\ \A i \in DOMAIN s : s[i].id = made => Holds(p, "toHost")
  BY DEF BridgeInv, RequestsNumbered, NewestOnce, Holds, s
<1>8. RequestsNumbered'
  BY <1>1, <1>4, <1>5, <1>7 DEF BridgeInv, RequestsNumbered, Numbered
<1>9. /\ Holds(p, "working")' => Holds(p, "working") \/ Head(s).id = made
      /\ Holds(p, "toHost")' => Holds(p, "toHost") /\ Head(s).id # made
      /\ Holds(p, "fromHost")' = Holds(p, "fromHost")
      /\ Head(s).id = made => Holds(p, "toHost")
  <2>1. Holds(p, "working")' => Holds(p, "working") \/ Head(s).id = made
    BY <1>1, <1>4 DEF Holds
  <2>2. Holds(p, "toHost")' => Holds(p, "toHost") /\ Head(s).id # made
    <3> SUFFICES ASSUME NEW i \in DOMAIN Tail(s), Tail(s)[i].id = made
                 PROVE  Holds(p, "toHost") /\ Head(s).id # made
      BY <1>1, <1>4 DEF Holds
    <3>1. i + 1 \in DOMAIN s /\ s[i + 1].id = made /\ i + 1 # 1
      BY <1>5
    <3>2. QED
      BY <1>5, <1>7, <3>1
  <2>3. Holds(p, "fromHost")' = Holds(p, "fromHost")
    BY <1>1 DEF Holds
  <2>4. QED
    BY <1>5, <1>7, <2>1, <2>2, <2>3
<1>10. \A q \in Processes : q # p => \A a \in {"toHost", "working", "fromHost"} : Holds(q, a)' = Holds(q, a)
  BY <1>1, <1>4 DEF Holds
<1>11. NewestOnce'
  <2>1. \A q, r \in Processes : \A a, b \in {"toHost", "working", "fromHost"} :
          Holds(q, a)' /\ Holds(r, b)' => q = r /\ a = b
    BY <1>9, <1>10 DEF BridgeInv, NewestOnce
  <2>2. \A q \in Processes :
          /\ \A i, j \in DOMAIN toHost'[q] :
               toHost'[q][i].id = made' /\ toHost'[q][j].id = made' => i = j
          /\ \A i, j \in DOMAIN fromHost'[q] :
               fromHost'[q][i].id = made' /\ fromHost'[q][j].id = made' => i = j
    <3>1. \A i, j \in DOMAIN Tail(s) : Tail(s)[i].id = made /\ Tail(s)[j].id = made => i = j
      <4> SUFFICES ASSUME NEW i \in DOMAIN Tail(s), NEW j \in DOMAIN Tail(s),
                          Tail(s)[i].id = made, Tail(s)[j].id = made
                   PROVE  i = j
        OBVIOUS
      <4>1. i + 1 = j + 1 /\ i \in Nat /\ j \in Nat
        BY <1>5, <1>7
      <4>2. QED
        BY <4>1
    <3>2. QED
      BY <1>1, <1>4, <3>1 DEF BridgeInv, NewestOnce
  <2>3. QED
    BY <2>1, <2>2 DEF NewestOnce
<1>12. Nowhere => Nowhere'
  BY <1>9, <1>10 DEF Nowhere
<1>13. CallerWaits'
  BY <1>1, <1>12 DEF BridgeInv, CallerWaits
<1>14. QED
  BY <1>6, <1>8, <1>11, <1>13 DEF BridgeInv

LEMMA HostAnswersKeeps ==
  ASSUME BridgeInv, NEW p \in Processes, HostAnswers(p)
  PROVE  BridgeInv'
<1> DEFINE s == fromHost[p]
<1>1. PICK r \in working[p] :
        /\ working' = [working EXCEPT ![p] = @ \ {r}]
        /\ fromHost' \in {fromHost, [fromHost EXCEPT ![p] = Append(@, r)]}
  BY DEF HostAnswers
<1>2. /\ BridgeTypes
      /\ UNCHANGED <<child, started, nextId, toHost, alive, pending, caller, channel, reading, made,
                     missed, cleared>>
  BY DEF BridgeInv, HostAnswers, managerVars
<1>3. s \in Seq(Requests) /\ r \in Requests
  BY <1>2 DEF BridgeTypes
<1>4. /\ working'[p] = working[p] \ {r}
      /\ fromHost'[p] = s \/ fromHost'[p] = Append(s, r)
      /\ \A q \in Processes : q # p => fromHost'[q] = fromHost[q] /\ working'[q] = working[q]
  <2>1. DOMAIN fromHost = Processes /\ DOMAIN working = Processes
    BY <1>2 DEF BridgeTypes
  <2>2. QED
    BY <1>1, <2>1
<1> HIDE DEF s
<1>5. /\ Append(s, r) \in Seq(Requests)
      /\ DOMAIN Append(s, r) = DOMAIN s \cup {Len(s) + 1} /\ Len(s) + 1 \notin DOMAIN s
      /\ \A i \in DOMAIN s : Append(s, r)[i] = s[i]
      /\ Append(s, r)[Len(s) + 1] = r
  BY <1>3, Appended
<1>6. BridgeTypes'
  <2>1. fromHost' \in [Processes -> Seq(Requests)]
    BY <1>1, <1>2, <1>5 DEF BridgeTypes, s
  <2>2. working' \in [Processes -> SUBSET Requests]
    BY <1>1, <1>2 DEF BridgeTypes
  <2>3. QED
    BY <1>2, <2>1, <2>2 DEF BridgeTypes
<1>7. /\ \A i \in DOMAIN s : Numbered(s[i])
      /\ Numbered(r) /\ \A q \in working[p] : Numbered(q)
      /\ \A i, j \in DOMAIN s : s[i].id = made /\ s[j].id = made => i = j
      /\ r.id = made => Holds(p, "working")
      /\ \A i \in DOMAIN s : s[i].id = made => Holds(p, "fromHost")
  BY DEF BridgeInv, RequestsNumbered, NewestOnce, Holds, s
<1>8. Numbered(r) => (\A q \in Requests : Numbered(q) /\ q.id = r.id => q = r)
  BY <1>3 DEF Numbered, Requests
<1>9. ~(Holds(p, "working") /\ Holds(p, "fromHost"))
  BY DEF BridgeInv, NewestOnce
<1>10. RequestsNumbered'
  <2>1. \A i \in DOMAIN fromHost'[p] : Numbered(fromHost'[p][i])
    BY <1>4, <1>5, <1>7
  <2>2. QED
    BY <1>2, <1>4, <2>1 DEF BridgeInv, RequestsNumbered, Numbered
<1>11. /\ Holds(p, "working")' => Holds(p, "working") /\ r.id # made
       /\ Holds(p, "fromHost")' => Holds(p, "fromHost") \/ r.id = made
       /\ Holds(p, "toHost")' = Holds(p, "toHost")
  <2>1. Holds(p, "working")' => Holds(p, "working") /\ r.id # made
    <3> SUFFICES ASSUME NEW q \in working[p] \ {r}, q.id = made
                 PROVE  Holds(p, "working") /\ r.id # made
      BY <1>2, <1>4 DEF Holds
    <3>1. q \in Requests /\ Numbered(q)
      BY <1>2, <1>7 DEF BridgeTypes
    <3>2. QED
      BY <1>7, <1>8, <3>1 DEF Holds
  <2>2. Holds(p, "fromHost")' => Holds(p, "fromHost") \/ r.id = made
    BY <1>2, <1>4, <1>5, <1>7 DEF Holds
  <2>3. Holds(p, "toHost")' = Holds(p, "toHost")
    BY <1>2 DEF Holds
  <2>4. QED
    BY <2>1, <2>2, <2>3
<1>12. \A q \in Processes : q # p => \A a \in {"toHost", "working", "fromHost"} : Holds(q, a)' = Holds(q, a)
  BY <1>2, <1>4 DEF Holds
<1>13. NewestOnce'
  <2>1. \A q, t \in Processes : \A a, b \in {"toHost", "working", "fromHost"} :
          Holds(q, a)' /\ Holds(t, b)' => q = t /\ a = b
    BY <1>7, <1>11, <1>12 DEF BridgeInv, NewestOnce
  <2>2. \A i, j \in DOMAIN fromHost'[p] :
          fromHost'[p][i].id = made /\ fromHost'[p][j].id = made => i = j
    BY <1>4, <1>5, <1>7, <1>9, SMTT(30)
  <2>3. QED
    BY <1>2, <1>4, <2>1, <2>2 DEF BridgeInv, NewestOnce
<1>14. Nowhere => Nowhere'
  BY <1>7, <1>11, <1>12 DEF Nowhere
<1>15. CallerWaits'
  BY <1>2, <1>14 DEF BridgeInv, CallerWaits
<1>16. QED
  BY <1>6, <1>10, <1>13, <1>15 DEF BridgeInv

\* A reply that is delivered is nowhere any more; if it is the newest request's, its
\* caller has it, or the map was emptied before.
LEMMA ReaderDeliversKeeps ==
  ASSUME BridgeInv, NEW p \in Processes, ReaderDelivers(p)
  PROVE  BridgeInv'
<1> DEFINE s == fromHost[p]
           reply == Head(s)
<1>1. /\ s # <<>>
      /\ pending' = pending \ {reply.id}
      /\ missed' = IF reply.id \in pending THEN missed ELSE missed \cup {reply.id}
      /\ channel' = IF /\ reply.id \in pending
                       /\ caller.at \in {"write", "await"}
                       /\ caller.req.id = reply.id
                    THEN reply ELSE channel
      /\ fromHost' = [fromHost EXCEPT ![p] = Tail(@)]
      /\ UNCHANGED <<child, started, nextId, toHost, working, alive, caller, reading, made, cleared>>
  BY DEF ReaderDelivers, managerVars
<1>2. BridgeTypes
  BY DEF BridgeInv
<1>3. s \in Seq(Requests)
  BY <1>2 DEF BridgeTypes
<1>4. /\ fromHost'[p] = Tail(s)
      /\ \A q \in Processes : q # p => fromHost'[q] = fromHost[q]
  BY <1>1, <1>2 DEF BridgeTypes
<1> HIDE DEF s
<1>5. /\ reply \in Requests /\ Tail(s) \in Seq(Requests)
      /\ 1 \in DOMAIN s /\ reply = s[1]
      /\ \A i \in DOMAIN Tail(s) : i + 1 \in DOMAIN s /\ Tail(s)[i] = s[i + 1] /\ i \in Nat \ {0}
  BY <1>1, <1>3, Taken
<1>6. /\ \A i \in DOMAIN s : Numbered(s[i])
      /\ \A i, j \in DOMAIN s : s[i].id = made /\ s[j].id = made => i = j
      /\ \A i \in DOMAIN s : s[i].id = made => Holds(p, "fromHost")
  BY DEF BridgeInv, RequestsNumbered, NewestOnce, Holds, s
<1> HIDE DEF reply
<1>7. Numbered(reply) /\ (reply.id = made => Holds(p, "fromHost"))
  BY <1>5, <1>6
<1>8. BridgeTypes'
  <2>1. fromHost' \in [Processes -> Seq(Requests)]
    BY <1>1, <1>2, <1>5 DEF BridgeTypes, s
  <2>2. missed' \subseteq 1 .. made /\ pending' \subseteq 1 .. made /\ channel' \in Requests \cup {Nobody}
    BY <1>1, <1>2, <1>5, <1>7 DEF BridgeTypes, Numbered
  <2>3. QED
    BY <1>1, <1>2, <2>1, <2>2 DEF BridgeTypes
<1>9. RequestsNumbered'
  BY <1>1, <1>4, <1>5, <1>6 DEF BridgeInv, RequestsNumbered, Numbered
<1>10. /\ Holds(p, "fromHost")' => Holds(p, "fromHost") /\ reply.id # made
       /\ \A a \in {"toHost", "working"} : Holds(p, a)' = Holds(p, a)
       /\ \A q \in Processes : q # p => \A a \in {"toHost", "working", "fromHost"} : Holds(q, a)' = Holds(q, a)
  <2>1. Holds(p, "fromHost")' => Holds(p, "fromHost") /\ reply.id # made
    <3> SUFFICES ASSUME NEW i \in DOMAIN Tail(s), Tail(s)[i].id = made
                 PROVE  Holds(p, "fromHost") /\ reply.id # made
      BY <1>1, <1>4 DEF Holds
    <3>1. i + 1 \in DOMAIN s /\ s[i + 1].id = made /\ i + 1 # 1
      BY <1>5
    <3>2. QED
      BY <1>5, <1>6, <3>1
  <2>2. /\ \A a \in {"toHost", "working"} : Holds(p, a)' = Holds(p, a)
        /\ \A q \in Processes : q # p => \A a \in {"toHost", "working", "fromHost"} : Holds(q, a)' = Holds(q, a)
    BY <1>1, <1>4 DEF Holds
  <2>3. QED
    BY <2>1, <2>2
<1>11. NewestOnce'
  <2>1. \A q, t \in Processes : \A a, b \in {"toHost", "working", "fromHost"} :
          Holds(q, a)' /\ Holds(t, b)' => q = t /\ a = b
    <3>1. \A q \in Processes : \A a \in {"toHost", "working", "fromHost"} : Holds(q, a)' => Holds(q, a)
      BY <1>10
    <3>2. QED
      BY <3>1 DEF BridgeInv, NewestOnce
  <2>2. \A i, j \in DOMAIN Tail(s) : Tail(s)[i].id = made /\ Tail(s)[j].id = made => i = j
    <3> SUFFICES ASSUME NEW i \in DOMAIN Tail(s), NEW j \in DOMAIN Tail(s),
                        Tail(s)[i].id = made, Tail(s)[j].id = made
                 PROVE  i = j
      OBVIOUS
    <3>1. i + 1 = j + 1 /\ i \in Nat /\ j \in Nat
      BY <1>5, <1>6
    <3>2. QED
      BY <3>1
  <2>3. QED
    BY <1>1, <1>4, <2>1, <2>2 DEF BridgeInv, NewestOnce
<1>12. Nowhere => Nowhere'
  BY <1>10 DEF Nowhere
<1>13. reply.id = made => Nowhere'
  BY <1>7, <1>10 DEF BridgeInv, NewestOnce, Nowhere
<1>14. CallerWaits'
  <2>1. CASE reply.id = made
    <3>1. ~Nowhere
      BY <1>7, <2>1 DEF Nowhere
    <3>2. caller.at \notin {"insert", "write"}
      BY <3>1 DEF BridgeInv, CallerWaits
    <3>3. CASE caller.at = "await"
      <4>1. caller.req = [id |-> made, n |-> made]
        BY <3>3 DEF BridgeInv, CallerWaits
      <4>2. caller.req = reply
        BY <1>5, <1>7, <2>1, <4>1 DEF Numbered, Requests
      <4>3. made \in missed' => made \in cleared
        BY <1>1, <2>1, <3>1, <3>3 DEF BridgeInv, CallerWaits
      <4>4. channel' # Nobody => channel' = caller.req
        BY <1>1, <4>2 DEF BridgeInv, CallerWaits
      <4>5. made # 0
        BY <3>3 DEF BridgeInv, CallerWaits
      <4>6. QED
        BY <1>1, <1>13, <2>1, <3>3, <4>1, <4>3, <4>4, <4>5 DEF CallerWaits
    <3>4. CASE caller.at # "await"
      BY <1>1, <3>2, <3>4 DEF BridgeInv, CallerWaits
    <3>5. QED
      BY <3>3, <3>4
  <2>2. CASE reply.id # made
    <3>1. made \in pending => made \in pending'
      BY <1>1, <2>2
    <3>2. made \in missed' => made \in missed
      BY <1>1, <2>2
    <3>3. caller.at \in {"write", "await"} => caller.req.id # reply.id
      BY <2>2 DEF BridgeInv, CallerWaits
    <3>4. channel' = channel
      BY <1>1, <3>3
    <3>5. QED
      BY <1>1, <1>12, <3>1, <3>2, <3>4 DEF BridgeInv, CallerWaits
  <2>3. QED
    BY <2>1, <2>2
<1>15. QED
  BY <1>8, <1>9, <1>11, <1>14 DEF BridgeInv

LEMMA ReaderEndsKeeps ==
  ASSUME BridgeInv, NEW p \in Processes, ReaderEnds(p)
  PROVE  BridgeInv'
<1>1. /\ p \in reading \ alive
      /\ reading' = reading \ {p} /\ cleared' = cleared \cup pending /\ pending' = {}
      /\ UNCHANGED <<child, started, nextId, toHost, fromHost, working, alive, caller, channel, made, missed>>
  BY DEF ReaderEnds, managerVars, hostVars
<1>2. BridgeTypes'
  BY <1>1 DEF BridgeInv, BridgeTypes
<1>3. RequestsNumbered' /\ NewestOnce' /\ Nowhere' = Nowhere
  BY <1>1, PipesStay
<1>4. CallerWaits'
  BY <1>1, <1>3 DEF BridgeInv, CallerWaits
<1>5. QED
  BY <1>2, <1>3, <1>4 DEF BridgeInv

LEMMA BridgeStep == BridgeInv /\ [BridgeNext]_bridgeVars => BridgeInv'
<1> SUFFICES ASSUME BridgeInv, [BridgeNext]_bridgeVars
             PROVE  BridgeInv'
  OBVIOUS
<1>1. CASE UNCHANGED bridgeVars
  <2>1. UNCHANGED <<child, started, nextId, pending, caller, channel, toHost, fromHost, working, alive,
                    reading, made, missed, cleared>>
    BY <1>1 DEF bridgeVars, managerVars, hostVars
  <2>2. RequestsNumbered' /\ NewestOnce' /\ Nowhere' = Nowhere
    BY <2>1, PipesStay
  <2>3. BridgeTypes' /\ CallerWaits'
    BY <2>1, <2>2 DEF BridgeInv, BridgeTypes, CallerWaits
  <2>4. QED
    BY <2>2, <2>3 DEF BridgeInv
<1>2. CASE \E call \in {"request", "dispose"} : Request(call)
  BY <1>2, RequestKeeps
<1>3. CASE Insert \/ Write \/ WriteFails \/ Receives \/ GivesUp \/ Kill \/ Clear
  BY <1>3, InsertKeeps, WriteKeeps, EndsKeeps, KillKeeps, ClearKeeps DEF WriteFails, Receives, GivesUp
<1>4. CASE \E p \in Processes : \/ HostReads(p) \/ HostAnswers(p) \/ HostDies(p)
                                \/ ReaderDelivers(p) \/ ReaderEnds(p)
  BY <1>4, HostReadsKeeps, HostAnswersKeeps, HostDiesKeeps, ReaderDeliversKeeps, ReaderEndsKeeps
<1>5. QED
  BY <1>1, <1>2, <1>3, <1>4 DEF BridgeNext

\* The inductive invariant of the bridge holds through the deaths and restarts of the sidecar.
LEMMA BridgeIsSound == BridgeSpec => []BridgeInv
<1>1. BridgeInit => BridgeInv
  <2> SUFFICES ASSUME BridgeInit
               PROVE  BridgeInv
    OBVIOUS
  <2>1. BridgeTypes
    BY BridgeAssumption DEF BridgeInit, BridgeTypes, CallerStates
  <2>2. RequestsNumbered /\ NewestOnce /\ CallerWaits
    BY DEF BridgeInit, RequestsNumbered, NewestOnce, CallerWaits, Holds
  <2>3. QED
    BY <2>1, <2>2 DEF BridgeInv
<1>2. BridgeInv /\ [BridgeNext]_bridgeVars => BridgeInv'
  BY BridgeStep
<1>3. QED
  BY <1>1, <1>2, PTL DEF BridgeSpec

\* What the main thread receives is the reply to the very request it waits for, and that
\* reply finds its entry in the map, for any number of processes and requests: the
\* numbers outlive the processes, and the newest request is in one place at most.
THEOREM RepliesAreTheCallers == BridgeSpec => []RepliesReachTheirCaller
<1>1. BridgeInv => RepliesReachTheirCaller
  BY DEF BridgeInv, CallerWaits, RepliesReachTheirCaller
<1>2. QED
  BY <1>1, BridgeIsSound, PTL

\* Requests are numbered within their bound, and a live process has its reader.
THEOREM BridgeTypesHold == BridgeSpec => []BridgeTypeOK
<1>1. BridgeInv => BridgeTypeOK
  BY BridgeAssumption DEF BridgeInv, BridgeTypes, BridgeTypeOK, CallerStates
<1>2. QED
  BY <1>1, BridgeIsSound, PTL

-----------------------------------------------------------------------------
(* The runs of the sidecar process.                                        *)

RowStatuses == {"ok", "error", "skipped", "paused", "cancelled"}
SpanStatuses == {"ok", "error", "skipped", "paused", "cancelled"}
Rows == [traceId : Traces, status : RowStatuses]

TraceTypes ==
  /\ runner \in BOOLEAN
  /\ traceRows \in Seq(Rows)
  /\ traceSpans \in Seq(Seq(SpanStatuses))
  /\ visited \in Seq(Seq(NodeOutcomes))
  /\ outcomeOf \in Seq(Results \cup {NoResult, "rejected"})
  /\ acknowledged \in Seq(Nat)

\* Every run has its entry in each of the tables, and the rows are newest first.
TablesAgree ==
  /\ Len(traceSpans) = Len(traceRows) /\ Len(visited) = Len(traceRows)
  /\ Len(outcomeOf) = Len(traceRows) /\ Len(acknowledged) = Len(traceRows)
  /\ Len(traceRows) <= MaxTraces
  /\ activeControllers \subseteq 1 .. Len(traceRows)
  /\ signalled \subseteq 1 .. Len(traceRows)
  /\ \A i \in 1 .. Len(traceRows) : traceRows[i].traceId = Len(traceRows) + 1 - i

\* A list of spans tells the nodes visited: one span for each, after the root.
Tells(marks, nodes) == \A n \in 1 .. Len(nodes) : marks[n + 1] = outcomeStatus(nodes[n])

\* A run that goes on has one span more, of the node it is at.
GoesOn(marks, nodes) ==
  Len(marks) = Len(nodes) + 2 /\ Len(nodes) + 1 <= FlowLength /\ Tells(marks, nodes)

IsTold(marks, nodes, result, row) ==
  /\ Len(marks) = Len(nodes) + 1 /\ Tells(marks, nodes)
  /\ marks[1] = spanRootStatusFromRun(result)
  /\ row.status = spanRootStatusFromRun(result)

\* A run that came to its end was skipped exactly when all its nodes were.
EndsAs(nodes, result) ==
  result \in {"completed", "skipped"} => (result = "skipped" <=> AllSkipped(nodes))

Told(t) ==
  /\ t \in activeControllers <=> outcomeOf[t] = NoResult
  /\ outcomeOf[t] = NoResult => GoesOn(traceSpans[t], visited[t])
  /\ outcomeOf[t] \in Results =>
       IsTold(traceSpans[t], visited[t], outcomeOf[t], traceRows[Len(traceRows) + 1 - t])
  /\ EndsAs(visited[t], outcomeOf[t])
  /\ t \notin signalled => acknowledged[t] = FlowLength
  /\ Len(traceSpans[t]) - 1 <= acknowledged[t]

TracesInv == TraceTypes /\ TablesAgree /\ \A t \in 1 .. Len(traceRows) : Told(t)

\* What a table holds when one entry was replaced.
LEMMA Replaced ==
  ASSUME NEW S, NEW s \in Seq(S), NEW i \in 1 .. Len(s), NEW x \in S
  PROVE  /\ [s EXCEPT ![i] = x] \in Seq(S) /\ Len([s EXCEPT ![i] = x]) = Len(s)
         /\ \A j \in 1 .. Len(s) : [s EXCEPT ![i] = x][j] = IF j = i THEN x ELSE s[j]
OBVIOUS

\* The tables have the same entries, of their types.
LEMMA TablesTyped ==
  ASSUME TracesInv
  PROVE  /\ TraceTypes /\ TablesAgree /\ Len(traceRows) \in Nat
         /\ DOMAIN traceRows = 1 .. Len(traceRows) /\ DOMAIN traceSpans = 1 .. Len(traceRows)
         /\ DOMAIN visited = 1 .. Len(traceRows) /\ DOMAIN outcomeOf = 1 .. Len(traceRows)
         /\ DOMAIN acknowledged = 1 .. Len(traceRows)
         /\ \A t \in 1 .. Len(traceRows) :
              /\ Told(t) /\ traceSpans[t] \in Seq(SpanStatuses) /\ visited[t] \in Seq(NodeOutcomes)
              /\ traceRows[t] \in Rows /\ acknowledged[t] \in Nat
<1>1. TraceTypes /\ TablesAgree /\ \A t \in 1 .. Len(traceRows) : Told(t)
  BY DEF TracesInv
<1>2. /\ traceRows \in Seq(Rows) /\ traceSpans \in Seq(Seq(SpanStatuses)) /\ visited \in Seq(Seq(NodeOutcomes))
      /\ outcomeOf \in Seq(Results \cup {NoResult, "rejected"}) /\ acknowledged \in Seq(Nat)
  BY <1>1 DEF TraceTypes
<1>3. /\ Len(traceSpans) = Len(traceRows) /\ Len(visited) = Len(traceRows)
      /\ Len(outcomeOf) = Len(traceRows) /\ Len(acknowledged) = Len(traceRows)
  BY <1>1 DEF TablesAgree
<1>4. Len(traceRows) \in Nat /\ DOMAIN traceRows = 1 .. Len(traceRows)
  BY <1>2
<1>5. /\ DOMAIN traceSpans = 1 .. Len(traceRows) /\ DOMAIN visited = 1 .. Len(traceRows)
      /\ DOMAIN outcomeOf = 1 .. Len(traceRows) /\ DOMAIN acknowledged = 1 .. Len(traceRows)
  BY <1>2, <1>3
<1>6. \A t \in 1 .. Len(traceRows) :
        /\ traceSpans[t] \in Seq(SpanStatuses) /\ visited[t] \in Seq(NodeOutcomes)
        /\ traceRows[t] \in Rows /\ acknowledged[t] \in Nat
  <2> HIDE DEF Rows
  <2>1. QED
    BY <1>2, <1>4, <1>5
<1>7. QED
  BY <1>1, <1>4, <1>5, <1>6

\* The row of a trace is found by counting from the end.
LEMMA RowFound ==
  ASSUME TraceTypes, TablesAgree, NEW t \in 1 .. Len(traceRows)
  PROVE  RowOf(t) = Len(traceRows) + 1 - t /\ Len(traceRows) + 1 - t \in DOMAIN traceRows
<1>1. Len(traceRows) \in Nat /\ DOMAIN traceRows = 1 .. Len(traceRows)
  BY DEF TraceTypes
<1>2. Len(traceRows) + 1 - t \in DOMAIN traceRows
  BY <1>1
<1>3. \A i \in DOMAIN traceRows : traceRows[i].traceId = t <=> i = Len(traceRows) + 1 - t
  BY <1>1 DEF TablesAgree
<1>4. QED
  BY <1>2, <1>3 DEF RowOf

\* What the end of a node makes of the spans of its run.
LEMMA NodeTold ==
  ASSUME NEW marks \in Seq(SpanStatuses), NEW nodes \in Seq(NodeOutcomes), NEW o \in NodeOutcomes,
         GoesOn(marks, nodes),
         NEW told, told = [marks EXCEPT ![Len(marks)] = outcomeStatus(o)]
  PROVE  /\ told \in Seq(SpanStatuses) /\ Append(nodes, o) \in Seq(NodeOutcomes)
         /\ Len(told) = Len(marks)
         /\ Len(told) = Len(Append(nodes, o)) + 1
         /\ Tells(told, Append(nodes, o))
<1>1. outcomeStatus(o) \in SpanStatuses
  BY DEF outcomeStatus, NodeOutcomes, SpanStatuses
<1>2. /\ Len(marks) = Len(nodes) + 2 /\ Len(nodes) \in Nat /\ DOMAIN marks = 1 .. Len(marks)
      /\ Tells(marks, nodes)
  BY DEF GoesOn
<1>3. told \in Seq(SpanStatuses) /\ Len(told) = Len(marks)
  <2> DEFINE last == Len(marks)
             status == outcomeStatus(o)
  <2>1. last \in 1 .. Len(marks) /\ status \in SpanStatuses /\ told = [marks EXCEPT ![last] = status]
    BY <1>1, <1>2
  <2> HIDE DEF last, status
  <2>2. QED
    BY <2>1
<1>4. \A i \in 1 .. Len(marks) : told[i] = IF i = Len(marks) THEN outcomeStatus(o) ELSE marks[i]
  BY <1>2
<1>5. /\ Append(nodes, o) \in Seq(NodeOutcomes) /\ Len(Append(nodes, o)) = Len(nodes) + 1
      /\ \A n \in 1 .. Len(nodes) : Append(nodes, o)[n] = nodes[n]
      /\ Append(nodes, o)[Len(nodes) + 1] = o
  OBVIOUS
<1>6. ASSUME NEW n \in 1 .. Len(nodes) + 1
      PROVE  told[n + 1] = outcomeStatus(Append(nodes, o)[n])
  <2>1. CASE n = Len(nodes) + 1
    BY <1>2, <1>4, <1>5, <2>1
  <2>2. CASE n \in 1 .. Len(nodes)
    <3>1. n + 1 \in 1 .. Len(marks) /\ n + 1 # Len(marks)
      BY <1>2, <2>2
    <3>2. marks[n + 1] = outcomeStatus(nodes[n])
      BY <1>2, <2>2 DEF Tells
    <3>3. QED
      BY <1>4, <1>5, <2>2, <3>1, <3>2
  <2>3. QED
    BY <1>2, <2>1, <2>2
<1>7. QED
  BY <1>2, <1>3, <1>5, <1>6 DEF Tells

\* The root span takes the result, and the other spans stay.
LEMMA RootTold ==
  ASSUME NEW marks \in Seq(SpanStatuses), NEW nodes \in Seq(NodeOutcomes), Len(marks) = Len(nodes) + 1,
         Tells(marks, nodes), NEW result \in Results,
         NEW told, told = [marks EXCEPT ![1] = spanRootStatusFromRun(result)]
  PROVE  /\ told \in Seq(SpanStatuses) /\ Len(told) = Len(nodes) + 1 /\ Tells(told, nodes)
         /\ told[1] = spanRootStatusFromRun(result)
         /\ spanRootStatusFromRun(result) \in RowStatuses
<1>1. spanRootStatusFromRun(result) \in RowStatuses /\ spanRootStatusFromRun(result) \in SpanStatuses
  BY DEF spanRootStatusFromRun, Results, RowStatuses, SpanStatuses
<1>2. Len(nodes) \in Nat /\ DOMAIN marks = 1 .. Len(marks)
  OBVIOUS
<1>3. told \in Seq(SpanStatuses) /\ Len(told) = Len(marks)
  BY <1>1
<1>4. \A i \in 1 .. Len(marks) : told[i] = IF i = 1 THEN spanRootStatusFromRun(result) ELSE marks[i]
  BY <1>2
<1>5. \A n \in 1 .. Len(nodes) : n + 1 \in 1 .. Len(marks) /\ n + 1 # 1
  BY <1>2
<1>6. QED
  BY <1>1, <1>2, <1>3, <1>4, <1>5 DEF Tells

\* The next node has its span.
LEMMA NodeBegun ==
  ASSUME NEW marks \in Seq(SpanStatuses), NEW nodes \in Seq(NodeOutcomes), Len(marks) = Len(nodes) + 1,
         Tells(marks, nodes), Len(marks) <= FlowLength
  PROVE  /\ Append(marks, "ok") \in Seq(SpanStatuses) /\ Len(Append(marks, "ok")) = Len(marks) + 1
         /\ GoesOn(Append(marks, "ok"), nodes)
<1>1. /\ Append(marks, "ok") \in Seq(SpanStatuses) /\ Len(Append(marks, "ok")) = Len(marks) + 1
      /\ \A i \in 1 .. Len(marks) : Append(marks, "ok")[i] = marks[i]
  BY DEF SpanStatuses
<1>2. \A n \in 1 .. Len(nodes) : n + 1 \in 1 .. Len(marks)
  OBVIOUS
<1>3. QED
  BY <1>1, <1>2 DEF GoesOn, Tells

\* A run of which nothing changes is told as before, whatever rows come on top of its own.
LEMMA ToldAsBefore ==
  ASSUME TraceTypes, NEW t \in 1 .. Len(traceRows), Told(t),
         traceSpans'[t] = traceSpans[t], visited'[t] = visited[t], outcomeOf'[t] = outcomeOf[t],
         acknowledged'[t] = acknowledged[t],
         t \in activeControllers' <=> t \in activeControllers, t \in signalled' <=> t \in signalled,
         traceRows'[Len(traceRows') + 1 - t] = traceRows[Len(traceRows) + 1 - t]
  PROVE  Told(t)'
BY DEF Told, GoesOn, IsTold, Tells

LEMMA RunFlowTells ==
  ASSUME TracesInv, RunFlow
  PROVE  TracesInv'
<1>0. PICK N : N = Len(traceRows)
  OBVIOUS
<1>1. /\ N \in Nat /\ N + 1 \in Traces /\ DOMAIN traceRows = 1 .. N /\ DOMAIN traceSpans = 1 .. N
      /\ DOMAIN visited = 1 .. N /\ DOMAIN outcomeOf = 1 .. N /\ DOMAIN acknowledged = 1 .. N
  BY <1>0, SidecarRunsAssumption DEF TracesInv, TraceTypes, TablesAgree, RunFlow, Traces
<1>2. PICK begins \in {"node", "failed", "rejected"} :
        /\ traceRows' = <<[traceId |-> N + 1,
                           status  |-> IF begins = "failed" THEN "error" ELSE "ok"]>> \o traceRows
        /\ traceSpans' = Append(traceSpans, CASE begins = "node" -> <<"ok", "ok">>
                                             [] begins = "failed" -> <<"error">>
                                             [] OTHER -> <<"ok">>)
        /\ activeControllers' =
             IF begins = "node" THEN activeControllers \cup {Len(traceRows')} ELSE activeControllers
        /\ outcomeOf' = Append(outcomeOf, IF begins = "node" THEN NoResult ELSE begins)
  BY <1>0 DEF RunFlow
<1> DEFINE row == [traceId |-> N + 1, status |-> IF begins = "failed" THEN "error" ELSE "ok"]
           marks == IF begins = "node" THEN <<"ok", "ok">>
                    ELSE IF begins = "failed" THEN <<"error">> ELSE <<"ok">>
           outcome == IF begins = "node" THEN NoResult ELSE begins
<1>3. /\ visited' = Append(visited, <<>>) /\ acknowledged' = Append(acknowledged, FlowLength)
      /\ UNCHANGED <<runner, signalled>>
  BY DEF RunFlow
<1>4. /\ row \in Rows /\ row.traceId = N + 1 /\ marks \in Seq(SpanStatuses)
      /\ outcome \in Results \cup {NoResult, "rejected"}
      /\ FlowLength \in Nat \ {0} /\ <<>> \in Seq(NodeOutcomes)
  <2>1. row \in Rows /\ row.traceId = N + 1
    BY <1>1 DEF Rows, RowStatuses
  <2>2. <<"ok", "ok">> \in Seq(SpanStatuses) /\ <<"error">> \in Seq(SpanStatuses) /\ <<"ok">> \in Seq(SpanStatuses)
    BY DEF SpanStatuses
  <2>3. outcome \in Results \cup {NoResult, "rejected"}
    BY DEF Results
  <2>4. QED
    BY <2>1, <2>2, <2>3, SidecarRunsAssumption
<1>5. /\ traceRows' = <<row>> \o traceRows /\ traceSpans' = Append(traceSpans, marks)
      /\ outcomeOf' = Append(outcomeOf, outcome)
  BY <1>2
<1>6. TraceTypes'
  <2> HIDE DEF row, marks, outcome
  <2>1. <<row>> \in Seq(Rows)
    BY <1>4
  <2>2. QED
    BY <1>3, <1>4, <1>5, <2>1 DEF TracesInv, TraceTypes
<1>7. /\ Len(traceRows') = N + 1 /\ traceRows'[1] = row
      /\ \A i \in 1 .. N : traceRows'[i + 1] = traceRows[i]
  <2> HIDE DEF row
  <2>1. traceRows \in Seq(Rows) /\ <<row>> \in Seq(Rows) /\ Len(<<row>>) = 1 /\ <<row>>[1] = row
    BY <1>4 DEF TracesInv, TraceTypes
  <2>2. QED
    BY <1>0, <1>1, <1>5, <2>1
<1>8. /\ Len(traceSpans') = N + 1 /\ Len(visited') = N + 1 /\ Len(outcomeOf') = N + 1
      /\ Len(acknowledged') = N + 1
      /\ traceSpans'[N + 1] = marks /\ visited'[N + 1] = <<>> /\ outcomeOf'[N + 1] = outcome
      /\ acknowledged'[N + 1] = FlowLength
      /\ \A t \in 1 .. N : /\ traceSpans'[t] = traceSpans[t] /\ visited'[t] = visited[t]
                           /\ outcomeOf'[t] = outcomeOf[t] /\ acknowledged'[t] = acknowledged[t]
  <2> HIDE DEF marks, outcome
  <2>1. QED
    BY <1>0, <1>1, <1>3, <1>5 DEF TracesInv, TraceTypes, TablesAgree
<1>9. /\ activeControllers' = activeControllers \cup (IF begins = "node" THEN {N + 1} ELSE {})
      /\ activeControllers \subseteq 1 .. N /\ signalled' \subseteq 1 .. N
  BY <1>0, <1>2, <1>3, <1>7 DEF TracesInv, TablesAgree
<1>10. TablesAgree'
  <2> HIDE DEF row
  <2>1. \A i \in 1 .. N + 1 : traceRows'[i].traceId = N + 2 - i
    <3>1. \A i \in 1 .. N + 1 : i = 1 \/ (i - 1 \in 1 .. N /\ (i - 1) + 1 = i)
      BY <1>1
    <3>2. \A i \in 1 .. N : traceRows[i].traceId = N + 1 - i
      BY <1>0 DEF TracesInv, TablesAgree
    <3>3. QED
      BY <1>1, <1>4, <1>7, <3>1, <3>2
  <2>2. N + 1 <= MaxTraces /\ activeControllers' \subseteq 1 .. N + 1 /\ signalled' \subseteq 1 .. N + 1
    <3>1. N + 1 <= MaxTraces /\ N + 1 \in 1 .. N + 1 /\ \A i \in 1 .. N : i \in 1 .. N + 1
      BY <1>1, SidecarRunsAssumption DEF Traces
    <3>2. QED
      BY <1>9, <3>1
  <2>3. QED
    BY <1>1, <1>7, <1>8, <2>1, <2>2 DEF TablesAgree
<1>11. ASSUME NEW t \in 1 .. N
       PROVE  Told(t)'
  <2>1. N + 1 - t \in 1 .. N /\ (N + 1 - t) + 1 = N + 2 - t /\ t # N + 1
    BY <1>1
  <2>2. traceRows'[Len(traceRows') + 1 - t] = traceRows[Len(traceRows) + 1 - t]
    BY <1>0, <1>1, <1>7, <2>1
  <2>3. QED
    BY <1>0, <1>3, <1>8, <1>9, <2>1, <2>2, ToldAsBefore DEF TracesInv
<1>12. Told(N + 1)'
  <2>1. Len(traceRows') + 1 - (N + 1) = 1
    BY <1>1, <1>7
  <2>2. Tells(marks, <<>>)
    BY DEF Tells
  <2>3. CASE begins = "node"
    <3>1. marks = <<"ok", "ok">> /\ outcome = NoResult /\ NoResult \notin Results
      BY <2>3 DEF NoResult, Results
    <3>2. N + 1 \in activeControllers' /\ GoesOn(marks, <<>>) /\ Len(marks) - 1 <= FlowLength
      BY <1>4, <1>9, <2>2, <2>3, <3>1 DEF GoesOn
    <3>3. QED
      BY <1>8, <3>1, <3>2 DEF Told, EndsAs, NoResult
  <2>4. CASE begins = "failed"
    <3>1. marks = <<"error">> /\ outcome = "failed" /\ NoResult # "failed" /\ row.status = "error"
      BY <2>4 DEF NoResult
    <3>2. IsTold(marks, <<>>, outcome, row) /\ Len(marks) - 1 <= FlowLength
      BY <1>4, <2>2, <3>1 DEF IsTold, spanRootStatusFromRun
    <3>3. N + 1 \notin activeControllers'
      BY <1>1, <1>9, <2>4
    <3>4. QED
      BY <1>7, <1>8, <2>1, <3>1, <3>2, <3>3 DEF Told, EndsAs, NoResult
  <2>5. CASE begins = "rejected"
    <3>1. marks = <<"ok">> /\ outcome = "rejected" /\ NoResult # "rejected" /\ "rejected" \notin Results
      BY <2>5 DEF NoResult, Results
    <3>2. N + 1 \notin activeControllers' /\ Len(marks) - 1 <= FlowLength
      BY <1>1, <1>4, <1>9, <2>5, <3>1
    <3>3. QED
      BY <1>8, <3>1, <3>2 DEF Told, EndsAs, NoResult
  <2>6. QED
    BY <2>3, <2>4, <2>5
<1>13. \A t \in 1 .. Len(traceRows') : Told(t)'
  BY <1>1, <1>7, <1>11, <1>12
<1>14. QED
  BY <1>6, <1>10, <1>13 DEF TracesInv

LEMMA CancelRunTells ==
  ASSUME TracesInv, NEW t \in Traces, CancelRun(t)
  PROVE  TracesInv'
<1>0. PICK N : N = Len(traceRows)
  OBVIOUS
<1>1. N = Len(traceRows) /\ N \in Nat
  BY <1>0, TablesTyped
<1>2. /\ t \in activeControllers /\ signalled' = signalled \cup {t}
      /\ acknowledged' = IF t \in signalled THEN acknowledged
                         ELSE [acknowledged EXCEPT ![t] = Len(traceSpans[t]) - 1]
      /\ UNCHANGED <<runner, traceRows, traceSpans, activeControllers, visited, outcomeOf>>
  BY DEF CancelRun
<1>3. /\ t \in 1 .. N /\ Told(t) /\ outcomeOf[t] = NoResult /\ DOMAIN acknowledged = 1 .. N
      /\ signalled \subseteq 1 .. N
  BY <1>1, <1>2, TablesTyped DEF TablesAgree, Told
<1>4. traceSpans[t] \in Seq(SpanStatuses) /\ visited[t] \in Seq(NodeOutcomes)
  BY <1>1, <1>3, TablesTyped
<1>5. Len(traceSpans[t]) - 1 \in Nat
  BY <1>3, <1>4 DEF Told, GoesOn
<1>6. /\ acknowledged' \in Seq(Nat) /\ Len(acknowledged') = N
      /\ \A u \in 1 .. N : u # t => acknowledged'[u] = acknowledged[u]
      /\ acknowledged'[t] = IF t \in signalled THEN acknowledged[t] ELSE Len(traceSpans[t]) - 1
  <2> DEFINE begun == Len(traceSpans[t]) - 1
  <2>1. begun \in Nat /\ acknowledged \in Seq(Nat) /\ Len(acknowledged) = N
    BY <1>1, <1>5 DEF TracesInv, TablesAgree, TraceTypes
  <2> HIDE DEF begun
  <2>2. acknowledged' = IF t \in signalled THEN acknowledged ELSE [acknowledged EXCEPT ![t] = begun]
    BY <1>2 DEF begun
  <2>3. /\ acknowledged' \in Seq(Nat) /\ Len(acknowledged') = N
        /\ \A u \in 1 .. N : u # t => acknowledged'[u] = acknowledged[u]
        /\ acknowledged'[t] = IF t \in signalled THEN acknowledged[t] ELSE begun
    BY <1>3, <2>1, <2>2
  <2>4. QED
    BY <2>3 DEF begun
<1>7. TraceTypes'
  BY <1>2, <1>6 DEF TracesInv, TraceTypes
<1>8. TablesAgree'
  BY <1>1, <1>2, <1>3, <1>6 DEF TracesInv, TablesAgree
<1>9. ASSUME NEW u \in 1 .. N, u # t
      PROVE  Told(u)'
  BY <1>1, <1>2, <1>6, <1>9, ToldAsBefore DEF TracesInv
<1>10. Told(t)'
  <2>1. Len(traceSpans[t]) - 1 <= acknowledged'[t]
    BY <1>3, <1>5, <1>6 DEF Told
  <2>2. t \in signalled'
    BY <1>2
  <2>3. QED
    BY <1>2, <1>3, <2>1, <2>2 DEF Told
<1>11. \A u \in 1 .. Len(traceRows') : Told(u)'
  BY <1>1, <1>2, <1>9, <1>10
<1>12. QED
  BY <1>7, <1>8, <1>11 DEF TracesInv

\* A change of one run's entries only, after which that run is told.
LEMMA OneRunTells ==
  ASSUME TracesInv, NEW t \in 1 .. Len(traceRows), NEW N, N = Len(traceRows),
         TraceTypes', Len(traceRows') = N, Len(traceSpans') = N, Len(visited') = N,
         Len(outcomeOf') = N, activeControllers' \subseteq activeControllers,
         UNCHANGED <<signalled, acknowledged>>,
         \A i \in 1 .. N : traceRows'[i].traceId = traceRows[i].traceId,
         \A i \in 1 .. N : i # N + 1 - t => traceRows'[i] = traceRows[i],
         \A u \in 1 .. N : u # t =>
           /\ traceSpans'[u] = traceSpans[u] /\ visited'[u] = visited[u] /\ outcomeOf'[u] = outcomeOf[u]
           /\ u \in activeControllers' <=> u \in activeControllers,
         Told(t)'
  PROVE  TracesInv'
<1>1. N \in Nat
  BY TablesTyped
<1>2. TablesAgree'
  BY DEF TracesInv, TablesAgree
<1>3. ASSUME NEW u \in 1 .. N, u # t
      PROVE  Told(u)'
  <2>1. N + 1 - u \in 1 .. N /\ N + 1 - u # N + 1 - t
    BY <1>1, <1>3
  <2>2. traceRows'[Len(traceRows') + 1 - u] = traceRows[Len(traceRows) + 1 - u]
    BY <2>1
  <2>3. QED
    BY <1>3, <2>2, ToldAsBefore DEF TracesInv
<1>4. \A u \in 1 .. Len(traceRows') : Told(u)'
  BY <1>3
<1>5. QED
  BY <1>2, <1>4 DEF TracesInv

LEMMA FinishTells ==
  ASSUME TracesInv, NEW t \in activeControllers, NEW result \in Results, NEW o \in NodeOutcomes,
         NEW marks, marks = [traceSpans[t] EXCEPT ![Len(traceSpans[t])] = outcomeStatus(o)],
         visited' = [visited EXCEPT ![t] = Append(@, o)], Finish(t, result, marks),
         EndsAs(visited'[t], result), UNCHANGED <<runner, signalled, acknowledged>>
  PROVE  TracesInv'
<1>0. PICK N : N = Len(traceRows)
  OBVIOUS
<1>1. N = Len(traceRows) /\ N \in Nat
  BY <1>0, TablesTyped
<1>2. PICK nodes, before : nodes = visited[t] /\ before = traceSpans[t]
  OBVIOUS
<1>3. /\ t \in 1 .. N /\ Told(t) /\ TraceTypes /\ TablesAgree
      /\ DOMAIN traceSpans = 1 .. N /\ DOMAIN visited = 1 .. N /\ DOMAIN outcomeOf = 1 .. N
      /\ DOMAIN traceRows = 1 .. N
  BY <1>1, TablesTyped DEF TablesAgree
<1>4. /\ nodes \in Seq(NodeOutcomes) /\ before \in Seq(SpanStatuses) /\ GoesOn(before, nodes)
  BY <1>1, <1>2, <1>3, TablesTyped DEF Told
<1>5. PICK told, w : told = [marks EXCEPT ![1] = spanRootStatusFromRun(result)] /\ w = Append(nodes, o)
  OBVIOUS
<1>6. /\ marks \in Seq(SpanStatuses) /\ w \in Seq(NodeOutcomes) /\ Len(marks) = Len(before)
      /\ Len(marks) = Len(w) + 1 /\ Tells(marks, w)
  BY <1>2, <1>4, <1>5, NodeTold, SMTT(60)
<1>7. /\ told \in Seq(SpanStatuses) /\ Len(told) = Len(w) + 1 /\ Tells(told, w)
      /\ told[1] = spanRootStatusFromRun(result) /\ spanRootStatusFromRun(result) \in RowStatuses
  <2> DEFINE root == spanRootStatusFromRun(result)
  <2>1. told = [marks EXCEPT ![1] = root] /\ w \in Seq(NodeOutcomes) /\ marks \in Seq(SpanStatuses)
        /\ Len(marks) = Len(w) + 1 /\ Tells(marks, w)
    BY <1>5, <1>6
  <2> HIDE <1>6
  <2>2. QED
    BY <2>1, RootTold, ZenonT(120)
<1>8. PICK r, status : r = N + 1 - t /\ status = spanRootStatusFromRun(result)
  OBVIOUS
<1>9. r \in 1 .. N /\ RowOf(t) = r /\ status \in RowStatuses
  BY <1>1, <1>3, <1>7, <1>8, RowFound
<1>10. /\ traceSpans' = [traceSpans EXCEPT ![t] = told]
       /\ traceRows' = [traceRows EXCEPT ![r].status = status]
       /\ activeControllers' = activeControllers \ {t}
       /\ outcomeOf' = [outcomeOf EXCEPT ![t] = result]
       /\ visited' = [visited EXCEPT ![t] = w]
  BY <1>2, <1>5, <1>8, <1>9 DEF Finish
<1>11. /\ traceSpans' \in Seq(Seq(SpanStatuses)) /\ Len(traceSpans') = N
       /\ \A u \in 1 .. N : traceSpans'[u] = IF u = t THEN told ELSE traceSpans[u]
  <2> DEFINE S == Seq(SpanStatuses)
  <2>1. traceSpans \in Seq(S) /\ Len(traceSpans) = N /\ t \in 1 .. Len(traceSpans) /\ told \in S
    BY <1>1, <1>3, <1>7 DEF TraceTypes, TablesAgree
  <2> HIDE DEF S
  <2>2. /\ [traceSpans EXCEPT ![t] = told] \in Seq(S) /\ Len([traceSpans EXCEPT ![t] = told]) = N
        /\ \A u \in 1 .. N : [traceSpans EXCEPT ![t] = told][u] = IF u = t THEN told ELSE traceSpans[u]
    BY <2>1, Replaced
  <2>3. traceSpans' \in Seq(S) /\ Len(traceSpans') = N /\ \A u \in 1 .. N : traceSpans'[u] = IF u = t THEN told ELSE traceSpans[u]
    BY <1>10, <2>2
  <2>4. QED
    BY <2>3 DEF S
<1>12. /\ visited' \in Seq(Seq(NodeOutcomes)) /\ Len(visited') = N
       /\ \A u \in 1 .. N : visited'[u] = IF u = t THEN w ELSE visited[u]
  <2> DEFINE S == Seq(NodeOutcomes)
  <2>1. visited \in Seq(S) /\ Len(visited) = N /\ t \in 1 .. Len(visited) /\ w \in S
    BY <1>1, <1>3, <1>6 DEF TraceTypes, TablesAgree
  <2> HIDE DEF S
  <2>2. /\ [visited EXCEPT ![t] = w] \in Seq(S) /\ Len([visited EXCEPT ![t] = w]) = N
        /\ \A u \in 1 .. N : [visited EXCEPT ![t] = w][u] = IF u = t THEN w ELSE visited[u]
    BY <2>1, Replaced
  <2>3. visited' \in Seq(S) /\ Len(visited') = N /\ \A u \in 1 .. N : visited'[u] = IF u = t THEN w ELSE visited[u]
    BY <1>10, <2>2
  <2>4. QED
    BY <2>3 DEF S
<1>13. /\ outcomeOf' \in Seq(Results \cup {NoResult, "rejected"}) /\ Len(outcomeOf') = N
       /\ \A u \in 1 .. N : outcomeOf'[u] = IF u = t THEN result ELSE outcomeOf[u]
  BY <1>1, <1>3, <1>10, Replaced DEF TraceTypes, TablesAgree
<1>14. /\ traceRows' \in Seq(Rows) /\ Len(traceRows') = N
       /\ \A i \in 1 .. N : traceRows'[i].traceId = traceRows[i].traceId
       /\ \A i \in 1 .. N : i # r => traceRows'[i] = traceRows[i]
       /\ traceRows'[r].status = status
  <2>1. PICK row : row = [traceId |-> traceRows[r].traceId, status |-> status]
    OBVIOUS
  <2>2. traceRows[r] \in Rows /\ traceRows \in Seq(Rows) /\ Len(traceRows) = N
    BY <1>1, <1>3, <1>9 DEF TraceTypes
  <2>3. row \in Rows /\ row.traceId = traceRows[r].traceId /\ row.status = status
    BY <1>9, <2>1, <2>2 DEF Rows
  <2>4. [traceRows[r] EXCEPT !.status = status] = row
    BY <2>1, <2>2 DEF Rows
  <2>5. traceRows' = [traceRows EXCEPT ![r] = row]
    BY <1>9, <1>10, <2>2, <2>4
  <2>6. QED
    BY <1>1, <1>3, <1>9, <2>2, <2>3, <2>5
<1>15. TraceTypes'
  BY <1>3, <1>11, <1>12, <1>13, <1>14 DEF TraceTypes
<1>16. Told(t)'
  <2>1. Len(traceRows') + 1 - t = r
    BY <1>8, <1>14
  <2>2. t \notin activeControllers' /\ result # NoResult
    BY <1>10 DEF NoResult, Results
  <2>3. IsTold(told, w, result, traceRows'[r])
    BY <1>7, <1>8, <1>14 DEF IsTold
  <2>4. t \notin signalled => acknowledged[t] = FlowLength
    BY <1>3 DEF Told
  <2>5. Len(told) - 1 <= acknowledged[t]
    BY <1>2, <1>3, <1>6, <1>7 DEF Told
  <2>6. QED
    BY <1>3, <1>11, <1>12, <1>13, <2>1, <2>2, <2>3, <2>4, <2>5 DEF Told
<1>17. QED
  BY <1>1, <1>3, <1>8, <1>10, <1>11, <1>12, <1>13, <1>14, <1>15, <1>16, OneRunTells

LEMMA NextNodeTells ==
  ASSUME TracesInv, NEW t \in activeControllers, t \notin signalled, NEW o \in NodeOutcomes,
         NEW marks, marks = [traceSpans[t] EXCEPT ![Len(traceSpans[t])] = outcomeStatus(o)],
         Len(marks) <= FlowLength, visited' = [visited EXCEPT ![t] = Append(@, o)],
         traceSpans' = [traceSpans EXCEPT ![t] = Append(marks, "ok")],
         UNCHANGED <<runner, signalled, acknowledged, traceRows, activeControllers, outcomeOf>>
  PROVE  TracesInv'
<1>0. PICK N : N = Len(traceRows)
  OBVIOUS
<1>1. N = Len(traceRows) /\ N \in Nat
  BY <1>0, TablesTyped
<1>2. PICK nodes, before : nodes = visited[t] /\ before = traceSpans[t]
  OBVIOUS
<1>3. /\ t \in 1 .. N /\ Told(t) /\ TraceTypes /\ TablesAgree
      /\ DOMAIN traceSpans = 1 .. N /\ DOMAIN visited = 1 .. N
  BY <1>1, TablesTyped DEF TablesAgree
<1>4. /\ nodes \in Seq(NodeOutcomes) /\ before \in Seq(SpanStatuses) /\ GoesOn(before, nodes)
      /\ outcomeOf[t] = NoResult
  BY <1>1, <1>2, <1>3, TablesTyped DEF Told
<1>5. PICK told, w : told = Append(marks, "ok") /\ w = Append(nodes, o)
  OBVIOUS
<1>6. /\ marks \in Seq(SpanStatuses) /\ w \in Seq(NodeOutcomes)
      /\ Len(marks) = Len(w) + 1 /\ Tells(marks, w)
  BY <1>2, <1>4, <1>5, NodeTold, SMTT(30)
<1>7. told \in Seq(SpanStatuses) /\ Len(told) = Len(marks) + 1 /\ GoesOn(told, w)
  BY <1>5, <1>6, NodeBegun
<1>8. /\ traceSpans' = [traceSpans EXCEPT ![t] = told]
      /\ visited' = [visited EXCEPT ![t] = w]
  BY <1>2, <1>5
<1>9. /\ traceSpans' \in Seq(Seq(SpanStatuses)) /\ Len(traceSpans') = N
      /\ \A u \in 1 .. N : traceSpans'[u] = IF u = t THEN told ELSE traceSpans[u]
  <2> DEFINE S == Seq(SpanStatuses)
  <2>1. traceSpans \in Seq(S) /\ Len(traceSpans) = N /\ t \in 1 .. Len(traceSpans) /\ told \in S
    BY <1>1, <1>3, <1>7 DEF TraceTypes, TablesAgree
  <2> HIDE DEF S
  <2>2. /\ [traceSpans EXCEPT ![t] = told] \in Seq(S) /\ Len([traceSpans EXCEPT ![t] = told]) = N
        /\ \A u \in 1 .. N : [traceSpans EXCEPT ![t] = told][u] = IF u = t THEN told ELSE traceSpans[u]
    BY <2>1, Replaced
  <2>3. traceSpans' \in Seq(S) /\ Len(traceSpans') = N /\ \A u \in 1 .. N : traceSpans'[u] = IF u = t THEN told ELSE traceSpans[u]
    BY <1>8, <2>2
  <2>4. QED
    BY <2>3 DEF S
<1>10. /\ visited' \in Seq(Seq(NodeOutcomes)) /\ Len(visited') = N
       /\ \A u \in 1 .. N : visited'[u] = IF u = t THEN w ELSE visited[u]
  <2> DEFINE S == Seq(NodeOutcomes)
  <2>1. visited \in Seq(S) /\ Len(visited) = N /\ t \in 1 .. Len(visited) /\ w \in S
    BY <1>1, <1>3, <1>6 DEF TraceTypes, TablesAgree
  <2> HIDE DEF S
  <2>2. /\ [visited EXCEPT ![t] = w] \in Seq(S) /\ Len([visited EXCEPT ![t] = w]) = N
        /\ \A u \in 1 .. N : [visited EXCEPT ![t] = w][u] = IF u = t THEN w ELSE visited[u]
    BY <2>1, Replaced
  <2>3. visited' \in Seq(S) /\ Len(visited') = N /\ \A u \in 1 .. N : visited'[u] = IF u = t THEN w ELSE visited[u]
    BY <1>8, <2>2
  <2>4. QED
    BY <2>3 DEF S
<1>11. TraceTypes'
  BY <1>3, <1>9, <1>10 DEF TraceTypes
<1>12. Told(t)'
  <2>1. NoResult \notin Results
    BY DEF NoResult, Results
  <2>2. acknowledged[t] = FlowLength
    BY <1>3 DEF Told
  <2>3. Len(told) - 1 <= FlowLength
    BY <1>6, <1>7
  <2>4. QED
    BY <1>3, <1>4, <1>7, <1>9, <1>10, <2>1, <2>2, <2>3 DEF Told, EndsAs, NoResult
<1>13. Len(outcomeOf) = N
  BY <1>1, <1>3 DEF TablesAgree
<1>14. QED
  BY <1>1, <1>3, <1>9, <1>10, <1>11, <1>12, <1>13, OneRunTells

LEMMA SidecarStep == TracesInv /\ [SidecarNext]_sidecarVars => TracesInv'
<1> SUFFICES ASSUME TracesInv, [SidecarNext]_sidecarVars
             PROVE  TracesInv'
  OBVIOUS
<1>1. CASE UNCHANGED sidecarVars \/ RunnerDispose
  <2>1. runner' \in BOOLEAN
    BY <1>1 DEF TracesInv, TraceTypes, sidecarVars, RunnerDispose
  <2>2. UNCHANGED <<traceRows, traceSpans, activeControllers, signalled, visited, outcomeOf, acknowledged>>
    BY <1>1 DEF sidecarVars, RunnerDispose
  <2>3. QED
    BY <2>1, <2>2 DEF TracesInv, TraceTypes, TablesAgree, Told
<1>2. CASE RunFlow
  BY <1>2, RunFlowTells
<1>3. CASE \E t \in Traces : CancelRun(t)
  BY <1>3, CancelRunTells
<1>4. ASSUME NEW t \in Traces, NodeEnd(t)
      PROVE  TracesInv'
  <2>1. t \in activeControllers /\ UNCHANGED <<runner, signalled, acknowledged>>
    BY <1>4 DEF NodeEnd
  <2>2. PICK o \in NodeOutcomes :
          LET marks == [traceSpans[t] EXCEPT ![Len(traceSpans[t])] = outcomeStatus(o)]
          IN /\ visited' = [visited EXCEPT ![t] = Append(@, o)]
             /\ \/ o \in {"failed", "paused"} /\ Finish(t, o, marks)
                \/ o \in {"ok", "skipped"} /\ Finish(t, Completion(visited'[t]), marks)
                \/ /\ o \in {"ok", "skipped"}
                   /\ Len(marks) <= FlowLength
                   /\ IF t \in signalled THEN Finish(t, "cancelled", marks)
                      ELSE /\ traceSpans' = [traceSpans EXCEPT ![t] = Append(marks, "ok")]
                           /\ UNCHANGED <<traceRows, activeControllers, outcomeOf>>
    BY <1>4 DEF NodeEnd
  <2>3. PICK marks : marks = [traceSpans[t] EXCEPT ![Len(traceSpans[t])] = outcomeStatus(o)]
    OBVIOUS
  <2>4. \A result \in {"failed", "paused", "cancelled", Completion(visited'[t])} :
          result \in Results /\ EndsAs(visited'[t], result)
    BY DEF Results, Completion, EndsAs
  <2>5. CASE \E result \in Results : Finish(t, result, marks) /\ EndsAs(visited'[t], result)
    BY <2>1, <2>2, <2>3, <2>5, FinishTells
  <2>6. CASE /\ Len(marks) <= FlowLength /\ t \notin signalled
             /\ traceSpans' = [traceSpans EXCEPT ![t] = Append(marks, "ok")]
             /\ UNCHANGED <<traceRows, activeControllers, outcomeOf>>
    BY <2>1, <2>2, <2>3, <2>6, NextNodeTells
  <2>7. QED
    BY <2>2, <2>3, <2>4, <2>5, <2>6
<1>5. QED
  BY <1>1, <1>2, <1>3, <1>4 DEF SidecarNext

\* The inductive invariant of the sidecar holds however many runs overlap.
LEMMA TracesAreSound == SidecarSpec => []TracesInv
<1>1. SidecarInit => TracesInv
  <2> SUFFICES ASSUME SidecarInit
               PROVE  TracesInv
    OBVIOUS
  <2>1. TraceTypes
    BY DEF SidecarInit, TraceTypes
  <2>2. Len(traceRows) = 0 /\ TablesAgree
    BY SidecarRunsAssumption DEF SidecarInit, TablesAgree
  <2>3. QED
    BY <2>1, <2>2 DEF TracesInv
<1>2. TracesInv /\ [SidecarNext]_sidecarVars => TracesInv'
  BY SidecarStep
<1>3. QED
  BY <1>1, <1>2, PTL DEF SidecarSpec

\* A sequence is its first element and the others.
LEMMA HeadAndRest ==
  ASSUME NEW S, NEW h \in S, NEW r \in Seq(S), NEW m \in Seq(S), Len(m) = Len(r) + 1,
         m[1] = h, \A n \in 1 .. Len(r) : m[n + 1] = r[n]
  PROVE  m = <<h>> \o r
<1>1. PICK all : all = <<h>> \o r
  OBVIOUS
<1>2. /\ all \in Seq(S) /\ Len(all) = Len(r) + 1 /\ all[1] = h /\ Len(r) \in Nat
      /\ \A n \in 1 .. Len(r) : all[n + 1] = r[n]
  BY <1>1
<1>3. \A n \in 1 .. Len(m) : n = 1 \/ (n - 1 \in 1 .. Len(r) /\ (n - 1) + 1 = n)
  BY <1>2
<1>4. \A n \in 1 .. Len(m) : m[n] = all[n]
  BY <1>2, <1>3
<1>5. QED
  BY <1>1, <1>2, <1>4

\* The trace of every run that has come to a result tells it, in its row, its root span
\* and a span for each node visited, and a run begins no node after its cancellation was
\* acknowledged, however many runs overlap and however long their flows are: the rows are
\* in the order of the traces, so the row that is looked for is the run's own.
THEOREM TracesTell == SidecarSpec => []TracesTellRuns
<1>1. TracesInv => TracesTellRuns
  <2> SUFFICES ASSUME TracesInv, NEW i \in DOMAIN traceRows
               PROVE  LET t == traceRows[i].traceId
                          statuses == [n \in DOMAIN visited[t] |-> outcomeStatus(visited[t][n])]
                      IN /\ t \in activeControllers <=> outcomeOf[t] = NoResult
                         /\ outcomeOf[t] \in Results =>
                              /\ traceRows[i].status = spanRootStatusFromRun(outcomeOf[t])
                              /\ traceSpans[t] = <<traceRows[i].status>> \o statuses
                         /\ outcomeOf[t] \in {"completed", "skipped"} =>
                              (traceRows[i].status = "skipped" <=> AllSkipped(visited[t]))
                         /\ Len(traceSpans[t]) - 1 <= acknowledged[t]
    BY DEF TracesTellRuns
  <2>1. PICK t, N : t = traceRows[i].traceId /\ N = Len(traceRows)
    OBVIOUS
  <2>2. N \in Nat /\ i \in 1 .. N /\ t = N + 1 - i /\ t \in 1 .. N /\ i = N + 1 - t
    <3>1. N \in Nat /\ DOMAIN traceRows = 1 .. N /\ TablesAgree
      BY <2>1, TablesTyped
    <3>2. \A n \in 1 .. N : traceRows[n].traceId = N + 1 - n
      BY <2>1, <3>1 DEF TablesAgree
    <3>3. i \in 1 .. N
      BY <3>1
    <3>4. t = N + 1 - i
      BY <2>1, <3>2, <3>3
    <3> HIDE <2>1
    <3>5. QED
      BY <3>1, <3>3, <3>4
  <2>3. Told(t) /\ visited[t] \in Seq(NodeOutcomes) /\ traceSpans[t] \in Seq(SpanStatuses)
    BY <2>1, <2>2, TablesTyped
  <2>4. PICK statuses : statuses = [n \in DOMAIN visited[t] |-> outcomeStatus(visited[t][n])]
    OBVIOUS
  <2>5. ASSUME outcomeOf[t] \in Results
        PROVE  /\ traceRows[i].status = spanRootStatusFromRun(outcomeOf[t])
               /\ traceSpans[t] = <<traceRows[i].status>> \o statuses
    <3>1. IsTold(traceSpans[t], visited[t], outcomeOf[t], traceRows[i])
      BY <2>1, <2>2, <2>3, <2>5 DEF Told
    <3>2. PICK status, nodes, marks : /\ status = traceRows[i].status /\ nodes = visited[t]
                                      /\ marks = traceSpans[t]
      OBVIOUS
    <3>3. status \in SpanStatuses
      BY <2>1, <2>2, <3>2, TablesTyped DEF Rows, RowStatuses, SpanStatuses
    <3>4. \A o \in NodeOutcomes : outcomeStatus(o) \in SpanStatuses
      BY DEF outcomeStatus, NodeOutcomes, SpanStatuses
    <3>5. /\ statuses \in Seq(SpanStatuses) /\ Len(statuses) = Len(nodes)
          /\ \A n \in 1 .. Len(nodes) : statuses[n] = outcomeStatus(nodes[n])
      BY <2>3, <2>4, <3>2, <3>4
    <3>6. /\ Len(marks) = Len(nodes) + 1 /\ marks[1] = status
          /\ \A n \in 1 .. Len(nodes) : marks[n + 1] = statuses[n]
      BY <3>1, <3>2, <3>5 DEF IsTold, Tells
    <3>7. marks = <<status>> \o statuses
      BY <2>3, <3>2, <3>3, <3>5, <3>6, HeadAndRest
    <3>8. QED
      BY <3>1, <3>2, <3>7 DEF IsTold
  <2>6. ASSUME outcomeOf[t] \in {"completed", "skipped"}
        PROVE  traceRows[i].status = "skipped" <=> AllSkipped(visited[t])
    <3>1. outcomeOf[t] \in Results
      BY <2>6 DEF Results
    <3>2. traceRows[i].status = spanRootStatusFromRun(outcomeOf[t])
      BY <2>5, <3>1
    <3>3. outcomeOf[t] = "skipped" <=> AllSkipped(visited[t])
      BY <2>3, <2>6 DEF Told, EndsAs
    <3>4. QED
      BY <2>6, <3>2, <3>3 DEF spanRootStatusFromRun
  <2>7. QED
    BY <2>1, <2>3, <2>4, <2>5, <2>6 DEF Told
<1>2. QED
  BY <1>1, TracesAreSound, PTL

\* Rows, spans and outcomes are typed, and there are as many traces as rows.
THEOREM SidecarTypesHold == SidecarSpec => []SidecarTypeOK
<1>1. TracesInv => SidecarTypeOK
  BY DEF TracesInv, TraceTypes, TablesAgree, SidecarTypeOK, Rows, RowStatuses, SpanStatuses
<1>2. QED
  BY <1>1, TracesAreSound, PTL

-----------------------------------------------------------------------------
(* Desktop traces: the panel of the selected trace.                        *)

\* Every listener that was left was left before it listened.
NoneListensOn == \A n \in DOMAIN listeners : listeners[n].left => listeners[n].phase = "asked"

\* the last listener is in place
LastListens ==
  listeners # <<>> /\ listeners[Len(listeners)].phase \in {"heard", "held"}

Listeners == [trace : TraceIds, phase : {"asked", "heard", "held", "gone"}, left : BOOLEAN]

LiveStates ==
  [activeOf : TraceIds \cup {NoTrace}, costOf : TraceIds \cup {NoTrace}, cost : Nat]

DetailShape ==
  /\ listeners \in Seq(Listeners)
  /\ requests \subseteq DOMAIN listeners
  /\ overtaken \in BOOLEAN
  /\ runs \in [TraceIds -> [phase : {"idle", "running", "over"}, ticks : Nat]]
  /\ \A t \in TraceIds : runs[t].phase = "idle" => runs[t].ticks = 0
  /\ live \in LiveStates

\* The last listener is that of the selected trace; those before it were told to stop.
LastIsSelected ==
  /\ listeners = <<>> => selected = NoTrace
  /\ listeners # <<>> => /\ listeners[Len(listeners)].trace = selected
                         /\ ~listeners[Len(listeners)].left
                         /\ listeners[Len(listeners)].phase # "gone"
  /\ \A n \in DOMAIN listeners :
       n # Len(listeners) => listeners[n].left \/ listeners[n].phase = "gone"

\* As long as no reply was overtaken, those that are missing are the last ones, and spans
\* are those of the selected trace unless its own is missing.
RepliesInOrder ==
  ~overtaken => /\ \A m \in requests, n \in DOMAIN listeners : m <= n => n \in requests
                /\ Len(listeners) \notin requests => spans = [of |-> selected, loading |-> FALSE]

\* As long as no listener listens on, what is live is what the last one heard.
LiveIsHeard == NoneListensOn => LiveIsSelected /\ (live.activeOf # NoTrace => LastListens)

DetailInv ==
  /\ DetailShape
  /\ LastIsSelected
  /\ RepliesInOrder
  /\ LiveIsHeard

\* A listener that gets on, or is left, changes alone.
LEMMA ListenerChanges ==
  ASSUME NEW S, NEW s \in Seq(S), NEW n \in DOMAIN s, NEW x \in S
  PROVE  /\ [s EXCEPT ![n] = x] \in Seq(S) /\ Len([s EXCEPT ![n] = x]) = Len(s)
         /\ DOMAIN [s EXCEPT ![n] = x] = DOMAIN s
         /\ \A m \in DOMAIN s : [s EXCEPT ![n] = x][m] = IF m = n THEN x ELSE s[m]
OBVIOUS

LEMMA NothingIsLive == NothingLive \in LiveStates
BY DEF NothingLive, LiveStates

LEMMA LastListener ==
  ASSUME DetailShape
  PROVE  /\ Len(listeners) \in Nat /\ DOMAIN listeners = 1 .. Len(listeners)
         /\ listeners # <<>> <=> Len(listeners) \in DOMAIN listeners
         /\ listeners # <<>> <=> Len(listeners) # 0
         /\ \A n \in DOMAIN listeners : listeners[n] \in Listeners
BY DEF DetailShape

LEMMA SelectKeeps ==
  ASSUME DetailInv, NEW t \in TraceIds, Select(t)
  PROVE  DetailInv'
<1>1. PICK old, n, before, new :
        /\ old = listeners /\ n = Len(listeners)
        /\ before = IF n = 0 THEN <<>> ELSE [listeners EXCEPT ![n] = Unsubscribed(@)]
        /\ new = [trace |-> t, phase |-> "asked", left |-> FALSE]
  OBVIOUS
<1>2. /\ t # selected /\ selected' = t /\ listeners' = Append(before, new)
      /\ requests' = requests \cup {n + 1} /\ live' = NothingLive
      /\ spans' = [spans EXCEPT !.loading = TRUE]
      /\ overtaken' = overtaken /\ runs' = runs
  BY <1>1 DEF Select
<1>3. /\ old \in Seq(Listeners) /\ n \in Nat /\ DOMAIN old = 1 .. n /\ new \in Listeners
      /\ \A m \in 1 .. n : old[m] \in Listeners
  <2>1. new \in Listeners
    BY <1>1 DEF Listeners
  <2>2. QED
    BY <1>1, <2>1 DEF DetailInv, DetailShape
<1>4. /\ before \in Seq(Listeners) /\ Len(before) = n /\ DOMAIN before = 1 .. n
      /\ \A m \in 1 .. n : before[m] = IF m = n THEN Unsubscribed(old[n]) ELSE old[m]
  <2>1. CASE n = 0
    BY <1>1, <2>1
  <2>2. CASE n # 0
    <3>1. n \in DOMAIN old /\ before = [old EXCEPT ![n] = Unsubscribed(old[n])]
      BY <1>1, <1>3, <2>2
    <3>2. Unsubscribed(old[n]) \in Listeners
      BY <1>3, <3>1 DEF Unsubscribed, Listeners
    <3>3. QED
      BY <1>3, <3>1, <3>2, ListenerChanges
  <2>3. QED
    BY <2>1, <2>2
<1>5. PICK now : now = Append(before, new)
  OBVIOUS
<1>6. /\ listeners' = now /\ now \in Seq(Listeners) /\ Len(now) = n + 1
      /\ DOMAIN now = 1 .. n + 1 /\ now # <<>>
      /\ now[n + 1] = new
      /\ \A m \in 1 .. n : now[m] = IF m = n THEN Unsubscribed(old[n]) ELSE old[m]
  BY <1>2, <1>3, <1>4, <1>5
<1>7. DetailShape'
  BY <1>1, <1>2, <1>3, <1>6, NothingIsLive DEF DetailInv, DetailShape
<1>8. LastIsSelected'
  <2>1. \A m \in 1 .. n : now[m].left \/ now[m].phase = "gone"
    <3>1. ASSUME NEW m \in 1 .. n
          PROVE  now[m].left \/ now[m].phase = "gone"
      <4>1. CASE m = n
        BY <1>3, <1>6, <4>1 DEF Unsubscribed, Listeners
      <4>2. CASE m # n
        BY <1>1, <1>3, <1>6, <4>2 DEF DetailInv, LastIsSelected
      <4>3. QED
        BY <4>1, <4>2
    <3>2. QED
      BY <3>1
  <2>2. QED
    BY <1>1, <1>2, <1>3, <1>6, <2>1 DEF LastIsSelected
<1>9. RepliesInOrder'
  <2>1. ASSUME ~overtaken, NEW m \in requests', NEW k \in DOMAIN now, m <= k
        PROVE  k \in requests'
    BY <1>1, <1>2, <1>3, <1>6, <2>1 DEF DetailInv, DetailShape, RepliesInOrder
  <2>2. Len(listeners') \in requests'
    BY <1>2, <1>6
  <2>3. QED
    BY <1>2, <1>6, <2>1, <2>2 DEF RepliesInOrder
<1>10. LiveIsHeard'
  BY <1>2 DEF LiveIsHeard, LiveIsSelected, NothingLive
<1>11. QED
  BY <1>7, <1>8, <1>9, <1>10 DEF DetailInv

LEMMA SpansArriveKeeps ==
  ASSUME DetailInv, NEW n \in DOMAIN listeners, SpansArrive(n)
  PROVE  DetailInv'
<1>1. /\ n \in requests /\ requests' = requests \ {n}
      /\ overtaken' = (overtaken \/ \E m \in requests : m < n)
      /\ spans' = [of |-> listeners[n].trace, loading |-> FALSE]
      /\ UNCHANGED <<selected, listeners, live, runs>>
  BY DEF SpansArrive
<1>2. DetailShape'
  BY <1>1 DEF DetailInv, DetailShape
<1>3. LastIsSelected'
  BY <1>1 DEF DetailInv, LastIsSelected
<1>4. RepliesInOrder'
  <2> SUFFICES ASSUME ~overtaken'
               PROVE  RepliesInOrder'
    BY DEF RepliesInOrder
  <2>1. ~overtaken /\ \A m \in requests : ~(m < n)
    BY <1>1
  <2>2. requests \subseteq Nat /\ DOMAIN listeners \subseteq Nat
    BY LastListener DEF DetailInv, DetailShape
  <2>3. ASSUME NEW m \in requests', NEW k \in DOMAIN listeners, m <= k
        PROVE  k \in requests'
    BY <1>1, <2>1, <2>2, <2>3 DEF DetailInv, RepliesInOrder
  <2>4. ASSUME Len(listeners) \notin requests'
        PROVE  spans' = [of |-> selected, loading |-> FALSE]
    <3>1. /\ Len(listeners) \in DOMAIN listeners /\ n <= Len(listeners)
          /\ listeners # <<>>
      BY LastListener DEF DetailInv
    <3>2. Len(listeners) \in requests
      BY <1>1, <2>1, <3>1 DEF DetailInv, RepliesInOrder
    <3>3. n = Len(listeners)
      BY <1>1, <2>4, <3>2
    <3>4. QED
      BY <1>1, <3>1, <3>3 DEF DetailInv, LastIsSelected
  <2>5. QED
    BY <1>1, <2>3, <2>4 DEF RepliesInOrder
<1>5. LiveIsHeard'
  BY <1>1 DEF DetailInv, LiveIsHeard, LiveIsSelected, NoneListensOn, LastListens
<1>6. QED
  BY <1>2, <1>3, <1>4, <1>5 DEF DetailInv

LEMMA ListenProceedsKeeps ==
  ASSUME DetailInv, NEW n \in DOMAIN listeners, ListenProceeds(n)
  PROVE  DetailInv'
<1>1. UNCHANGED <<selected, requests, overtaken, spans, live, runs>>
  BY DEF ListenProceeds
<1>2. PICK p, old :
        /\ p \in {"heard", "held"}
        /\ listeners[n].phase # "gone" /\ listeners[n].phase # "held"
        /\ old = listeners
        /\ listeners' = [listeners EXCEPT ![n] = [listeners[n] EXCEPT !.phase = p]]
  BY DEF ListenProceeds
<1>3. PICK sub : sub = [old[n] EXCEPT !.phase = p]
  OBVIOUS
<1>4. /\ old \in Seq(Listeners) /\ n \in DOMAIN old /\ old[n] \in Listeners
      /\ \A m \in DOMAIN old : old[m] \in Listeners
      /\ Len(old) \in Nat /\ DOMAIN old = 1 .. Len(old)
  BY <1>2 DEF DetailInv, DetailShape
<1>5. /\ sub \in Listeners /\ sub.trace = old[n].trace /\ sub.left = old[n].left
      /\ sub.phase = p
  BY <1>2, <1>3, <1>4 DEF Listeners
<1>6. PICK now : now = [old EXCEPT ![n] = sub]
  OBVIOUS
<1>7. /\ listeners' = now /\ now \in Seq(Listeners) /\ Len(now) = Len(old)
      /\ DOMAIN now = DOMAIN old
      /\ \A m \in DOMAIN old : now[m] = IF m = n THEN sub ELSE old[m]
  BY <1>2, <1>3, <1>4, <1>5, <1>6, ListenerChanges
<1>8. /\ \A m \in DOMAIN old : now[m].trace = old[m].trace /\ now[m].left = old[m].left
      /\ \A m \in DOMAIN old : now[m].phase = IF m = n THEN p ELSE old[m].phase
  BY <1>5, <1>7
<1>9. (now # <<>> <=> Len(now) \in DOMAIN now) /\ (old # <<>> <=> Len(old) \in DOMAIN old)
  BY <1>4, <1>7
<1>10. DetailShape'
  BY <1>1, <1>2, <1>7 DEF DetailInv, DetailShape
<1>11. LastIsSelected'
  BY <1>1, <1>2, <1>7, <1>8, <1>9 DEF DetailInv, LastIsSelected
<1>12. RepliesInOrder'
  BY <1>1, <1>2, <1>7 DEF DetailInv, RepliesInOrder
<1>13. LiveIsHeard'
  <2>1. NoneListensOn' => NoneListensOn
    BY <1>2, <1>7, <1>8 DEF NoneListensOn
  <2>2. LastListens => LastListens'
    BY <1>2, <1>7, <1>8, <1>9 DEF LastListens
  <2>3. LiveIsSelected' <=> LiveIsSelected
    BY <1>1 DEF LiveIsSelected
  <2>4. QED
    BY <1>1, <2>1, <2>2, <2>3 DEF DetailInv, LiveIsHeard
<1>14. QED
  BY <1>10, <1>11, <1>12, <1>13 DEF DetailInv

\* As long as no listener listens on, what is heard is of the selected trace, and the
\* last listener hears it.
LEMMA HeardIsSelected ==
  ASSUME DetailInv, NoneListensOn, NEW t
  PROVE  /\ Heard(t) => t = selected /\ LastListens
         /\ LastListens => Heard(selected)
<1>1. ASSUME NEW n \in DOMAIN listeners, listeners[n].trace = t,
             listeners[n].phase \in {"heard", "held"}
      PROVE  n = Len(listeners)
  BY <1>1 DEF NoneListensOn, DetailInv, LastIsSelected
<1>2. listeners # <<>> <=> Len(listeners) \in DOMAIN listeners
  BY LastListener DEF DetailInv
<1>3. QED
  BY <1>1, <1>2 DEF Heard, LastListens, DetailInv, LastIsSelected

\* Of an event of a run, the panel keeps what the handlers of its trace make of it.
LEMMA EventKeeps ==
  ASSUME DetailInv, NEW t \in TraceIds, NEW l \in LiveStates,
         NEW r \in [phase : {"running", "over"}, ticks : Nat],
         Shows(t, l), runs' = [runs EXCEPT ![t] = r],
         UNCHANGED <<selected, listeners, requests, overtaken, spans>>,
         t = selected /\ LiveIsSelected =>
           /\ l.activeOf \in {NoTrace, selected} /\ l.costOf \in {NoTrace, selected}
           /\ l.activeOf # NoTrace => r.phase = "running" /\ l.cost = r.ticks
  PROVE  DetailInv'
<1>1. /\ runs' \in [TraceIds -> [phase : {"idle", "running", "over"}, ticks : Nat]]
      /\ runs'[t] = r /\ \A u \in TraceIds : u # t => runs'[u] = runs[u]
  BY DEF DetailInv, DetailShape
<1>2. DetailShape'
  <2>1. live' \in LiveStates
    BY DEF Shows, DetailInv, DetailShape
  <2>2. QED
    BY <1>1, <2>1 DEF DetailInv, DetailShape
<1>3. LastIsSelected' /\ RepliesInOrder'
  BY DEF DetailInv, LastIsSelected, RepliesInOrder
<1>4. LiveIsHeard'
  <2> SUFFICES ASSUME NoneListensOn'
               PROVE  LiveIsSelected' /\ (live'.activeOf # NoTrace => LastListens')
    BY DEF LiveIsHeard
  <2>1. NoneListensOn /\ (LastListens' <=> LastListens)
    BY DEF NoneListensOn, LastListens
  <2>2. LiveIsSelected /\ (live.activeOf # NoTrace => LastListens)
    BY <2>1 DEF DetailInv, LiveIsHeard
  <2>3. CASE Heard(t)
    <3>1. t = selected /\ LastListens /\ live' = l
      BY <2>1, <2>3, HeardIsSelected DEF Shows
    <3>2. QED
      BY <1>1, <2>1, <2>2, <3>1 DEF LiveIsSelected
  <2>4. CASE ~Heard(t)
    <3>1. live' = live
      BY <2>4 DEF Shows
    <3>2. live.activeOf # NoTrace => selected # t
      BY <2>1, <2>2, <2>4, HeardIsSelected
    <3>3. live.activeOf # NoTrace => selected \in TraceIds
      <4>1. LastListens => listeners[Len(listeners)] \in Listeners
        BY LastListener DEF LastListens, DetailInv
      <4>2. QED
        BY <2>2, <4>1 DEF DetailInv, LastIsSelected, LastListens, Listeners
    <3>4. QED
      BY <1>1, <2>1, <2>2, <3>1, <3>2, <3>3 DEF LiveIsSelected
  <2>5. QED
    BY <2>3, <2>4
<1>5. QED
  BY <1>2, <1>3, <1>4 DEF DetailInv

LEMMA RunStartsKeeps ==
  ASSUME DetailInv, NEW t \in TraceIds, RunStarts(t)
  PROVE  DetailInv'
<1>1. PICK l, r : /\ l = [NothingLive EXCEPT !.activeOf = t]
                  /\ r = [runs[t] EXCEPT !.phase = "running"]
  OBVIOUS
<1>2. /\ runs[t].phase = "idle" /\ Shows(t, l)
      /\ runs' = [runs EXCEPT ![t] = r]
      /\ UNCHANGED <<selected, listeners, requests, overtaken, spans>>
  BY <1>1 DEF RunStarts, DetailInv, DetailShape
<1>3. runs[t] \in [phase : {"idle", "running", "over"}, ticks : Nat] /\ runs[t].ticks = 0
  BY <1>2 DEF DetailInv, DetailShape
<1>4. /\ r \in [phase : {"running", "over"}, ticks : Nat] /\ r.phase = "running" /\ r.ticks = 0
      /\ l.activeOf = t /\ l.costOf = NoTrace /\ l.cost = 0 /\ l \in LiveStates
  BY <1>1, <1>3 DEF NothingLive, LiveStates
<1>5. QED
  BY <1>2, <1>4, EventKeeps

LEMMA CostTicksKeeps ==
  ASSUME DetailInv, NEW t \in TraceIds, CostTicks(t)
  PROVE  DetailInv'
<1>1. PICK l, r : /\ l = [live EXCEPT !.costOf = t, !.cost = runs[t].ticks + 1]
                  /\ r = [runs[t] EXCEPT !.ticks = @ + 1]
  OBVIOUS
<1>2. /\ runs[t].phase = "running" /\ Shows(t, l)
      /\ runs' = [runs EXCEPT ![t] = r]
      /\ UNCHANGED <<selected, listeners, requests, overtaken, spans>>
  BY <1>1 DEF CostTicks, DetailInv, DetailShape
<1>3. runs[t] \in [phase : {"idle", "running", "over"}, ticks : Nat]
  BY DEF DetailInv, DetailShape
<1>4. /\ r \in [phase : {"running", "over"}, ticks : Nat]
      /\ r.phase = "running" /\ r.ticks = runs[t].ticks + 1
  BY <1>1, <1>2, <1>3
<1>5. /\ l.activeOf = live.activeOf /\ l.costOf = t /\ l.cost = runs[t].ticks + 1
      /\ l \in LiveStates
  <2>1. live \in LiveStates /\ runs[t].ticks + 1 \in Nat
    BY <1>3 DEF DetailInv, DetailShape
  <2>2. QED
    BY <1>1, <2>1 DEF LiveStates
<1>6. QED
  BY <1>2, <1>4, <1>5, EventKeeps DEF LiveIsSelected

LEMMA RunEndsKeeps ==
  ASSUME DetailInv, NEW t \in TraceIds, RunEnds(t)
  PROVE  DetailInv'
<1>1. PICK l, r : /\ l = [live EXCEPT !.activeOf = NoTrace]
                  /\ r = [runs[t] EXCEPT !.phase = "over"]
  OBVIOUS
<1>2. /\ Shows(t, l) /\ runs' = [runs EXCEPT ![t] = r]
      /\ UNCHANGED <<selected, listeners, requests, overtaken, spans>>
  BY <1>1 DEF RunEnds, DetailInv, DetailShape
<1>3. runs[t] \in [phase : {"idle", "running", "over"}, ticks : Nat]
  BY DEF DetailInv, DetailShape
<1>4. r \in [phase : {"running", "over"}, ticks : Nat]
  BY <1>1, <1>3
<1>5. l.activeOf = NoTrace /\ l.costOf = live.costOf /\ l \in LiveStates
  <2>1. live \in LiveStates
    BY DEF DetailInv, DetailShape
  <2>2. QED
    BY <1>1, <2>1 DEF LiveStates
<1>6. QED
  BY <1>2, <1>4, <1>5, EventKeeps DEF LiveIsSelected

LEMMA DetailStep == DetailInv /\ [DetailNext]_detailVars => DetailInv'
<1> SUFFICES ASSUME DetailInv, [DetailNext]_detailVars
             PROVE  DetailInv'
  OBVIOUS
<1>1. ASSUME NEW t \in TraceIds, Select(t) \/ RunStarts(t) \/ CostTicks(t) \/ RunEnds(t)
      PROVE  DetailInv'
  BY <1>1, SelectKeeps, RunStartsKeeps, CostTicksKeeps, RunEndsKeeps
<1>2. ASSUME NEW n \in DOMAIN listeners, SpansArrive(n) \/ ListenProceeds(n)
      PROVE  DetailInv'
  BY <1>2, SpansArriveKeeps, ListenProceedsKeeps
<1>3. CASE CancelLiveRun
  <2>1. listeners # <<>>
    <3>1. listeners = <<>> => NoneListensOn /\ ~LastListens
      BY DEF NoneListensOn, LastListens
    <3>2. QED
      BY <1>3, <3>1 DEF CancelLiveRun, DetailInv, LiveIsHeard
  <2>2. selected \in TraceIds
    <3>1. listeners[Len(listeners)] \in Listeners
      BY <2>1, LastListener DEF DetailInv
    <3>2. QED
      BY <2>1, <3>1 DEF DetailInv, LastIsSelected, Listeners
  <2>3. QED
    BY <1>3, <2>2, RunEndsKeeps DEF CancelLiveRun
<1>4. CASE UNCHANGED detailVars
  BY <1>4 DEF detailVars, DetailInv, DetailShape, LastIsSelected, RepliesInOrder, LiveIsHeard,
              LiveIsSelected, NoneListensOn, LastListens
<1>5. QED
  BY <1>1, <1>2, <1>3, <1>4 DEF DetailNext

\* The inductive invariant of the panel holds in whatever order replies and events come.
LEMMA DetailIsSound == DetailSpec => []DetailInv
<1>1. DetailInit => DetailInv
  <2> SUFFICES ASSUME DetailInit
               PROVE  DetailInv
    OBVIOUS
  <2>1. DetailShape
    <3>1. listeners \in Seq(Listeners) /\ requests \subseteq DOMAIN listeners
      BY DEF DetailInit
    <3>2. /\ runs \in [TraceIds -> [phase : {"idle", "running", "over"}, ticks : Nat]]
          /\ \A t \in TraceIds : runs[t].phase = "idle" => runs[t].ticks = 0
      BY DEF DetailInit
    <3>3. QED
      BY <3>1, <3>2, NothingIsLive DEF DetailInit, DetailShape
  <2>2. LastIsSelected /\ RepliesInOrder
    BY DEF DetailInit, LastIsSelected, RepliesInOrder
  <2>3. LiveIsHeard
    BY DEF DetailInit, LiveIsHeard, LiveIsSelected, NothingLive
  <2>4. QED
    BY <2>1, <2>2, <2>3 DEF DetailInv
<1>2. QED
  BY <1>1, DetailStep, PTL DEF DetailSpec

\* In whatever order replies, events and the promises of listen come, the panel comes to
\* show spans, cost and activity of the selected trace: for any number of traces and
\* selections, as long as no reply is overtaken and no listener listens on.
THEOREM PanelComesToShowSelected == DetailSpec => []PanelShowsSelected
<1>1. DetailInv => PanelShowsSelected
  <2> SUFFICES ASSUME DetailInv
               PROVE  PanelShowsSelected
    OBVIOUS
  <2>1. SpansSettle
    BY DEF DetailInv, RepliesInOrder, SpansSettle
  <2>2. NoneListensOn => LiveIsSelected
    BY DEF DetailInv, LiveIsHeard
  <2>3. QED
    BY <2>1, <2>2 DEF PanelShowsSelected, NoneListensOn
<1>2. QED
  BY <1>1, DetailIsSound, PTL

\* What the panel shows is of a trace or of none, and costs what a run has ticked.
DetailBounds ==
  /\ selected \in TraceIds \cup {NoTrace}
  /\ spans \in [of : TraceIds \cup {NoTrace}, loading : BOOLEAN]
  /\ live.cost <= MaxTicks
  /\ \A t \in TraceIds : runs[t].ticks <= MaxTicks

LEMMA DetailBoundsKept ==
  ASSUME DetailInv, DetailInv', DetailBounds, [DetailNext]_detailVars
  PROVE  DetailBounds'
<1> USE DetailAssumption
<1>0. /\ \A n \in DOMAIN listeners : listeners[n] \in Listeners
      /\ live \in LiveStates /\ live' \in LiveStates
      /\ runs \in [TraceIds -> [phase : {"idle", "running", "over"}, ticks : Nat]]
  BY LastListener DEF DetailInv, DetailShape
<1>1. ASSUME NEW t \in TraceIds, Select(t)
      PROVE  DetailBounds'
  <2>1. spans' \in [of : TraceIds \cup {NoTrace}, loading : BOOLEAN]
    BY <1>1 DEF Select, DetailBounds
  <2>2. live'.cost <= MaxTicks
    BY <1>1 DEF Select, NothingLive
  <2>3. QED
    BY <1>1, <2>1, <2>2 DEF Select, DetailBounds
<1>2. ASSUME NEW n \in DOMAIN listeners, SpansArrive(n)
      PROVE  DetailBounds'
  BY <1>0, <1>2 DEF SpansArrive, DetailBounds, Listeners
<1>3. ASSUME NEW n \in DOMAIN listeners, ListenProceeds(n)
      PROVE  DetailBounds'
  BY <1>3 DEF ListenProceeds, DetailBounds
<1>4. ASSUME NEW t \in TraceIds, RunStarts(t)
      PROVE  DetailBounds'
  <2>1. live' = live \/ live'.cost = 0
    BY <1>4 DEF RunStarts, Shows, NothingLive
  <2>2. \A s \in TraceIds : runs'[s].ticks = runs[s].ticks
    BY <1>0, <1>4 DEF RunStarts
  <2>3. QED
    BY <1>4, <2>1, <2>2 DEF RunStarts, DetailBounds
<1>5. ASSUME NEW t \in TraceIds, CostTicks(t)
      PROVE  DetailBounds'
  <2>1. runs[t].ticks \in Nat /\ runs[t].ticks + 1 <= MaxTicks
    BY <1>0, <1>5 DEF CostTicks
  <2>2. live' = live \/ live'.cost = runs[t].ticks + 1
    BY <1>0, <1>5 DEF CostTicks, Shows, LiveStates
  <2>3. \A s \in TraceIds : runs'[s].ticks = IF s = t THEN runs[t].ticks + 1 ELSE runs[s].ticks
    BY <1>0, <1>5 DEF CostTicks
  <2>4. QED
    BY <1>5, <2>1, <2>2, <2>3 DEF CostTicks, DetailBounds
<1>6. ASSUME NEW t, RunEnds(t)
      PROVE  DetailBounds'
  <2>1. live' = live \/ live'.cost = live.cost
    BY <1>0, <1>6 DEF RunEnds, Shows, LiveStates
  <2>2. \A s \in TraceIds : runs'[s].ticks = runs[s].ticks
    BY <1>0, <1>6 DEF RunEnds
  <2>3. QED
    BY <1>6, <2>1, <2>2 DEF RunEnds, DetailBounds
<1>7. CASE UNCHANGED detailVars
  BY <1>7 DEF detailVars, DetailBounds
<1>8. QED
  BY <1>1, <1>2, <1>3, <1>4, <1>5, <1>6, <1>7 DEF DetailNext, CancelLiveRun

\* The panel's state is typed, and no cost exceeds what the runs have ticked.
THEOREM DetailTypesHold == DetailSpec => []DetailTypeOK
<1>1. DetailInit => DetailBounds
  BY DetailAssumption DEF DetailInit, DetailBounds, NothingLive
<1>2. DetailInv /\ DetailBounds => DetailTypeOK
  <2> SUFFICES ASSUME DetailInv, DetailBounds
               PROVE  DetailTypeOK
    OBVIOUS
  <2>1. /\ live \in LiveStates /\ live.cost \in 0 .. MaxTicks
        /\ runs \in [TraceIds -> [phase : {"idle", "running", "over"}, ticks : Nat]]
        /\ \A t \in TraceIds : runs[t].ticks \in 0 .. MaxTicks
    BY DetailAssumption DEF DetailInv, DetailShape, DetailBounds, LiveStates
  <2>2. live \in [activeOf : TraceIds \cup {NoTrace}, costOf : TraceIds \cup {NoTrace},
                 cost : 0 .. MaxTicks]
    BY <2>1 DEF LiveStates
  <2>3. runs \in [TraceIds -> [phase : {"idle", "running", "over"}, ticks : 0 .. MaxTicks]]
    BY <2>1
  <2>4. QED
    BY <2>2, <2>3 DEF DetailInv, DetailShape, DetailBounds, DetailTypeOK, Listeners
<1>3. QED
  BY <1>1, <1>2, DetailBoundsKept, DetailIsSound, PTL DEF DetailSpec

-----------------------------------------------------------------------------
(* Notification center: the list and what is stored of it.                 *)

Notes == [id : Nat, read : BOOLEAN]
Updates == [kind : {"push", "markRead"}, id : Nat] \cup [kind : {"clear"}]
             \cup [kind : {"known"}, value : Seq(Notes)]
Stores == {s \in Seq(Notes) : Len(s) <= MaxPersist}

NotifyShape ==
  /\ items \in Seq(Notes)
  /\ storage \in Stores
  /\ itemsQueue \in Seq(Updates)
  /\ \A i \in DOMAIN itemsQueue : itemsQueue[i].kind = "known" => i = 1
  /\ eventsIn \in Nat

\* Unless clear overtook an update that saves, the last update that waits saves, or what
\* it makes of the list is stored already and nothing that waits will change that.
EndsStored ==
  ~clearOvertook =>
    LET last == itemsQueue[Len(itemsQueue)]
    IN IF itemsQueue = <<>> THEN storage = FirstOf(MaxPersist, items)
       ELSE \/ last.kind \in {"push", "markRead"}
            \/ last.kind = "known" /\ storage = FirstOf(MaxPersist, last.value)
            \/ last.kind = "clear" /\ storage = <<>> /\ ~SavesWait

NotifyInv == NotifyShape /\ EndsStored

LEMMA FirstOfType ==
  ASSUME NEW n \in Nat, NEW S, NEW s \in Seq(S)
  PROVE  /\ FirstOf(n, s) \in Seq(S) /\ Len(FirstOf(n, s)) <= n
         /\ Len(s) <= n => FirstOf(n, s) = s
<1>1. PICK m : m = IF Len(s) < n THEN Len(s) ELSE n
  OBVIOUS
<1>2. m \in 0 .. Len(s) /\ m <= n /\ (Len(s) <= n => m = Len(s))
  BY <1>1
<1>3. PICK t : t = SubSeq(s, 1, m)
  OBVIOUS
<1>4. /\ t \in Seq(S) /\ Len(t) = m
      /\ \A i \in 1 .. m : t[i] = s[i]
  BY <1>2, <1>3
<1>5. Len(s) <= n => t = s
  BY <1>2, <1>4
<1>6. FirstOf(n, s) = t
  BY <1>1, <1>3 DEF FirstOf
<1>7. QED
  BY <1>2, <1>4, <1>5, <1>6

LEMMA FirstOfNothing == FirstOf(MaxPersist, <<>>) = <<>>
<1>1. <<>> \in Seq(Notes) /\ Len(<<>>) <= MaxPersist /\ MaxPersist \in Nat
  BY NotificationsAssumption
<1>2. QED
  BY <1>1, FirstOfType

LEMMA UpdatedType ==
  ASSUME NEW u \in Updates, NEW s \in Seq(Notes)
  PROVE  Updated(u, s) \in Seq(Notes)
<1>1. CASE u.kind = "push"
  <2>1. u.id \in Nat
    BY <1>1 DEF Updates
  <2>2. PICK note, all : note = [id |-> u.id, read |-> FALSE] /\ all = <<note>> \o s
    OBVIOUS
  <2>3. note \in Notes
    BY <2>1, <2>2 DEF Notes
  <2>4. all \in Seq(Notes)
    BY <2>2, <2>3
  <2>5. Updated(u, s) = FirstOf(MaxMemory, all)
    BY <1>1, <2>2 DEF Updated
  <2>6. QED
    BY <2>4, <2>5, FirstOfType, NotificationsAssumption
<1>2. CASE u.kind = "markRead"
  <2>1. PICK all : all = [i \in DOMAIN s |-> IF s[i].id = u.id THEN [s[i] EXCEPT !.read = TRUE]
                                                              ELSE s[i]]
    OBVIOUS
  <2>2. DOMAIN s = 1 .. Len(s) /\ Len(s) \in Nat /\ \A i \in DOMAIN s : s[i] \in Notes
    OBVIOUS
  <2>3. \A i \in DOMAIN s : [s[i] EXCEPT !.read = TRUE] \in Notes
    BY <2>2 DEF Notes
  <2>4. all \in [1 .. Len(s) -> Notes]
    BY <2>1, <2>2, <2>3
  <2>5. all \in Seq(Notes)
    BY <2>2, <2>4
  <2>6. Updated(u, s) = all
    BY <1>2, <2>1 DEF Updated
  <2>7. QED
    BY <2>5, <2>6
<1>3. CASE u.kind = "clear"
  BY <1>3 DEF Updated
<1>4. CASE u.kind = "known"
  BY <1>4 DEF Updated, Updates
<1>5. QED
  BY <1>1, <1>2, <1>3, <1>4 DEF Updates

LEMMA SavedByType ==
  ASSUME NEW u \in Updates, NEW s \in Seq(Notes), NEW t \in Stores
  PROVE  SavedBy(u, s, t) \in Stores
<1>1. Updated(u, s) \in Seq(Notes)
  BY UpdatedType
<1>2. FirstOf(MaxPersist, Updated(u, s)) \in Stores
  BY <1>1, FirstOfType, NotificationsAssumption DEF Stores
<1>3. QED
  BY <1>2 DEF SavedBy

\* The updater of push and of markRead runs or is queued.
LEMMA UpdateWaits ==
  ASSUME NotifyInv, NEW u \in [kind : {"push", "markRead"}, id : Nat], RunOrQueue(u),
         UNCHANGED <<items, clearOvertook>>, eventsIn' \in Nat
  PROVE  NotifyInv'
<1>1. u \in Updates /\ u.kind \in {"push", "markRead"} /\ u.kind # "known"
  BY DEF Updates
<1>2. CASE itemsQueue = <<>> /\ storage' = SavedBy(u, items, storage)
             /\ itemsQueue' = <<[kind |-> "known", value |-> Updated(u, items)]>>
  <2>1. PICK new, known : new = Updated(u, items) /\ known = [kind |-> "known", value |-> new]
    OBVIOUS
  <2>2. new \in Seq(Notes) /\ known \in Updates /\ known.kind = "known" /\ known.value = new
    BY <1>1, <2>1, UpdatedType DEF NotifyInv, NotifyShape, Updates
  <2>3. storage' \in Stores /\ storage' = FirstOf(MaxPersist, new)
    BY <1>1, <1>2, <2>1, SavedByType DEF NotifyInv, NotifyShape, SavedBy
  <2>4. itemsQueue' = <<known>>
    BY <1>2, <2>1
  <2>5. NotifyShape'
    BY <2>2, <2>3, <2>4 DEF NotifyInv, NotifyShape
  <2>6. EndsStored'
    BY <2>2, <2>3, <2>4 DEF EndsStored
  <2>7. QED
    BY <2>5, <2>6 DEF NotifyInv
<1>3. CASE itemsQueue' = Append(itemsQueue, u) /\ storage' = storage
  <2>1. PICK queue, n : queue = itemsQueue /\ n = Len(queue)
    OBVIOUS
  <2>2. queue \in Seq(Updates) /\ n \in Nat /\ DOMAIN queue = 1 .. n
    BY <2>1 DEF NotifyInv, NotifyShape
  <2>3. PICK longer : longer = Append(queue, u)
    OBVIOUS
  <2>4. /\ longer \in Seq(Updates) /\ Len(longer) = n + 1 /\ DOMAIN longer = 1 .. n + 1
        /\ longer[n + 1] = u /\ longer # <<>>
        /\ \A i \in 1 .. n : longer[i] = queue[i]
    BY <1>1, <2>1, <2>2, <2>3
  <2>5. itemsQueue' = longer
    BY <1>3, <2>1, <2>3
  <2>6. \A i \in 1 .. n + 1 : longer[i].kind = "known" => i = 1
    <3>1. \A i \in 1 .. n : queue[i].kind = "known" => i = 1
      BY <2>1, <2>2 DEF NotifyInv, NotifyShape
    <3>2. \A i \in 1 .. n + 1 : i \in 1 .. n \/ i = n + 1
      BY <2>2
    <3>3. QED
      BY <1>1, <2>4, <3>1, <3>2
  <2>7. NotifyShape'
    BY <1>3, <2>4, <2>5, <2>6 DEF NotifyInv, NotifyShape
  <2>8. EndsStored'
    BY <1>1, <2>4, <2>5 DEF EndsStored
  <2>9. QED
    BY <2>7, <2>8 DEF NotifyInv
<1>4. QED
  BY <1>2, <1>3 DEF RunOrQueue

LEMMA NotifyClearKeeps ==
  ASSUME NotifyInv, ClearAll
  PROVE  NotifyInv'
<1>1. PICK queue, n, u : queue = itemsQueue /\ n = Len(queue) /\ u = [kind |-> "clear"]
  OBVIOUS
<1>2. /\ itemsQueue' = Append(queue, u) /\ storage' = <<>> /\ items' = items
      /\ clearOvertook' = (clearOvertook \/ SavesWait) /\ eventsIn' = eventsIn
  BY <1>1 DEF ClearAll
<1>3. /\ queue \in Seq(Updates) /\ n \in Nat /\ DOMAIN queue = 1 .. n
      /\ u \in Updates /\ u.kind = "clear"
  BY <1>1 DEF NotifyInv, NotifyShape, Updates
<1>4. PICK longer : longer = Append(queue, u)
  OBVIOUS
<1>5. /\ longer \in Seq(Updates) /\ Len(longer) = n + 1 /\ DOMAIN longer = 1 .. n + 1
      /\ longer[n + 1] = u /\ longer # <<>>
      /\ \A i \in 1 .. n : longer[i] = queue[i]
  BY <1>1, <1>3, <1>4
<1>6. itemsQueue' = longer
  BY <1>2, <1>4
<1>7. NotifyShape'
  <2>1. \A i \in 1 .. n + 1 : longer[i].kind = "known" => i = 1
    <3>1. \A i \in 1 .. n : queue[i].kind = "known" => i = 1
      BY <1>1, <1>3 DEF NotifyInv, NotifyShape
    <3>2. \A i \in 1 .. n + 1 : i \in 1 .. n \/ i = n + 1
      BY <1>3
    <3>3. QED
      BY <1>3, <1>5, <3>1, <3>2
  <2>2. <<>> \in Stores
    BY NotificationsAssumption DEF Stores
  <2>3. QED
    BY <1>2, <1>5, <1>6, <2>1, <2>2 DEF NotifyInv, NotifyShape
<1>8. EndsStored'
  <2>1. ASSUME ~SavesWait
        PROVE  ~SavesWait'
    BY <1>1, <1>3, <1>5, <1>6, <2>1 DEF SavesWait
  <2>2. QED
    BY <1>2, <1>3, <1>5, <1>6, <2>1 DEF EndsStored
<1>9. QED
  BY <1>7, <1>8 DEF NotifyInv

\* At a render, the updates that wait run one after the other.
LEMMA NotifyRenderRuns ==
  ASSUME NotifyShape, ItemsRender
  PROVE  \E n, list, stored :
           /\ n = Len(itemsQueue) /\ n \in Nat \ {0}
           /\ list \in [0 .. n -> Seq(Notes)] /\ stored \in [0 .. n -> Stores]
           /\ list[0] = items /\ stored[0] = storage
           /\ \A k \in 1 .. n : /\ list[k] = Updated(itemsQueue[k], list[k - 1])
                                /\ stored[k] = SavedBy(itemsQueue[k], list[k - 1], stored[k - 1])
           /\ items' = list[n] /\ storage' = stored[n]
<1> DEFINE IsRun(f) ==
             f = [k \in 0 .. Len(itemsQueue) |->
                    IF k = 0 THEN [items |-> items, stored |-> storage]
                    ELSE [items  |-> Updated(itemsQueue[k], f[k - 1].items),
                          stored |-> SavedBy(itemsQueue[k], f[k - 1].items, f[k - 1].stored)]]
           run == CHOOSE f : IsRun(f)
<1>1. PICK queue, n : queue = itemsQueue /\ n = Len(queue)
  OBVIOUS
<1> HIDE DEF IsRun, run
<1>2. queue \in Seq(Updates) /\ n \in Nat /\ \A k \in 1 .. n : queue[k] \in Updates
  BY <1>1 DEF NotifyShape
<1>3. PICK S : S = [items : Seq(Notes), stored : Stores]
  OBVIOUS
<1>4. PICK start, step :
        /\ start = [items |-> items, stored |-> storage]
        /\ step = [k \in 1 .. n |-> [s \in S |->
                     [items  |-> Updated(queue[k], s.items),
                      stored |-> SavedBy(queue[k], s.items, s.stored)]]]
  OBVIOUS
<1>5. start \in S
  BY <1>3, <1>4 DEF NotifyShape
<1>6. step \in [1 .. n -> [S -> S]]
  <2>1. ASSUME NEW k \in 1 .. n, NEW s \in S
        PROVE  /\ Updated(queue[k], s.items) \in Seq(Notes)
               /\ SavedBy(queue[k], s.items, s.stored) \in Stores
    <3>1. s.items \in Seq(Notes) /\ s.stored \in Stores
      BY <1>3
    <3>2. QED
      BY <1>2, <3>1, UpdatedType, SavedByType
  <2>2. QED
    BY <1>3, <1>4, <2>1
<1>7. PICK f \in [0 .. n -> S] :
        f = [k \in 0 .. n |-> IF k = 0 THEN start ELSE step[k][f[k - 1]]]
  <2>1. PICK f : RunOf(f, n, S, start, step)
    BY <1>2, <1>5, <1>6, RunsThrough
  <2>2. QED
    BY <2>1 DEF RunOf
<1>8. ASSUME NEW k \in 1 .. n
      PROVE  step[k][f[k - 1]] =
               [items  |-> Updated(queue[k], f[k - 1].items),
                stored |-> SavedBy(queue[k], f[k - 1].items, f[k - 1].stored)]
  <2>1. k - 1 \in 0 .. n
    BY <1>2
  <2>2. f[k - 1] \in S
    BY <1>7, <2>1
  <2>3. QED
    BY <1>4, <2>2
<1>9. f[0] = start /\ \A k \in 1 .. n :
        f[k] = [items  |-> Updated(queue[k], f[k - 1].items),
                stored |-> SavedBy(queue[k], f[k - 1].items, f[k - 1].stored)]
  <2>1. f[0] = start
    BY <1>2, <1>7
  <2>2. ASSUME NEW k \in 1 .. n
        PROVE  f[k] = [items  |-> Updated(queue[k], f[k - 1].items),
                       stored |-> SavedBy(queue[k], f[k - 1].items, f[k - 1].stored)]
    <3>1. k \in 0 .. n /\ k # 0
      BY <1>2
    <3>2. f[k] = step[k][f[k - 1]]
      BY <1>7, <3>1
    <3>3. QED
      BY <1>8, <3>2
  <2>3. QED
    BY <2>1, <2>2
<1>10. IsRun(f)
  <2>1. f = [k \in 0 .. n |-> f[k]]
    BY <1>7
  <2>2. ASSUME NEW k \in 0 .. n
        PROVE  f[k] = IF k = 0 THEN [items |-> items, stored |-> storage]
                      ELSE [items  |-> Updated(queue[k], f[k - 1].items),
                            stored |-> SavedBy(queue[k], f[k - 1].items, f[k - 1].stored)]
    <3>1. k # 0 => k \in 1 .. n
      BY <1>2
    <3>2. QED
      BY <1>4, <1>9, <3>1
  <2>3. QED
    BY <1>1, <2>1, <2>2 DEF IsRun
<1>11. IsRun(run)
  BY <1>10 DEF run
<1>12. /\ n # 0 /\ items' = run[n].items /\ storage' = run[n].stored
  BY <1>1, <1>2 DEF ItemsRender, NotifyShape, run, IsRun
<1>13. PICK g : g = run
  OBVIOUS
<1>14. /\ g[0] = start
       /\ \A k \in 1 .. n :
            g[k] = [items  |-> Updated(queue[k], g[k - 1].items),
                    stored |-> SavedBy(queue[k], g[k - 1].items, g[k - 1].stored)]
  <2>1. g = [k \in 0 .. n |->
               IF k = 0 THEN [items |-> items, stored |-> storage]
               ELSE [items  |-> Updated(queue[k], g[k - 1].items),
                     stored |-> SavedBy(queue[k], g[k - 1].items, g[k - 1].stored)]]
    BY <1>1, <1>11, <1>13 DEF IsRun
  <2>2. \A k \in 1 .. n : k \in 0 .. n /\ k # 0
    BY <1>2
  <2>3. 0 \in 0 .. n
    BY <1>2
  <2>4. g[0] = start
    BY <1>4, <2>1, <2>3
  <2>5. QED
    BY <2>1, <2>2, <2>4
<1>15. \A k \in 0 .. n : g[k] \in S
  <2> DEFINE T == {k \in Nat : g[k] \in S}
  <2>1. 0 \in T
    BY <1>5, <1>14
  <2>2. ASSUME NEW k \in 0 .. n - 1, k \in T
        PROVE  k + 1 \in T
    <3>1. k + 1 \in 1 .. n /\ (k + 1) - 1 = k /\ g[k] \in S /\ k + 1 \in Nat
      BY <1>2, <2>2
    <3>2. g[k].items \in Seq(Notes) /\ g[k].stored \in Stores
      BY <1>3, <3>1
    <3>3. /\ Updated(queue[k + 1], g[k].items) \in Seq(Notes)
          /\ SavedBy(queue[k + 1], g[k].items, g[k].stored) \in Stores
      BY <1>2, <3>1, <3>2, UpdatedType, SavedByType
    <3>4. g[k + 1] = [items  |-> Updated(queue[k + 1], g[k].items),
                      stored |-> SavedBy(queue[k + 1], g[k].items, g[k].stored)]
      BY <1>14, <3>1
    <3>5. g[k + 1] \in S
      BY <1>3, <3>3, <3>4
    <3>6. QED
      BY <3>1, <3>5
  <2> HIDE DEF T
  <2>3. \A k \in 0 .. n : k \in T
    BY <1>2, <2>1, <2>2, UpTo
  <2>4. QED
    BY <2>3 DEF T
<1>16. PICK list, stored : /\ list = [k \in 0 .. n |-> g[k].items]
                           /\ stored = [k \in 0 .. n |-> g[k].stored]
  OBVIOUS
<1>17. list \in [0 .. n -> Seq(Notes)] /\ stored \in [0 .. n -> Stores]
  BY <1>3, <1>15, <1>16
<1>18. list[0] = items /\ stored[0] = storage
  BY <1>2, <1>4, <1>14, <1>16
<1>19. ASSUME NEW k \in 1 .. n
       PROVE  /\ list[k] = Updated(queue[k], list[k - 1])
              /\ stored[k] = SavedBy(queue[k], list[k - 1], stored[k - 1])
  <2>1. k \in 0 .. n /\ k - 1 \in 0 .. n
    BY <1>2
  <2>2. list[k - 1] = g[k - 1].items /\ stored[k - 1] = g[k - 1].stored
    BY <1>16, <2>1
  <2>3. list[k] = g[k].items /\ stored[k] = g[k].stored
    BY <1>16, <2>1
  <2>4. g[k] = [items  |-> Updated(queue[k], g[k - 1].items),
                stored |-> SavedBy(queue[k], g[k - 1].items, g[k - 1].stored)]
    BY <1>14
  <2>5. QED
    BY <2>2, <2>3, <2>4
<1>20. items' = list[n] /\ storage' = stored[n]
  BY <1>2, <1>12, <1>13, <1>16
<1>21. QED
  BY <1>1, <1>2, <1>12, <1>17, <1>18, <1>19, <1>20

LEMMA NotifyRenderKeeps ==
  ASSUME NotifyInv, ItemsRender
  PROVE  NotifyInv'
<1>1. PICK n, list, stored :
        /\ n = Len(itemsQueue) /\ n \in Nat \ {0}
        /\ list \in [0 .. n -> Seq(Notes)] /\ stored \in [0 .. n -> Stores]
        /\ list[0] = items /\ stored[0] = storage
        /\ \A k \in 1 .. n : /\ list[k] = Updated(itemsQueue[k], list[k - 1])
                             /\ stored[k] = SavedBy(itemsQueue[k], list[k - 1], stored[k - 1])
        /\ items' = list[n] /\ storage' = stored[n]
  BY NotifyRenderRuns DEF NotifyInv
<1>2. itemsQueue' = <<>> /\ clearOvertook' = clearOvertook /\ eventsIn' = eventsIn
  BY DEF ItemsRender
<1>3. NotifyShape'
  BY <1>1, <1>2 DEF NotifyInv, NotifyShape
<1>4. ASSUME ~clearOvertook
      PROVE  stored[n] = FirstOf(MaxPersist, list[n])
  <2>1. PICK last : last = itemsQueue[n]
    OBVIOUS
  <2>2. /\ list[n] = Updated(last, list[n - 1])
        /\ stored[n] = SavedBy(last, list[n - 1], stored[n - 1])
    BY <1>1, <2>1
  <2>3. \/ last.kind \in {"push", "markRead"}
        \/ last.kind = "known" /\ storage = FirstOf(MaxPersist, last.value)
        \/ last.kind = "clear" /\ storage = <<>> /\ ~SavesWait
    BY <1>1, <1>4, <2>1 DEF NotifyInv, EndsStored
  <2>4. CASE last.kind \in {"push", "markRead"}
    BY <2>2, <2>4 DEF SavedBy
  <2>5. CASE last.kind = "known" /\ storage = FirstOf(MaxPersist, last.value)
    <3>1. n = 1
      <4>1. n \in DOMAIN itemsQueue
        BY <1>1 DEF NotifyInv, NotifyShape
      <4>2. QED
        BY <2>1, <2>5, <4>1 DEF NotifyInv, NotifyShape
    <3>2. stored[n] = storage /\ list[n] = last.value
      BY <1>1, <2>2, <2>5, <3>1 DEF SavedBy, Updated
    <3>3. QED
      BY <2>5, <3>2
  <2>6. CASE last.kind = "clear" /\ storage = <<>> /\ ~SavesWait
    <3> DEFINE T == {k \in Nat : stored[k] = storage}
    <3>1. 0 \in T
      BY <1>1
    <3>2. ASSUME NEW k \in 0 .. n - 1, k \in T
          PROVE  k + 1 \in T
      <4>1. k + 1 \in 1 .. n /\ (k + 1) - 1 = k /\ k + 1 \in Nat
        BY <1>1
      <4>2. itemsQueue[k + 1].kind \notin {"push", "markRead"}
        <5>1. k + 1 \in DOMAIN itemsQueue
          BY <1>1, <4>1 DEF NotifyInv, NotifyShape
        <5>2. QED
          BY <2>6, <5>1 DEF SavesWait
      <4>3. stored[k + 1] = stored[k]
        BY <1>1, <4>1, <4>2 DEF SavedBy
      <4>4. QED
        BY <3>2, <4>1, <4>3
    <3> HIDE DEF T
    <3>3. n \in T
      <4>1. \A k \in 0 .. n : k \in T
        BY <1>1, <3>1, <3>2, UpTo
      <4>2. QED
        BY <1>1, <4>1
    <3>4. stored[n] = <<>>
      BY <2>6, <3>3 DEF T
    <3>5. list[n] = <<>>
      BY <2>2, <2>6 DEF Updated
    <3>6. QED
      BY <3>4, <3>5, FirstOfNothing
  <2>7. QED
    BY <2>3, <2>4, <2>5, <2>6
<1>5. EndsStored'
  BY <1>1, <1>2, <1>4 DEF EndsStored
<1>6. QED
  BY <1>3, <1>5 DEF NotifyInv

LEMMA NotifyStep == NotifyInv /\ [NotifyNext]_notifyVars => NotifyInv'
<1> SUFFICES ASSUME NotifyInv, [NotifyNext]_notifyVars
             PROVE  NotifyInv'
  OBVIOUS
<1>1. CASE UNCHANGED <<items, itemsQueue, storage, clearOvertook>> /\ eventsIn' \in Nat
  BY <1>1 DEF NotifyInv, NotifyShape, EndsStored, SavesWait
<1>2. ASSUME NEW p \in PrefChoices, SavePreferences(p)
      PROVE  NotifyInv'
  BY <1>1, <1>2 DEF SavePreferences, NotifyInv, NotifyShape
<1>3. ASSUME NEW type \in EventTypes, NEW inWindow \in BOOLEAN,
             SidecarEventArrives(type, inWindow)
      PROVE  NotifyInv'
  <2>1. eventsIn' = eventsIn + 1 /\ eventsIn + 1 \in Nat
    BY <1>3 DEF SidecarEventArrives, NotifyInv, NotifyShape
  <2>2. UNCHANGED <<items, clearOvertook>>
    BY <1>3 DEF SidecarEventArrives
  <2>3. CASE routeNotification(type, routedBy, inWindow) = "silent"
    BY <1>1, <1>3, <2>1, <2>2, <2>3 DEF SidecarEventArrives
  <2>4. CASE routeNotification(type, routedBy, inWindow) # "silent"
    <3>1. PICK u : u = [kind |-> "push", id |-> eventsIn + 1]
      OBVIOUS
    <3>2. RunOrQueue(u)
      BY <1>3, <2>4, <3>1 DEF SidecarEventArrives
    <3>3. u \in [kind : {"push", "markRead"}, id : Nat]
      BY <2>1, <3>1
    <3>4. QED
      BY <2>1, <2>2, <3>2, <3>3, UpdateWaits
  <2>5. QED
    BY <2>3, <2>4
<1>4. ASSUME NEW i \in DOMAIN items, MarkRead(i)
      PROVE  NotifyInv'
  <2>1. PICK u : u = [kind |-> "markRead", id |-> items[i].id]
    OBVIOUS
  <2>2. items[i] \in Notes
    BY DEF NotifyInv, NotifyShape
  <2>3. u \in [kind : {"push", "markRead"}, id : Nat]
    BY <2>1, <2>2 DEF Notes
  <2>4. RunOrQueue(u) /\ UNCHANGED <<items, clearOvertook>> /\ eventsIn' \in Nat
    BY <1>4, <2>1 DEF MarkRead, NotifyInv, NotifyShape
  <2>5. QED
    BY <2>3, <2>4, UpdateWaits
<1>5. CASE Reload
  <2>1. /\ items' = storage /\ itemsQueue' = <<>> /\ storage' = storage
        /\ eventsIn' = eventsIn
    BY <1>5 DEF Reload
  <2>2. storage \in Seq(Notes) /\ Len(storage) <= MaxPersist
    BY DEF NotifyInv, NotifyShape, Stores
  <2>3. FirstOf(MaxPersist, storage) = storage
    BY <2>2, FirstOfType, NotificationsAssumption
  <2>4. NotifyShape'
    BY <2>1, <2>2 DEF NotifyInv, NotifyShape
  <2>5. EndsStored'
    BY <2>1, <2>3 DEF EndsStored
  <2>6. QED
    BY <2>4, <2>5 DEF NotifyInv
<1>6. CASE UNCHANGED notifyVars
  BY <1>1, <1>6 DEF notifyVars, NotifyInv, NotifyShape
<1>7. QED
  BY <1>2, <1>3, <1>4, <1>5, <1>6, NotifyRenderKeeps, NotifyClearKeeps DEF NotifyNext

\* The inductive invariant of the list holds however updates and reloads alternate.
LEMMA NotifyIsSound == NotifySpec => []NotifyInv
<1>1. NotifyInit => NotifyInv
  <2> SUFFICES ASSUME NotifyInit
               PROVE  NotifyInv
    OBVIOUS
  <2>1. <<>> \in Stores
    BY NotificationsAssumption DEF Stores
  <2>2. NotifyShape /\ EndsStored
    BY <2>1, FirstOfNothing DEF NotifyInit, NotifyShape, EndsStored
  <2>3. QED
    BY <2>2 DEF NotifyInv
<1>2. QED
  BY <1>1, NotifyStep, PTL DEF NotifySpec

\* Whatever updates React runs at once or later, and whenever the page is reloaded, the
\* newest of the list are what is stored once all updates are rendered, for any length of
\* the list and any number of events, unless clear overtook an update that saves.
THEOREM ListIsStored == NotifySpec => []StoredUnlessOvertaken
<1>1. NotifyInv => StoredUnlessOvertaken
  BY DEF NotifyInv, EndsStored, StoredUnlessOvertaken
<1>2. QED
  BY <1>1, NotifyIsSound, PTL

\* A sequence is one over every set that its elements are in.
LEMMA SeqIn ==
  ASSUME NEW S, NEW T, NEW s \in Seq(S), \A i \in DOMAIN s : s[i] \in T
  PROVE  s \in Seq(T)
<1>1. s \in [1 .. Len(s) -> T] /\ Len(s) \in Nat
  OBVIOUS
<1>2. QED
  BY <1>1

\* A list is of notifications that came, and no longer than allowed.
NotesUpTo(n) == [id : 1 .. n, read : BOOLEAN]
Lists(n) == {s \in Seq(NotesUpTo(n)) : Len(s) <= MaxMemory}

\* An update names a notification that came.
IsOf(u, n) == /\ u.kind = "push" => u.id \in 1 .. n
              /\ u.kind = "known" => u.value \in Lists(n)

NotifyBounds ==
  /\ prefs \in PrefChoices /\ routedBy \in PrefChoices
  /\ items \in Lists(eventsIn)
  /\ storage \in Seq(NotesUpTo(eventsIn))
  /\ \A i \in DOMAIN itemsQueue : IsOf(itemsQueue[i], eventsIn)
  /\ clearOvertook \in BOOLEAN
  /\ eventsIn \in 0 .. MaxEventsIn /\ reloads \in 0 .. MaxReloads

\* What came stays among what comes.
LEMMA NotesStay ==
  ASSUME NEW n \in Nat, NEW m \in Nat, n <= m
  PROVE  /\ \A s \in Seq(NotesUpTo(n)) : s \in Seq(NotesUpTo(m))
         /\ \A s \in Lists(n) : s \in Lists(m)
         /\ \A u : IsOf(u, n) => IsOf(u, m)
<1>1. NotesUpTo(n) \subseteq NotesUpTo(m)
  BY DEF NotesUpTo
<1>2. ASSUME NEW s \in Seq(NotesUpTo(n))
      PROVE  s \in Seq(NotesUpTo(m))
  <2>1. \A i \in DOMAIN s : s[i] \in NotesUpTo(n)
    OBVIOUS
  <2>2. QED
    BY <1>1, <2>1, SeqIn
<1>3. \A s \in Lists(n) : s \in Lists(m)
  BY <1>2 DEF Lists
<1>4. QED
  BY <1>2, <1>3 DEF IsOf

\* An update makes a list of notifications that came of such a list, and saves one.
LEMMA UpdatedStays ==
  ASSUME NEW n \in Nat, NEW u \in Updates, IsOf(u, n), NEW s \in Lists(n)
  PROVE  Updated(u, s) \in Lists(n)
<1>0. s \in Seq(NotesUpTo(n)) /\ Len(s) <= MaxMemory /\ MaxMemory \in Nat
  BY NotificationsAssumption DEF Lists
<1>1. CASE u.kind = "push"
  <2>1. PICK note, all : note = [id |-> u.id, read |-> FALSE] /\ all = <<note>> \o s
    OBVIOUS
  <2>2. note \in NotesUpTo(n)
    BY <1>1, <2>1 DEF IsOf, NotesUpTo
  <2>3. all \in Seq(NotesUpTo(n))
    BY <1>0, <2>1, <2>2
  <2>4. Updated(u, s) = FirstOf(MaxMemory, all)
    BY <1>1, <2>1 DEF Updated
  <2>5. QED
    BY <1>0, <2>3, <2>4, FirstOfType DEF Lists
<1>2. CASE u.kind = "markRead"
  <2>1. PICK all : all = [i \in DOMAIN s |-> IF s[i].id = u.id THEN [s[i] EXCEPT !.read = TRUE]
                                                              ELSE s[i]]
    OBVIOUS
  <2>2. DOMAIN s = 1 .. Len(s) /\ Len(s) \in Nat /\ \A i \in DOMAIN s : s[i] \in NotesUpTo(n)
    BY <1>0
  <2>3. \A i \in DOMAIN s : [s[i] EXCEPT !.read = TRUE] \in NotesUpTo(n)
    BY <2>2 DEF NotesUpTo
  <2>4. all \in [1 .. Len(s) -> NotesUpTo(n)]
    BY <2>1, <2>2, <2>3
  <2>5. all \in Seq(NotesUpTo(n)) /\ Len(all) = Len(s)
    BY <2>2, <2>4
  <2>6. Updated(u, s) = all
    BY <1>2, <2>1 DEF Updated
  <2>7. QED
    BY <1>0, <2>5, <2>6 DEF Lists
<1>3. CASE u.kind = "clear"
  <2>1. Updated(u, s) = <<>> /\ <<>> \in Seq(NotesUpTo(n)) /\ Len(<<>>) <= MaxMemory
    BY <1>0, <1>3 DEF Updated
  <2>2. QED
    BY <2>1 DEF Lists
<1>4. CASE u.kind = "known"
  BY <1>4 DEF Updated, IsOf
<1>5. QED
  BY <1>1, <1>2, <1>3, <1>4 DEF Updates

LEMMA SavedStays ==
  ASSUME NEW n \in Nat, NEW u \in Updates, IsOf(u, n), NEW s \in Lists(n),
         NEW t \in Seq(NotesUpTo(n))
  PROVE  SavedBy(u, s, t) \in Seq(NotesUpTo(n))
<1>1. Updated(u, s) \in Seq(NotesUpTo(n))
  BY UpdatedStays DEF Lists
<1>2. FirstOf(MaxPersist, Updated(u, s)) \in Seq(NotesUpTo(n))
  BY <1>1, FirstOfType, NotificationsAssumption
<1>3. QED
  BY <1>2 DEF SavedBy

\* The updater of push and of markRead runs or is queued.
LEMMA UpdateStays ==
  ASSUME NotifyInv, NotifyBounds, NEW u \in [kind : {"push", "markRead"}, id : Nat],
         RunOrQueue(u), eventsIn' \in 0 .. MaxEventsIn, eventsIn <= eventsIn',
         IsOf(u, eventsIn'), UNCHANGED <<prefs, routedBy, items, clearOvertook, reloads>>
  PROVE  NotifyBounds'
<1>1. PICK n : n = eventsIn'
  OBVIOUS
<1>2. /\ n \in Nat /\ items \in Lists(n) /\ storage \in Seq(NotesUpTo(n))
      /\ \A i \in DOMAIN itemsQueue : IsOf(itemsQueue[i], n)
  BY <1>1, NotesStay, NotificationsAssumption DEF NotifyBounds
<1>3. u \in Updates
  BY DEF Updates
<1>4. CASE itemsQueue = <<>> /\ storage' = SavedBy(u, items, storage)
             /\ itemsQueue' = <<[kind |-> "known", value |-> Updated(u, items)]>>
  <2>1. PICK new, known : new = Updated(u, items) /\ known = [kind |-> "known", value |-> new]
    OBVIOUS
  <2>2. new \in Lists(n) /\ storage' \in Seq(NotesUpTo(n))
    BY <1>1, <1>2, <1>3, <1>4, <2>1, UpdatedStays, SavedStays
  <2>3. IsOf(known, n) /\ itemsQueue' = <<known>>
    BY <1>4, <2>1, <2>2 DEF IsOf
  <2>4. \A i \in DOMAIN itemsQueue' : IsOf(itemsQueue'[i], n)
    BY <2>3
  <2>5. QED
    BY <1>1, <1>2, <2>2, <2>4 DEF NotifyBounds
<1>5. CASE itemsQueue' = Append(itemsQueue, u) /\ storage' = storage
  <2>1. PICK queue, longer : queue = itemsQueue /\ longer = Append(queue, u)
    OBVIOUS
  <2>2. queue \in Seq(Updates)
    BY <2>1 DEF NotifyInv, NotifyShape
  <2>3. \A i \in DOMAIN longer : longer[i] = u \/ (i \in DOMAIN queue /\ longer[i] = queue[i])
    BY <1>3, <2>1, <2>2
  <2>4. \A i \in DOMAIN itemsQueue' : IsOf(itemsQueue'[i], n)
    BY <1>1, <1>2, <1>5, <2>1, <2>3
  <2>5. QED
    BY <1>1, <1>2, <1>5, <2>4 DEF NotifyBounds
<1>6. QED
  BY <1>4, <1>5 DEF RunOrQueue

LEMMA NotifyRenderStays ==
  ASSUME NotifyInv, NotifyBounds, ItemsRender
  PROVE  NotifyBounds'
<1>1. PICK n, list, stored :
        /\ n = Len(itemsQueue) /\ n \in Nat \ {0}
        /\ list \in [0 .. n -> Seq(Notes)] /\ stored \in [0 .. n -> Stores]
        /\ list[0] = items /\ stored[0] = storage
        /\ \A k \in 1 .. n : /\ list[k] = Updated(itemsQueue[k], list[k - 1])
                             /\ stored[k] = SavedBy(itemsQueue[k], list[k - 1], stored[k - 1])
        /\ items' = list[n] /\ storage' = stored[n]
  BY NotifyRenderRuns DEF NotifyInv
<1>2. PICK e : e = eventsIn
  OBVIOUS
<1>3. e \in Nat /\ \A k \in 1 .. n : itemsQueue[k] \in Updates /\ IsOf(itemsQueue[k], e)
  <2>1. itemsQueue \in Seq(Updates)
    BY DEF NotifyInv, NotifyShape
  <2>2. DOMAIN itemsQueue = 1 .. n /\ \A k \in 1 .. n : itemsQueue[k] \in Updates
    BY <1>1, <2>1
  <2>3. e \in Nat /\ \A k \in DOMAIN itemsQueue : IsOf(itemsQueue[k], e)
    BY <1>2, NotificationsAssumption DEF NotifyBounds
  <2>4. QED
    BY <2>2, <2>3
<1> DEFINE T == {k \in Nat : k <= n => list[k] \in Lists(e) /\ stored[k] \in Seq(NotesUpTo(e))}
<1>4. 0 \in T
  BY <1>1, <1>2 DEF NotifyBounds
<1>5. ASSUME NEW k \in 0 .. n - 1, k \in T
      PROVE  k + 1 \in T
  <2>1. k + 1 \in 1 .. n /\ (k + 1) - 1 = k /\ k + 1 \in Nat /\ k <= n
    BY <1>1
  <2>2. list[k] \in Lists(e) /\ stored[k] \in Seq(NotesUpTo(e))
    BY <1>5, <2>1
  <2>3. list[k + 1] \in Lists(e) /\ stored[k + 1] \in Seq(NotesUpTo(e))
    BY <1>1, <1>3, <2>1, <2>2, UpdatedStays, SavedStays
  <2>4. QED
    BY <2>1, <2>3
<1> HIDE DEF T
<1>6. \A k \in 0 .. n : k \in T
  BY <1>1, <1>4, <1>5, UpTo
<1>7. n \in T
  BY <1>1, <1>6
<1>8. list[n] \in Lists(e) /\ stored[n] \in Seq(NotesUpTo(e))
  BY <1>1, <1>7 DEF T
<1>9. /\ itemsQueue' = <<>>
      /\ UNCHANGED <<prefs, routedBy, clearOvertook, eventsIn, reloads>>
  BY DEF ItemsRender
<1>10. QED
  BY <1>1, <1>2, <1>8, <1>9 DEF NotifyBounds

LEMMA NotifyBoundsKept ==
  ASSUME NotifyInv, NotifyBounds, [NotifyNext]_notifyVars
  PROVE  NotifyBounds'
<1>0. MaxReloads \in Nat /\ MaxEventsIn \in Nat /\ eventsIn \in Nat /\ itemsQueue \in Seq(Updates)
  BY NotificationsAssumption DEF NotifyInv, NotifyShape
<1>1. ASSUME NEW p \in PrefChoices, SavePreferences(p)
      PROVE  NotifyBounds'
  BY <1>1 DEF SavePreferences, NotifyBounds
<1>2. ASSUME NEW type \in EventTypes, NEW inWindow \in BOOLEAN,
             SidecarEventArrives(type, inWindow)
      PROVE  NotifyBounds'
  <2>1. /\ eventsIn' = eventsIn + 1 /\ eventsIn' \in 0 .. MaxEventsIn /\ eventsIn <= eventsIn'
        /\ UNCHANGED <<prefs, routedBy, items, clearOvertook, reloads>>
    BY <1>0, <1>2 DEF SidecarEventArrives, NotifyBounds
  <2>2. CASE UNCHANGED <<itemsQueue, storage>>
    <3>1. PICK n : n = eventsIn'
      OBVIOUS
    <3>2. /\ items \in Lists(n) /\ storage \in Seq(NotesUpTo(n))
          /\ \A i \in DOMAIN itemsQueue : IsOf(itemsQueue[i], n)
      BY <1>0, <2>1, <3>1, NotesStay DEF NotifyBounds
    <3>3. QED
      BY <2>1, <2>2, <3>1, <3>2 DEF NotifyBounds
  <2>3. CASE RunOrQueue([kind |-> "push", id |-> eventsIn + 1])
    <3>1. PICK u : u = [kind |-> "push", id |-> eventsIn + 1]
      OBVIOUS
    <3>2. u \in [kind : {"push", "markRead"}, id : Nat] /\ IsOf(u, eventsIn')
      BY <1>0, <2>1, <3>1 DEF IsOf
    <3>3. QED
      BY <2>1, <2>3, <3>1, <3>2, UpdateStays
  <2>4. QED
    BY <1>2, <2>2, <2>3 DEF SidecarEventArrives
<1>3. ASSUME NEW i \in DOMAIN items, MarkRead(i)
      PROVE  NotifyBounds'
  <2>1. PICK u : u = [kind |-> "markRead", id |-> items[i].id]
    OBVIOUS
  <2>2. items[i] \in Notes
    BY DEF NotifyInv, NotifyShape
  <2>3. u \in [kind : {"push", "markRead"}, id : Nat] /\ IsOf(u, eventsIn)
    BY <2>1, <2>2 DEF Notes, IsOf
  <2>4. /\ RunOrQueue(u) /\ eventsIn' = eventsIn
        /\ UNCHANGED <<prefs, routedBy, items, clearOvertook, reloads>>
    BY <1>3, <2>1 DEF MarkRead
  <2>5. eventsIn' \in 0 .. MaxEventsIn /\ eventsIn <= eventsIn'
    BY <1>0, <2>4 DEF NotifyBounds
  <2>6. QED
    BY <2>3, <2>4, <2>5, UpdateStays
<1>4. CASE ClearAll
  <2>1. PICK queue, u, longer : /\ queue = itemsQueue /\ u = [kind |-> "clear"]
                                /\ longer = Append(queue, u)
    OBVIOUS
  <2>2. /\ itemsQueue' = longer /\ storage' = <<>> /\ clearOvertook' \in BOOLEAN
        /\ UNCHANGED <<prefs, routedBy, items, eventsIn, reloads>>
    BY <1>4, <2>1 DEF ClearAll, NotifyBounds
  <2>3. u \in Updates /\ IsOf(u, eventsIn) /\ queue \in Seq(Updates)
    BY <1>0, <2>1 DEF IsOf, Updates
  <2>4. \A i \in DOMAIN longer : longer[i] = u \/ (i \in DOMAIN queue /\ longer[i] = queue[i])
    BY <2>1, <2>3
  <2>5. \A i \in DOMAIN itemsQueue' : IsOf(itemsQueue'[i], eventsIn)
    BY <2>1, <2>2, <2>3, <2>4 DEF NotifyBounds
  <2>6. QED
    BY <2>2, <2>5 DEF NotifyBounds
<1>5. CASE Reload
  <2>1. /\ items' = storage /\ storage' = storage /\ itemsQueue' = <<>> /\ routedBy' = prefs
        /\ prefs' = prefs /\ clearOvertook' = clearOvertook /\ eventsIn' = eventsIn
        /\ reloads' \in 0 .. MaxReloads
    BY <1>0, <1>5 DEF Reload, NotifyBounds
  <2>2. storage \in Lists(eventsIn)
    BY NotificationsAssumption DEF NotifyInv, NotifyShape, NotifyBounds, Stores, Lists, Notes
  <2>3. QED
    BY <2>1, <2>2 DEF NotifyBounds
<1>6. CASE UNCHANGED notifyVars
  BY <1>6 DEF notifyVars, NotifyBounds
<1>7. QED
  BY <1>1, <1>2, <1>3, <1>4, <1>5, <1>6, NotifyRenderStays DEF NotifyNext

\* The list and what is stored have notifications that came, and no more than they may.
THEOREM NotifyTypesHold == NotifySpec => []NotifyTypeOK
<1>1. NotifyInit => NotifyBounds
  <2> SUFFICES ASSUME NotifyInit
               PROVE  NotifyBounds
    OBVIOUS
  <2>1. PICK none : none = <<>>
    OBVIOUS
  <2>2. none \in Seq(NotesUpTo(0)) /\ Len(none) = 0 /\ DOMAIN none = {}
    BY <2>1
  <2>3. none \in Lists(0)
    BY <2>2, NotificationsAssumption DEF Lists
  <2>4. /\ items = none /\ storage = none /\ itemsQueue = none /\ clearOvertook = FALSE
        /\ eventsIn = 0 /\ reloads = 0
        /\ prefs \in PrefChoices /\ routedBy \in PrefChoices
    BY <2>1 DEF NotifyInit
  <2>5. items \in Lists(eventsIn) /\ storage \in Seq(NotesUpTo(eventsIn))
    BY <2>2, <2>3, <2>4
  <2>6. \A i \in DOMAIN itemsQueue : IsOf(itemsQueue[i], eventsIn)
    BY <2>2, <2>4
  <2>7. eventsIn \in 0 .. MaxEventsIn /\ reloads \in 0 .. MaxReloads /\ clearOvertook \in BOOLEAN
    <3>1. 0 \in 0 .. MaxEventsIn /\ 0 \in 0 .. MaxReloads
      BY NotificationsAssumption
    <3>2. QED
      BY <2>4, <3>1
  <2>8. QED
    BY <2>4, <2>5, <2>6, <2>7 DEF NotifyBounds
<1>2. NotifyInv /\ NotifyBounds => NotifyTypeOK
  <2> SUFFICES ASSUME NotifyInv, NotifyBounds
               PROVE  NotifyTypeOK
    OBVIOUS
  <2>1. /\ items \in Seq([id : 1 .. eventsIn, read : BOOLEAN]) /\ Len(items) <= MaxMemory
        /\ storage \in Seq([id : 1 .. eventsIn, read : BOOLEAN])
    BY DEF NotifyBounds, Lists, NotesUpTo
  <2>2. Len(storage) <= MaxPersist
    BY DEF NotifyInv, NotifyShape, Stores
  <2>3. \A i \in DOMAIN itemsQueue :
          itemsQueue[i].kind \in {"push", "markRead", "clear"} \cup (IF i = 1 THEN {"known"} ELSE {})
    <3>1. \A i \in DOMAIN itemsQueue : itemsQueue[i] \in Updates
      BY DEF NotifyInv, NotifyShape
    <3>2. QED
      BY <3>1 DEF NotifyInv, NotifyShape, Updates
  <2>4. QED
    BY <2>1, <2>2, <2>3 DEF NotifyBounds, NotifyTypeOK
<1>3. QED
  BY <1>1, <1>2, NotifyBoundsKept, NotifyIsSound, PTL DEF NotifySpec

-----------------------------------------------------------------------------
(* Event feed: what is shown and what is held back.                        *)

Feeds == [events : Seq(Nat), heldBack : Seq(Nat), isPaused : BOOLEAN]
FeedUpdates == [kind : {"append"}, event : Nat] \cup [kind : {"toggle"}]
                 \cup [kind : {"set"}, value : BOOLEAN]

\* an event is in the feed, or the feed is full
Has(s, e) == \E i \in DOMAIN s : s[i] = e
Keeps(feed, e) ==
  Has(feed.events, e) \/ Has(feed.heldBack, e) \/ Len(feed.events) = MaxEvents

\* the numbers of a sequence rise, and are all less than e
Rises(s) == \A i, j \in DOMAIN s : i < j => s[i] < s[j]
Before(s, e) == \A i \in DOMAIN s : s[i] < e

Sorted(feed) ==
  /\ Rises(feed.events) /\ Rises(feed.heldBack)
  /\ \A i \in DOMAIN feed.heldBack : Before(feed.events, feed.heldBack[i])
Precedes(feed, e) == Before(feed.events, e) /\ Before(feed.heldBack, e)
Settled(feed) == ~feed.isPaused => feed.heldBack = <<>>

\* The events shown are the last of those there were and those that come.
LEMMA ShownEvents ==
  ASSUME NEW feed \in Feeds, NEW more \in Seq(Nat)
  PROVE  \E r, d :
           /\ Shown(feed, more) \in Feeds /\ Shown(feed, more).events = r
           /\ Shown(feed, more).heldBack = feed.heldBack
           /\ Shown(feed, more).isPaused = feed.isPaused
           /\ r \in Seq(Nat) /\ d \in Nat
           /\ Len(r) <= MaxEvents /\ Len(r) = Len(feed.events) + Len(more) - d
           /\ d # 0 => Len(r) = MaxEvents
           /\ \A i \in 1 .. Len(r) :
                r[i] = IF d + i <= Len(feed.events) THEN feed.events[d + i]
                       ELSE more[d + i - Len(feed.events)]
<1>1. PICK old, m, k : old = feed.events /\ m = Len(old) /\ k = Len(more)
  OBVIOUS
<1>2. old \in Seq(Nat) /\ m \in Nat /\ k \in Nat /\ MaxEvents \in Nat
  BY <1>1, FeedAssumption DEF Feeds
<1>3. PICK all : all = old \o more
  OBVIOUS
<1>4. /\ all \in Seq(Nat) /\ Len(all) = m + k
      /\ \A i \in 1 .. m + k : all[i] = IF i <= m THEN old[i] ELSE more[i - m]
  BY <1>1, <1>2, <1>3
<1>5. PICK kept : kept = IF m + k < MaxEvents THEN m + k ELSE MaxEvents
  OBVIOUS
<1>6. PICK d : d = m + k - kept
  OBVIOUS
<1>7. /\ kept \in Nat /\ kept <= MaxEvents /\ d \in Nat /\ kept = m + k - d
      /\ d # 0 => kept = MaxEvents
  BY <1>2, <1>5, <1>6
<1>8. PICK r : r = SubSeq(all, d + 1, m + k)
  OBVIOUS
<1>9. /\ r \in Seq(Nat) /\ Len(r) = kept
      /\ \A i \in 1 .. kept : r[i] = all[d + i]
  <2>1. PICK a, b : a = d + 1 /\ b = m + k
    OBVIOUS
  <2>2. a \in Int /\ b \in Int /\ b - a + 1 = kept /\ a >= 1
    BY <1>2, <1>7, <2>1
  <2>3. \A i \in a .. b : all[i] \in Nat
    <3>1. \A i \in a .. b : i \in 1 .. m + k
      BY <1>2, <2>1, <2>2
    <3>2. \A i \in 1 .. m + k : all[i] \in Nat
      BY <1>4
    <3>3. QED
      BY <3>1, <3>2
  <2>4. r = SubSeq(all, a, b)
    BY <1>8, <2>1
  <2>5. /\ r \in Seq(Nat) /\ Len(r) = IF a <= b THEN b - a + 1 ELSE 0
        /\ \A i \in 1 .. b - a + 1 : r[i] = all[a + i - 1]
    BY <2>2, <2>3, <2>4, SubSeqProperties
  <2>6. Len(r) = kept
    BY <1>7, <2>2, <2>5
  <2>7. ASSUME NEW i \in 1 .. kept
        PROVE  r[i] = all[d + i]
    <3>1. a + i - 1 = d + i
      BY <1>7, <2>1
    <3>2. r[i] = all[a + i - 1]
      BY <2>2, <2>5
    <3>3. QED
      BY <3>1, <3>2
  <2>8. QED
    BY <2>5, <2>6, <2>7
<1>10. ASSUME NEW i \in 1 .. kept
       PROVE  r[i] = IF d + i <= m THEN old[d + i] ELSE more[d + i - m]
  <2>1. d + i \in 1 .. m + k
    BY <1>2, <1>7
  <2>2. all[d + i] = IF d + i <= m THEN old[d + i] ELSE more[d + i - m]
    <3>1. PICK j : j = d + i
      OBVIOUS
    <3>2. all[j] = IF j <= m THEN old[j] ELSE more[j - m]
      BY <1>4, <2>1, <3>1
    <3>3. QED
      BY <1>2, <1>7, <3>1, <3>2
  <2>3. QED
    BY <1>9, <2>2
<1>11. /\ Shown(feed, more) \in Feeds /\ Shown(feed, more).events = r
       /\ Shown(feed, more).heldBack = feed.heldBack
       /\ Shown(feed, more).isPaused = feed.isPaused
  <2>1. Len(all) - kept + 1 = d + 1
    BY <1>2, <1>4, <1>6, <1>7
  <2>2. kept = IF Len(all) < MaxEvents THEN Len(all) ELSE MaxEvents
    BY <1>4, <1>5
  <2>3. Shown(feed, more) = [feed EXCEPT !.events = r]
    BY <1>1, <1>3, <1>4, <1>8, <2>1, <2>2 DEF Shown
  <2>4. QED
    BY <1>9, <2>3 DEF Feeds
<1>12. /\ Len(r) <= MaxEvents /\ Len(r) = Len(feed.events) + Len(more) - d
       /\ d # 0 => Len(r) = MaxEvents
  BY <1>1, <1>7, <1>9
<1>13. \A i \in 1 .. Len(r) : r[i] = IF d + i <= Len(feed.events) THEN feed.events[d + i]
                                     ELSE more[d + i - Len(feed.events)]
  BY <1>1, <1>9, <1>10
<1>14. r \in Seq(Nat) /\ d \in Nat
  BY <1>7, <1>9
<1>15. QED
  BY <1>11, <1>12, <1>13, <1>14, ZenonT(60)

\* Nothing that was shown or comes is missing then, unless the feed is full.
LEMMA ShownKeeps ==
  ASSUME NEW feed \in Feeds, NEW more \in Seq(Nat)
  PROVE  /\ Shown(feed, more) \in Feeds /\ Len(Shown(feed, more).events) <= MaxEvents
         /\ Shown(feed, more).heldBack = feed.heldBack
         /\ Shown(feed, more).isPaused = feed.isPaused
         /\ \A e : Has(feed.events, e) \/ Has(more, e) \/ Len(feed.events) = MaxEvents
                     => \/ Has(Shown(feed, more).events, e)
                        \/ Len(Shown(feed, more).events) = MaxEvents
<1>1. PICK r, d :
        /\ Shown(feed, more) \in Feeds /\ Shown(feed, more).events = r
        /\ Shown(feed, more).heldBack = feed.heldBack
        /\ Shown(feed, more).isPaused = feed.isPaused
        /\ r \in Seq(Nat) /\ d \in Nat
        /\ Len(r) <= MaxEvents /\ Len(r) = Len(feed.events) + Len(more) - d
        /\ d # 0 => Len(r) = MaxEvents
        /\ \A i \in 1 .. Len(r) :
             r[i] = IF d + i <= Len(feed.events) THEN feed.events[d + i]
                    ELSE more[d + i - Len(feed.events)]
  BY ShownEvents
<1>3. /\ feed.events \in Seq(Nat) /\ Len(feed.events) \in Nat /\ MaxEvents \in Nat
      /\ Len(more) \in Nat /\ DOMAIN r = 1 .. Len(r) /\ DOMAIN more = 1 .. Len(more)
      /\ DOMAIN feed.events = 1 .. Len(feed.events)
  BY <1>1, FeedAssumption DEF Feeds
<1>4. ASSUME NEW e, Has(feed.events, e) \/ Has(more, e) \/ Len(feed.events) = MaxEvents,
             Len(r) # MaxEvents
      PROVE  Has(r, e)
  <2>1. d = 0 /\ Len(r) = Len(feed.events) + Len(more)
    BY <1>1, <1>3, <1>4
  <2>2. Len(feed.events) # MaxEvents
    BY <1>1, <1>3, <1>4, <2>1
  <2>3. CASE Has(feed.events, e)
    <3>1. PICK i \in DOMAIN feed.events : feed.events[i] = e
      BY <2>3 DEF Has
    <3>2. i \in 1 .. Len(r) /\ d + i = i /\ i <= Len(feed.events)
      BY <1>3, <2>1, <3>1
    <3>3. r[i] = e
      BY <1>1, <3>1, <3>2
    <3>4. QED
      BY <1>3, <3>2, <3>3 DEF Has
  <2>4. CASE Has(more, e)
    <3>1. PICK i \in DOMAIN more : more[i] = e
      BY <2>4 DEF Has
    <3>2. PICK j : j = Len(feed.events) + i
      OBVIOUS
    <3>3. /\ j \in 1 .. Len(r) /\ ~(d + j <= Len(feed.events))
          /\ d + j - Len(feed.events) = i
      BY <1>3, <2>1, <3>1, <3>2, SMTT(30)
    <3>4. r[j] = e
      BY <1>1, <3>1, <3>3
    <3>5. QED
      BY <1>3, <3>3, <3>4 DEF Has
  <2>5. QED
    BY <1>4, <2>2, <2>3, <2>4
<1>5. QED
  BY <1>1, <1>4

\* What is shown rises if what was shown and what comes do, one after the other.
LEMMA ShownRises ==
  ASSUME NEW feed \in Feeds, NEW more \in Seq(Nat), Rises(feed.events), Rises(more),
         \A i \in DOMAIN more : Before(feed.events, more[i])
  PROVE  /\ Rises(Shown(feed, more).events)
         /\ \A e : Before(feed.events, e) /\ Before(more, e) => Before(Shown(feed, more).events, e)
<1>1. PICK r, d :
        /\ Shown(feed, more) \in Feeds /\ Shown(feed, more).events = r
        /\ Shown(feed, more).heldBack = feed.heldBack
        /\ Shown(feed, more).isPaused = feed.isPaused
        /\ r \in Seq(Nat) /\ d \in Nat
        /\ Len(r) <= MaxEvents /\ Len(r) = Len(feed.events) + Len(more) - d
        /\ d # 0 => Len(r) = MaxEvents
        /\ \A i \in 1 .. Len(r) :
             r[i] = IF d + i <= Len(feed.events) THEN feed.events[d + i]
                    ELSE more[d + i - Len(feed.events)]
  BY ShownEvents
<1>3. /\ feed.events \in Seq(Nat) /\ Len(feed.events) \in Nat
      /\ Len(more) \in Nat /\ DOMAIN r = 1 .. Len(r) /\ DOMAIN more = 1 .. Len(more)
      /\ DOMAIN feed.events = 1 .. Len(feed.events)
  BY <1>1 DEF Feeds
<1>4. PICK old, m, k : old = feed.events /\ m = Len(old) /\ k = Len(more)
  OBVIOUS
<1>5. /\ m \in Nat /\ k \in Nat /\ DOMAIN old = 1 .. m /\ DOMAIN more = 1 .. k
      /\ DOMAIN r = 1 .. m + k - d /\ d \in Nat
  BY <1>1, <1>3, <1>4
<1>6. \A i \in 1 .. m + k - d : r[i] = IF d + i <= m THEN old[d + i] ELSE more[d + i - m]
  BY <1>1, <1>3, <1>4
<1>7. \A i \in 1 .. m + k - d :
        (d + i \in 1 .. m) \/ (~(d + i <= m) /\ d + i - m \in 1 .. k)
  BY <1>5
<1>8. \A i \in DOMAIN r :
         \/ d + i \in DOMAIN old /\ r[i] = old[d + i]
         \/ ~(d + i <= m) /\ d + i - m \in DOMAIN more /\ r[i] = more[d + i - m]
  BY <1>5, <1>6, <1>7
<1>9. ASSUME NEW i \in DOMAIN r, NEW j \in DOMAIN r, i < j
      PROVE  r[i] < r[j]
  <2>1. i \in Nat /\ j \in Nat /\ d + i < d + j
    BY <1>5, <1>9
  <2>2. CASE d + j \in DOMAIN old /\ r[j] = old[d + j]
    <3>1. d + i \in DOMAIN old /\ r[i] = old[d + i]
      BY <1>5, <1>8, <2>1, <2>2
    <3>2. QED
      BY <1>4, <2>1, <2>2, <3>1 DEF Rises
  <2>3. CASE ~(d + j <= m) /\ d + j - m \in DOMAIN more /\ r[j] = more[d + j - m]
    <3>1. CASE d + i \in DOMAIN old /\ r[i] = old[d + i]
      BY <1>4, <2>3, <3>1 DEF Before
    <3>2. CASE d + i - m \in DOMAIN more /\ r[i] = more[d + i - m]
      <4>1. d + i - m < d + j - m
        BY <1>5, <2>1
      <4>2. QED
        BY <2>3, <3>2, <4>1 DEF Rises
    <3>3. QED
      BY <1>8, <3>1, <3>2
  <2>4. QED
    BY <1>8, <2>2, <2>3
<1>10. ASSUME NEW e, Before(feed.events, e), Before(more, e)
       PROVE  Before(r, e)
  BY <1>4, <1>8, <1>10 DEF Before
<1>11. QED
  BY <1>1, <1>9, <1>10 DEF Rises

\* The buffer is shown: nothing is lost, and the order stays.
LEMMA BufferIsShown ==
  ASSUME NEW feed \in Feeds
  PROVE  /\ BufferShown(feed) \in Feeds /\ Len(BufferShown(feed).events) <= MaxEvents
         /\ BufferShown(feed).heldBack = <<>> /\ BufferShown(feed).isPaused = feed.isPaused
         /\ \A e : Keeps(feed, e) => Keeps(BufferShown(feed), e)
         /\ Sorted(feed) =>
              /\ Sorted(BufferShown(feed))
              /\ \A e : Precedes(feed, e) => Precedes(BufferShown(feed), e)
<1>1. PICK held, shown, next :
        /\ held = feed.heldBack /\ shown = Shown(feed, held)
        /\ next = [shown EXCEPT !.heldBack = <<>>]
  OBVIOUS
<1>2. BufferShown(feed) = next
  BY <1>1 DEF BufferShown
<1>3. held \in Seq(Nat)
  BY <1>1 DEF Feeds
<1>4. /\ shown \in Feeds /\ Len(shown.events) <= MaxEvents /\ shown.isPaused = feed.isPaused
      /\ \A e : Has(feed.events, e) \/ Has(held, e) \/ Len(feed.events) = MaxEvents
                  => Has(shown.events, e) \/ Len(shown.events) = MaxEvents
  BY <1>1, <1>3, ShownKeeps
<1>5. /\ next \in Feeds /\ next.events = shown.events /\ next.heldBack = <<>>
      /\ next.isPaused = shown.isPaused
  <2>1. <<>> \in Seq(Nat)
    OBVIOUS
  <2>2. next = [shown EXCEPT !.heldBack = <<>>]
    BY <1>1
  <2>3. QED
    BY <1>4, <2>1, <2>2 DEF Feeds
<1>6. \A e : Keeps(feed, e) => Keeps(next, e)
  BY <1>1, <1>4, <1>5 DEF Keeps
<1>7. ASSUME Sorted(feed)
      PROVE  Sorted(next) /\ \A e : Precedes(feed, e) => Precedes(next, e)
  <2>1. Rises(feed.events) /\ Rises(held) /\ \A i \in DOMAIN held : Before(feed.events, held[i])
    BY <1>1, <1>7 DEF Sorted
  <2>2. /\ Rises(shown.events)
        /\ \A e : Before(feed.events, e) /\ Before(held, e) => Before(shown.events, e)
    BY <1>1, <1>3, <2>1, ShownRises
  <2>3. Rises(<<>>) /\ \A e : Before(<<>>, e)
    BY DEF Rises, Before
  <2>4. QED
    BY <1>1, <1>5, <2>2, <2>3 DEF Sorted, Precedes
<1>8. QED
  BY <1>2, <1>4, <1>5, <1>6, <1>7

\* What an update makes of a feed: it loses nothing, and a feed that goes on holds
\* nothing back that was not held back before.
LEMMA UpdateKeeps ==
  ASSUME NEW feed \in Feeds, NEW u \in FeedUpdates, Len(feed.events) <= MaxEvents
  PROVE  /\ Updating(u, feed) \in Feeds /\ Len(Updating(u, feed).events) <= MaxEvents
         /\ \A e : Keeps(feed, e) => Keeps(Updating(u, feed), e)
         /\ u.kind = "append" => Keeps(Updating(u, feed), u.event)
         /\ ~feed.isPaused => Updating(u, feed).heldBack = feed.heldBack
<1>0. /\ feed.events \in Seq(Nat) /\ feed.heldBack \in Seq(Nat) /\ feed.isPaused \in BOOLEAN
  BY DEF Feeds
<1>1. CASE u.kind = "append" /\ feed.isPaused
  <2>1. PICK held, e, longer, next :
          /\ held = feed.heldBack /\ e = u.event
          /\ longer = Append(held, e) /\ next = [feed EXCEPT !.heldBack = longer]
    OBVIOUS
  <2>2. held \in Seq(Nat) /\ e \in Nat
    BY <1>0, <1>1, <2>1 DEF FeedUpdates
  <2>3. /\ longer \in Seq(Nat) /\ Len(held) \in Nat /\ DOMAIN held = 1 .. Len(held)
        /\ DOMAIN longer = 1 .. Len(held) + 1 /\ longer[Len(held) + 1] = e
        /\ \A i \in 1 .. Len(held) : longer[i] = held[i]
    BY <2>1, <2>2
  <2>4. /\ next \in Feeds /\ next.events = feed.events /\ next.heldBack = longer
    BY <2>1, <2>3 DEF Feeds
  <2>5. Updating(u, feed) = next
    BY <1>1, <2>1 DEF Updating
  <2>6. Has(longer, e) /\ \A x : Has(held, x) => Has(longer, x)
    BY <2>3 DEF Has
  <2>7. QED
    BY <1>1, <2>1, <2>4, <2>5, <2>6 DEF Keeps
<1>2. CASE u.kind = "append" /\ ~feed.isPaused
  <2>1. PICK e, more, shown : e = u.event /\ more = <<e>> /\ shown = Shown(feed, more)
    OBVIOUS
  <2>2. e \in Nat
    BY <1>2, <2>1 DEF FeedUpdates
  <2>3. more \in Seq(Nat) /\ Has(more, e)
    BY <2>1, <2>2 DEF Has
  <2>4. /\ shown \in Feeds /\ Len(shown.events) <= MaxEvents /\ shown.heldBack = feed.heldBack
        /\ \A x : Has(feed.events, x) \/ Has(more, x) \/ Len(feed.events) = MaxEvents
                    => Has(shown.events, x) \/ Len(shown.events) = MaxEvents
    BY <2>1, <2>3, ShownKeeps
  <2>5. Updating(u, feed) = shown
    BY <1>2, <2>1 DEF Updating
  <2>6. QED
    BY <2>1, <2>3, <2>4, <2>5 DEF Keeps
<1>3. CASE u.kind = "toggle" /\ feed.isPaused
  <2>1. PICK shown, next :
          shown = BufferShown(feed) /\ next = [shown EXCEPT !.isPaused = FALSE]
    OBVIOUS
  <2>2. /\ shown \in Feeds /\ Len(shown.events) <= MaxEvents
        /\ \A e : Keeps(feed, e) => Keeps(shown, e)
    BY <2>1, BufferIsShown
  <2>3. next \in Feeds /\ next.events = shown.events /\ next.heldBack = shown.heldBack
    BY <2>1, <2>2 DEF Feeds
  <2>4. Updating(u, feed) = next
    BY <1>3, <2>1 DEF Updating, Toggled
  <2>5. QED
    BY <1>3, <2>2, <2>3, <2>4 DEF Keeps
<1>4. CASE u.kind = "set" \/ (u.kind = "toggle" /\ ~feed.isPaused)
  <2>1. PICK v \in BOOLEAN : Updating(u, feed) = [feed EXCEPT !.isPaused = v]
    <3>1. u.kind = "set" => u.value \in BOOLEAN
      BY DEF FeedUpdates
    <3>2. QED
      BY <1>4, <3>1 DEF Updating, Toggled
  <2>2. PICK next : next = [feed EXCEPT !.isPaused = v]
    OBVIOUS
  <2>3. next \in Feeds /\ next.events = feed.events /\ next.heldBack = feed.heldBack
    BY <2>2 DEF Feeds
  <2>4. QED
    BY <1>4, <2>1, <2>2, <2>3 DEF Keeps
<1>5. QED
  BY <1>0, <1>1, <1>2, <1>3, <1>4 DEF FeedUpdates

\* It leaves the feed in order if an event that is appended is later than those there are,
\* and if it does not end a pause with events held back.
LEMMA UpdateSorts ==
  ASSUME NEW feed \in Feeds, NEW u \in FeedUpdates, Sorted(feed), Settled(feed),
         u.kind = "append" => Precedes(feed, u.event),
         u.kind = "set" /\ ~u.value => feed.heldBack = <<>>
  PROVE  /\ Sorted(Updating(u, feed)) /\ Settled(Updating(u, feed))
         /\ \A e : Precedes(feed, e) /\ (u.kind = "append" => u.event < e)
                     => Precedes(Updating(u, feed), e)
<1>0. /\ feed.events \in Seq(Nat) /\ feed.heldBack \in Seq(Nat) /\ feed.isPaused \in BOOLEAN
  BY DEF Feeds
<1>1. CASE u.kind = "append" /\ feed.isPaused
  <2>1. PICK held, e, longer, next :
          /\ held = feed.heldBack /\ e = u.event
          /\ longer = Append(held, e) /\ next = [feed EXCEPT !.heldBack = longer]
    OBVIOUS
  <2>2. held \in Seq(Nat) /\ e \in Nat
    BY <1>0, <1>1, <2>1 DEF FeedUpdates
  <2>3. /\ longer \in Seq(Nat) /\ Len(held) \in Nat /\ DOMAIN held = 1 .. Len(held)
        /\ DOMAIN longer = 1 .. Len(held) + 1 /\ longer[Len(held) + 1] = e
        /\ \A i \in 1 .. Len(held) : longer[i] = held[i]
    BY <2>1, <2>2
  <2>4. /\ next.events = feed.events /\ next.heldBack = longer /\ next.isPaused
    BY <1>1, <2>1, <2>3 DEF Feeds
  <2>5. Updating(u, feed) = next
    BY <1>1, <2>1 DEF Updating
  <2>6. /\ Rises(feed.events) /\ Rises(held) /\ Before(feed.events, e) /\ Before(held, e)
        /\ \A i \in DOMAIN held : Before(feed.events, held[i])
    BY <1>1, <2>1 DEF Sorted, Precedes
  <2>7. \A i \in DOMAIN longer : \/ i \in DOMAIN held /\ longer[i] = held[i]
                                 \/ i = Len(held) + 1 /\ longer[i] = e
    BY <2>3
  <2>8. Rises(longer)
    <3>1. ASSUME NEW i \in DOMAIN longer, NEW j \in DOMAIN longer, i < j
          PROVE  longer[i] < longer[j]
      <4>1. i \in DOMAIN held /\ longer[i] = held[i]
        BY <2>3, <3>1
      <4>2. CASE j \in DOMAIN held /\ longer[j] = held[j]
        BY <2>6, <3>1, <4>1, <4>2 DEF Rises
      <4>3. CASE longer[j] = e
        BY <2>6, <4>1, <4>3 DEF Before
      <4>4. QED
        BY <2>7, <4>2, <4>3
    <3>2. QED
      BY <3>1 DEF Rises
  <2>9. \A i \in DOMAIN longer : Before(feed.events, longer[i])
    BY <2>6, <2>7
  <2>10. ASSUME NEW x, Before(held, x), e < x
         PROVE  Before(longer, x)
    BY <2>7, <2>10 DEF Before
  <2>11. QED
    BY <1>1, <2>1, <2>4, <2>5, <2>6, <2>8, <2>9, <2>10 DEF Sorted, Settled, Precedes
<1>2. CASE u.kind = "append" /\ ~feed.isPaused
  <2>1. PICK e, more, shown : e = u.event /\ more = <<e>> /\ shown = Shown(feed, more)
    OBVIOUS
  <2>2. e \in Nat /\ feed.heldBack = <<>>
    BY <1>2, <2>1 DEF FeedUpdates, Settled
  <2>3. /\ more \in Seq(Nat) /\ DOMAIN more = 1 .. 1 /\ more[1] = e
    BY <2>1, <2>2
  <2>4. Rises(more) /\ \A x : e < x => Before(more, x)
    BY <2>3 DEF Rises, Before
  <2>5. Rises(feed.events) /\ \A i \in DOMAIN more : Before(feed.events, more[i])
    BY <1>2, <2>1, <2>3 DEF Sorted, Precedes
  <2>6. /\ Rises(shown.events)
        /\ \A x : Before(feed.events, x) /\ Before(more, x) => Before(shown.events, x)
    BY <2>1, <2>3, <2>4, <2>5, ShownRises
  <2>7. shown.heldBack = <<>>
    BY <2>1, <2>2, <2>3, ShownKeeps
  <2>8. Updating(u, feed) = shown
    BY <1>2, <2>1 DEF Updating
  <2>9. Rises(<<>>) /\ \A x : Before(<<>>, x)
    BY DEF Rises, Before
  <2>10. QED
    BY <1>2, <2>1, <2>4, <2>6, <2>7, <2>8, <2>9 DEF Sorted, Settled, Precedes
<1>3. CASE u.kind = "toggle" /\ feed.isPaused
  <2>1. PICK shown, next :
          shown = BufferShown(feed) /\ next = [shown EXCEPT !.isPaused = FALSE]
    OBVIOUS
  <2>2. /\ shown \in Feeds /\ shown.heldBack = <<>> /\ Sorted(shown)
        /\ \A e : Precedes(feed, e) => Precedes(shown, e)
    BY <2>1, BufferIsShown
  <2>3. next.events = shown.events /\ next.heldBack = shown.heldBack
    BY <2>1, <2>2 DEF Feeds
  <2>4. Updating(u, feed) = next
    BY <1>3, <2>1 DEF Updating, Toggled
  <2>5. QED
    BY <1>3, <2>2, <2>3, <2>4 DEF Sorted, Settled, Precedes
<1>4. CASE u.kind = "set" \/ (u.kind = "toggle" /\ ~feed.isPaused)
  <2>1. PICK v \in BOOLEAN : /\ Updating(u, feed) = [feed EXCEPT !.isPaused = v]
                             /\ ~v => feed.heldBack = <<>>
    <3>1. u.kind = "set" => u.value \in BOOLEAN
      BY DEF FeedUpdates
    <3>2. CASE u.kind = "set"
      BY <3>1, <3>2 DEF Updating
    <3>3. CASE u.kind = "toggle" /\ ~feed.isPaused
      BY <3>3 DEF Updating, Toggled, Settled
    <3>4. QED
      BY <1>4, <3>2, <3>3
  <2>2. PICK next : next = [feed EXCEPT !.isPaused = v]
    OBVIOUS
  <2>3. next.events = feed.events /\ next.heldBack = feed.heldBack /\ next.isPaused = v
    BY <2>2 DEF Feeds
  <2>4. QED
    BY <1>4, <2>1, <2>2, <2>3 DEF Sorted, Settled, Precedes
<1>5. QED
  BY <1>0, <1>1, <1>2, <1>3, <1>4 DEF FeedUpdates

-----------------------------------------------------------------------------
Appends(i) == pausedQueue[i].kind = "append"

FeedShape ==
  /\ fed \in Nat
  /\ Feed \in Feeds /\ Len(events) <= MaxEvents
  /\ pausedQueue \in Seq(FeedUpdates)

\* Every event that was not cleared is in the feed, or is appended by an update that waits,
\* unless the feed is full.
EventsAreKept ==
  \A e \in 1 .. fed :
    \/ e \in clearedEvents
    \/ \E i \in DOMAIN pausedQueue : Appends(i) /\ pausedQueue[i].event = e
    \/ Keeps(Feed, e)

\* Unless resume was called while updates waited: what waits is later than what is in the
\* feed and in order, and ends a pause at once and with nothing held back, or not at all.
FeedIsSorted ==
  /\ Sorted(Feed) /\ Settled(Feed) /\ Precedes(Feed, fed + 1)
  /\ \A i \in DOMAIN pausedQueue :
       Appends(i) => Precedes(Feed, pausedQueue[i].event) /\ pausedQueue[i].event <= fed
  /\ \A i, j \in DOMAIN pausedQueue :
       i < j /\ Appends(i) /\ Appends(j) => pausedQueue[i].event < pausedQueue[j].event
  /\ \A i \in DOMAIN pausedQueue :
       pausedQueue[i].kind = "set" /\ ~pausedQueue[i].value => i = 1 /\ heldBack = <<>>

FeedInv == FeedShape /\ EventsAreKept /\ (~overtook => FeedIsSorted)

LEMMA PrecedesMore ==
  ASSUME NEW feed \in Feeds, NEW e \in Nat, NEW x \in Nat, e <= x, Precedes(feed, e)
  PROVE  Precedes(feed, x)
<1>1. feed.events \in Seq(Nat) /\ feed.heldBack \in Seq(Nat)
  BY DEF Feeds
<1>2. ASSUME NEW s \in Seq(Nat), Before(s, e)
      PROVE  Before(s, x)
  <2>1. \A i \in DOMAIN s : s[i] \in Nat
    OBVIOUS
  <2>2. QED
    BY <1>2, <2>1 DEF Before
<1>3. QED
  BY <1>1, <1>2 DEF Precedes

\* An update runs or is queued, when the feed is already what its caller made of it.
LEMMA FeedUpdateKeeps ==
  ASSUME FeedInv, NEW u \in FeedUpdates, NEW feed \in Feeds, RunOrQueuePaused(u, feed),
         UNCHANGED <<isPaused, clearedEvents>>,
         feed.isPaused = isPaused, Len(feed.events) <= MaxEvents,
         \A e : Keeps(Feed, e) => Keeps(feed, e),
         IF u.kind = "append" THEN fed' = fed + 1 /\ u.event = fed + 1 ELSE fed' = fed,
         ~overtook' => /\ ~overtook /\ Sorted(feed) /\ Settled(feed)
                       /\ \A e : Precedes(Feed, e) => Precedes(feed, e)
                       /\ heldBack = <<>> => feed.heldBack = <<>>
                       /\ u.kind = "set" /\ ~u.value => pausedQueue = <<>> /\ feed.heldBack = <<>>
  PROVE  FeedInv'
<1>1. /\ fed \in Nat /\ fed' \in Nat /\ fed <= fed' /\ pausedQueue \in Seq(FeedUpdates)
      /\ isPaused \in BOOLEAN
  BY DEF FeedInv, FeedShape, Feed, Feeds
<1>2. PICK now : now = Feed'
  OBVIOUS
<1>3. CASE /\ pausedQueue = <<>>
           /\ LET next == Updating(u, feed)
              IN /\ Becomes(next)
                 /\ pausedQueue' = IF next.isPaused = isPaused THEN <<>>
                                   ELSE <<[kind |-> "set", value |-> next.isPaused]>>
  <2>1. PICK next : next = Updating(u, feed)
    OBVIOUS
  <2>2. /\ next \in Feeds /\ Len(next.events) <= MaxEvents
        /\ \A e : Keeps(feed, e) => Keeps(next, e)
        /\ u.kind = "append" => Keeps(next, u.event)
        /\ ~feed.isPaused => next.heldBack = feed.heldBack
    BY <2>1, UpdateKeeps
  <2>3. events' = next.events /\ heldBack' = next.heldBack
    BY <1>3, <2>1 DEF Becomes
  <2>4. /\ now.events = next.events /\ now.heldBack = next.heldBack /\ now.isPaused = isPaused
        /\ now \in Feeds
    BY <1>1, <1>2, <2>2, <2>3 DEF Feed, Feeds
  <2>5. PICK queue : /\ queue = pausedQueue' /\ queue \in Seq(FeedUpdates)
                     /\ \A i \in DOMAIN queue :
                          i = 1 /\ queue[i].kind = "set" /\ queue[i].value = next.isPaused
    <3>1. PICK w : w = [kind |-> "set", value |-> next.isPaused]
      OBVIOUS
    <3>2. w \in FeedUpdates /\ w.kind = "set" /\ w.value = next.isPaused
      BY <2>2, <3>1 DEF Feeds, FeedUpdates
    <3>3. PICK queue : queue = pausedQueue' /\ (queue = <<>> \/ queue = <<w>>)
      BY <1>3, <2>1, <3>1
    <3>4. queue \in Seq(FeedUpdates)
      <4>1. <<w>> \in Seq(FeedUpdates)
        <5>1. PICK S : S = FeedUpdates /\ w \in S
          BY <3>2
        <5>2. <<w>> \in Seq(S)
          BY <5>1
        <5>3. QED
          BY <5>1, <5>2
      <4>2. <<>> \in Seq(FeedUpdates)
        OBVIOUS
      <4>3. queue = <<>> \/ queue = <<w>>
        BY <3>3
      <4>4. QED
        BY <4>1, <4>2, <4>3
    <3>5. \A i \in DOMAIN queue : i = 1 /\ queue[i] = w
      <4>1. CASE queue = <<>>
        BY <4>1
      <4>2. CASE queue = <<w>>
        <5>1. Len(queue) = 1 /\ queue[1] = w /\ DOMAIN queue = 1 .. 1
          BY <3>4, <4>2
        <5>2. QED
          BY <5>1
      <4>3. QED
        BY <3>3, <4>1, <4>2
    <3>6. QED
      BY <3>2, <3>3, <3>4, <3>5
  <2>6. FeedShape'
    BY <1>1, <1>2, <2>2, <2>3, <2>4, <2>5 DEF FeedShape
  <2>7. EventsAreKept'
    <3>1. ASSUME NEW e \in 1 .. fed', e \notin clearedEvents
          PROVE  Keeps(now, e)
      <4>1. CASE e \in 1 .. fed
        <5>1. Keeps(Feed, e)
          BY <1>3, <3>1, <4>1 DEF FeedInv, EventsAreKept
        <5>2. QED
          BY <2>2, <2>4, <5>1 DEF Keeps
      <4>2. CASE e \notin 1 .. fed
        <5>1. u.kind = "append" /\ e = u.event
          BY <1>1, <3>1, <4>2
        <5>2. QED
          BY <2>2, <2>4, <5>1 DEF Keeps
      <4>3. QED
        BY <4>1, <4>2
    <3>2. QED
      BY <1>2, <3>1 DEF EventsAreKept
  <2>8. ASSUME ~overtook'
        PROVE  FeedIsSorted'
    <3>1. /\ Sorted(feed) /\ Settled(feed) /\ Precedes(feed, fed + 1)
          /\ u.kind = "append" => Precedes(feed, u.event)
          /\ u.kind = "set" /\ ~u.value => feed.heldBack = <<>>
      BY <2>8 DEF FeedInv, FeedIsSorted
    <3>2. /\ Sorted(next) /\ Settled(next)
          /\ \A e : Precedes(feed, e) /\ (u.kind = "append" => u.event < e) => Precedes(next, e)
      BY <2>1, <3>1, UpdateSorts
    <3>3. Precedes(next, fed' + 1)
      <4>1. Precedes(feed, fed' + 1)
        BY <1>1, <3>1, PrecedesMore
      <4>2. u.kind = "append" => u.event < fed' + 1
        BY <1>1
      <4>3. QED
        BY <3>2, <4>1, <4>2
    <3>4. Sorted(now) /\ Precedes(now, fed' + 1)
      BY <2>4, <3>2, <3>3 DEF Sorted, Precedes
    <3>5. Settled(now)
      BY <2>2, <2>4, <3>1 DEF Settled
    <3>6. ~next.isPaused => next.heldBack = <<>>
      BY <3>2 DEF Settled
    <3>7. \A i \in DOMAIN pausedQueue' :
            /\ i = 1 /\ pausedQueue'[i].kind = "set"
            /\ ~pausedQueue'[i].value => heldBack' = <<>>
      BY <2>3, <2>5, <3>6
    <3>8. QED
      BY <1>2, <3>4, <3>5, <3>7 DEF FeedIsSorted, Appends
  <2>9. QED
    BY <2>6, <2>7, <2>8 DEF FeedInv
<1>4. CASE Becomes(feed) /\ pausedQueue' = Append(pausedQueue, u)
  <2>1. PICK old, n, queue :
          old = pausedQueue /\ n = Len(old) /\ queue = Append(old, u)
    OBVIOUS
  <2>2. /\ old \in Seq(FeedUpdates) /\ n \in Nat /\ DOMAIN old = 1 .. n
        /\ queue \in Seq(FeedUpdates) /\ DOMAIN queue = 1 .. n + 1 /\ queue[n + 1] = u
        /\ \A i \in 1 .. n : queue[i] = old[i]
    BY <1>1, <2>1
  <2>3. /\ pausedQueue' = queue /\ events' = feed.events /\ heldBack' = feed.heldBack
    BY <1>4, <2>1 DEF Becomes
  <2>4. /\ now.events = feed.events /\ now.heldBack = feed.heldBack /\ now.isPaused = isPaused
        /\ now \in Feeds
    BY <1>1, <1>2, <2>3 DEF Feed, Feeds
  <2>5. \A i \in 1 .. n + 1 : (i \in DOMAIN old /\ queue[i] = old[i]) \/ (i = n + 1 /\ queue[i] = u)
    BY <2>2
  <2>6. FeedShape'
    BY <1>1, <1>2, <2>2, <2>3, <2>4 DEF FeedShape
  <2>7. EventsAreKept'
    <3>1. ASSUME NEW e \in 1 .. fed', e \notin clearedEvents
          PROVE  \/ \E i \in DOMAIN queue : queue[i].kind = "append" /\ queue[i].event = e
                 \/ Keeps(now, e)
      <4>1. CASE e \in 1 .. fed /\ Keeps(Feed, e)
        BY <2>4, <4>1 DEF Keeps
      <4>2. CASE \E i \in DOMAIN old : old[i].kind = "append" /\ old[i].event = e
        BY <2>2, <4>2
      <4>3. CASE e \notin 1 .. fed
        <5>1. u.kind = "append" /\ e = u.event
          BY <1>1, <3>1, <4>3
        <5>2. QED
          BY <2>2, <5>1
      <4>4. QED
        BY <2>1, <3>1, <4>1, <4>2, <4>3 DEF FeedInv, EventsAreKept, Appends
    <3>2. QED
      BY <1>2, <2>3, <3>1 DEF EventsAreKept, Appends
  <2>8. ASSUME ~overtook'
        PROVE  FeedIsSorted'
    <3>1. /\ Sorted(feed) /\ Settled(feed) /\ Precedes(feed, fed + 1)
          /\ u.kind = "append" => Precedes(feed, u.event) /\ u.event <= fed'
      BY <1>1, <2>8 DEF FeedInv, FeedIsSorted
    <3>2. Sorted(now) /\ Settled(now) /\ \A e : Precedes(feed, e) => Precedes(now, e)
      BY <2>4, <3>1 DEF Sorted, Settled, Precedes
    <3>3. Precedes(now, fed' + 1)
      <4>1. Precedes(feed, fed' + 1)
        BY <1>1, <3>1, PrecedesMore
      <4>2. QED
        BY <3>2, <4>1
    <3>4. /\ \A i \in DOMAIN old : old[i].kind = "append" =>
                 Precedes(Feed, old[i].event) /\ old[i].event <= fed
          /\ \A i, j \in DOMAIN old :
               i < j /\ old[i].kind = "append" /\ old[j].kind = "append" => old[i].event < old[j].event
          /\ \A i \in DOMAIN old :
               old[i].kind = "set" /\ ~old[i].value => i = 1 /\ heldBack = <<>>
      BY <2>1, <2>8 DEF FeedInv, FeedIsSorted, Appends
    <3>5. \A i \in DOMAIN old : old[i].kind = "append" => old[i].event \in Nat
      BY <2>2 DEF FeedUpdates
    <3>6. ASSUME NEW i \in DOMAIN queue, queue[i].kind = "append"
          PROVE  Precedes(now, queue[i].event) /\ queue[i].event <= fed'
      <4>1. CASE i \in DOMAIN old /\ queue[i] = old[i]
        BY <1>1, <2>8, <3>2, <3>4, <3>5, <3>6, <4>1
      <4>2. CASE queue[i] = u
        BY <3>1, <3>2, <3>6, <4>2
      <4>3. QED
        BY <2>2, <2>5, <4>1, <4>2
    <3>7. ASSUME NEW i \in DOMAIN queue, NEW j \in DOMAIN queue, i < j,
                 queue[i].kind = "append", queue[j].kind = "append"
          PROVE  queue[i].event < queue[j].event
      <4>1. i \in DOMAIN old /\ queue[i] = old[i]
        BY <2>2, <3>7
      <4>2. CASE j \in DOMAIN old /\ queue[j] = old[j]
        BY <3>4, <3>7, <4>1, <4>2
      <4>3. CASE queue[j] = u
        BY <1>1, <3>4, <3>5, <3>7, <4>1, <4>3
      <4>4. QED
        BY <2>2, <2>5, <4>2, <4>3
    <3>8. ASSUME NEW i \in DOMAIN queue, queue[i].kind = "set", ~queue[i].value
          PROVE  i = 1 /\ feed.heldBack = <<>>
      <4>1. CASE i \in DOMAIN old /\ queue[i] = old[i]
        BY <2>8, <3>4, <3>8, <4>1
      <4>2. CASE i = n + 1 /\ queue[i] = u
        <5>1. pausedQueue = <<>> /\ feed.heldBack = <<>>
          BY <2>8, <3>8, <4>2
        <5>2. n = 0
          BY <2>1, <5>1
        <5>3. QED
          BY <4>2, <5>1, <5>2
      <4>3. QED
        BY <2>2, <2>5, <4>1, <4>2
    <3>9. QED
      BY <1>2, <2>3, <3>2, <3>3, <3>6, <3>7, <3>8 DEF FeedIsSorted, Appends
  <2>9. QED
    BY <2>6, <2>7, <2>8 DEF FeedInv
<1>5. QED
  BY <1>3, <1>4 DEF RunOrQueuePaused

\* At a render, the updates that wait run one after the other.
LEMMA FeedRenderRuns ==
  ASSUME FeedShape, FeedRender
  PROVE  \E n, run :
           /\ n = Len(pausedQueue) /\ n \in Nat \ {0}
           /\ run[0] = Feed
           /\ \A k \in 0 .. n : run[k] \in Feeds /\ Len(run[k].events) <= MaxEvents
           /\ \A k \in 1 .. n : run[k] = Updating(pausedQueue[k], run[k - 1])
           /\ Feed' = run[n]
<1> DEFINE IsRun(f) ==
             f = [k \in 0 .. Len(pausedQueue) |->
                    IF k = 0 THEN Feed ELSE Updating(pausedQueue[k], f[k - 1])]
           chosen == CHOOSE f : IsRun(f)
<1>1. PICK queue, n, start : queue = pausedQueue /\ n = Len(queue) /\ start = Feed
  OBVIOUS
<1> HIDE DEF IsRun, chosen
<1>2. queue \in Seq(FeedUpdates) /\ n \in Nat /\ \A k \in 1 .. n : queue[k] \in FeedUpdates
  BY <1>1 DEF FeedShape
<1>3. PICK S : S = {f \in Feeds : Len(f.events) <= MaxEvents}
  OBVIOUS
<1>4. PICK step : step = [k \in 1 .. n |-> [s \in S |-> Updating(queue[k], s)]]
  OBVIOUS
<1>5. start \in S
  <2>1. start.events = events
    BY <1>1 DEF Feed
  <2>2. QED
    BY <1>1, <1>3, <2>1 DEF FeedShape
<1>6. \A k \in 1 .. n : \A s \in S : Updating(queue[k], s) \in S
  BY <1>2, <1>3, UpdateKeeps
<1>7. step \in [1 .. n -> [S -> S]]
  BY <1>4, <1>6
<1>8. PICK f \in [0 .. n -> S] :
        f = [k \in 0 .. n |-> IF k = 0 THEN start ELSE step[k][f[k - 1]]]
  <2>1. PICK f : RunOf(f, n, S, start, step)
    BY <1>2, <1>5, <1>7, RunsThrough
  <2>2. QED
    BY <2>1 DEF RunOf
<1>9. IsRun(f)
  <2>1. f = [k \in 0 .. n |-> f[k]]
    BY <1>8
  <2>2. ASSUME NEW k \in 0 .. n
        PROVE  f[k] = IF k = 0 THEN Feed ELSE Updating(queue[k], f[k - 1])
    <3>1. CASE k = 0
      BY <1>1, <1>8, <3>1
    <3>2. CASE k # 0
      <4>1. k \in 1 .. n /\ k - 1 \in 0 .. n
        BY <1>2, <3>2
      <4>2. f[k - 1] \in S
        BY <1>8, <4>1
      <4>3. f[k] = step[k][f[k - 1]]
        BY <1>8, <3>2
      <4>4. step[k][f[k - 1]] = Updating(queue[k], f[k - 1])
        BY <1>4, <4>1, <4>2
      <4>5. QED
        BY <3>2, <4>3, <4>4
    <3>3. QED
      BY <3>1, <3>2
  <2>3. QED
    BY <1>1, <2>1, <2>2 DEF IsRun
<1>10. IsRun(chosen)
  BY <1>9 DEF chosen
<1>11. /\ n # 0 /\ isPaused' = chosen[n].isPaused
       /\ events' = chosen[n].events /\ heldBack' = chosen[n].heldBack
  BY <1>1, <1>2 DEF FeedRender, FeedShape, Becomes, chosen, IsRun
<1>12. PICK g : g = chosen
  OBVIOUS
<1>13. g[0] = start /\ \A k \in 1 .. n : g[k] = Updating(queue[k], g[k - 1])
  <2>1. g = [k \in 0 .. n |-> IF k = 0 THEN start ELSE Updating(queue[k], g[k - 1])]
    BY <1>1, <1>10, <1>12 DEF IsRun
  <2>2. 0 \in 0 .. n /\ \A k \in 1 .. n : k \in 0 .. n /\ k # 0
    BY <1>2
  <2>3. g[0] = start
    BY <2>1, <2>2
  <2>4. QED
    BY <2>1, <2>2, <2>3
<1>14. \A k \in 0 .. n : g[k] \in S
  <2> DEFINE T == {k \in Nat : g[k] \in S}
  <2>1. 0 \in T
    BY <1>5, <1>13
  <2>2. ASSUME NEW k \in 0 .. n - 1, k \in T
        PROVE  k + 1 \in T
    <3>1. k + 1 \in 1 .. n /\ (k + 1) - 1 = k /\ g[k] \in S /\ k + 1 \in Nat
      BY <1>2, <2>2
    <3>2. g[k + 1] = Updating(queue[k + 1], g[k])
      BY <1>13, <3>1
    <3>3. QED
      BY <1>6, <3>1, <3>2
  <2> HIDE DEF T
  <2>3. \A k \in 0 .. n : k \in T
    BY <1>2, <2>1, <2>2, UpTo
  <2>4. QED
    BY <2>3 DEF T
<1>15. g[n] \in Feeds
  BY <1>2, <1>3, <1>14
<1>16. Feed' = g[n]
  <2>1. PICK last : last = g[n]
    OBVIOUS
  <2>2. last = [events |-> last.events, heldBack |-> last.heldBack, isPaused |-> last.isPaused]
    BY <1>15, <2>1 DEF Feeds
  <2>3. /\ events' = last.events /\ heldBack' = last.heldBack /\ isPaused' = last.isPaused
    BY <1>11, <1>12, <2>1
  <2>4. QED
    BY <2>1, <2>2, <2>3 DEF Feed
<1>17. \A k \in 0 .. n : g[k] \in Feeds /\ Len(g[k].events) <= MaxEvents
  BY <1>3, <1>14
<1>18. n \in Nat \ {0}
  BY <1>2, <1>11
<1>19. QED
  BY <1>1, <1>13, <1>16, <1>17, <1>18

LEMMA FeedRenderKeeps ==
  ASSUME FeedInv, FeedRender
  PROVE  FeedInv'
<1>1. PICK n, run :
        /\ n = Len(pausedQueue) /\ n \in Nat \ {0}
        /\ run[0] = Feed
        /\ \A k \in 0 .. n : run[k] \in Feeds /\ Len(run[k].events) <= MaxEvents
        /\ \A k \in 1 .. n : run[k] = Updating(pausedQueue[k], run[k - 1])
        /\ Feed' = run[n]
  BY FeedRenderRuns DEF FeedInv
<1>2. PICK queue : queue = pausedQueue
  OBVIOUS
<1>3. /\ queue \in Seq(FeedUpdates) /\ n = Len(queue) /\ DOMAIN queue = 1 .. n
      /\ \A k \in 1 .. n : queue[k] \in FeedUpdates
  BY <1>1, <1>2 DEF FeedInv, FeedShape
<1>4. /\ fed' = fed /\ clearedEvents' = clearedEvents /\ overtook' = overtook
      /\ pausedQueue' = <<>>
  BY DEF FeedRender
<1>5. ASSUME NEW k \in 0 .. n - 1
      PROVE  /\ k \in Nat /\ k + 1 \in 1 .. n /\ run[k] \in Feeds /\ Len(run[k].events) <= MaxEvents
             /\ queue[k + 1] \in FeedUpdates /\ run[k + 1] = Updating(queue[k + 1], run[k])
  <2>1. k \in Nat /\ k \in 0 .. n /\ k + 1 \in 1 .. n /\ (k + 1) - 1 = k
    BY <1>1
  <2>2. run[k + 1] = Updating(queue[k + 1], run[k])
    BY <1>1, <1>2, <2>1
  <2>3. QED
    BY <1>1, <1>3, <2>1, <2>2
<1>6. FeedShape'
  <2>1. PICK last : last = run[n]
    OBVIOUS
  <2>2. last \in Feeds /\ Len(last.events) <= MaxEvents
    BY <1>1, <2>1
  <2>3. events' = last.events
    BY <1>1, <2>1 DEF Feed
  <2>4. QED
    BY <1>1, <1>4, <2>1, <2>2, <2>3 DEF FeedInv, FeedShape
<1>7. EventsAreKept'
  <2>1. ASSUME NEW e \in 1 .. fed, e \notin clearedEvents
        PROVE  Keeps(run[n], e)
    <3> DEFINE T == {k \in Nat : \/ Keeps(run[k], e)
                                 \/ \E i \in 1 .. n : /\ k < i /\ queue[i].kind = "append"
                                                      /\ queue[i].event = e}
    <3>1. 0 \in T
      <4>1. \/ Keeps(Feed, e)
            \/ \E i \in 1 .. n : queue[i].kind = "append" /\ queue[i].event = e
        BY <1>2, <1>3, <2>1 DEF FeedInv, EventsAreKept, Appends
      <4>2. \A i \in 1 .. n : 0 < i
        BY <1>1
      <4>3. QED
        BY <1>1, <4>1, <4>2
    <3>2. ASSUME NEW k \in 0 .. n - 1, k \in T
          PROVE  k + 1 \in T
      <4>1. /\ \A x : Keeps(run[k], x) => Keeps(run[k + 1], x)
            /\ queue[k + 1].kind = "append" => Keeps(run[k + 1], queue[k + 1].event)
        BY <1>5, UpdateKeeps
      <4>2. k + 1 \in Nat
        BY <1>5
      <4>3. CASE Keeps(run[k], e)
        BY <4>1, <4>2, <4>3
      <4>4. CASE \E i \in 1 .. n : k < i /\ queue[i].kind = "append" /\ queue[i].event = e
        <5>1. PICK i \in 1 .. n : k < i /\ queue[i].kind = "append" /\ queue[i].event = e
          BY <4>4
        <5>2. i = k + 1 \/ k + 1 < i
          BY <1>1, <1>5, <5>1
        <5>3. CASE i = k + 1
          BY <4>1, <4>2, <5>1, <5>3
        <5>4. CASE k + 1 < i
          BY <4>2, <5>1, <5>4
        <5>5. QED
          BY <5>2, <5>3, <5>4
      <4>5. QED
        BY <3>2, <4>3, <4>4
    <3> HIDE DEF T
    <3>3. n \in T
      <4>1. \A k \in 0 .. n : k \in T
        BY <1>1, <3>1, <3>2, UpTo
      <4>2. QED
        BY <1>1, <4>1
    <3>4. ~ \E i \in 1 .. n : n < i
      BY <1>1
    <3>5. QED
      BY <3>3, <3>4 DEF T
  <2>2. QED
    BY <1>1, <1>4, <2>1 DEF EventsAreKept
<1>8. ASSUME ~overtook
      PROVE  FeedIsSorted'
  <2>1. /\ Sorted(Feed) /\ Settled(Feed) /\ Precedes(Feed, fed + 1)
        /\ \A i \in 1 .. n : queue[i].kind = "append" =>
             Precedes(Feed, queue[i].event) /\ queue[i].event <= fed
        /\ \A i, j \in 1 .. n :
             i < j /\ queue[i].kind = "append" /\ queue[j].kind = "append"
               => queue[i].event < queue[j].event
        /\ \A i \in 1 .. n :
             queue[i].kind = "set" /\ ~queue[i].value => i = 1 /\ heldBack = <<>>
    BY <1>2, <1>3, <1>8 DEF FeedInv, FeedIsSorted, Appends
  <2>2. fed \in Nat /\ \A i \in 1 .. n : queue[i].kind = "append" => queue[i].event \in Nat
    BY <1>3 DEF FeedInv, FeedShape, FeedUpdates
  <2> DEFINE T == {k \in Nat : /\ Sorted(run[k]) /\ Settled(run[k]) /\ Precedes(run[k], fed + 1)
                               /\ \A i \in 1 .. n : k < i /\ queue[i].kind = "append"
                                                      => Precedes(run[k], queue[i].event)}
  <2>3. 0 \in T
    BY <1>1, <2>1
  <2>4. ASSUME NEW k \in 0 .. n - 1, k \in T
        PROVE  k + 1 \in T
    <3>1. PICK u : u = queue[k + 1]
      OBVIOUS
    <3>2. /\ k \in Nat /\ k + 1 \in Nat /\ k + 1 \in 1 .. n /\ run[k] \in Feeds
          /\ u \in FeedUpdates /\ run[k + 1] = Updating(u, run[k])
      BY <1>5, <3>1
    <3>3. /\ Sorted(run[k]) /\ Settled(run[k]) /\ Precedes(run[k], fed + 1)
          /\ \A i \in 1 .. n : k < i /\ queue[i].kind = "append" => Precedes(run[k], queue[i].event)
      BY <2>4
    <3>4. u.kind = "append" => Precedes(run[k], u.event)
      <4>1. k < k + 1
        BY <3>2
      <4>2. QED
        BY <3>1, <3>2, <3>3, <4>1
    <3>5. u.kind = "set" /\ ~u.value => run[k].heldBack = <<>>
      <4>1. SUFFICES ASSUME u.kind = "set", ~u.value
                     PROVE  run[k].heldBack = <<>>
        OBVIOUS
      <4>2. k + 1 = 1 /\ heldBack = <<>>
        BY <2>1, <3>1, <3>2, <4>1
      <4>3. k = 0
        BY <3>2, <4>2
      <4>4. QED
        BY <1>1, <4>2, <4>3 DEF Feed
    <3>6. /\ Sorted(run[k + 1]) /\ Settled(run[k + 1])
          /\ \A e : Precedes(run[k], e) /\ (u.kind = "append" => u.event < e)
                      => Precedes(run[k + 1], e)
      BY <3>2, <3>3, <3>4, <3>5, UpdateSorts
    <3>7. Precedes(run[k + 1], fed + 1)
      <4>1. u.kind = "append" => u.event < fed + 1
        BY <2>1, <2>2, <3>1, <3>2
      <4>2. QED
        BY <3>3, <3>6, <4>1
    <3>8. ASSUME NEW i \in 1 .. n, k + 1 < i, queue[i].kind = "append"
          PROVE  Precedes(run[k + 1], queue[i].event)
      <4>1. k < i
        BY <3>2, <3>8
      <4>2. u.kind = "append" => u.event < queue[i].event
        BY <2>1, <3>1, <3>2, <3>8
      <4>3. QED
        BY <3>3, <3>6, <3>8, <4>1, <4>2
    <3>9. QED
      BY <3>2, <3>6, <3>7, <3>8
  <2> HIDE DEF T
  <2>5. n \in T
    <3>1. \A k \in 0 .. n : k \in T
      BY <1>1, <2>3, <2>4, UpTo
    <3>2. QED
      BY <1>1, <3>1
  <2>6. Sorted(run[n]) /\ Settled(run[n]) /\ Precedes(run[n], fed + 1)
    BY <2>5 DEF T
  <2>7. DOMAIN pausedQueue' = {}
    BY <1>4
  <2>8. QED
    BY <1>1, <1>4, <2>6, <2>7 DEF FeedIsSorted
<1>9. QED
  BY <1>4, <1>6, <1>7, <1>8 DEF FeedInv

\* The feed that a caller finds is as it was.
LEMMA FeedFound ==
  ASSUME FeedInv
  PROVE  /\ Feed \in Feeds /\ Feed.isPaused = isPaused /\ Len(Feed.events) <= MaxEvents
         /\ Feed.events = events /\ Feed.heldBack = heldBack
BY DEF FeedInv, FeedShape, Feed

LEMMA FeedClearKeeps ==
  ASSUME FeedInv, ClearFeed
  PROVE  FeedInv'
<1>1. PICK now : now = Feed'
  OBVIOUS
<1>2. /\ fed' = fed /\ isPaused' = isPaused /\ overtook' = overtook
      /\ pausedQueue' = pausedQueue /\ clearedEvents' = 1 .. fed \ Queued
      /\ events' = <<>> /\ heldBack' = <<>>
  <2>1. PICK feed : feed = [Feed EXCEPT !.events = <<>>, !.heldBack = <<>>]
    OBVIOUS
  <2>2. feed.events = <<>> /\ feed.heldBack = <<>>
    BY <2>1 DEF Feed
  <2>3. QED
    BY <2>1, <2>2 DEF ClearFeed, Becomes
<1>3. /\ now.events = <<>> /\ now.heldBack = <<>> /\ now.isPaused = isPaused
      /\ now \in Feeds /\ fed \in Nat
  <2>1. <<>> \in Seq(Nat) /\ isPaused \in BOOLEAN /\ fed \in Nat
    BY DEF FeedInv, FeedShape, Feed, Feeds
  <2>2. QED
    BY <1>1, <1>2, <2>1 DEF Feed, Feeds
<1>4. FeedShape'
  BY <1>1, <1>2, <1>3, FeedAssumption DEF FeedInv, FeedShape
<1>5. EventsAreKept'
  <2>1. ASSUME NEW e \in 1 .. fed, e \notin clearedEvents'
        PROVE  \E i \in DOMAIN pausedQueue : Appends(i) /\ pausedQueue[i].event = e
    <3>1. e \in Queued
      BY <1>2, <2>1
    <3>2. QED
      BY <3>1 DEF Queued, Range, Appends
  <2>2. QED
    BY <1>2, <2>1 DEF EventsAreKept, Appends
<1>6. ASSUME ~overtook
      PROVE  FeedIsSorted'
  <2>1. Sorted(now) /\ Settled(now) /\ \A e : Precedes(now, e)
    BY <1>3 DEF Sorted, Settled, Precedes, Rises, Before
  <2>2. QED
    BY <1>1, <1>2, <1>6, <2>1 DEF FeedInv, FeedIsSorted, Appends
<1>7. QED
  BY <1>2, <1>4, <1>5, <1>6 DEF FeedInv

LEMMA FeedStep == FeedInv /\ [FeedNext]_feedVars => FeedInv'
<1> SUFFICES ASSUME FeedInv, [FeedNext]_feedVars
             PROVE  FeedInv'
  OBVIOUS
<1>0. fed \in Nat /\ (~overtook => FeedIsSorted)
  BY DEF FeedInv, FeedShape
<1>1. CASE FeedEvent
  <2>1. PICK u : u = [kind |-> "append", event |-> fed + 1]
    OBVIOUS
  <2>2. u \in FeedUpdates /\ u.kind = "append" /\ u.event = fed + 1
    BY <1>0, <2>1 DEF FeedUpdates
  <2>3. RunOrQueuePaused(u, Feed) /\ fed' = fed + 1 /\ overtook' = overtook
        /\ UNCHANGED <<isPaused, clearedEvents>>
    BY <1>1, <2>1 DEF FeedEvent
  <2>4. QED
    BY <1>0, <2>2, <2>3, FeedFound, FeedUpdateKeeps DEF FeedIsSorted
<1>2. ASSUME NEW u \in {[kind |-> "set", value |-> TRUE], [kind |-> "toggle"]},
             RunOrQueuePaused(u, Feed), UNCHANGED <<fed, isPaused, clearedEvents, overtook>>
      PROVE  FeedInv'
  <2>1. u \in FeedUpdates /\ u.kind # "append" /\ (u.kind = "set" => u.value = TRUE)
    <3>1. CASE u = [kind |-> "set", value |-> TRUE]
      BY <3>1 DEF FeedUpdates
    <3>2. CASE u = [kind |-> "toggle"]
      BY <3>2 DEF FeedUpdates
    <3>3. QED
      BY <3>1, <3>2
  <2>2. QED
    BY <1>0, <1>2, <2>1, FeedFound, FeedUpdateKeeps DEF FeedIsSorted
<1>3. CASE PauseFeed
  BY <1>2, <1>3 DEF PauseFeed
<1>4. CASE ToggleFeed
  BY <1>2, <1>4 DEF ToggleFeed
<1>5. CASE ResumeFeed
  <2>1. PICK u, feed : u = [kind |-> "set", value |-> FALSE] /\ feed = BufferShown(Feed)
    OBVIOUS
  <2>2. u \in FeedUpdates /\ u.kind = "set" /\ u.kind # "append"
    BY <2>1 DEF FeedUpdates
  <2>3. /\ RunOrQueuePaused(u, feed) /\ overtook' = (overtook \/ pausedQueue # <<>>)
        /\ fed' = fed /\ UNCHANGED <<isPaused, clearedEvents>>
    BY <1>5, <2>1 DEF ResumeFeed
  <2>4. /\ feed \in Feeds /\ Len(feed.events) <= MaxEvents /\ feed.heldBack = <<>>
        /\ feed.isPaused = isPaused /\ \A e : Keeps(Feed, e) => Keeps(feed, e)
        /\ Sorted(Feed) => Sorted(feed) /\ \A e : Precedes(Feed, e) => Precedes(feed, e)
    BY <2>1, FeedFound, BufferIsShown
  <2>5. ASSUME ~overtook'
        PROVE  /\ ~overtook /\ pausedQueue = <<>> /\ Sorted(feed) /\ Settled(feed)
               /\ \A e : Precedes(Feed, e) => Precedes(feed, e)
    BY <1>0, <2>3, <2>4, <2>5 DEF FeedIsSorted, Settled
  <2>6. QED
    BY <2>2, <2>3, <2>4, <2>5, FeedUpdateKeeps
<1>6. CASE UNCHANGED feedVars
  BY <1>6 DEF feedVars, FeedInv, FeedShape, EventsAreKept, FeedIsSorted, Feed, Appends
<1>7. QED
  BY <1>1, <1>3, <1>4, <1>5, <1>6, FeedClearKeeps, FeedRenderKeeps DEF FeedNext

\* The inductive invariant of the feed holds however updaters are queued and rendered.
LEMMA FeedIsSound == FeedSpec => []FeedInv
<1>1. FeedInit => FeedInv
  <2> SUFFICES ASSUME FeedInit
               PROVE  FeedInv
    OBVIOUS
  <2>1. PICK feed : feed = Feed
    OBVIOUS
  <2>2. /\ feed \in Feeds /\ feed.events = <<>> /\ feed.heldBack = <<>>
        /\ fed = 0 /\ pausedQueue = <<>> /\ events = <<>>
    <3>1. /\ fed = 0 /\ pausedQueue = <<>> /\ events = <<>> /\ heldBack = <<>>
          /\ isPaused = FALSE
      BY DEF FeedInit
    <3>2. <<>> \in Seq(Nat)
      OBVIOUS
    <3>3. feed = [events |-> <<>>, heldBack |-> <<>>, isPaused |-> FALSE]
      BY <2>1, <3>1 DEF Feed
    <3>4. QED
      BY <3>1, <3>2, <3>3 DEF Feeds
  <2>3. FeedShape
    BY <2>1, <2>2, FeedAssumption DEF FeedShape
  <2>4. EventsAreKept
    BY <2>2 DEF EventsAreKept
  <2>5. Sorted(feed) /\ Settled(feed) /\ Precedes(feed, fed + 1)
    BY <2>2 DEF Sorted, Settled, Precedes, Rises, Before
  <2>6. FeedIsSorted
    BY <2>1, <2>2, <2>5 DEF FeedIsSorted
  <2>7. QED
    BY <2>3, <2>4, <2>6 DEF FeedInv
<1>2. QED
  BY <1>1, FeedStep, PTL DEF FeedSpec

\* Whether updaters run at once or at the next render, and whatever is paused, toggled,
\* resumed or cleared meanwhile, the feed loses nothing, and is in order unless resume was
\* called while updates were queued, for any number of events and any length of the feed.
THEOREM FeedStaysWhole == FeedSpec => []FeedIsWhole
<1>1. FeedInv => FeedIsWhole
  <2> SUFFICES ASSUME FeedInv
               PROVE  FeedIsWhole
    OBVIOUS
  <2>1. /\ events \in Seq(Nat) /\ heldBack \in Seq(Nat)
        /\ Feed.events = events /\ Feed.heldBack = heldBack /\ Feed.isPaused = isPaused
    BY DEF FeedInv, FeedShape, Feed, Feeds
  <2>2. NothingDropped
    <3>1. ASSUME NEW e \in 1 .. fed, e \notin clearedEvents, e \notin Queued
          PROVE  e \in Range(events) \cup Range(heldBack) \/ Len(events) = MaxEvents
      <4>1. ~ \E i \in DOMAIN pausedQueue : Appends(i) /\ pausedQueue[i].event = e
        BY <3>1 DEF Queued, Range, Appends
      <4>2. Keeps(Feed, e)
        BY <3>1, <4>1 DEF FeedInv, EventsAreKept
      <4>3. QED
        BY <2>1, <4>2 DEF Keeps, Has, Range
    <3>2. QED
      BY <3>1 DEF NothingDropped
  <2>3. ASSUME ~overtook
        PROVE  FeedInOrder
    <3>1. /\ Rises(events) /\ Rises(heldBack)
          /\ \A i \in DOMAIN heldBack : Before(events, heldBack[i])
          /\ ~isPaused => heldBack = <<>>
      BY <2>1, <2>3 DEF FeedInv, FeedIsSorted, Sorted, Settled
    <3>2. PICK all, m, k : all = events \o heldBack /\ m = Len(events) /\ k = Len(heldBack)
      OBVIOUS
    <3>3. /\ m \in Nat /\ k \in Nat /\ Len(all) = m + k
          /\ DOMAIN events = 1 .. m /\ DOMAIN heldBack = 1 .. k
          /\ \A i \in 1 .. m : all[i] = events[i]
          /\ \A i \in 1 .. k : all[m + i] = heldBack[i]
      BY <2>1, <3>2
    <3>4. ASSUME NEW i \in 1 .. m + k - 1
          PROVE  all[i] < all[i + 1]
      <4>1. i \in Nat /\ i < i + 1
        OBVIOUS
      <4>2. CASE i + 1 <= m
        <5>1. i \in DOMAIN events /\ i + 1 \in DOMAIN events
          BY <3>3, <4>1, <4>2
        <5>2. events[i] < events[i + 1]
          BY <3>1, <4>1, <5>1 DEF Rises
        <5>3. QED
          BY <3>3, <5>1, <5>2
      <4>3. CASE i = m
        <5>1. i \in DOMAIN events /\ 1 \in DOMAIN heldBack
          BY <3>3, <4>1, <4>3
        <5>2. events[i] < heldBack[1]
          BY <3>1, <5>1 DEF Before
        <5>3. all[i] = events[i] /\ all[i + 1] = heldBack[1]
          BY <3>3, <4>3, <5>1
        <5>4. QED
          BY <5>2, <5>3
      <4>4. CASE i > m
        <5>1. PICK j : j = i - m
          OBVIOUS
        <5>2. /\ j \in DOMAIN heldBack /\ j + 1 \in DOMAIN heldBack /\ j < j + 1
              /\ m + j = i /\ m + (j + 1) = i + 1
          BY <3>3, <4>1, <4>4, <5>1
        <5>3. heldBack[j] < heldBack[j + 1]
          BY <3>1, <5>2 DEF Rises
        <5>4. all[m + j] = heldBack[j] /\ all[m + (j + 1)] = heldBack[j + 1]
          BY <3>3, <5>2
        <5>5. QED
          BY <5>2, <5>3, <5>4
      <4>5. QED
        BY <3>3, <4>1, <4>2, <4>3, <4>4
    <3>5. QED
      BY <3>1, <3>2, <3>3, <3>4 DEF FeedInOrder
  <2>4. QED
    BY <2>2, <2>3 DEF FeedIsWhole
<1>2. QED
  BY <1>1, FeedIsSound, PTL

\* All the events of a feed came.
Came(s, n) == \A i \in DOMAIN s : s[i] \in 1 .. n
HasOnly(feed, n) == Came(feed.events, n) /\ Came(feed.heldBack, n)

LEMMA ShownCame ==
  ASSUME NEW feed \in Feeds, NEW more \in Seq(Nat), NEW n \in Nat, HasOnly(feed, n), Came(more, n)
  PROVE  HasOnly(Shown(feed, more), n)
<1>1. PICK r, d :
        /\ Shown(feed, more).events = r /\ Shown(feed, more).heldBack = feed.heldBack
        /\ r \in Seq(Nat) /\ d \in Nat /\ Len(r) = Len(feed.events) + Len(more) - d
        /\ \A i \in 1 .. Len(r) :
             r[i] = IF d + i <= Len(feed.events) THEN feed.events[d + i]
                    ELSE more[d + i - Len(feed.events)]
  BY ShownEvents
<1>2. PICK old, a, b, c : old = feed.events /\ a = Len(old) /\ b = Len(more) /\ c = Len(r)
  OBVIOUS
<1>3. /\ old \in Seq(Nat) /\ a \in Nat /\ b \in Nat /\ c \in Nat /\ c = a + b - d
      /\ DOMAIN old = 1 .. a /\ DOMAIN more = 1 .. b /\ DOMAIN r = 1 .. c
  BY <1>1, <1>2 DEF Feeds
<1>4. ASSUME NEW i \in 1 .. c
      PROVE  r[i] \in 1 .. n
  <2>1. CASE d + i <= a
    <3>1. d + i \in 1 .. a
      BY <1>1, <1>3, <2>1
    <3>2. r[i] = old[d + i]
      BY <1>1, <1>2, <2>1
    <3>3. QED
      BY <1>2, <1>3, <3>1, <3>2 DEF HasOnly, Came
  <2>2. CASE ~ (d + i <= a)
    <3>1. d + i - a \in 1 .. b
      BY <1>1, <1>3, <2>2
    <3>2. r[i] = more[d + i - a]
      BY <1>1, <1>2, <2>2
    <3>3. QED
      BY <1>3, <3>1, <3>2 DEF Came
  <2>3. QED
    BY <2>1, <2>2
<1>5. Came(r, n)
  BY <1>3, <1>4 DEF Came
<1>6. QED
  BY <1>1, <1>5 DEF HasOnly

LEMMA BufferCame ==
  ASSUME NEW feed \in Feeds, NEW n \in Nat, HasOnly(feed, n)
  PROVE  HasOnly(BufferShown(feed), n)
<1>1. PICK held, shown, next : /\ held = feed.heldBack /\ shown = Shown(feed, held)
                               /\ next = [shown EXCEPT !.heldBack = <<>>]
  OBVIOUS
<1>2. held \in Seq(Nat) /\ Came(held, n)
  BY <1>1 DEF Feeds, HasOnly
<1>3. HasOnly(shown, n) /\ shown \in Feeds
  BY <1>1, <1>2, ShownCame, ShownEvents
<1>4. next.events = shown.events /\ next.heldBack = <<>>
  BY <1>1, <1>3 DEF Feeds
<1>5. BufferShown(feed) = next
  BY <1>1 DEF BufferShown
<1>6. QED
  BY <1>3, <1>4, <1>5 DEF HasOnly, Came

LEMMA UpdatingCame ==
  ASSUME NEW feed \in Feeds, NEW u \in FeedUpdates, NEW n \in Nat, HasOnly(feed, n),
         u.kind = "append" => u.event \in 1 .. n
  PROVE  HasOnly(Updating(u, feed), n)
<1>0. feed.events \in Seq(Nat) /\ feed.heldBack \in Seq(Nat)
  BY DEF Feeds
<1>1. CASE u.kind = "append" /\ feed.isPaused
  <2>1. PICK held, e, longer, next :
          /\ held = feed.heldBack /\ e = u.event
          /\ longer = Append(held, e) /\ next = [feed EXCEPT !.heldBack = longer]
    OBVIOUS
  <2>2. held \in Seq(Nat) /\ Came(held, n) /\ e \in Nat /\ e \in 1 .. n
    BY <1>0, <1>1, <2>1 DEF HasOnly
  <2>3. \A i \in DOMAIN longer : longer[i] = e \/ (i \in DOMAIN held /\ longer[i] = held[i])
    BY <2>1, <2>2
  <2>4. Came(longer, n)
    BY <2>2, <2>3 DEF Came
  <2>5. next.events = feed.events /\ next.heldBack = longer
    BY <2>1 DEF Feeds
  <2>6. Updating(u, feed) = next
    BY <1>1, <2>1 DEF Updating
  <2>7. QED
    BY <2>4, <2>5, <2>6 DEF HasOnly
<1>2. CASE u.kind = "append" /\ ~feed.isPaused
  <2>1. PICK one : one = <<u.event>>
    OBVIOUS
  <2>2. one \in Seq(Nat) /\ Came(one, n)
    BY <1>2, <2>1 DEF Came
  <2>3. Updating(u, feed) = Shown(feed, one)
    BY <1>2, <2>1 DEF Updating
  <2>4. QED
    BY <2>2, <2>3, ShownCame
<1>3. CASE u.kind = "toggle" /\ feed.isPaused
  <2>1. PICK shown, next : shown = BufferShown(feed) /\ next = [shown EXCEPT !.isPaused = FALSE]
    OBVIOUS
  <2>2. HasOnly(shown, n) /\ shown \in Feeds
    BY <2>1, BufferCame, BufferIsShown
  <2>3. next.events = shown.events /\ next.heldBack = shown.heldBack
    BY <2>1, <2>2 DEF Feeds
  <2>4. Updating(u, feed) = next
    BY <1>3, <2>1 DEF Updating, Toggled
  <2>5. QED
    BY <2>2, <2>3, <2>4 DEF HasOnly
<1>4. CASE u.kind = "toggle" /\ ~feed.isPaused
  <2>1. PICK next : next = [feed EXCEPT !.isPaused = TRUE]
    OBVIOUS
  <2>2. next.events = feed.events /\ next.heldBack = feed.heldBack
    BY <2>1 DEF Feeds
  <2>3. Updating(u, feed) = next
    BY <1>4, <2>1 DEF Updating, Toggled
  <2>4. QED
    BY <2>2, <2>3 DEF HasOnly
<1>5. CASE u.kind = "set"
  <2>1. PICK next : next = [feed EXCEPT !.isPaused = u.value]
    OBVIOUS
  <2>2. next.events = feed.events /\ next.heldBack = feed.heldBack
    BY <2>1 DEF Feeds
  <2>3. Updating(u, feed) = next
    BY <1>5, <2>1 DEF Updating
  <2>4. QED
    BY <2>2, <2>3 DEF HasOnly
<1>6. QED
  BY <1>1, <1>2, <1>3, <1>4, <1>5 DEF FeedUpdates

FeedBounds ==
  /\ fed \in 0 .. MaxFed
  /\ HasOnly(Feed, fed)
  /\ \A i \in DOMAIN pausedQueue : pausedQueue[i].kind = "append" => pausedQueue[i].event \in 1 .. fed
  /\ Len(pausedQueue) <= MaxQueued
  /\ clearedEvents \subseteq 1 .. fed
  /\ overtook \in BOOLEAN

LEMMA CameBefore ==
  ASSUME NEW n \in Nat, NEW m \in Nat, n <= m
  PROVE  /\ \A s : Came(s, n) => Came(s, m)
         /\ \A feed : HasOnly(feed, n) => HasOnly(feed, m)
         /\ 1 .. n \subseteq 1 .. m
<1>1. 1 .. n \subseteq 1 .. m
  OBVIOUS
<1>2. QED
  BY <1>1 DEF Came, HasOnly

\* An update runs or is queued.
LEMMA FeedUpdateBounded ==
  ASSUME FeedInv, FeedBounds, NEW u \in FeedUpdates, NEW feed \in Feeds,
         RunOrQueuePaused(u, feed), HasOnly(feed, fed), UNCHANGED <<isPaused, clearedEvents>>,
         fed' \in 0 .. MaxFed, fed <= fed', overtook' \in BOOLEAN,
         u.kind = "append" => u.event \in 1 .. fed'
  PROVE  FeedBounds'
<1>1. PICK n, queue, now, next : /\ n = fed' /\ queue = pausedQueue /\ now = Feed'
                                 /\ next = Updating(u, feed)
  OBVIOUS
<1>2. /\ n \in Nat /\ fed \in Nat /\ fed <= n /\ queue \in Seq(FeedUpdates)
      /\ MaxQueued \in Nat \ {0}
  BY <1>1, FeedAssumption DEF FeedInv, FeedShape
<1>3. /\ HasOnly(feed, n) /\ clearedEvents' \subseteq 1 .. n
      /\ \A i \in DOMAIN queue : queue[i].kind = "append" => queue[i].event \in 1 .. n
  <2>1. 1 .. fed \subseteq 1 .. n
    BY <1>2
  <2>2. QED
    BY <1>1, <1>2, <2>1, CameBefore DEF FeedBounds
<1>4. HasOnly(next, n)
  BY <1>1, <1>2, <1>3, UpdatingCame
<1>5. now.events = events' /\ now.heldBack = heldBack'
  BY <1>1 DEF Feed
<1>6. CASE /\ queue = <<>> /\ Becomes(next)
           /\ pausedQueue' = IF next.isPaused = isPaused THEN <<>>
                             ELSE <<[kind |-> "set", value |-> next.isPaused]>>
  <2>1. PICK known : known = [kind |-> "set", value |-> next.isPaused]
    OBVIOUS
  <2>2. pausedQueue' = <<>> \/ pausedQueue' = <<known>>
    BY <1>6, <2>1
  <2>3. Len(pausedQueue') <= MaxQueued /\ \A i \in DOMAIN pausedQueue' : pausedQueue'[i].kind = "set"
    <3>1. CASE pausedQueue' = <<>>
      BY <1>2, <3>1
    <3>2. CASE pausedQueue' = <<known>>
      <4>1. known.kind = "set"
        BY <2>1
      <4>2. Len(<<known>>) = 1 /\ DOMAIN <<known>> = {1} /\ <<known>>[1] = known
        OBVIOUS
      <4>3. QED
        BY <1>2, <3>2, <4>1, <4>2
    <3>3. QED
      BY <2>2, <3>1, <3>2
  <2>4. HasOnly(now, n)
    BY <1>4, <1>5, <1>6 DEF Becomes, HasOnly
  <2>5. QED
    BY <1>1, <1>3, <2>3, <2>4 DEF FeedBounds
<1>7. CASE Len(queue) < MaxQueued /\ pausedQueue' = Append(queue, u) /\ Becomes(feed)
  <2>1. PICK longer : longer = Append(queue, u)
    OBVIOUS
  <2>2. /\ Len(longer) <= MaxQueued
        /\ \A i \in DOMAIN longer : longer[i] = u \/ (i \in DOMAIN queue /\ longer[i] = queue[i])
    BY <1>2, <1>7, <2>1
  <2>3. \A i \in DOMAIN longer : longer[i].kind = "append" => longer[i].event \in 1 .. n
    BY <1>1, <1>3, <2>2
  <2>4. HasOnly(now, n)
    BY <1>3, <1>5, <1>7 DEF Becomes, HasOnly
  <2>5. QED
    BY <1>1, <1>3, <1>7, <2>1, <2>2, <2>3, <2>4 DEF FeedBounds
<1>8. QED
  BY <1>1, <1>6, <1>7 DEF RunOrQueuePaused

LEMMA FeedRenderBounded ==
  ASSUME FeedInv, FeedBounds, FeedRender
  PROVE  FeedBounds'
<1>1. PICK n, run :
        /\ n = Len(pausedQueue) /\ n \in Nat \ {0} /\ run[0] = Feed
        /\ \A k \in 0 .. n : run[k] \in Feeds
        /\ \A k \in 1 .. n : run[k] = Updating(pausedQueue[k], run[k - 1])
        /\ Feed' = run[n]
  BY FeedRenderRuns DEF FeedInv
<1>2. PICK queue, e : queue = pausedQueue /\ e = fed
  OBVIOUS
<1>3. /\ e \in Nat
      /\ \A k \in 1 .. n : /\ queue[k] \in FeedUpdates
                           /\ queue[k].kind = "append" => queue[k].event \in 1 .. e
  <2>1. queue \in Seq(FeedUpdates) /\ e \in Nat
    BY <1>2 DEF FeedInv, FeedShape
  <2>2. DOMAIN queue = 1 .. n /\ \A k \in 1 .. n : queue[k] \in FeedUpdates
    BY <1>1, <1>2, <2>1
  <2>3. \A k \in DOMAIN queue : queue[k].kind = "append" => queue[k].event \in 1 .. e
    BY <1>2 DEF FeedBounds
  <2>4. QED
    BY <2>1, <2>2, <2>3
<1> DEFINE T == {k \in Nat : k <= n => HasOnly(run[k], e)}
<1>4. 0 \in T
  BY <1>1, <1>2 DEF FeedBounds
<1>5. ASSUME NEW k \in 0 .. n - 1, k \in T
      PROVE  k + 1 \in T
  <2>1. k \in 0 .. n /\ k + 1 \in 1 .. n /\ (k + 1) - 1 = k /\ k + 1 \in Nat /\ k <= n
    BY <1>1
  <2>2. HasOnly(run[k], e) /\ run[k] \in Feeds /\ run[k + 1] = Updating(queue[k + 1], run[k])
    BY <1>1, <1>2, <1>5, <2>1
  <2>3. HasOnly(run[k + 1], e)
    BY <1>3, <2>1, <2>2, UpdatingCame
  <2>4. QED
    BY <2>1, <2>3
<1> HIDE DEF T
<1>6. \A k \in 0 .. n : k \in T
  BY <1>1, <1>4, <1>5, UpTo
<1>7. n \in T
  BY <1>1, <1>6
<1>8. HasOnly(Feed', e)
  BY <1>1, <1>7 DEF T
<1>9. pausedQueue' = <<>> /\ fed' = fed /\ clearedEvents' = clearedEvents /\ overtook' = overtook
  BY DEF FeedRender
<1>10. Len(pausedQueue') <= MaxQueued /\ DOMAIN pausedQueue' = {}
  BY <1>9, FeedAssumption
<1>11. QED
  BY <1>2, <1>8, <1>9, <1>10 DEF FeedBounds

LEMMA FeedBoundsKept ==
  ASSUME FeedInv, FeedBounds, [FeedNext]_feedVars
  PROVE  FeedBounds'
<1>0. fed \in Nat /\ MaxFed \in Nat /\ fed \in 0 .. MaxFed /\ overtook \in BOOLEAN
      /\ HasOnly(Feed, fed) /\ Feed \in Feeds
  BY FeedAssumption, FeedFound DEF FeedInv, FeedShape, FeedBounds
<1>1. CASE FeedEvent
  <2>1. PICK u : u = [kind |-> "append", event |-> fed + 1]
    OBVIOUS
  <2>2. /\ RunOrQueuePaused(u, Feed) /\ fed' = fed + 1 /\ fed < MaxFed /\ overtook' = overtook
        /\ UNCHANGED <<isPaused, clearedEvents>>
    BY <1>1, <2>1 DEF FeedEvent
  <2>3. u \in FeedUpdates /\ u.event = fed + 1
    BY <1>0, <2>1 DEF FeedUpdates
  <2>4. fed' \in 0 .. MaxFed /\ fed <= fed' /\ u.event \in 1 .. fed'
    BY <1>0, <2>2, <2>3
  <2>5. QED
    BY <1>0, <2>2, <2>3, <2>4, FeedUpdateBounded
<1>2. ASSUME NEW u \in FeedUpdates, NEW feed \in Feeds, RunOrQueuePaused(u, feed),
             HasOnly(feed, fed), u.kind # "append", overtook' \in BOOLEAN,
             UNCHANGED <<fed, isPaused, clearedEvents>>
      PROVE  FeedBounds'
  <2>1. fed' \in 0 .. MaxFed /\ fed <= fed'
    BY <1>0, <1>2
  <2>2. QED
    BY <1>2, <2>1, FeedUpdateBounded
<1>3. CASE PauseFeed
  <2>1. PICK u : u = [kind |-> "set", value |-> TRUE]
    OBVIOUS
  <2>2. u \in FeedUpdates /\ u.kind # "append"
    BY <2>1 DEF FeedUpdates
  <2>3. QED
    BY <1>0, <1>2, <1>3, <2>1, <2>2 DEF PauseFeed
<1>4. CASE ToggleFeed
  <2>1. PICK u : u = [kind |-> "toggle"]
    OBVIOUS
  <2>2. u \in FeedUpdates /\ u.kind # "append"
    BY <2>1 DEF FeedUpdates
  <2>3. QED
    BY <1>0, <1>2, <1>4, <2>1, <2>2 DEF ToggleFeed
<1>5. CASE ResumeFeed
  <2>1. PICK u, feed : u = [kind |-> "set", value |-> FALSE] /\ feed = BufferShown(Feed)
    OBVIOUS
  <2>2. u \in FeedUpdates /\ u.kind # "append"
    BY <2>1 DEF FeedUpdates
  <2>3. feed \in Feeds /\ HasOnly(feed, fed)
    BY <1>0, <2>1, BufferIsShown, BufferCame
  <2>4. QED
    BY <1>0, <1>2, <1>5, <2>1, <2>2, <2>3 DEF ResumeFeed
<1>6. CASE ClearFeed
  <2>1. PICK feed : feed = [Feed EXCEPT !.events = <<>>, !.heldBack = <<>>]
    OBVIOUS
  <2>2. feed.events = <<>> /\ feed.heldBack = <<>>
    BY <2>1 DEF Feed
  <2>3. /\ events' = <<>> /\ heldBack' = <<>> /\ clearedEvents' \subseteq 1 .. fed
        /\ UNCHANGED <<fed, pausedQueue, overtook>>
    BY <1>6, <2>1, <2>2 DEF ClearFeed, Becomes
  <2>4. HasOnly(Feed', fed)
    BY <2>3 DEF Feed, HasOnly, Came
  <2>5. QED
    BY <2>3, <2>4 DEF FeedBounds
<1>7. CASE UNCHANGED feedVars
  BY <1>7 DEF feedVars, FeedBounds, Feed
<1>8. QED
  BY <1>1, <1>3, <1>4, <1>5, <1>6, <1>7, FeedRenderBounded DEF FeedNext

\* What is shown, held back and cleared came, and the feed is no longer than it may be.
THEOREM FeedTypesHold == FeedSpec => []FeedTypeOK
<1>1. FeedInit => FeedBounds
  <2> SUFFICES ASSUME FeedInit
               PROVE  FeedBounds
    OBVIOUS
  <2>1. /\ fed = 0 /\ events = <<>> /\ heldBack = <<>> /\ pausedQueue = <<>>
        /\ clearedEvents = {} /\ overtook = FALSE
    BY DEF FeedInit
  <2>2. HasOnly(Feed, fed)
    BY <2>1 DEF Feed, HasOnly, Came
  <2>3. Len(pausedQueue) <= MaxQueued /\ DOMAIN pausedQueue = {} /\ 0 \in 0 .. MaxFed
    BY <2>1, FeedAssumption
  <2>4. QED
    BY <2>1, <2>2, <2>3 DEF FeedBounds
<1>2. FeedInv /\ FeedBounds => FeedTypeOK
  <2> SUFFICES ASSUME FeedInv, FeedBounds
               PROVE  FeedTypeOK
    OBVIOUS
  <2>1. /\ events \in Seq(Nat) /\ heldBack \in Seq(Nat) /\ isPaused \in BOOLEAN
        /\ Feed.events = events /\ Feed.heldBack = heldBack /\ Len(events) <= MaxEvents
    BY FeedFound DEF Feeds
  <2>2. Came(events, fed) /\ Came(heldBack, fed)
    BY <2>1 DEF FeedBounds, HasOnly
  <2>3. events \in Seq(1 .. fed) /\ heldBack \in Seq(1 .. fed)
    BY <2>1, <2>2, SeqIn DEF Came
  <2>4. QED
    BY <2>1, <2>3 DEF FeedBounds, FeedTypeOK
<1>3. QED
  BY <1>1, <1>2, FeedBoundsKept, FeedIsSound, PTL DEF FeedSpec

-----------------------------------------------------------------------------
(* The lists driven from the keyboard.                                     *)

\* The pairs order the members of S one after the other.
Orders(before, S) ==
  /\ \A a \in S : <<a, a>> \notin before
  /\ \A a, b \in S : a # b => <<a, b>> \in before \/ <<b, a>> \in before
  /\ \A a, b, c \in S : <<a, b>> \in before /\ <<b, c>> \in before => <<a, c>> \in before

ArrangedBy(list, S, before) ==
  /\ list \in [1 .. Cardinality(S) -> S]
  /\ \A i, j \in 1 .. Cardinality(S) : i < j => <<list[i], list[j]>> \in before

\* One member comes before all others.
LEMMA FirstComes ==
  ASSUME NEW U, IsFiniteSet(U), U # {}, NEW before, Orders(before, U)
  PROVE  \E m \in U : \A x \in U \ {m} : <<m, x>> \in before
<1> DEFINE HasFirst(S) == \E m \in S : \A x \in S \ {m} : <<m, x>> \in before
           Sizes == {n \in Nat : \A S \in SUBSET U : Cardinality(S) = n /\ S # {} => HasFirst(S)}
<1>1. \A S \in SUBSET U : IsFiniteSet(S) /\ Cardinality(S) \in Nat
  BY FS_Subset, FS_CardinalityType
<1>2. 0 \in Sizes
  BY <1>1, FS_EmptySet
<1>3. ASSUME NEW n \in Nat, n \in Sizes
      PROVE  n + 1 \in Sizes
  <2>1. SUFFICES ASSUME NEW S \in SUBSET U, Cardinality(S) = n + 1, S # {}
                 PROVE  HasFirst(S)
    OBVIOUS
  <2>2. PICK x \in S : TRUE
    BY <2>1
  <2>3. S \ {x} \in SUBSET U /\ Cardinality(S \ {x}) = n
    BY <1>1, <2>1, <2>2, FS_RemoveElement
  <2>4. CASE S \ {x} = {}
    BY <2>2, <2>4
  <2>5. CASE S \ {x} # {}
    <3>1. PICK m \in S \ {x} : \A y \in (S \ {x}) \ {m} : <<m, y>> \in before
      BY <1>3, <2>3, <2>5
    <3>2. x \in U /\ m \in U /\ m # x /\ S \subseteq U
      BY <2>1, <2>2, <3>1
    <3>3. CASE <<m, x>> \in before
      BY <3>1, <3>3
    <3>4. CASE <<x, m>> \in before
      <4>1. ASSUME NEW y \in S \ {x}
            PROVE  <<x, y>> \in before
        <5>1. CASE y = m
          BY <3>4, <5>1
        <5>2. CASE y # m
          BY <3>1, <3>2, <3>4, <4>1, <5>2 DEF Orders
        <5>3. QED
          BY <5>1, <5>2
      <4>2. QED
        BY <2>2, <4>1
    <3>5. QED
      BY <3>2, <3>3, <3>4 DEF Orders
  <2>6. QED
    BY <2>4, <2>5
<1> HIDE DEF HasFirst
<1>4. Cardinality(U) \in Nat
  BY <1>1
<1>5. Cardinality(U) \in Sizes
  <2> HIDE DEF Sizes
  <2>1. \A i \in 0 .. Cardinality(U) : i \in Sizes
    BY <1>2, <1>3, <1>4, UpTo
  <2>2. QED
    BY <1>4, <2>1
<1>6. HasFirst(U)
  BY <1>5
<1>7. QED
  BY <1>6 DEF HasFirst

\* They can be listed in the order of the pairs.
LEMMA CanBeArranged ==
  ASSUME NEW U, IsFiniteSet(U), NEW before, Orders(before, U)
  PROVE  \E list : ArrangedBy(list, U, before)
<1> DEFINE Sizes == {n \in Nat : \A S \in SUBSET U : Cardinality(S) = n
                                   => \E list : ArrangedBy(list, S, before)}
<1>1. \A S \in SUBSET U : IsFiniteSet(S) /\ Cardinality(S) \in Nat
  BY FS_Subset, FS_CardinalityType
<1>2. 0 \in Sizes
  <2>1. SUFFICES ASSUME NEW S \in SUBSET U, Cardinality(S) = 0
                 PROVE  ArrangedBy(<<>>, S, before)
    OBVIOUS
  <2>2. QED
    BY <2>1 DEF ArrangedBy
<1>3. ASSUME NEW n \in Nat, n \in Sizes
      PROVE  n + 1 \in Sizes
  <2>1. SUFFICES ASSUME NEW S \in SUBSET U, Cardinality(S) = n + 1
                 PROVE  \E list : ArrangedBy(list, S, before)
    OBVIOUS
  <2>2. S # {} /\ IsFiniteSet(S) /\ Orders(before, S)
    BY <1>1, <2>1, FS_EmptySet DEF Orders
  <2>3. PICK m \in S : \A x \in S \ {m} : <<m, x>> \in before
    BY <2>2, FirstComes
  <2>4. S \ {m} \in SUBSET U /\ Cardinality(S \ {m}) = n
    <3>1. Cardinality(S \ {m}) = Cardinality(S) - 1
      BY <2>2, <2>3, FS_RemoveElement
    <3>2. QED
      BY <2>1, <3>1
  <2>5. PICK rest : ArrangedBy(rest, S \ {m}, before)
    BY <1>3, <2>4
  <2> DEFINE list == [i \in 1 .. n + 1 |-> IF i = 1 THEN m ELSE rest[i - 1]]
  <2>6. /\ rest \in [1 .. n -> S \ {m}]
        /\ \A i, j \in 1 .. n : i < j => <<rest[i], rest[j]>> \in before
    BY <2>4, <2>5 DEF ArrangedBy
  <2>7. \A i \in 1 .. n + 1 : i = 1 \/ (i - 1 \in 1 .. n /\ i # 1)
    OBVIOUS
  <2>8. list \in [1 .. n + 1 -> S]
    BY <2>3, <2>6, <2>7
  <2>9. ASSUME NEW i \in 1 .. n + 1, NEW j \in 1 .. n + 1, i < j
        PROVE  <<list[i], list[j]>> \in before
    <3>1. j - 1 \in 1 .. n /\ j # 1 /\ list[j] = rest[j - 1]
      BY <2>7, <2>9
    <3>2. CASE i = 1
      BY <2>3, <2>6, <3>1, <3>2
    <3>3. CASE i # 1
      BY <2>6, <2>7, <2>9, <3>1, <3>3
    <3>4. QED
      BY <3>2, <3>3
  <2>10. ArrangedBy(list, S, before)
    BY <2>1, <2>8, <2>9 DEF ArrangedBy
  <2>11. QED
    BY <2>10
<1>4. Cardinality(U) \in Sizes
  <2> HIDE DEF Sizes
  <2>1. \A i \in 0 .. Cardinality(U) : i \in Sizes
    BY <1>1, <1>2, <1>3, UpTo
  <2>2. QED
    BY <1>1, <2>1
<1>5. QED
  BY <1>4

\* The list has every member once, none before one that it comes after.
LEMMA ArrangedIs ==
  ASSUME NEW S, IsFiniteSet(S), NEW before, Orders(before, S)
  PROVE  LET list == Arranged(S, before)
         IN /\ Cardinality(S) \in Nat /\ list \in [1 .. Cardinality(S) -> S]
            /\ list \in Seq(S) /\ Len(list) = Cardinality(S)
            /\ \A i, j \in 1 .. Cardinality(S) : i < j => <<list[i], list[j]>> \in before
            /\ \A i, j \in 1 .. Cardinality(S) : list[i] = list[j] => i = j
            /\ \A x \in S : \E i \in 1 .. Cardinality(S) : list[i] = x
<1>1. PICK list, n : list = Arranged(S, before) /\ n = Cardinality(S)
  OBVIOUS
<1>2. /\ n \in Nat /\ list \in [1 .. n -> S]
      /\ \A i, j \in 1 .. n : i < j => <<list[i], list[j]>> \in before
  BY <1>1, CanBeArranged, FS_CardinalityType DEF Arranged, ArrangedBy
<1>3. ASSUME NEW i \in 1 .. n, NEW j \in 1 .. n, list[i] = list[j]
      PROVE  i = j
  <2>1. <<list[i], list[j]>> \notin before /\ <<list[j], list[i]>> \notin before
    BY <1>2, <1>3 DEF Orders
  <2>2. ~(i < j) /\ ~(j < i)
    BY <1>2, <2>1
  <2>3. QED
    BY <1>2, <2>2
<1>4. list \in Injection(1 .. n, S)
  BY <1>2, <1>3 DEF Injection, IsInjective
<1>5. list \in Surjection(1 .. n, S)
  <2>1. Cardinality(1 .. n) = n
    <3>1. IsFiniteSet(1 .. n) /\ Cardinality(1 .. n) = IF 1 > n THEN 0 ELSE n - 1 + 1
      BY <1>2, FS_Interval
    <3>2. QED
      BY <1>2, <3>1
  <2>2. QED
    BY <1>1, <1>4, <2>1, FS_Injection
<1>6. \A x \in S : \E i \in 1 .. n : list[i] = x
  BY <1>5 DEF Surjection
<1>7. list \in Seq(S) /\ Len(list) = n
  BY <1>2
<1>8. QED
  BY <1>1, <1>2, <1>3, <1>6, <1>7

ListsAll(list, n, S, before) ==
  /\ list \in [1 .. n -> S]
  /\ \A i, j \in 1 .. n : i < j => <<list[i], list[j]>> \in before
  /\ \A x \in S : \E i \in 1 .. n : list[i] = x

\* There is one way to do it.
LEMMA ArrangedOnce ==
  ASSUME NEW S, NEW before, Orders(before, S), NEW n \in Nat,
         NEW f, ListsAll(f, n, S, before), NEW g, ListsAll(g, n, S, before)
  PROVE  f = g
<1>0. /\ f \in [1 .. n -> S] /\ g \in [1 .. n -> S]
      /\ \A i, j \in 1 .. n : i < j => <<f[i], f[j]>> \in before /\ <<g[i], g[j]>> \in before
      /\ \A x \in S : (\E i \in 1 .. n : f[i] = x) /\ (\E i \in 1 .. n : g[i] = x)
  BY DEF ListsAll
<1> DEFINE Agreed == {k \in Nat : \A i \in 1 .. n : i <= k => f[i] = g[i]}
<1>1. \A a, b \in S : ~(<<a, b>> \in before /\ <<b, a>> \in before)
  BY DEF Orders
<1>2. ASSUME NEW i \in 1 .. n, NEW j \in 1 .. n, i # j
      PROVE  f[i] # f[j] /\ g[i] # g[j]
  <2>1. \A a, b \in S : <<a, b>> \in before => a # b
    BY <1>1
  <2>2. i < j \/ j < i
    BY <1>2
  <2>3. CASE i < j
    BY <1>0, <2>1, <2>3
  <2>4. CASE j < i
    BY <1>0, <2>1, <2>4
  <2>5. QED
    BY <2>2, <2>3, <2>4
<1>3. 0 \in Agreed
  OBVIOUS
<1>4. ASSUME NEW k \in Nat, k \in Agreed
      PROVE  k + 1 \in Agreed
  <2>1. \A i \in 1 .. n : i <= k => f[i] = g[i]
    BY <1>4
  <2>2. ASSUME NEW i \in 1 .. n, i = k + 1
        PROVE  f[i] = g[i]
    <3>1. \A h \in 1 .. n : h < i => f[h] = g[h]
      BY <2>1, <2>2
    <3>2. PICK j \in 1 .. n : g[j] = f[i]
      BY <1>0
    <3>3. PICK l \in 1 .. n : f[l] = g[i]
      BY <1>0
    <3>4. ~(j < i)
      BY <1>2, <3>1, <3>2
    <3>5. ~(l < i)
      BY <1>2, <3>1, <3>3
    <3>6. ~(i < j /\ i < l)
      BY <1>0, <1>1, <3>2, <3>3
    <3>7. i = j \/ i = l
      BY <3>4, <3>5, <3>6
    <3>8. QED
      BY <3>2, <3>3, <3>7
  <2>3. ASSUME NEW i \in 1 .. n, i <= k + 1
        PROVE  f[i] = g[i]
    <3>1. i <= k \/ i = k + 1
      BY <2>3
    <3>2. QED
      BY <2>1, <2>2, <3>1
  <2>4. QED
    BY <2>3
<1>5. n \in Agreed
  <2> HIDE DEF Agreed
  <2>1. \A k \in 0 .. n - 1 : k \in Agreed => k + 1 \in Agreed
    BY <1>4
  <2>2. \A k \in 0 .. n : k \in Agreed
    BY <1>3, <2>1, UpTo
  <2>3. QED
    BY <2>2
<1>6. QED
  BY <1>0, <1>5

\* The smaller and the greater of two numbers.
LEMMA MinMaxOfTwo ==
  ASSUME NEW a \in Int, NEW b \in Int
  PROVE  /\ Min({a, b}) = IF a <= b THEN a ELSE b
         /\ Max({a, b}) = IF a <= b THEN b ELSE a
<1>1. PICK low, high : /\ low = (IF a <= b THEN a ELSE b)
                       /\ high = (IF a <= b THEN b ELSE a)
  OBVIOUS
<1>2. /\ low \in {a, b} /\ \A y \in {a, b} : low <= y
      /\ \A x \in {a, b} : (\A y \in {a, b} : x <= y) => x = low
  BY <1>1
<1>3. /\ high \in {a, b} /\ \A y \in {a, b} : high >= y
      /\ \A x \in {a, b} : (\A y \in {a, b} : x >= y) => x = high
  BY <1>1
<1>4. Min({a, b}) = low
  BY <1>2 DEF Min
<1>5. Max({a, b}) = high
  BY <1>3 DEF Max
<1>6. QED
  BY <1>1, <1>4, <1>5

\* The entries that match are finitely many numbers, ranked by their scores.
LEMMA MatchesRank ==
  ASSUME PickerTypeOK
  PROVE  /\ Entries \subseteq Nat /\ IsFiniteSet(Entries) /\ Cardinality(Entries) = EntryCount
         /\ Matches \subseteq Entries /\ categoryFiltered \subseteq Entries
         /\ IsFiniteSet(Matches)
         /\ \A e \in Entries : score(e) \in Nat
         /\ Orders(Ranks, Entries)
         /\ Orders(Ranks, Matches)
<1>1. Entries \subseteq Nat /\ IsFiniteSet(Entries) /\ Cardinality(Entries) = EntryCount
  <2>1. EntryCount \in Nat \ {0}
    BY PickerAssumption
  <2>2. IsFiniteSet(1 .. EntryCount) /\ Cardinality(1 .. EntryCount) = IF 1 > EntryCount THEN 0 ELSE EntryCount - 1 + 1
    BY <2>1, FS_Interval
  <2>3. QED
    BY <2>1, <2>2 DEF Entries
<1>2. Matches \subseteq Entries /\ categoryFiltered \subseteq Entries
  BY DEF Matches, categoryFiltered, PickerTypeOK
<1>3. \A e \in Entries : score(e) \in Nat
  BY PickerAssumption DEF score, PickerTypeOK
<1>4. Orders(Ranks, Entries)
  BY <1>1, <1>3 DEF Orders, Ranks
<1>5. QED
  BY <1>1, <1>2, <1>3, <1>4, FS_Subset DEF Orders

\* The results are the first of the matches in their ranking, and nothing matches better
\* than the first of them; at most they are shown.
ResultsHold ==
  /\ results \in Seq(Entries) /\ Len(results) \in 0 .. EntryCount
  /\ DOMAIN results = 1 .. Len(results)
  /\ \A i, j \in DOMAIN results : results[i] = results[j] => i = j
  /\ results # <<>> => \A e \in categoryFiltered : score(e) <= score(results[1])
  /\ \A i, j \in DOMAIN results : i < j => <<results[i], results[j]>> \in Ranks

LEMMA ResultsRanked == PickerTypeOK => ResultsHold
<1> SUFFICES ASSUME PickerTypeOK
             PROVE  ResultsHold
  OBVIOUS
<1> DEFINE ranked == Arranged(Matches, Ranks)
           n == Cardinality(Matches)
           m == Min({MaxResults, n})
<1>1. /\ n \in Nat /\ ranked \in [1 .. n -> Matches]
      /\ ranked \in Seq(Matches) /\ Len(ranked) = n
      /\ \A i, j \in 1 .. n : i < j => <<ranked[i], ranked[j]>> \in Ranks
      /\ \A i, j \in 1 .. n : ranked[i] = ranked[j] => i = j
      /\ \A x \in Matches : \E i \in 1 .. n : ranked[i] = x
  BY MatchesRank, ArrangedIs
<1>2. Matches \subseteq Entries /\ n <= EntryCount
  BY MatchesRank, FS_Subset
<1>3. m \in Nat /\ m <= n /\ (n # 0 => m # 0)
  <2>1. MaxResults \in Nat \ {0}
    BY PickerAssumption
  <2>2. m = IF MaxResults <= n THEN MaxResults ELSE n
    BY <1>1, <2>1, MinMaxOfTwo
  <2>3. QED
    BY <1>1, <2>1, <2>2
<1>4. results = SubSeq(ranked, 1, m)
  BY DEF results
<1> HIDE DEF ranked, n, m
<1>5. /\ results \in Seq(Entries) /\ Len(results) = m /\ DOMAIN results = 1 .. m
      /\ \A i \in 1 .. m : results[i] = ranked[i] /\ i \in 1 .. n
  BY <1>1, <1>2, <1>3, <1>4
<1>6. results # <<>> => \A e \in categoryFiltered : score(e) <= score(results[1])
  <2>1. SUFFICES ASSUME results # <<>>, NEW e \in categoryFiltered
                 PROVE  score(e) <= score(results[1])
    OBVIOUS
  <2>2. 1 \in 1 .. m /\ 1 \in 1 .. n
    BY <1>1, <1>3, <1>5, <2>1
  <2>3. PICK best : best = results[1] /\ best = ranked[1]
    BY <1>5, <2>2
  <2>4. best \in Entries /\ score(best) \in Nat /\ e \in Entries /\ score(e) \in Nat
    BY <1>1, <1>2, <2>2, <2>3, MatchesRank
  <2>5. CASE e \in Matches
    <3>1. PICK i \in 1 .. n : ranked[i] = e
      BY <1>1, <2>5
    <3>2. i = 1 \/ 1 < i
      BY <1>1, <3>1
    <3>3. e = best \/ <<best, e>> \in Ranks
      BY <1>1, <2>2, <2>3, <3>1, <3>2
    <3>4. QED
      BY <2>3, <2>4, <3>3 DEF Ranks
  <2>6. CASE e \notin Matches
    <3>1. ~(score(e) > 0)
      BY <2>1, <2>6 DEF Matches
    <3>2. QED
      BY <2>3, <2>4, <3>1
  <2>7. QED
    BY <2>5, <2>6
<1>7. Len(results) \in 0 .. EntryCount
  BY <1>1, <1>2, <1>3, <1>5, PickerAssumption
<1>8. \A i, j \in DOMAIN results : results[i] = results[j] => i = j
  BY <1>1, <1>5
<1>9. \A i, j \in DOMAIN results : i < j => <<results[i], results[j]>> \in Ranks
  BY <1>1, <1>5
<1>10. QED
  BY <1>5, <1>6, <1>7, <1>8, <1>9 DEF ResultsHold

\* What is shown are the results, each at a place of its own; at its own place if they rank
\* by group.
LEMMA ShownAreResults ==
  ASSUME PickerTypeOK
  PROVE  /\ DOMAIN flatResults = DOMAIN results
         /\ \A i \in DOMAIN flatResults : flatResults[i] \in Entries
         /\ RanksByGroup => flatResults = results
<1> DEFINE S == Range(results)
           grouped == {p \in Entries \X Entries :
                         \/ Group(p[1]) < Group(p[2])
                         \/ Group(p[1]) = Group(p[2]) /\ p \in Ranks}
<1>1. ResultsHold
  BY ResultsRanked
<1>2. S \subseteq Entries
  BY <1>1 DEF ResultsHold, Range
<1>3. /\ IsFiniteSet(S) /\ Cardinality(S) = Len(results) /\ Len(results) \in Nat
      /\ results \in [1 .. Len(results) -> S]
      /\ \A x \in S : \E i \in 1 .. Len(results) : results[i] = x
  <2>1. Len(results) \in Nat /\ DOMAIN results = 1 .. Len(results)
    BY <1>1 DEF ResultsHold
  <2>2. results \in [1 .. Len(results) -> S]
    BY <1>1, <2>1 DEF ResultsHold, Range
  <2>3. results \in Bijection(1 .. Len(results), S)
    <3>1. \A x \in S : \E i \in 1 .. Len(results) : results[i] = x
      BY <2>1 DEF Range
    <3>2. QED
      BY <1>1, <2>1, <2>2, <3>1 DEF ResultsHold, Bijection, Injection, IsInjective, Surjection
  <2>4. /\ IsFiniteSet(1 .. Len(results))
        /\ Cardinality(1 .. Len(results)) = IF 1 > Len(results) THEN 0 ELSE Len(results) - 1 + 1
    BY <2>1, FS_Interval
  <2>5. Cardinality(1 .. Len(results)) = Len(results)
    BY <2>1, <2>4
  <2>6. IsFiniteSet(S) /\ Cardinality(S) = Cardinality(1 .. Len(results))
    <3> HIDE DEF S
    <3>1. Bijection(1 .. Len(results), S) # {}
      BY <2>3
    <3>2. ExistsBijection(1 .. Len(results), S)
      BY <3>1 DEF ExistsBijection
    <3>3. QED
      BY <2>4, <3>2, FS_Bijection
  <2>7. \A x \in S : \E i \in 1 .. Len(results) : results[i] = x
    BY <2>1 DEF Range
  <2>8. QED
    BY <2>1, <2>2, <2>5, <2>6, <2>7
<1>4. \A e \in Entries : Group(e) \in Nat
  <2>1. DOMAIN GroupOrder \subseteq Nat
    BY PickerAssumption
  <2>2. \A e \in Entries : Group(e) \in DOMAIN GroupOrder
    BY PickerAssumption DEF Group
  <2>3. QED
    BY <2>1, <2>2
<1>5. Orders(grouped, S)
  <2>1. /\ \A a \in S : <<a, a>> \notin Ranks
        /\ \A a, b \in S : a # b => <<a, b>> \in Ranks \/ <<b, a>> \in Ranks
        /\ \A a, b, c \in S : <<a, b>> \in Ranks /\ <<b, c>> \in Ranks => <<a, c>> \in Ranks
    BY <1>2, MatchesRank DEF Orders
  <2>2. \A a, b \in S : <<a, b>> \in grouped <=> \/ Group(a) < Group(b)
                                                 \/ Group(a) = Group(b) /\ <<a, b>> \in Ranks
    BY <1>2
  <2>3. \A a \in S : Group(a) \in Nat
    BY <1>2, <1>4
  <2> HIDE DEF grouped, S
  <2>4. ASSUME NEW a \in S
        PROVE  <<a, a>> \notin grouped
    <3>1. ~(Group(a) < Group(a))
      BY <2>3
    <3>2. QED
      BY <2>1, <2>2, <3>1
  <2>5. ASSUME NEW a \in S, NEW b \in S, a # b
        PROVE  <<a, b>> \in grouped \/ <<b, a>> \in grouped
    <3>1. Group(a) < Group(b) \/ Group(a) = Group(b) \/ Group(b) < Group(a)
      BY <2>3
    <3>2. QED
      BY <2>1, <2>2, <2>5, <3>1
  <2>6. ASSUME NEW a \in S, NEW b \in S, NEW c \in S,
               <<a, b>> \in grouped, <<b, c>> \in grouped
        PROVE  <<a, c>> \in grouped
    BY <2>1, <2>2, <2>3, <2>6
  <2>7. QED
    BY <2>4, <2>5, <2>6 DEF Orders
<1>6. flatResults = Arranged(S, grouped)
  BY DEF flatResults
<1>7. RanksByGroup => \A i, j \in 1 .. Len(results) : i < j => <<results[i], results[j]>> \in grouped
  <2>1. SUFFICES ASSUME RanksByGroup, NEW i \in 1 .. Len(results), NEW j \in 1 .. Len(results), i < j
                 PROVE  <<results[i], results[j]>> \in grouped
    OBVIOUS
  <2>2. DOMAIN results = 1 .. Len(results) /\ <<results[i], results[j]>> \in Ranks
    BY <1>1, <2>1 DEF ResultsHold
  <2>3. results[i] \in Entries /\ results[j] \in Entries
    BY <1>2, <1>3
  <2>4. Group(results[i]) <= Group(results[j])
    BY <2>1, <2>2 DEF RanksByGroup
  <2>5. Group(results[i]) \in Nat /\ Group(results[j]) \in Nat
    BY <1>4, <2>3
  <2>6. Group(results[i]) < Group(results[j]) \/ Group(results[i]) = Group(results[j])
    BY <2>4, <2>5
  <2>7. QED
    BY <2>2, <2>3, <2>6
<1> HIDE DEF S, grouped
<1>8. /\ flatResults \in [1 .. Cardinality(S) -> S]
      /\ \A i, j \in 1 .. Cardinality(S) : i < j => <<flatResults[i], flatResults[j]>> \in grouped
      /\ \A x \in S : \E i \in 1 .. Cardinality(S) : flatResults[i] = x
  BY <1>3, <1>5, <1>6, ArrangedIs
<1>9. RanksByGroup => flatResults = results
  <2>1. SUFFICES ASSUME RanksByGroup
                 PROVE  flatResults = results
    OBVIOUS
  <2>2. /\ Len(results) \in Nat /\ ListsAll(results, Len(results), S, grouped)
        /\ ListsAll(flatResults, Len(results), S, grouped)
    BY <1>3, <1>7, <1>8, <2>1 DEF ListsAll
  <2>3. QED
    BY <1>5, <2>2, ArrangedOnce
<1>10. DOMAIN flatResults = DOMAIN results
  BY <1>1, <1>3, <1>8 DEF ResultsHold
<1>11. \A i \in DOMAIN flatResults : flatResults[i] \in Entries
  BY <1>2, <1>3, <1>8
<1>12. QED
  BY <1>9, <1>10, <1>11

\* The selection is at an entry if there is one, at the first unless one was chosen, and the
\* one that was chosen is marked.
PickerInv ==
  /\ PickerTypeOK
  /\ results # <<>> => selectedIndex + 1 \in DOMAIN results
  /\ results # <<>> /\ chosenEntry = Unchosen => selectedIndex = 0
  /\ chosenEntry \in Entries => /\ selectedIndex + 1 \in DOMAIN flatResults
                                /\ flatResults[selectedIndex + 1] = chosenEntry

\* The first entry is there if any is.
LEMMA FirstSelected ==
  PickerTypeOK /\ selectedIndex = 0 => (results # <<>> => selectedIndex + 1 \in DOMAIN results)
BY ResultsRanked DEF ResultsHold

\* Neither of the two that are no entry is one.
LEMMA NoEntries == Unchosen \notin Entries /\ Displaced \notin Entries /\ Unchosen # Displaced
  BY PickerAssumption DEF Unchosen, Displaced, Entries

LEMMA PickerInvInit == PickerInit => PickerInv
<1> SUFFICES ASSUME PickerInit
             PROVE  PickerInv
  OBVIOUS
<1>1. PickerTypeOK
  <2>1. EntryCount \in Nat \ {0}
    BY PickerAssumption
  <2>2. 0 \in -1 .. EntryCount - 1
    BY <2>1
  <2>3. QED
    BY <2>2 DEF PickerInit, PickerTypeOK
<1>2. QED
  BY <1>1, FirstSelected, NoEntries DEF PickerInit, PickerInv

\* The list starts afresh, or a change leaves as many entries and the selection; what is
\* shown at the place that was chosen changes with the results only.
LEMMA PickerResets ==
  ASSUME PickerInv, PickerTypeOK',
         \/ selectedIndex' = 0 /\ chosenEntry' = Unchosen
         \/ /\ selectedIndex' = selectedIndex /\ Len(results') = Len(results)
            /\ chosenEntry' = Unchosen <=> chosenEntry = Unchosen
            /\ chosenEntry' \in Entries => chosenEntry' = chosenEntry /\ flatResults' = flatResults
  PROVE  PickerInv'
<1>1. CASE selectedIndex' = 0 /\ chosenEntry' = Unchosen
  <2>1. (results # <<>> => selectedIndex + 1 \in DOMAIN results)'
    <3>1. (PickerTypeOK /\ selectedIndex = 0 => (results # <<>> => selectedIndex + 1 \in DOMAIN results))'
      BY FirstSelected, PTL
    <3>2. QED
      BY <1>1, <3>1
  <2>2. chosenEntry' \notin Entries'
    BY <1>1, NoEntries DEF Entries, Unchosen
  <2>3. QED
    BY <1>1, <2>1, <2>2 DEF PickerInv
<1>2. CASE /\ selectedIndex' = selectedIndex /\ Len(results') = Len(results)
           /\ chosenEntry' = Unchosen <=> chosenEntry = Unchosen
           /\ chosenEntry' \in Entries => chosenEntry' = chosenEntry /\ flatResults' = flatResults
  <2>1. ResultsHold /\ ResultsHold'
    <3>1. ResultsHold
      BY ResultsRanked DEF PickerInv
    <3>2. (PickerTypeOK => ResultsHold)'
      BY ResultsRanked, PTL
    <3>3. QED
      BY <3>1, <3>2
  <2>2. DOMAIN results' = DOMAIN results /\ (results' # <<>> => results # <<>>)
    BY <1>2, <2>1 DEF ResultsHold
  <2>3. QED
    BY <1>2, <2>2 DEF PickerInv
<1>3. QED
  BY <1>1, <1>2

\* The selection moves to an entry, if there is one.
LEMMA PickerMoves ==
  ASSUME PickerInv, NEW i, MoveTo(i), i \in -1 .. EntryCount - 1,
         results # <<>> => i + 1 \in DOMAIN results
  PROVE  PickerInv'
<1>1. results' = results /\ flatResults' = flatResults
  BY DEF MoveTo, results, flatResults, Matches, categoryFiltered, Ranks, score
<1>2. /\ DOMAIN flatResults = DOMAIN results
      /\ \A k \in DOMAIN flatResults : flatResults[k] \in Entries
  BY ShownAreResults DEF PickerInv
<1>3. /\ selectedIndex' = i
      /\ chosenEntry' = IF i + 1 \in DOMAIN flatResults THEN flatResults[i + 1] ELSE Unchosen
  BY DEF MoveTo
<1>4. PickerTypeOK'
  BY <1>2, <1>3 DEF PickerInv, PickerTypeOK, MoveTo
<1>5. results # <<>> => chosenEntry' # Unchosen
  BY <1>2, <1>3, NoEntries
<1>6. chosenEntry' \in Entries => i + 1 \in DOMAIN flatResults /\ flatResults[i + 1] = chosenEntry'
  BY <1>2, <1>3, NoEntries
<1>7. QED
  BY <1>1, <1>3, <1>4, <1>5, <1>6 DEF PickerInv

LEMMA PickerStep == PickerInv /\ [PickerNext]_pickerVars => PickerInv'
<1> SUFFICES ASSUME PickerInv, [PickerNext]_pickerVars
             PROVE  PickerInv'
  OBVIOUS
<1>1. /\ PickerTypeOK /\ ResultsHold /\ EntryCount \in Nat \ {0}
      /\ Pickers \subseteq {"search", "palette"} /\ 0 \in -1 .. EntryCount - 1
  BY ResultsRanked, PickerAssumption DEF PickerInv
<1>2. ASSUME UNCHANGED <<query, activeCategory, available>>
      PROVE  results' = results /\ flatResults' = flatResults
  BY <1>2 DEF results, flatResults, Matches, categoryFiltered, Ranks, score
<1>3. CASE OpenPicker
  <2>1. CASE picker = "search"
    <3>1. PickerTypeOK'
      BY <1>1, <1>3, <2>1 DEF PickerTypeOK, OpenPicker, ResetPicker
    <3>2. selectedIndex' = 0 /\ chosenEntry' = Unchosen
      BY <1>3, <2>1 DEF OpenPicker, ResetPicker
    <3>3. QED
      BY <3>1, <3>2, PickerResets
  <2>2. CASE picker # "search"
    <3>1. PickerTypeOK'
      BY <1>3, <1>1, <2>2 DEF PickerTypeOK, OpenPicker
    <3>2. results' = results /\ flatResults' = flatResults /\ UNCHANGED <<selectedIndex, chosenEntry>>
      BY <1>2, <1>3, <2>2 DEF OpenPicker
    <3>3. QED
      BY <3>1, <3>2, PickerResets
  <2>3. QED
    BY <2>1, <2>2
<1>4. ASSUME Closes
      PROVE  PickerInv'
  <2>1. PickerTypeOK'
    BY <1>1, <1>4 DEF PickerTypeOK, Closes, ResetPicker
  <2>2. CASE picker = "palette"
    BY <1>4, <2>1, <2>2, PickerResets DEF Closes, ResetPicker
  <2>3. CASE picker # "palette"
    <3>1. results' = results /\ flatResults' = flatResults /\ UNCHANGED <<selectedIndex, chosenEntry>>
      BY <1>2, <1>4, <2>3 DEF Closes
    <3>2. QED
      BY <2>1, <3>1, PickerResets
  <2>4. QED
    BY <2>2, <2>3
<1>5. ASSUME SelectionFollows
      PROVE  /\ chosenEntry' \in {Unchosen, Displaced, chosenEntry}
             /\ \/ selectedIndex' = 0 /\ chosenEntry' = Unchosen
                \/ /\ selectedIndex' = selectedIndex /\ Len(results') = Len(results)
                   /\ chosenEntry' = Unchosen <=> chosenEntry = Unchosen
                   /\ chosenEntry' \in Entries => chosenEntry' = chosenEntry /\ flatResults' = flatResults
  <2>1. PICK afresh : /\ afresh = (Len(results') # Len(results) \/ query' # query)
                      /\ Resets(afresh)
    BY <1>5 DEF SelectionFollows
  <2>2. CASE afresh
    BY <2>1, <2>2 DEF Resets
  <2>3. CASE ~afresh
    <3>1. /\ selectedIndex' = selectedIndex /\ Len(results') = Len(results) /\ query' = query
          /\ chosenEntry' = IF chosenEntry # Unchosen /\ results' # results THEN Displaced ELSE chosenEntry
      BY <2>1, <2>3 DEF Resets
    <3>2. chosenEntry' \in Entries => chosenEntry' = chosenEntry /\ results' = results
      BY <3>1, NoEntries
    <3>3. results' = results => flatResults' = flatResults
      BY <3>1 DEF flatResults, Ranks, score
    <3>4. QED
      BY <3>1, <3>2, <3>3, NoEntries
  <2>4. QED
    BY <2>1, <2>2, <2>3
<1>6. CASE EntriesChange
  <2>1. PickerTypeOK'
    BY <1>1, <1>5, <1>6 DEF PickerTypeOK, EntriesChange
  <2>2. QED
    BY <1>5, <1>6, <2>1, PickerResets DEF EntriesChange
<1>7. ASSUME NEW q \in DOMAIN Scores \cup {NoQuery}, TypeQuery(q)
      PROVE  PickerInv'
  <2>1. PickerTypeOK'
    BY <1>1, <1>5, <1>7 DEF PickerTypeOK, TypeQuery
  <2>2. QED
    BY <1>5, <1>7, <2>1, PickerResets DEF TypeQuery
<1>8. ASSUME NEW c \in Range(GroupOrder) \cup {AllGroups}, PickCategory(c)
      PROVE  PickerInv'
  <2>1. PickerTypeOK'
    BY <1>1, <1>5, <1>8 DEF PickerTypeOK, PickCategory
  <2>2. QED
    BY <1>5, <1>8, <2>1, PickerResets DEF PickCategory
<1>9. CASE ArrowDown
  <2>1. PICK i : i = Min({selectedIndex + 1, Len(results) - 1}) /\ MoveTo(i)
    BY <1>9 DEF ArrowDown
  <2>2. selectedIndex \in -1 .. EntryCount - 1 /\ Len(results) \in 0 .. EntryCount
    BY <1>1 DEF PickerTypeOK, ResultsHold
  <2>3. i = IF selectedIndex + 1 <= Len(results) - 1 THEN selectedIndex + 1 ELSE Len(results) - 1
    BY <1>1, <2>1, <2>2, MinMaxOfTwo
  <2>4. i \in -1 .. EntryCount - 1
    BY <1>1, <2>2, <2>3
  <2>5. results # <<>> => i + 1 \in DOMAIN results
    <3>1. results # <<>> => Len(results) # 0 /\ selectedIndex >= 0
      BY <1>1, <2>2 DEF PickerInv, ResultsHold
    <3>2. QED
      <4>1. PICK n : n = Len(results)
        OBVIOUS
      <4>2. results # <<>> => n \in Nat \ {0} /\ selectedIndex \in Nat
        BY <2>2, <3>1, <4>1
      <4>3. results # <<>> => i + 1 \in 1 .. n
        BY <2>3, <4>1, <4>2
      <4>4. QED
        BY <1>1, <4>1, <4>3 DEF ResultsHold
  <2>6. QED
    BY <2>1, <2>4, <2>5, PickerMoves
<1>10. CASE ArrowUp
  <2>1. PICK i : i = Max({selectedIndex - 1, 0}) /\ MoveTo(i)
    BY <1>10 DEF ArrowUp
  <2>2. selectedIndex \in -1 .. EntryCount - 1
    BY <1>1 DEF PickerTypeOK
  <2>3. i = IF selectedIndex - 1 <= 0 THEN 0 ELSE selectedIndex - 1
    <3>1. PICK before : before = selectedIndex - 1
      OBVIOUS
    <3>2. before \in Int /\ 0 \in Int
      BY <1>1, <2>2, <3>1
    <3>3. Max({before, 0}) = IF before <= 0 THEN 0 ELSE before
      BY <3>2, MinMaxOfTwo
    <3>4. QED
      BY <2>1, <3>1, <3>3
  <2>4. i \in -1 .. EntryCount - 1
    BY <1>1, <2>2, <2>3
  <2>5. results # <<>> => i + 1 \in DOMAIN results
    BY <1>1, <2>2, <2>3 DEF PickerInv, ResultsHold
  <2>6. QED
    BY <2>1, <2>4, <2>5, PickerMoves
<1>11. CASE PointAt
  <2>1. PICK k \in DOMAIN flatResults : MoveTo(k - 1)
    BY <1>11 DEF PointAt
  <2>2. k \in DOMAIN results
    BY <1>1, ShownAreResults
  <2>3. k - 1 \in -1 .. EntryCount - 1 /\ (k - 1) + 1 \in DOMAIN results
    BY <1>1, <2>2 DEF ResultsHold
  <2>4. QED
    BY <2>1, <2>3, PickerMoves
<1>12. CASE UNCHANGED pickerVars
  <2>1. results' = results /\ flatResults' = flatResults /\ UNCHANGED <<selectedIndex, chosenEntry>>
    BY <1>2, <1>12 DEF pickerVars
  <2>2. PickerTypeOK'
    BY <1>1, <1>12 DEF pickerVars, PickerTypeOK
  <2>3. QED
    BY <2>1, <2>2, PickerResets
<1>13. CASE ClosePicker \/ RunSelected \/ ClickEntry
  BY <1>4, <1>13 DEF ClosePicker, RunSelected, ClickEntry
<1>14. QED
  BY <1>3, <1>6, <1>7, <1>8, <1>9, <1>10, <1>11, <1>12, <1>13 DEF PickerNext

\* However the search overlay's and the palette's lists shrink and grow under the selection,
\* Enter runs a best match if nobody chose an entry, and the entry that was chosen unless
\* others took its place or the results do not rank by group: for any entries, groups, scores
\* and limit of the list.
THEOREM EnterObeys == PickerSpec => []EnterRunsTheChosen
<1>1. PickerInv => EnterRunsTheChosen
  <2> SUFFICES ASSUME PickerInv, results # <<>>
               PROVE  /\ selectedIndex + 1 \in DOMAIN results
                      /\ chosenEntry = Unchosen => \A e \in categoryFiltered : score(e) <= score(entered)
                      /\ chosenEntry \in Entries /\ RanksByGroup => entered = chosenEntry
    BY DEF EnterRunsTheChosen
  <2>1. ResultsHold
    BY ResultsRanked DEF PickerInv
  <2>2. chosenEntry = Unchosen => entered = results[1]
    BY DEF PickerInv, entered
  <2>3. RanksByGroup => flatResults = results
    BY ShownAreResults DEF PickerInv
  <2>4. chosenEntry \in Entries /\ RanksByGroup => entered = chosenEntry
    BY <2>3 DEF PickerInv, entered
  <2>5. QED
    BY <2>1, <2>2, <2>4 DEF PickerInv, ResultsHold
<1>2. QED
  BY <1>1, PickerInvInit, PickerStep, PTL DEF PickerSpec

\* The selection stays among the entries there may be, or before them.
THEOREM PickerTypesHold == PickerSpec => []PickerTypeOK
<1>1. PickerInv => PickerTypeOK
  BY DEF PickerInv
<1>2. QED
  BY <1>1, PickerInvInit, PickerStep, PTL DEF PickerSpec
=============================================================================
