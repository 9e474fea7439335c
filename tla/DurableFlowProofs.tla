-------------------------- MODULE DurableFlowProofs --------------------------
(***************************************************************************)
(* What holds of the checkpoint file of a run and of the calls that resume *)
(* from it, for all flows, handlers and bounds: the safety properties of   *)
(* DurableFlow from one inductive invariant, and that what a later call    *)
(* may replay is at every moment the progress of one run.                  *)
(***************************************************************************)
EXTENDS DurableFlow, FlowGraphProofs, SequenceTheorems

-----------------------------------------------------------------------------
(* The inductive invariant, in named parts.                                *)

LineSet == [node : Ids(flow), outcome : Outcome] \cup {Corrupt}

Nodes(lines) == {lines[i].node : i \in DOMAIN lines}

StoreTypes ==
  /\ flow \in Flows
  /\ sorted = topoOrder(flow)
  /\ file \in Seq(LineSet) /\ rest \in Seq(LineSet) /\ Len(rest) <= 1
  /\ pc \in {"down", "visit", "handler", "append", "returned"}
  /\ pos \in 0 .. Len(sorted)
  /\ DOMAIN outcomes \subseteq Ids(flow)
  /\ outcomes \in [DOMAIN outcomes -> Outcome]
  /\ enabled \subseteq Ids(flow) /\ started \subseteq Ids(flow) /\ acked \subseteq Ids(flow)
  /\ status \in {"completed", "failed", "paused", None}
  /\ interrupts \in Nat /\ repeats \in Nat

Calling == pc \in {"visit", "handler", "append"}

\* Where a call is: its flow passed the audit; before its handler an enabled node is
\* undecided; but for the node being appended, no outcome stops the call.
CallAt ==
  /\ Calling => auditGraph(flow) = {}
  /\ pc \in {"handler", "append"} => pos \in DOMAIN sorted /\ sorted[pos] \in started
  /\ pc = "handler" => sorted[pos] \in enabled \ DOMAIN outcomes
  /\ pc = "append" => sorted[pos] \in DOMAIN outcomes
  /\ Calling => \A n \in DOMAIN outcomes :
       outcomes[n] \in Resumable \/ (pc = "append" /\ n = sorted[pos])

\* What outcomes open is enabled or decided, and what is enabled is not behind the loop.
Enabling ==
  Calling =>
    /\ enabled \subseteq {flow.entry} \cup Opened(flow, outcomes)
    /\ \A e \in flow.edges :
         e.from \in DOMAIN outcomes /\ edgeMatches(e.on, outcomes[e.from]) =>
           e.to \in enabled \cup DOMAIN outcomes \/ (pc = "append" /\ e.from = sorted[pos])
    /\ \A n \in enabled :
         \/ n \in DOMAIN outcomes
         \/ \E k \in DOMAIN sorted : sorted[k] = n /\ k > pos
         \/ pc = "handler" /\ n = sorted[pos]

\* A file whose records can all be replayed has each node once, the entry first among
\* them, and all that was acknowledged; the call under way knows its records and no others.
FileTells ==
  Replayable =>
    /\ \A i, k \in DOMAIN Lines : Lines[i].node = Lines[k].node => i = k
    /\ Lines # <<>> => flow.entry \in Nodes(Lines)
    /\ acked \subseteq Nodes(Lines)
    /\ Nodes(Lines) \subseteq started
    /\ Calling => \A i \in DOMAIN Lines : /\ Lines[i].node \in DOMAIN outcomes
                                          /\ outcomes[Lines[i].node] = Lines[i].outcome
    /\ pc \in {"visit", "handler"} => DOMAIN outcomes = Nodes(Lines)
    /\ pc = "append" => /\ DOMAIN outcomes = Nodes(Lines) \cup {sorted[pos]}
                        /\ sorted[pos] \notin Nodes(Lines)
                        /\ flow.entry \in DOMAIN outcomes

\* The nodes that were begun and are not on file are those whose call was interrupted,
\* and the one under way.
RepeatsPaid ==
  Replayable => repeats + Cardinality(started \ Nodes(Lines))
                  <= interrupts + (IF pc \in {"handler", "append"} THEN 1 ELSE 0)

StoreInv ==
  /\ StoreTypes
  /\ CallAt
  /\ Enabling
  /\ FileTells
  /\ RepeatsPaid
  /\ NothingLeftBehind

-----------------------------------------------------------------------------
(* What the file holds and what is replayed of it.                         *)

\* A file ends in a newline, or has one line more.
LEMMA RestOfFile ==
  ASSUME StoreTypes
  PROVE  /\ Lines \in Seq(LineSet)
         /\ rest = <<>> => Lines = file
         /\ rest # <<>> => rest[1] \in LineSet /\ Lines = Append(file, rest[1])
<1>1. file \in Seq(LineSet) /\ rest \in Seq(LineSet) /\ Len(rest) <= 1
  BY DEF StoreTypes
<1>2. rest = <<>> => Lines = file
  BY <1>1, ConcatEmptySeq DEF Lines
<1>3. ASSUME rest # <<>>
      PROVE  rest[1] \in LineSet /\ rest = <<rest[1]>>
  <2>1. Len(rest) \in Nat \ {0} /\ Len(rest) <= 1
    BY <1>1, <1>3, EmptySeq
  <2>2. Len(rest) = 1
    <3>1. PICK n \in Nat \ {0} : n = Len(rest) /\ n <= 1
      BY <2>1
    <3>2. n = 1
      BY <3>1
    <3>3. QED
      BY <3>1, <3>2
  <2>3. QED
    BY <1>1, <2>2
<1>4. rest # <<>> => Lines = Append(file, rest[1])
  BY <1>1, <1>3, AppendIsConcat DEF Lines
<1>5. Lines \in Seq(LineSet)
  BY <1>1, ConcatProperties DEF Lines
<1>6. QED
  BY <1>2, <1>3, <1>4, <1>5

LEMMA LineTypes ==
  ASSUME StoreTypes
  PROVE  /\ DOMAIN Lines = 1 .. Len(Lines) /\ Len(Lines) \in Nat
         /\ \A i \in DOMAIN Lines : /\ Lines[i] \in LineSet
                                    /\ Lines[i] # Corrupt => Lines[i].node \in Ids(flow) /\ Lines[i].outcome \in Outcome
                                    /\ Lines[i] = Corrupt => Lines[i].outcome \notin Resumable
<1>1. Lines \in Seq(LineSet)
  BY RestOfFile
<1>2. DOMAIN Lines = 1 .. Len(Lines) /\ Len(Lines) \in Nat /\ \A i \in DOMAIN Lines : Lines[i] \in LineSet
  BY <1>1
<1>3. Corrupt.outcome = None /\ None \notin Resumable
  BY DurableAssumption DEF Corrupt, Resumable, Outcome
<1>4. QED
  BY <1>2, <1>3 DEF LineSet

\* What is replayed are resumable outcomes of nodes of the flow.
LEMMA ReplayTypes ==
  ASSUME StoreTypes
  PROVE  /\ DOMAIN Replayed(Lines, Loaded(Lines)) \subseteq Ids(flow)
         /\ Replayed(Lines, Loaded(Lines)) \in [DOMAIN Replayed(Lines, Loaded(Lines)) -> Outcome]
         /\ \A n \in DOMAIN Replayed(Lines, Loaded(Lines)) : Replayed(Lines, Loaded(Lines))[n] \in Resumable
<1> DEFINE loaded == Loaded(Lines)
           prior == {i \in loaded : \A j \in loaded : j <= i => Lines[j].outcome \in Resumable}
           last(n) == Max({i \in prior : Lines[i].node = n})
           seen == {Lines[i].node : i \in prior}
<1>1. Replayed(Lines, loaded) = [n \in seen |-> Lines[last(n)].outcome]
  BY DEF Replayed
<1>2. loaded \subseteq 1 .. Len(Lines) /\ \A i \in loaded : Lines[i].node \in Ids(flow) /\ Lines[i].outcome \in Outcome
  BY LineTypes DEF Loaded
<1> HIDE DEF loaded
<1>3. ASSUME NEW n \in seen
      PROVE  last(n) \in prior
  <2> DEFINE T == {i \in prior : Lines[i].node = n}
  <2>1. T # {}
    OBVIOUS
  <2>2. Len(Lines) \in Nat
    BY LineTypes
  <2>4. T \subseteq 1 .. Len(Lines)
    BY <1>2
  <2>3. T \subseteq prior
    OBVIOUS
  <2> HIDE DEF T
  <2>5. T \subseteq Nat /\ \A i \in T : i <= Len(Lines)
    <3>1. PICK k \in Nat : k = Len(Lines)
      BY <2>2
    <3>2. ASSUME NEW i \in T
          PROVE  i \in Nat /\ i <= k
      <4>1. i \in 1 .. k
        BY <2>4, <3>1
      <4> HIDE DEF prior, last, seen
      <4>2. QED
        BY <4>1
    <3>3. QED
      BY <3>1, <3>2
  <2>6. Max(T) \in T
    BY <2>1, <2>2, <2>5, MaxIsGreatest
  <2>7. QED
    BY <2>3, <2>6 DEF T
<1> HIDE DEF last
<1>4. \A i \in prior : Lines[i].outcome \in Resumable /\ Lines[i].outcome \in Outcome /\ Lines[i].node \in Ids(flow)
  BY <1>2
<1>5. QED
  BY <1>1, <1>3, <1>4 DEF loaded

\* Of a file whose records can all be replayed and are of different nodes, all are.
LEMMA ReplayAll ==
  ASSUME StoreTypes, Replayable,
         \A i, k \in DOMAIN Lines : Lines[i].node = Lines[k].node => i = k
  PROVE  /\ Loaded(Lines) = DOMAIN Lines
         /\ DOMAIN Replayed(Lines, DOMAIN Lines) = Nodes(Lines)
         /\ \A i \in DOMAIN Lines : Replayed(Lines, DOMAIN Lines)[Lines[i].node] = Lines[i].outcome
         /\ Replayed(Lines, DOMAIN Lines) = [n \in Nodes(Lines) |-> Replayed(Lines, DOMAIN Lines)[n]]
<1>1. /\ DOMAIN Lines = 1 .. Len(Lines) /\ Len(Lines) \in Nat
      /\ \A i \in DOMAIN Lines : Lines[i] # Corrupt
  BY LineTypes DEF Replayable
<1>2. Loaded(Lines) = DOMAIN Lines
  BY <1>1 DEF Loaded
<1> DEFINE all == DOMAIN Lines
           prior == {i \in all : \A j \in all : j <= i => Lines[j].outcome \in Resumable}
           last(n) == Max({i \in prior : Lines[i].node = n})
<1>3. prior = all
  BY DEF Replayable
<1>4. Replayed(Lines, all) = [n \in {Lines[i].node : i \in prior} |-> Lines[last(n)].outcome]
  BY DEF Replayed
<1>5. ASSUME NEW i \in all
      PROVE  last(Lines[i].node) = i
  <2>1. {k \in prior : Lines[k].node = Lines[i].node} = {i}
    BY <1>3
  <2>2. i \in Nat
    BY <1>1
  <2>3. Max({i}) = i
    BY <2>2, MaxIsGreatest
  <2>4. QED
    BY <2>1, <2>3
<1> HIDE DEF prior, last
<1>6. QED
  BY <1>2, <1>3, <1>4, <1>5 DEF Nodes

\* The order of a flow that a call runs.
LEMMA RunOrder ==
  ASSUME StoreTypes, auditGraph(flow) = {}
  PROVE  /\ sorted \in Seq(Ids(flow)) /\ DOMAIN sorted = 1 .. Len(sorted) /\ Len(sorted) \in Nat
         /\ Distinct(sorted)
         /\ \A n \in Ids(flow) : \E k \in DOMAIN sorted : sorted[k] = n
         /\ \A k \in DOMAIN sorted : sorted[k] \in Ids(flow)
         /\ flow.entry \in Ids(flow)
         /\ \A e \in flow.edges : e.from \in Ids(flow) /\ e.to \in Ids(flow)
         /\ \A e \in flow.edges : \A i, k \in DOMAIN sorted :
              sorted[i] = e.from /\ sorted[k] = e.to => i < k
<1>1. Listed(flow)
  BY DurableAssumption DEF Listed, StoreTypes
<1>2. /\ Shaped(flow) /\ flow.entry \in Ids(flow) /\ PartialOrder(flow, sorted)
      /\ ToSet(sorted) = Ids(flow)
  BY <1>1, AuditedFlowsAreSorted DEF StoreTypes
<1>3. sorted \in Seq(Ids(flow)) /\ Distinct(sorted) /\ SourcesFirst(flow, sorted)
  BY <1>2 DEF PartialOrder
<1>4. ASSUME NEW e \in flow.edges, NEW i \in DOMAIN sorted, NEW k \in DOMAIN sorted,
             sorted[i] = e.from, sorted[k] = e.to
      PROVE  i < k
  <2>1. PICK j \in DOMAIN sorted : j < k /\ sorted[j] = e.from
    BY <1>3, <1>4 DEF SourcesFirst
  <2>2. i = j
    BY <1>3, <1>4, <2>1 DEF Distinct
  <2>3. QED
    BY <2>1, <2>2
<1>5. \A n \in Ids(flow) : \E k \in DOMAIN sorted : sorted[k] = n
  BY <1>2 DEF ToSet
<1>6. DOMAIN sorted = 1 .. Len(sorted) /\ Len(sorted) \in Nat /\ \A k \in DOMAIN sorted : sorted[k] \in Ids(flow)
  BY <1>3
<1>7. QED
  BY <1>2, <1>3, <1>4, <1>5, <1>6 DEF Shaped

\* The nodes of a flow can be counted.
LEMMA StartedIsFinite ==
  ASSUME StoreTypes, NEW T, T \subseteq started
  PROVE  IsFiniteSet(T) /\ Cardinality(T) \in Nat
<1>1. Listed(flow)
  BY DurableAssumption DEF Listed, StoreTypes
<1>2. IsFiniteSet(Ids(flow)) /\ T \subseteq Ids(flow)
  BY <1>1, ListedIds DEF StoreTypes
<1>3. IsFiniteSet(T)
  BY <1>2, FS_Subset
<1>4. QED
  BY <1>3, FS_CardinalityType

-----------------------------------------------------------------------------
(* Every step keeps the invariant.                                         *)

LEMMA InitHolds == Init => StoreInv
<1> SUFFICES ASSUME Init
             PROVE  StoreInv
  OBVIOUS
<1>1. StoreTypes
  <2>1. 0 \in 0 .. Len(sorted)
    <3>1. Listed(flow)
      BY DurableAssumption DEF Listed, Init
    <3>2. Len(topoOrder(flow)) \in Nat
      BY <3>1, SortIsPartial DEF PartialOrder
    <3>3. QED
      BY <3>2 DEF Init
  <2>2. outcomes \in [DOMAIN outcomes -> Outcome] /\ DOMAIN outcomes \subseteq Ids(flow)
    BY DEF Init
  <2>3. file \in Seq(LineSet) /\ rest \in Seq(LineSet) /\ Len(rest) = 0
    BY DEF Init
  <2>4. QED
    BY <2>1, <2>2, <2>3 DEF Init, StoreTypes
<1>2. CallAt /\ Enabling
  BY DEF Init, CallAt, Enabling, Calling
<1> Lines = <<>>
  BY <1>1, RestOfFile DEF Init
<1>3. FileTells
  BY DEF Init, FileTells, Calling, Nodes
<1>4. RepeatsPaid
  <2>1. started \ Nodes(Lines) = {} /\ repeats = 0 /\ interrupts = 0
    BY DEF Init
  <2>2. QED
    BY <2>1, FS_EmptySet DEF RepeatsPaid
<1>5. NothingLeftBehind
  BY DEF Init, NothingLeftBehind
<1>6. QED
  BY <1>1, <1>2, <1>3, <1>4, <1>5 DEF StoreInv

LEMMA ResumeKeeps ==
  ASSUME StoreInv, Resume
  PROVE  StoreInv'
<1>1. /\ pc \in {"down", "returned"} /\ pos' = 0
      /\ UNCHANGED <<flow, sorted, file, rest, interrupts, started, repeats, acked>> /\ Lines' = Lines
  BY DEF Resume, Lines
<1>2. StoreTypes
  BY DEF StoreInv
<1>3. 0 \in 0 .. Len(sorted)
  BY <1>2 DEF StoreTypes
<1>4. RepeatsPaid' /\ (FileTells' \/ pc' = "visit")
  <2>1. Nodes(Lines)' = Nodes(Lines) /\ Replayable' = Replayable
    BY <1>1 DEF Nodes, Replayable
  <2>2. pc' \in {"visit", "returned"}
    BY DEF Resume
  <2>3. RepeatsPaid'
    BY <1>1, <2>1, <2>2 DEF StoreInv, RepeatsPaid
  <2>4. pc' = "returned" => FileTells'
    BY <1>1, <2>1 DEF StoreInv, FileTells, Calling
  <2>5. QED
    BY <2>2, <2>3, <2>4
<1>5. CASE auditGraph(flow) # {}
  <2>1. pc' = "returned" /\ status' = "failed" /\ outcomes' = <<>> /\ enabled' = {}
    BY <1>5 DEF Resume
  <2>2. outcomes' \in [DOMAIN outcomes' -> Outcome] /\ DOMAIN outcomes' = {}
    BY <2>1
  <2>3. StoreTypes'
    BY <1>1, <1>2, <1>3, <2>1, <2>2 DEF StoreTypes, LineSet
  <2>4. CallAt' /\ Enabling' /\ NothingLeftBehind'
    BY <2>1 DEF CallAt, Enabling, Calling, NothingLeftBehind
  <2>5. QED
    BY <1>4, <2>1, <2>3, <2>4 DEF StoreInv
<1>6. CASE auditGraph(flow) = {}
  <2>1. /\ pc' = "visit" /\ status' = None
        /\ outcomes' = Replayed(Lines, Loaded(Lines))
        /\ enabled' = SeedsEnable(flow, outcomes')
    BY <1>6 DEF Resume
  <2>2. /\ DOMAIN outcomes' \subseteq Ids(flow) /\ outcomes' \in [DOMAIN outcomes' -> Outcome]
        /\ \A n \in DOMAIN outcomes' : outcomes'[n] \in Resumable
    BY <1>2, <2>1, ReplayTypes
  <2>3. enabled' \subseteq Ids(flow)
    BY <1>2, <1>6, <2>1, RunOrder DEF SeedsEnable, Opened
  <2>4. StoreTypes'
    BY <1>1, <1>2, <1>3, <2>1, <2>2, <2>3 DEF StoreTypes, LineSet
  <2>5. CallAt'
    BY <1>1, <1>6, <2>1, <2>2 DEF CallAt, Calling
  <2>6. Enabling'
    <3>1. enabled' \subseteq {flow.entry} \cup Opened(flow, outcomes')
      BY <2>1 DEF SeedsEnable
    <3>2. \A e \in flow.edges :
            e.from \in DOMAIN outcomes' /\ edgeMatches(e.on, outcomes'[e.from]) =>
              e.to \in enabled' \cup DOMAIN outcomes'
      BY <2>1 DEF SeedsEnable, Opened
    <3>3. \A n \in enabled' : \E k \in DOMAIN sorted : sorted[k] = n /\ k > 0
      BY <1>2, <1>6, <2>3, RunOrder
    <3>4. QED
      BY <1>1, <3>1, <3>2, <3>3 DEF Enabling
  <2>7. FileTells'
    <3> SUFFICES ASSUME Replayable
                 PROVE  FileTells'
      BY <1>1 DEF FileTells, Replayable
    <3>1. /\ \A i, k \in DOMAIN Lines : Lines[i].node = Lines[k].node => i = k
          /\ Lines # <<>> => flow.entry \in Nodes(Lines)
          /\ acked \subseteq Nodes(Lines) /\ Nodes(Lines) \subseteq started
      BY DEF StoreInv, FileTells
    <3>2. /\ DOMAIN outcomes' = Nodes(Lines)
          /\ \A i \in DOMAIN Lines : outcomes'[Lines[i].node] = Lines[i].outcome
      BY <1>2, <2>1, <3>1, ReplayAll
    <3>3. Nodes(Lines)' = Nodes(Lines) /\ \A i \in DOMAIN Lines : Lines[i].node \in Nodes(Lines)
      BY <1>1 DEF Nodes
    <3>4. QED
      BY <1>1, <2>1, <3>1, <3>2, <3>3 DEF FileTells
  <2>8. NothingLeftBehind'
    BY <2>1 DEF NothingLeftBehind
  <2>9. QED
    BY <1>4, <2>4, <2>5, <2>6, <2>7, <2>8 DEF StoreInv
<1>7. QED
  BY <1>5, <1>6

\* The loop goes on to the first enabled and undecided node ahead, and ends when there
\* is none.
LEMMA NextDue ==
  ASSUME StoreInv, pc = "visit"
  PROVE  /\ Due = {} => enabled \subseteq DOMAIN outcomes
         /\ Due # {} =>
              /\ Min(Due) \in DOMAIN sorted /\ Min(Due) > pos
              /\ sorted[Min(Due)] \in enabled \ DOMAIN outcomes
              /\ \A n \in enabled \ DOMAIN outcomes :
                   n = sorted[Min(Due)] \/ \E k \in DOMAIN sorted : sorted[k] = n /\ k > Min(Due)
<1>1. \A n \in enabled \ DOMAIN outcomes : \E k \in DOMAIN sorted : sorted[k] = n /\ k > pos
  BY DEF StoreInv, Enabling, Calling
<1>2. DOMAIN sorted = 1 .. Len(sorted) /\ Len(sorted) \in Nat
  BY RunOrder DEF StoreInv, CallAt, Calling
<1>3. CASE Due = {}
  BY <1>1, <1>3 DEF Due
<1>4. CASE Due # {}
  <2>1. Due \subseteq Nat
    BY <1>2 DEF Due
  <2>2. Min(Due) \in Due /\ \A k \in Due : Min(Due) <= k
    BY <1>4, <2>1, MinIsLeast
  <2>3. ASSUME NEW n \in enabled \ DOMAIN outcomes
        PROVE  n = sorted[Min(Due)] \/ \E k \in DOMAIN sorted : sorted[k] = n /\ k > Min(Due)
    <3>1. PICK k \in DOMAIN sorted : sorted[k] = n /\ k > pos
      BY <1>1
    <3>2. k \in Due
      BY <3>1 DEF Due
    <3>3. Min(Due) <= k /\ Min(Due) \in Nat /\ k \in Nat
      BY <2>1, <2>2, <3>2
    <3>4. CASE k = Min(Due)
      BY <3>1, <3>4
    <3>5. CASE k # Min(Due)
      BY <3>1, <3>3, <3>5
    <3>6. QED
      BY <3>4, <3>5
  <2>4. QED
    BY <1>4, <2>2, <2>3 DEF Due
<1>5. QED
  BY <1>3, <1>4

LEMMA VisitKeeps ==
  ASSUME StoreInv, Visit
  PROVE  StoreInv'
<1>1. /\ pc = "visit" /\ Due # {} /\ pos' = Min(Due) /\ pc' = "handler"
      /\ started' = started \cup {sorted[pos']}
      /\ repeats' = repeats + IF sorted[pos'] \in started THEN 1 ELSE 0
      /\ UNCHANGED <<flow, sorted, file, rest, outcomes, enabled, status, calls, interrupts, acked>> /\ Lines' = Lines
  BY DEF Visit, Lines
<1>2. StoreTypes /\ auditGraph(flow) = {}
  BY <1>1 DEF StoreInv, CallAt, Calling
<1>3. /\ pos' \in DOMAIN sorted /\ pos' > pos
      /\ sorted[pos'] \in enabled \ DOMAIN outcomes
      /\ \A n \in enabled \ DOMAIN outcomes :
           n = sorted[pos'] \/ \E k \in DOMAIN sorted : sorted[k] = n /\ k > pos'
  BY <1>1, NextDue
<1>4. sorted[pos'] \in Ids(flow) /\ pos' \in 0 .. Len(sorted)
  BY <1>2, <1>3, RunOrder
<1>5. StoreTypes'
  <2>1. repeats' \in Nat
    BY <1>1, <1>2 DEF StoreTypes
  <2>2. started' \subseteq Ids(flow)
    BY <1>1, <1>2, <1>4 DEF StoreTypes
  <2>3. QED
    BY <1>1, <1>2, <1>4, <2>1, <2>2 DEF StoreTypes, LineSet
<1>6. CallAt'
  BY <1>1, <1>2, <1>3 DEF StoreInv, CallAt, Calling
<1>7. Enabling'
  BY <1>1, <1>3 DEF StoreInv, Enabling, Calling
<1>8. FileTells'
  BY <1>1 DEF StoreInv, FileTells, Calling, Replayable, Nodes
<1>9. RepeatsPaid'
  <2> SUFFICES ASSUME Replayable
               PROVE  repeats' + Cardinality(started' \ Nodes(Lines)) <= interrupts + 1
    BY <1>1 DEF RepeatsPaid, Replayable, Nodes
  <2> DEFINE x == sorted[pos']
             T == started \ Nodes(Lines)
  <2>1. repeats + Cardinality(T) <= interrupts
    BY <1>1, <1>2, StartedIsFinite DEF StoreInv, RepeatsPaid, StoreTypes
  <2>2. x \notin Nodes(Lines)
    BY <1>1, <1>3 DEF StoreInv, FileTells
  <2>3. IsFiniteSet(T) /\ Cardinality(T) \in Nat
    BY <1>2, StartedIsFinite
  <2>4. started' \ Nodes(Lines) = T \cup {x}
    BY <1>1, <2>2
  <2>5. repeats \in Nat /\ interrupts \in Nat
    BY <1>2 DEF StoreTypes
  <2>6. Cardinality(T \cup {x}) = IF x \in T THEN Cardinality(T) ELSE Cardinality(T) + 1
    BY <2>3, FS_AddElement
  <2>7. repeats' = repeats + IF x \in started THEN 1 ELSE 0
    BY <1>1
  <2>8. x \in T <=> x \in started
    BY <2>2
  <2> HIDE DEF x, T
  <2>9. QED
    BY <2>1, <2>3, <2>4, <2>5, <2>6, <2>7, <2>8
<1>10. NothingLeftBehind'
  BY <1>1 DEF NothingLeftBehind
<1>11. QED
  BY <1>5, <1>6, <1>7, <1>8, <1>9, <1>10 DEF StoreInv

LEMMA FinishKeeps ==
  ASSUME StoreInv, Finish
  PROVE  StoreInv'
<1>1. /\ pc = "visit" /\ Due = {} /\ pc' = "returned" /\ status' = "completed"
      /\ UNCHANGED <<flow, sorted, file, rest, pos, outcomes, enabled, calls, interrupts,
                     started, repeats, acked>> /\ Lines' = Lines
  BY DEF Finish, Lines
<1>2. StoreTypes'
  BY <1>1 DEF StoreInv, StoreTypes, LineSet
<1>3. CallAt' /\ Enabling'
  BY <1>1 DEF CallAt, Enabling, Calling
<1>4. FileTells' /\ RepeatsPaid'
  BY <1>1 DEF StoreInv, FileTells, RepeatsPaid, Calling, Replayable, Nodes
<1>5. NothingLeftBehind'
  <2>1. enabled \subseteq DOMAIN outcomes
    BY <1>1, NextDue
  <2>2. Opened(flow, outcomes) \subseteq enabled \cup DOMAIN outcomes
    BY <1>1 DEF StoreInv, Enabling, Calling, Opened
  <2>3. QED
    BY <1>1, <2>1, <2>2 DEF NothingLeftBehind
<1>6. QED
  BY <1>2, <1>3, <1>4, <1>5 DEF StoreInv

LEMMA HandlerSettlesKeeps ==
  ASSUME StoreInv, HandlerSettles
  PROVE  StoreInv'
<1>1. PICK outcome \in HandlerOutcomes : outcomes' = WithOutcome(outcomes, sorted[pos], outcome)
  BY DEF HandlerSettles
<1>2. /\ pc = "handler" /\ pc' = "append"
      /\ UNCHANGED <<flow, sorted, file, rest, pos, enabled, status, calls, interrupts,
                     started, repeats, acked>> /\ Lines' = Lines
  BY DEF HandlerSettles, Lines
<1> DEFINE x == sorted[pos]
<1>3. StoreTypes /\ outcome \in Outcome
  BY DurableAssumption DEF StoreInv
<1>4. /\ pos \in DOMAIN sorted /\ x \in started /\ x \in enabled /\ x \notin DOMAIN outcomes
      /\ x \in Ids(flow)
  BY <1>2, <1>3 DEF StoreInv, CallAt, StoreTypes
<1> HIDE DEF x
<1>5. /\ DOMAIN outcomes' = DOMAIN outcomes \cup {x}
      /\ outcomes'[x] = outcome
      /\ \A n \in DOMAIN outcomes : outcomes'[n] = outcomes[n]
      /\ outcomes' = [n \in DOMAIN outcomes \cup {x} |-> IF n = x THEN outcome ELSE outcomes[n]]
  BY <1>1, <1>4 DEF WithOutcome, x
<1>6. StoreTypes'
  <2>1. \A n \in DOMAIN outcomes : outcomes[n] \in Outcome
    BY <1>3 DEF StoreTypes
  <2>2. outcomes' \in [DOMAIN outcomes' -> Outcome]
    BY <1>3, <1>5, <2>1
  <2>3. DOMAIN outcomes' \subseteq Ids(flow)
    BY <1>3, <1>4, <1>5 DEF StoreTypes
  <2>4. QED
    BY <1>2, <1>3, <2>2, <2>3 DEF StoreTypes, LineSet
<1>7. CallAt'
  BY <1>2, <1>4, <1>5 DEF StoreInv, CallAt, Calling, x
<1>8. Enabling'
  BY <1>2, <1>5, SMTT(30) DEF StoreInv, Enabling, Calling, Opened, x
<1>9. FileTells'
  <2>1. Replayable => flow.entry \in DOMAIN outcomes'
    <3> SUFFICES ASSUME Replayable, flow.entry \notin Nodes(Lines)
                 PROVE  x = flow.entry
      BY <1>2, <1>5 DEF StoreInv, FileTells, x
    <3>5. DOMAIN outcomes = Nodes(Lines) /\ Lines = <<>>
      BY <1>2 DEF StoreInv, FileTells
    <3>1. DOMAIN outcomes = {}
      <4>1. DOMAIN Lines = {}
        BY <3>5
      <4>2. QED
        BY <3>5, <4>1 DEF Nodes
    <3>2. Opened(flow, outcomes) = {}
      BY <3>1 DEF Opened
    <3>3. QED
      BY <1>2, <1>4, <3>2 DEF StoreInv, Enabling, Calling
  <2>2. QED
    BY <1>2, <1>4, <1>5, <2>1 DEF StoreInv, FileTells, Calling, Replayable, Nodes, x
<1>10. RepeatsPaid'
  BY <1>2 DEF StoreInv, RepeatsPaid, Replayable, Nodes
<1>11. NothingLeftBehind'
  BY <1>2 DEF NothingLeftBehind
<1>12. QED
  BY <1>6, <1>7, <1>8, <1>9, <1>10, <1>11 DEF StoreInv

\* A file grows by one line at its end.
LEMMA Grown ==
  ASSUME NEW S, NEW s \in Seq(S), NEW x \in S
  PROVE  /\ Append(s, x) \in Seq(S)
         /\ DOMAIN Append(s, x) = DOMAIN s \cup {Len(s) + 1}
         /\ Len(s) + 1 \notin DOMAIN s
         /\ Len(Append(s, x)) = Len(s) + 1
         /\ Append(s, x) # <<>>
         /\ \A i \in DOMAIN s : Append(s, x)[i] = s[i]
         /\ Append(s, x)[Len(s) + 1] = x
OBVIOUS

\* What is written glues to a rest, and both are corrupt; else it is one more line, which
\* is that of the node being appended or cannot be read.
LEMMA LineIs ==
  ASSUME StoreInv, pc = "append", WriteLine \/ TearLine
  PROVE  \E line \in LineSet \cap {Line, Corrupt} :
           /\ Lines' = Append(file, line)
           /\ rest # <<>> => line = Corrupt
           /\ file' \in Seq(LineSet) /\ rest' \in Seq(LineSet) /\ Len(rest') <= 1
           /\ WriteLine => file' = Append(file, line)
<1>1. StoreTypes /\ file \in Seq(LineSet)
  BY DEF StoreInv, StoreTypes
<1>2. Line \in LineSet /\ Corrupt \in LineSet
  BY <1>1 DEF StoreInv, CallAt, StoreTypes, Line, LineSet
<1> HIDE DEF LineSet
<1>3. CASE WriteLine
  <2> DEFINE line == IF rest = <<>> THEN Line ELSE Corrupt
  <2>1. line \in LineSet \cap {Line, Corrupt} /\ (rest # <<>> => line = Corrupt)
    BY <1>2
  <2>2. file' = Append(file, line) /\ rest' = <<>>
    BY <1>3 DEF WriteLine
  <2> HIDE DEF line
  <2>3. file' \in Seq(LineSet) /\ rest' \in Seq(LineSet) /\ Len(rest') <= 1
    BY <1>1, <2>1, <2>2, AppendProperties, EmptySeq
  <2>4. Lines' = Append(file, line)
    BY <2>2, <2>3, ConcatEmptySeq DEF Lines
  <2>5. QED
    BY <2>1, <2>2, <2>3, <2>4
<1>4. CASE TearLine
  <2>1. PICK part \in {Corrupt} \cup (IF rest = <<>> THEN {Line} ELSE {}) : rest' = <<part>>
    BY <1>4 DEF TearLine
  <2>2. part \in LineSet \cap {Line, Corrupt} /\ (rest # <<>> => part = Corrupt)
    BY <1>2, <2>1
  <2>3. file' = file
    BY <1>4 DEF TearLine
  <2>4. rest' \in Seq(LineSet) /\ Len(rest') <= 1
    BY <2>1, <2>2
  <2>5. Lines' = Append(file, part)
    BY <1>1, <2>1, <2>2, <2>3, AppendIsConcat DEF Lines
  <2>6. WriteLine => file' = Append(file, part)
    BY <2>1 DEF WriteLine
  <2>7. QED
    BY <1>1, <2>2, <2>3, <2>4, <2>5, <2>6
<1>5. QED
  BY <1>3, <1>4

\* A write that leaves a file whose records can all be replayed found it so, behind a
\* newline, and adds its node.
LEMMA LineAdded ==
  ASSUME StoreInv, pc = "append", WriteLine \/ TearLine, UNCHANGED <<flow, sorted, pos, outcomes>>
  PROVE  /\ file' \in Seq(LineSet) /\ rest' \in Seq(LineSet) /\ Len(rest') <= 1
         /\ Replayable' =>
              /\ Replayable
              /\ outcomes[sorted[pos]] \in Resumable
              /\ \A i, k \in DOMAIN Lines' : Lines'[i].node = Lines'[k].node => i = k
              /\ Nodes(Lines') = Nodes(Lines) \cup {sorted[pos]}
              /\ \A i \in DOMAIN Lines' : outcomes[Lines'[i].node] = Lines'[i].outcome
<1> DEFINE x == sorted[pos]
<1>1. PICK line \in LineSet \cap {Line, Corrupt} :
        /\ Lines' = Append(file, line)
        /\ rest # <<>> => line = Corrupt
        /\ file' \in Seq(LineSet) /\ rest' \in Seq(LineSet) /\ Len(rest') <= 1
  BY LineIs
<1>2. StoreTypes /\ file \in Seq(LineSet)
  BY DEF StoreInv, StoreTypes
<1>3. Line.node = x /\ Line.outcome = outcomes[x]
  BY DEF Line
<1>4. Corrupt.outcome \notin Resumable
  BY DurableAssumption DEF Corrupt, Resumable, Outcome
<1> HIDE DEF x, LineSet
<1>5. /\ DOMAIN Lines' = DOMAIN file \cup {Len(file) + 1} /\ Len(file) + 1 \notin DOMAIN file
      /\ \A i \in DOMAIN file : Lines'[i] = file[i]
      /\ Lines'[Len(file) + 1] = line
  BY <1>1, <1>2, Grown
<1>6. ASSUME Replayable'
      PROVE  /\ Replayable
             /\ outcomes[x] \in Resumable
             /\ \A i, k \in DOMAIN Lines' : Lines'[i].node = Lines'[k].node => i = k
             /\ Nodes(Lines') = Nodes(Lines) \cup {x}
             /\ \A i \in DOMAIN Lines' : outcomes[Lines'[i].node] = Lines'[i].outcome
  <2>1. line.outcome \in Resumable
    BY <1>5, <1>6 DEF Replayable
  <2>2. line.node = x /\ line.outcome = outcomes[x] /\ rest = <<>>
    BY <1>1, <1>3, <1>4, <2>1
  <2>3. Lines = file
    BY <1>2, <2>2, RestOfFile
  <2>4. Replayable /\ outcomes[x] \in Resumable
    BY <1>5, <1>6, <2>1, <2>2, <2>3 DEF Replayable
  <2>5. Nodes(Lines') = Nodes(Lines) \cup {x}
    BY <1>5, <2>2, <2>3 DEF Nodes
  <2>6. /\ \A i, k \in DOMAIN Lines : Lines[i].node = Lines[k].node => i = k
        /\ \A i \in DOMAIN Lines : Lines[i].node # x
        /\ \A i \in DOMAIN Lines : outcomes[Lines[i].node] = Lines[i].outcome
    BY <2>4 DEF StoreInv, FileTells, Calling, Nodes, x
  <2>7. \A i, k \in DOMAIN Lines' : Lines'[i].node = Lines'[k].node => i = k
    BY <1>5, <2>2, <2>3, <2>6
  <2>8. \A i \in DOMAIN Lines' : outcomes[Lines'[i].node] = Lines'[i].outcome
    BY <1>5, <2>2, <2>3, <2>6
  <2>9. QED
    BY <2>4, <2>5, <2>7, <2>8
<1>7. QED
  BY <1>1, <1>6 DEF x

\* The node whose line reaches the file needs no interruption to pay for it.
LEMMA Unpaid ==
  ASSUME StoreInv, pc = "append", Replayable, sorted[pos] \in started,
         Nodes(Lines') = Nodes(Lines) \cup {sorted[pos]}, sorted[pos] \notin Nodes(Lines)
  PROVE  repeats + Cardinality(started \ Nodes(Lines')) <= interrupts
<1> DEFINE x == sorted[pos]
           T == started \ Nodes(Lines)
<1>1. StoreTypes /\ repeats \in Nat /\ interrupts \in Nat
  BY DEF StoreInv, StoreTypes
<1>2. IsFiniteSet(T) /\ Cardinality(T) \in Nat
  BY <1>1, StartedIsFinite
<1>3. repeats + Cardinality(T) <= interrupts + 1
  BY DEF StoreInv, RepeatsPaid
<1>4. started \ Nodes(Lines') = T \ {x} /\ x \in T
  OBVIOUS
<1> HIDE DEF T, x
<1>5. Cardinality(T \ {x}) = Cardinality(T) - 1
  BY <1>2, <1>4, FS_RemoveElement
<1>6. Cardinality(started \ Nodes(Lines')) = Cardinality(T) - 1
  BY <1>4, <1>5
<1> HIDE <1>4
<1>7. QED
  BY <1>1, <1>2, <1>3, <1>6

LEMMA CheckpointedKeeps ==
  ASSUME StoreInv, Checkpointed
  PROVE  StoreInv'
<1> DEFINE x == sorted[pos]
<1>1. /\ pc = "append" /\ WriteLine
      /\ UNCHANGED <<flow, sorted, pos, outcomes, calls, interrupts, started, repeats>>
  BY DEF Checkpointed
<1>2. /\ StoreTypes /\ auditGraph(flow) = {}
      /\ pos \in DOMAIN sorted /\ x \in started /\ x \in DOMAIN outcomes /\ x \in Ids(flow)
      /\ \A n \in DOMAIN outcomes : outcomes[n] \in Resumable \/ n = x
  BY <1>1 DEF StoreInv, CallAt, Calling, StoreTypes
<1>3. /\ file' \in Seq(LineSet) /\ rest' \in Seq(LineSet) /\ Len(rest') <= 1
      /\ Replayable' =>
           /\ Replayable /\ outcomes[x] \in Resumable
           /\ \A i, k \in DOMAIN Lines' : Lines'[i].node = Lines'[k].node => i = k
           /\ Nodes(Lines') = Nodes(Lines) \cup {x}
           /\ \A i \in DOMAIN Lines' : outcomes[Lines'[i].node] = Lines'[i].outcome
  BY <1>1, LineAdded
<1>4. \A i \in DOMAIN Lines' : Lines'[i].node \in Nodes(Lines')
  BY DEF Nodes
<1>5. Replayable =>
        /\ acked \subseteq Nodes(Lines) /\ Nodes(Lines) \subseteq started
        /\ DOMAIN outcomes = Nodes(Lines) \cup {x} /\ x \notin Nodes(Lines)
        /\ flow.entry \in DOMAIN outcomes
  BY <1>1 DEF StoreInv, FileTells, x
<1>6. RepeatsPaid'
  <2> SUFFICES ASSUME Replayable'
               PROVE  repeats + Cardinality(started \ Nodes(Lines')) <= interrupts
    <3>1. pc' \notin {"handler", "append"}
      BY DEF Checkpointed
    <3>2. interrupts \in Nat
      BY <1>2 DEF StoreTypes
    <3>3. QED
      BY <1>1, <3>1, <3>2 DEF RepeatsPaid, Nodes
  <2>1. QED
    BY <1>1, <1>2, <1>3, <1>5, Unpaid
<1> HIDE DEF x
<1>7. CASE outcomes[x] \in Resumable
  <2> DEFINE targets == {e.to : e \in {d \in EdgesFrom(flow, x) : edgeMatches(d.on, outcomes[x])}}
  <2>1. /\ enabled' = enabled \cup targets /\ acked' = acked \cup {x}
        /\ pc' = "visit" /\ UNCHANGED status
    BY <1>7 DEF Checkpointed, x
  <2>2. targets = {e.to : e \in {d \in flow.edges : d.from = x /\ edgeMatches(d.on, outcomes[x])}}
    BY DEF EdgesFrom
  <2> HIDE DEF targets
  <2>3. \A n \in targets : n \in Ids(flow) /\ \E k \in DOMAIN sorted : sorted[k] = n /\ k > pos
    BY <1>2, <2>2, RunOrder DEF x
  <2>4. StoreTypes'
    <3>1. enabled' \subseteq Ids(flow) /\ acked' \subseteq Ids(flow)
      BY <1>2, <2>1, <2>3 DEF StoreTypes
    <3>2. QED
      BY <1>1, <1>2, <1>3, <2>1, <3>1 DEF StoreTypes, LineSet
  <2>5. CallAt'
    BY <1>1, <1>2, <1>7, <2>1 DEF CallAt, Calling
  <2>6. Enabling'
    <3>1. targets \subseteq Opened(flow, outcomes)
      BY <1>2, <2>2 DEF Opened
    <3>2. \A e \in flow.edges :
            e.from \in DOMAIN outcomes /\ edgeMatches(e.on, outcomes[e.from]) =>
              e.to \in enabled \cup targets \cup DOMAIN outcomes
      BY <1>1, <2>2 DEF StoreInv, Enabling, Calling, x
    <3>3. \A n \in enabled : n \in DOMAIN outcomes \/ \E k \in DOMAIN sorted : sorted[k] = n /\ k > pos
      BY <1>1 DEF StoreInv, Enabling, Calling
    <3>4. enabled \subseteq {flow.entry} \cup Opened(flow, outcomes)
      BY <1>1 DEF StoreInv, Enabling, Calling
    <3>5. QED
      BY <1>1, <2>1, <2>3, <3>1, <3>2, <3>3, <3>4 DEF Enabling
  <2>7. FileTells'
    BY <1>1, <1>2, <1>3, <1>4, <1>5, <2>1 DEF FileTells
  <2>8. NothingLeftBehind'
    BY <2>1 DEF NothingLeftBehind
  <2>9. QED
    BY <1>6, <2>4, <2>5, <2>6, <2>7, <2>8 DEF StoreInv
<1>8. CASE outcomes[x] \notin Resumable
  <2>1. pc' = "returned" /\ status' = outcomes[x] /\ UNCHANGED <<enabled, acked>>
    BY <1>8 DEF Checkpointed, x
  <2>2. outcomes[x] \in {"failed", "paused"}
    BY <1>2, <1>8 DEF StoreTypes, Outcome, Resumable
  <2>3. StoreTypes'
    BY <1>1, <1>2, <1>3, <2>1, <2>2 DEF StoreTypes, LineSet
  <2>4. CallAt' /\ Enabling' /\ NothingLeftBehind'
    BY <2>1, <2>2 DEF CallAt, Enabling, Calling, NothingLeftBehind
  <2>5. FileTells'
    BY <1>3, <1>8 DEF FileTells
  <2>6. QED
    BY <1>6, <2>3, <2>4, <2>5 DEF StoreInv
<1>9. QED
  BY <1>7, <1>8

LEMMA InterruptKeeps ==
  ASSUME StoreInv, Interrupt
  PROVE  StoreInv'
<1>1. /\ Calling /\ pc' = "down" /\ interrupts' = interrupts + 1
      /\ UNCHANGED <<flow, sorted, pos, outcomes, enabled, status, calls, started, repeats, acked>>
  BY DEF Interrupt, Calling
<1>2. StoreTypes /\ interrupts \in Nat /\ repeats \in Nat
  BY DEF StoreInv, StoreTypes
<1>3. CallAt' /\ Enabling' /\ NothingLeftBehind'
  BY <1>1 DEF CallAt, Enabling, Calling, NothingLeftBehind
<1>4. CASE UNCHANGED <<file, rest>>
  <2>1. StoreTypes'
    BY <1>1, <1>2, <1>4 DEF StoreTypes, LineSet
  <2> Lines' = Lines
    BY <1>4 DEF Lines
  <2>2. FileTells'
    BY <1>1, <1>4 DEF StoreInv, FileTells, Calling, Replayable, Nodes
  <2>3. RepeatsPaid'
    <3> SUFFICES ASSUME Replayable
                 PROVE  repeats + Cardinality(started \ Nodes(Lines)) <= interrupts + 1
      BY <1>1, <1>4 DEF RepeatsPaid, Replayable, Nodes
    <3>1. repeats + Cardinality(started \ Nodes(Lines))
            <= interrupts + (IF pc \in {"handler", "append"} THEN 1 ELSE 0)
      BY DEF StoreInv, RepeatsPaid
    <3>2. Cardinality(started \ Nodes(Lines)) \in Nat
      BY <1>2, StartedIsFinite
    <3>3. QED
      BY <1>2, <3>1, <3>2
  <2>4. QED
    BY <1>3, <2>1, <2>2, <2>3 DEF StoreInv
<1>5. CASE pc = "append" /\ (WriteLine \/ TearLine)
  <2> DEFINE x == sorted[pos]
  <2>1. /\ file' \in Seq(LineSet) /\ rest' \in Seq(LineSet) /\ Len(rest') <= 1
        /\ Replayable' =>
             /\ Replayable /\ outcomes[x] \in Resumable
             /\ \A i, k \in DOMAIN Lines' : Lines'[i].node = Lines'[k].node => i = k
             /\ Nodes(Lines') = Nodes(Lines) \cup {x}
    BY <1>1, <1>5, LineAdded
  <2>2. x \in started
    BY <1>5 DEF StoreInv, CallAt
  <2>3. Replayable =>
          /\ acked \subseteq Nodes(Lines) /\ Nodes(Lines) \subseteq started
          /\ DOMAIN outcomes = Nodes(Lines) \cup {x} /\ x \notin Nodes(Lines)
          /\ flow.entry \in DOMAIN outcomes
    BY <1>5 DEF StoreInv, FileTells
  <2>4. Replayable' => repeats + Cardinality(started \ Nodes(Lines')) <= interrupts
    BY <1>2, <1>5, <2>1, <2>2, <2>3, Unpaid
  <2> HIDE DEF x
  <2>5. StoreTypes'
    <3>1. interrupts' \in Nat /\ pc' \in {"down", "visit", "handler", "append", "returned"}
      BY <1>1, <1>2
    <3>2. file' \in Seq(LineSet)' /\ rest' \in Seq(LineSet)' /\ Len(rest') <= 1
      BY <1>1, <2>1 DEF LineSet
    <3>3. QED
      BY <1>1, <1>2, <3>1, <3>2 DEF StoreTypes
  <2>6. FileTells'
    BY <1>1, <2>1, <2>2, <2>3 DEF FileTells, Calling
  <2>7. RepeatsPaid'
    <3> SUFFICES ASSUME Replayable'
                 PROVE  repeats + Cardinality(started \ Nodes(Lines')) <= interrupts + 1
      BY <1>1, <1>2 DEF RepeatsPaid, Nodes
    <3>1. Cardinality(started \ Nodes(Lines')) \in Nat
      BY <1>2, StartedIsFinite
    <3>2. QED
      BY <1>2, <2>4, <3>1
  <2>8. QED
    BY <1>3, <2>5, <2>6, <2>7 DEF StoreInv
<1>6. QED
  BY <1>4, <1>5 DEF Interrupt

LEMMA StepKeeps == StoreInv /\ [Next]_vars => StoreInv'
<1> SUFFICES ASSUME StoreInv, [Next]_vars
             PROVE  StoreInv'
  OBVIOUS
<1>1. CASE UNCHANGED vars
  <2>1. UNCHANGED <<flow, sorted, file, rest, pc, pos, outcomes, enabled, status,
                    interrupts, started, repeats, acked>> /\ Lines' = Lines
    BY <1>1 DEF vars, Lines
  <2>2. StoreTypes' /\ CallAt' /\ Enabling'
    BY <2>1 DEF StoreInv, StoreTypes, LineSet, CallAt, Enabling, Calling
  <2>3. FileTells' /\ RepeatsPaid' /\ NothingLeftBehind'
    BY <2>1 DEF StoreInv, FileTells, RepeatsPaid, NothingLeftBehind, Calling, Replayable, Nodes
  <2>4. QED
    BY <2>2, <2>3 DEF StoreInv
<1>2. CASE Next
  BY <1>2, ResumeKeeps, VisitKeeps, FinishKeeps, HandlerSettlesKeeps, CheckpointedKeeps, InterruptKeeps
  DEF Next
<1>3. QED
  BY <1>1, <1>2

-----------------------------------------------------------------------------
(* The theorems.                                                           *)

\* However calls are interrupted, fail, pause and are repeated, the inductive
\* invariant holds.
THEOREM StoreIsSound == Spec => []StoreInv
<1>1. Init => StoreInv
  BY InitHolds
<1>2. StoreInv /\ [Next]_vars => StoreInv'
  BY StepKeeps
<1>3. QED
  BY <1>1, <1>2, PTL DEF Spec

\* The file and the call under way are well typed.
THEOREM StoreTypesHold == Spec => []TypeOK
<1>1. StoreInv => TypeOK
  <2> SUFFICES ASSUME StoreInv
               PROVE  TypeOK
    OBVIOUS
  <2>1. StoreTypes
    BY DEF StoreInv
  <2>2. \A i \in DOMAIN Lines :
          Lines[i] # Corrupt => Lines[i].node \in Ids(flow) /\ Lines[i].outcome \in Outcome
    BY <2>1, LineTypes
  <2>3. QED
    BY <2>1, <2>2 DEF TypeOK, StoreTypes
<1>2. QED
  BY <1>1, StoreIsSound, PTL

\* What was acknowledged is not run again, and an interruption costs one repetition.
THEOREM RepeatsStayBounded == Spec => []RepeatsAreBounded
<1>1. StoreInv => CompletedNodesSkipped
  BY DEF StoreInv, CallAt, FileTells, CompletedNodesSkipped
<1>2. StoreInv => OneRepeatPerInterrupt
  <2> SUFFICES ASSUME StoreInv, Replayable
               PROVE  repeats <= interrupts
    BY DEF OneRepeatPerInterrupt
  <2> DEFINE T == started \ Nodes(Lines)
  <2>1. StoreTypes /\ repeats \in Nat /\ interrupts \in Nat
    BY DEF StoreInv, StoreTypes
  <2>2. IsFiniteSet(T) /\ Cardinality(T) \in Nat
    BY <2>1, StartedIsFinite
  <2>3. repeats + Cardinality(T) <= interrupts + (IF pc \in {"handler", "append"} THEN 1 ELSE 0)
    BY DEF StoreInv, RepeatsPaid
  <2>4. CASE pc \in {"handler", "append"}
    <3>1. sorted[pos] \in T
      BY <2>4 DEF StoreInv, CallAt, FileTells
    <3>2. Cardinality(T) # 0
      BY <2>2, <3>1, FS_EmptySet
    <3> HIDE DEF T
    <3>3. QED
      BY <2>1, <2>2, <2>3, <2>4, <3>2
  <2>5. CASE pc \notin {"handler", "append"}
    <3> HIDE DEF T
    <3>1. QED
      BY <2>1, <2>2, <2>3, <2>5
  <2>6. QED
    BY <2>4, <2>5
<1>3. StoreInv => RepeatsAreBounded
  BY <1>1, <1>2 DEF RepeatsAreBounded
<1>4. QED
  BY <1>3, StoreIsSound, PTL

\* A call that completes has decided all that its outcomes open, even when the file lost
\* lines in the middle.
THEOREM ResumedPassSuffices == Spec => []NothingLeftBehind
<1>1. StoreInv => NothingLeftBehind
  BY DEF StoreInv
<1>2. QED
  BY <1>1, StoreIsSound, PTL

-----------------------------------------------------------------------------
(* The refinement of FlowProgress.                                         *)

\* What of a file is before its first line that is corrupt, and before its first record
\* that is not resumable.
IntactOf(lines) == {i \in DOMAIN lines : \A j \in 1 .. i : lines[j] # Corrupt}
PriorOf(lines) == {i \in DOMAIN lines : \A j \in 1 .. i : lines[j].outcome \in Resumable}

LastOf(lines, n) == Max({i \in PriorOf(lines) : lines[i].node = n})

\* What is replayed of the intact part of a file is what precedes the first record that
\* is not resumable, corrupt ones included.
LEMMA ReplayOf ==
  ASSUME NEW lines, NEW N \in Nat, DOMAIN lines = 1 .. N
  PROVE  Replayed(lines, IntactOf(lines)) =
           [n \in {lines[i].node : i \in PriorOf(lines)} |-> lines[LastOf(lines, n)].outcome]
<1> DEFINE intact == IntactOf(lines)
           prior == {i \in intact : \A j \in intact : j <= i => lines[j].outcome \in Resumable}
           last(n) == Max({i \in prior : lines[i].node = n})
<1>1. Corrupt.outcome \notin Resumable
  BY DurableAssumption DEF Corrupt, Resumable, Outcome
<1>2. prior = PriorOf(lines)
  <2>1. ASSUME NEW i \in prior
        PROVE  i \in PriorOf(lines)
    <3>1. i \in DOMAIN lines /\ \A j \in 1 .. i : j \in intact
      BY DEF IntactOf
    <3>2. QED
      BY <2>1, <3>1 DEF PriorOf
  <2>2. ASSUME NEW i \in PriorOf(lines)
        PROVE  i \in prior
    <3>1. i \in 1 .. N /\ \A j \in 1 .. i : lines[j].outcome \in Resumable
      BY DEF PriorOf
    <3>2. i \in intact
      BY <1>1, <3>1 DEF IntactOf
    <3>3. \A j \in intact : j \in Nat /\ 1 <= j
      BY DEF IntactOf
    <3>4. QED
      BY <3>1, <3>2, <3>3
  <2>3. QED
    BY <2>1, <2>2
<1>3. Replayed(lines, intact) = [n \in {lines[i].node : i \in prior} |-> lines[last(n)].outcome]
  BY DEF Replayed
<1>4. \A n : last(n) = LastOf(lines, n)
  BY <1>2 DEF LastOf
<1> HIDE DEF prior, last
<1>5. QED
  BY <1>2, <1>3, <1>4

\* A line that is not resumable, or follows one that is not, changes nothing.
LEMMA ReplayStays ==
  ASSUME NEW lines, NEW more, NEW N \in Nat, DOMAIN lines = 1 .. N, DOMAIN more = 1 .. N + 1,
         \A i \in 1 .. N : more[i] = lines[i],
         \E i \in DOMAIN more : more[i].outcome \notin Resumable
  PROVE  Replayed(more, IntactOf(more)) = Replayed(lines, IntactOf(lines))
<1>1. PriorOf(more) = PriorOf(lines)
  <2>1. N + 1 \notin PriorOf(more)
    BY DEF PriorOf
  <2>2. ASSUME NEW i \in 1 .. N
        PROVE  i \in PriorOf(more) <=> i \in PriorOf(lines)
    BY DEF PriorOf
  <2>3. PriorOf(more) \subseteq 1 .. N /\ PriorOf(lines) \subseteq 1 .. N
    BY <2>1 DEF PriorOf
  <2>4. QED
    BY <2>2, <2>3
<1>2. PriorOf(lines) \subseteq 1 .. N
  BY DEF PriorOf
<1> DEFINE seen == {lines[i].node : i \in PriorOf(lines)}
<1>3. {more[i].node : i \in PriorOf(more)} = seen
  BY <1>1, <1>2
<1>4. ASSUME NEW n \in seen
      PROVE  more[LastOf(more, n)].outcome = lines[LastOf(lines, n)].outcome
  <2> DEFINE T == {i \in PriorOf(lines) : lines[i].node = n}
  <2>1. {i \in PriorOf(more) : more[i].node = n} = T
    BY <1>1, <1>2
  <2>2. T # {} /\ T \subseteq Nat /\ \A i \in T : i <= N
    BY <1>2
  <2>3. T \subseteq 1 .. N
    BY <1>2
  <2> HIDE DEF T
  <2>4. Max(T) \in T
    BY <2>2, MaxIsGreatest
  <2>5. LastOf(more, n) = Max(T) /\ LastOf(lines, n) = Max(T)
    BY <2>1 DEF LastOf, T
  <2>6. QED
    BY <2>3, <2>4, <2>5
<1>5. /\ Replayed(lines, IntactOf(lines)) = [n \in seen |-> lines[LastOf(lines, n)].outcome]
      /\ Replayed(more, IntactOf(more)) =
           [n \in {more[i].node : i \in PriorOf(more)} |-> more[LastOf(more, n)].outcome]
  <2>1. N + 1 \in Nat
    OBVIOUS
  <2>2. Replayed(lines, IntactOf(lines)) = [n \in seen |-> lines[LastOf(lines, n)].outcome]
    BY ReplayOf
  <2>3. Replayed(more, IntactOf(more)) =
          [n \in {more[i].node : i \in PriorOf(more)} |-> more[LastOf(more, n)].outcome]
    BY <2>1, ReplayOf
  <2>4. QED
    BY <2>2, <2>3
<1> HIDE DEF seen
<1>6. QED
  BY <1>3, <1>4, <1>5

\* Of a file of resumable records of different nodes, all are replayed.
LEMMA ReplayWhole ==
  ASSUME NEW lines, NEW N \in Nat, DOMAIN lines = 1 .. N,
         \A i \in DOMAIN lines : lines[i].outcome \in Resumable,
         \A i, k \in DOMAIN lines : lines[i].node = lines[k].node => i = k
  PROVE  LET done == Replayed(lines, IntactOf(lines))
         IN /\ DOMAIN done = Nodes(lines)
            /\ \A i \in DOMAIN lines : done[lines[i].node] = lines[i].outcome
            /\ done = [n \in Nodes(lines) |-> done[n]]
<1>1. PriorOf(lines) = DOMAIN lines
  BY DEF PriorOf
<1>2. ASSUME NEW i \in DOMAIN lines
      PROVE  LastOf(lines, lines[i].node) = i
  <2>1. {k \in PriorOf(lines) : lines[k].node = lines[i].node} = {i}
    BY <1>1
  <2>2. i \in Nat
    OBVIOUS
  <2>3. Max({i}) = i
    BY <2>2, MaxIsGreatest
  <2>4. QED
    BY <2>1, <2>3 DEF LastOf
<1>3. Replayed(lines, IntactOf(lines)) = [n \in Nodes(lines) |-> lines[LastOf(lines, n)].outcome]
  BY <1>1, ReplayOf DEF Nodes
<1>4. \A i \in DOMAIN lines : lines[i].node \in Nodes(lines)
  BY DEF Nodes
<1>5. QED
  BY <1>2, <1>3, <1>4

\* A resumable record of another node is replayed after the others.
LEMMA ReplayGrows ==
  ASSUME NEW lines, NEW more, NEW N \in Nat, DOMAIN lines = 1 .. N, DOMAIN more = 1 .. N + 1,
         \A i \in 1 .. N : more[i] = lines[i],
         \A i \in DOMAIN more : more[i].outcome \in Resumable,
         \A i, k \in DOMAIN more : more[i].node = more[k].node => i = k
  PROVE  Replayed(more, IntactOf(more)) =
           WithOutcome(Replayed(lines, IntactOf(lines)), more[N + 1].node, more[N + 1].outcome)
<1> DEFINE done == Replayed(lines, IntactOf(lines))
           then == Replayed(more, IntactOf(more))
           x == more[N + 1].node
<1>1. /\ DOMAIN done = Nodes(lines)
      /\ \A i \in DOMAIN lines : done[lines[i].node] = lines[i].outcome
  <2>1. /\ \A i \in DOMAIN lines : lines[i].outcome \in Resumable
        /\ \A i, k \in DOMAIN lines : lines[i].node = lines[k].node => i = k
    OBVIOUS
  <2>2. QED
    BY <2>1, ReplayWhole
<1>2. /\ DOMAIN then = Nodes(more)
      /\ \A i \in DOMAIN more : then[more[i].node] = more[i].outcome
      /\ then = [n \in Nodes(more) |-> then[n]]
  <2>1. N + 1 \in Nat
    OBVIOUS
  <2>2. QED
    BY <2>1, ReplayWhole
<1> HIDE DEF done, then
<1>3. DOMAIN more = DOMAIN lines \cup {N + 1}
  OBVIOUS
<1>4. Nodes(more) = Nodes(lines) \cup {x}
  BY <1>3 DEF Nodes
<1>5. then[x] = more[N + 1].outcome /\ x \notin Nodes(lines)
  <2>1. N + 1 \in DOMAIN more
    BY <1>3
  <2>2. ASSUME NEW i \in DOMAIN lines, lines[i].node = x
        PROVE  FALSE
    <3>1. i \in DOMAIN more /\ more[i].node = x /\ i # N + 1
      BY <1>3, <2>2
    <3>2. QED
      BY <2>1, <3>1
  <2>3. QED
    BY <1>2, <2>1, <2>2 DEF Nodes
<1>6. \A n \in Nodes(lines) : then[n] = done[n]
  BY <1>1, <1>2, <1>3, SMTT(30) DEF Nodes
<1>7. then = [n \in DOMAIN done \cup {x} |-> IF n = x THEN more[N + 1].outcome ELSE done[n]]
  <2>1. \A n \in Nodes(more) : then[n] = IF n = x THEN more[N + 1].outcome ELSE done[n]
    BY <1>4, <1>5, <1>6
  <2>2. QED
    BY <1>1, <1>2, <1>4, <2>1, ZenonT(60)
<1>8. QED
  BY <1>7 DEF WithOutcome, done, then

Done == Replayed(file, Intact)

\* The node being executed is the first that the file, if all of it can be replayed and
\* ends in a newline, allows to be decided.
FirstOpen ==
  pc \in {"handler", "append"} /\ Replayable /\ rest = <<>> =>
    \E i \in DOMAIN sorted :
      /\ sorted[i] = sorted[pos]
      /\ sorted[i] \in Progress!Enabled(flow, Done)
      /\ \A j \in 1 .. i - 1 : sorted[j] \notin Progress!Enabled(flow, Done)

\* A call that has nothing under way knows exactly what the file tells.
LEMMA DoneIsKnown ==
  ASSUME StoreInv, Replayable, rest = <<>>
  PROVE  /\ DOMAIN Done = Nodes(file)
         /\ \A n \in DOMAIN Done : Done[n] \in Resumable
         /\ pc = "visit" => Done = outcomes
<1> StoreTypes /\ Lines = file
  BY RestOfFile DEF StoreInv
<1>1. \A i, k \in DOMAIN file : file[i].node = file[k].node => i = k
  BY DEF StoreInv, FileTells
<1>2. /\ DOMAIN Done = Nodes(file)
      /\ \A i \in DOMAIN file : Done[file[i].node] = file[i].outcome
      /\ Done = [n \in Nodes(file) |-> Done[n]]
  <2>1. DOMAIN file = 1 .. Len(file) /\ Len(file) \in Nat
    BY LineTypes
  <2>2. \A i \in DOMAIN file : file[i].outcome \in Resumable
    BY DEF Replayable
  <2>3. QED
    BY <1>1, <2>1, <2>2, ReplayWhole DEF Done, Intact, IntactOf
<1>3. \A n \in DOMAIN Done : Done[n] \in Resumable
  BY <1>2 DEF Replayable, Nodes
<1>4. ASSUME pc = "visit"
      PROVE  Done = outcomes
  <2>1. /\ DOMAIN outcomes = Nodes(file)
        /\ \A i \in DOMAIN file : outcomes[file[i].node] = file[i].outcome
    BY <1>4 DEF StoreInv, FileTells, Calling
  <2>2. outcomes = [n \in DOMAIN outcomes |-> outcomes[n]]
    BY DEF StoreTypes
  <2>3. \A n \in Nodes(file) : Done[n] = outcomes[n]
    BY <1>2, <2>1 DEF Nodes
  <2> HIDE DEF Done
  <2>4. QED
    BY <1>2, <2>1, <2>2, <2>3
<1>5. QED
  BY <1>2, <1>3, <1>4

LEMMA VisitIsFirst ==
  ASSUME StoreInv, Visit
  PROVE  FirstOpen'
<1>1. /\ pc = "visit" /\ Due # {} /\ pos' = Min(Due) /\ pc' = "handler"
      /\ UNCHANGED <<flow, sorted, file, rest>>
  BY DEF Visit
<1>2. Replayable' = Replayable /\ Done' = Done
  BY <1>1 DEF Replayable, Lines, Done, Intact, Replayed
<1> SUFFICES ASSUME Replayable, rest = <<>>
             PROVE  \E i \in DOMAIN sorted :
                      /\ sorted[i] = sorted[pos']
                      /\ sorted[i] \in Progress!Enabled(flow, Done)
                      /\ \A j \in 1 .. i - 1 : sorted[j] \notin Progress!Enabled(flow, Done)
  BY <1>1, <1>2, ZenonT(60) DEF FirstOpen, Progress!Enabled, Progress!Opened, Progress!edgeMatches
<1>3. /\ pos' \in DOMAIN sorted
      /\ sorted[pos'] \in enabled \ DOMAIN outcomes
      /\ \A n \in enabled \ DOMAIN outcomes :
           n = sorted[pos'] \/ \E k \in DOMAIN sorted : sorted[k] = n /\ k > pos'
  BY <1>1, NextDue
<1>4. DOMAIN sorted = 1 .. Len(sorted) /\ Len(sorted) \in Nat /\ Distinct(sorted)
  BY <1>1, RunOrder DEF StoreInv, CallAt, Calling
<1>5. Done = outcomes
  BY <1>1, DoneIsKnown
<1> DEFINE i == pos'
           open == Progress!Enabled(flow, Done)
<1>6. open = IF outcomes = <<>> THEN {flow.entry} ELSE Opened(flow, outcomes) \ DOMAIN outcomes
  BY <1>5 DEF Progress!Enabled, Progress!Opened, Opened, Progress!edgeMatches, edgeMatches
<1>7. enabled \subseteq {flow.entry} \cup Opened(flow, outcomes)
  BY <1>1 DEF StoreInv, Enabling, Calling
<1> HIDE DEF i, open
<1>8. i \in DOMAIN sorted /\ sorted[i] \in enabled \ DOMAIN outcomes /\ sorted[i] = sorted[pos']
  BY <1>3 DEF i
<1>9. ASSUME NEW j \in 1 .. i - 1
      PROVE  j \in DOMAIN sorted /\ sorted[j] # sorted[i] /\ sorted[j] \notin enabled \ DOMAIN outcomes
  <2>1. j \in DOMAIN sorted /\ j < i
    BY <1>4, <1>8
  <2>2. \A k \in DOMAIN sorted : sorted[k] = sorted[j] => k = j
    BY <1>4, <2>1 DEF Distinct
  <2>3. i \in Nat /\ j \in Nat
    BY <1>4, <1>8, <2>1
  <2>4. sorted[j] # sorted[i]
    BY <1>8, <2>1, <2>2, <2>3
  <2>5. ASSUME NEW k \in DOMAIN sorted, sorted[k] = sorted[j]
        PROVE  ~(k > i)
    BY <2>1, <2>2, <2>3, <2>5
  <2>6. QED
    BY <1>3, <1>8, <2>1, <2>4, <2>5 DEF i
<1>10. CASE outcomes = <<>>
  <2>1. DOMAIN outcomes = {}
    BY <1>10
  <2>2. Opened(flow, outcomes) = {}
    BY <2>1 DEF Opened
  <2>3. sorted[i] = flow.entry /\ open = {flow.entry}
    BY <1>6, <1>7, <1>8, <1>10, <2>2
  <2>4. QED
    BY <1>8, <1>9, <2>3 DEF open
<1>11. CASE outcomes # <<>>
  <2>1. open = Opened(flow, outcomes) \ DOMAIN outcomes
    BY <1>6, <1>11
  <2>2. DOMAIN outcomes # {}
    BY <1>11, NoOutcomes DEF StoreInv, StoreTypes
  <2>3. DOMAIN outcomes = Nodes(file) /\ (file # <<>> => flow.entry \in Nodes(file))
    BY <1>1, RestOfFile DEF StoreInv, FileTells
  <2>4. file # <<>>
    BY <2>2, <2>3 DEF Nodes
  <2>5. sorted[i] \in open
    BY <1>7, <1>8, <2>1, <2>3, <2>4
  <2>6. open \subseteq enabled \ DOMAIN outcomes
    BY <1>1, <2>1 DEF StoreInv, Enabling, Calling, Opened
  <2>7. QED
    BY <1>8, <1>9, <2>5, <2>6 DEF open
<1>12. QED
  BY <1>10, <1>11

LEMMA FirstStays == StoreInv /\ FirstOpen /\ [Next]_vars => FirstOpen'
<1> SUFFICES ASSUME StoreInv, FirstOpen, [Next]_vars
             PROVE  FirstOpen'
  OBVIOUS
<1>1. CASE Visit
  BY <1>1, VisitIsFirst
<1>2. CASE HandlerSettles \/ UNCHANGED vars
  <2>1. UNCHANGED <<flow, sorted, file, rest, pos>> /\ (pc' \in {"handler", "append"} => pc \in {"handler", "append"})
    BY <1>2 DEF HandlerSettles, vars
  <2>2. Replayable' = Replayable /\ Done' = Done
    BY <2>1 DEF Replayable, Lines, Done, Intact, Replayed
  <2>3. QED
    BY <2>1, <2>2, ZenonT(60) DEF FirstOpen, Progress!Enabled, Progress!Opened, Progress!edgeMatches
<1>3. CASE Resume \/ Finish \/ Checkpointed \/ Interrupt
  <2>1. pc' \notin {"handler", "append"}
    BY <1>3 DEF Resume, Finish, Checkpointed, Interrupt
  <2>2. QED
    BY <2>1 DEF FirstOpen
<1>4. QED
  BY <1>1, <1>2, <1>3 DEF Next

\* A line that is not resumable, or follows one that is not, changes nothing of what can be
\* replayed.
LEMMA LineIgnored ==
  ASSUME file \in Seq(LineSet), NEW line \in LineSet, file' = Append(file, line),
         \E i \in DOMAIN file' : file'[i].outcome \notin Resumable
  PROVE  Done' = Done
<1>1. Done = Replayed(file, IntactOf(file)) /\ Done' = Replayed(file', IntactOf(file'))
  BY DEF Done, Intact, IntactOf
<1>2. Len(file) \in Nat /\ DOMAIN file = 1 .. Len(file)
  OBVIOUS
<1>3. /\ DOMAIN file' = 1 .. Len(file) + 1
      /\ \A i \in 1 .. Len(file) : file'[i] = file[i]
  BY <1>2, Grown
<1>4. QED
  BY <1>1, <1>2, <1>3, ReplayStays

\* The line of the node being executed decides it, if the file can be replayed with it.
LEMMA LineDecides ==
  ASSUME StoreInv, FirstOpen, pc = "append", WriteLine, UNCHANGED <<flow, sorted, pos, outcomes>>
  PROVE  [Progress!Next]_<<flow, sorted, Done>>
<1> DEFINE x == sorted[pos]
<1>1. StoreTypes /\ x \in DOMAIN outcomes /\ x \in Ids(flow) /\ outcomes[x] \in Outcome
      /\ file \in Seq(LineSet)
  BY DEF StoreInv, CallAt, StoreTypes
<1>2. PICK line \in LineSet \cap {Line, Corrupt} :
        /\ Lines' = Append(file, line)
        /\ rest # <<>> => line = Corrupt
        /\ file' = Append(file, line)
  BY LineIs
<1>3. Line.node = x /\ Line.outcome = outcomes[x] /\ Corrupt.outcome \notin Resumable
  BY DurableAssumption DEF Line, Corrupt, Resumable, Outcome
<1> HIDE DEF x, LineSet
<1>4. CASE ~Replayable'
  <2>1. \E i \in DOMAIN file' : file'[i].outcome \notin Resumable
    BY <1>2, <1>4 DEF Replayable
  <2>2. Done' = Done
    BY <1>1, <1>2, <2>1, LineIgnored
  <2>3. QED
    BY <2>2
<1>5. CASE Replayable'
  <2>1. /\ Replayable
        /\ \A i, k \in DOMAIN file' : file'[i].node = file'[k].node => i = k
    BY <1>2, <1>5, LineAdded
  <2>4. Len(file) \in Nat /\ DOMAIN file = 1 .. Len(file)
    BY <1>1
  <2>5. /\ DOMAIN file' = 1 .. Len(file) + 1 /\ file'[Len(file) + 1] = line
        /\ \A i \in 1 .. Len(file) : file'[i] = file[i]
    BY <1>1, <1>2, <2>4, Grown
  <2>6. \A i \in DOMAIN file' : file'[i].outcome \in Resumable
    BY <1>2, <1>5 DEF Replayable
  <2>2. line.node = x /\ line.outcome = outcomes[x] /\ rest = <<>>
    <3>1. line.outcome \in Resumable
      BY <2>4, <2>5, <2>6
    <3>2. QED
      BY <1>2, <1>3, <3>1
  <2>7. Replayed(file', IntactOf(file')) =
          WithOutcome(Replayed(file, IntactOf(file)), line.node, line.outcome)
    BY <2>1, <2>4, <2>5, <2>6, ReplayGrows
  <2>8. Done' = WithOutcome(Done, x, outcomes[x])
    BY <2>2, <2>7 DEF Done, Intact, IntactOf
  <2>9. PICK i \in DOMAIN sorted :
          /\ sorted[i] = x
          /\ sorted[i] \in Progress!Enabled(flow, Done)
          /\ \A j \in 1 .. i - 1 : sorted[j] \notin Progress!Enabled(flow, Done)
    BY <2>1, <2>2 DEF FirstOpen, x
  <2>10. \A n \in DOMAIN Done : Done[n] \notin {"failed", "paused"}
    BY <2>1, <2>2, DoneIsKnown DEF Resumable
  <2>11. Done' = Progress!WithOutcome(Done, sorted[i], outcomes[x])
    BY <2>8, <2>9 DEF WithOutcome, Progress!WithOutcome
  <2>12. Progress!Decide(outcomes[x])
    BY <2>9, <2>10, <2>11 DEF Progress!Decide, Done
  <2>13. outcomes[x] \in Progress!Outcome
    BY <1>1 DEF Outcome, Progress!Outcome
  <2>14. QED
    BY <2>12, <2>13 DEF Progress!Next
<1>6. QED
  BY <1>4, <1>5

\* Every step writes the outcome of the node that is next in the progress, or leaves what
\* can be replayed as it is.
LEMMA StepProgresses ==
  StoreInv /\ FirstOpen /\ [Next]_vars => [Progress!Next]_<<flow, sorted, Done>>
<1> SUFFICES ASSUME StoreInv, FirstOpen, [Next]_vars
             PROVE  [Progress!Next]_<<flow, sorted, Done>>
  OBVIOUS
<1>1. CASE UNCHANGED <<flow, sorted, file>>
  BY <1>1 DEF Done, Intact, Replayed
<1>2. CASE Checkpointed
  <2>1. pc = "append" /\ WriteLine /\ UNCHANGED <<flow, sorted, pos, outcomes>>
    BY <1>2 DEF Checkpointed
  <2>2. QED
    BY <2>1, LineDecides
<1>3. CASE Interrupt
  <2>1. UNCHANGED <<flow, sorted, pos, outcomes>>
    BY <1>3 DEF Interrupt
  <2>2. CASE UNCHANGED file
    BY <1>1, <2>1, <2>2
  <2>3. CASE pc = "append" /\ WriteLine
    BY <2>1, <2>3, LineDecides
  <2>4. QED
    BY <1>3, <2>2, <2>3 DEF Interrupt, TearLine
<1>4. CASE Resume \/ Visit \/ Finish \/ HandlerSettles \/ UNCHANGED vars
  <2>1. UNCHANGED <<flow, sorted, file>>
    BY <1>4 DEF Resume, Visit, Finish, HandlerSettles, vars
  <2>2. QED
    BY <1>1, <2>1
<1>5. QED
  BY <1>2, <1>3, <1>4 DEF Next

\* The order that the progress goes by is that of the calls.
LEMMA SameOrder ==
  ASSUME NEW f
  PROVE  Progress!topoOrder(f) = topoOrder(f)
<1> DEFINE next(order) ==
             {n \in ToSet(f.nodes) \ ToSet(order) :
                \A e \in f.edges : e.to = n => e.from \in ToSet(order)}
           sort == CHOOSE order : order = [k \in Nat |->
                     IF k = 0 THEN <<>>
                     ELSE IF next(order[k - 1]) = {} THEN order[k - 1]
                          ELSE Append(order[k - 1], Min(next(order[k - 1])))]
<1>1. topoOrder(f) = sort[Len(f.nodes)]
  BY DEF topoOrder, Ids
<1>2. Progress!topoOrder(f) = sort[Len(f.nodes)]
  BY DEF Progress!topoOrder, Progress!Ids, Progress!ToSet, ToSet, Progress!Min, Min
<1>3. QED
  BY <1>1, <1>2

\* However the calls for a run are interrupted, fail, pause and are repeated, what the
\* intact part of its file lets a later call replay is the progress of one run.
THEOREM ResumedRunsMakeProgress == Spec => ImplementsFlowProgress
<1>1. Init => Progress!Init /\ FirstOpen
  <2> SUFFICES ASSUME Init
               PROVE  Progress!Init /\ FirstOpen
    OBVIOUS
  <2>1. file = <<>> /\ sorted = topoOrder(flow) /\ pc = "down"
    BY DEF Init
  <2>2. DOMAIN file = 1 .. 0
    BY <2>1
  <2>3. PriorOf(file) = {}
    BY <2>2 DEF PriorOf
  <2>4. Done = [n \in {file[i].node : i \in PriorOf(file)} |-> file[LastOf(file, n)].outcome]
    BY <2>2, ReplayOf DEF Done, Intact, IntactOf
  <2>5. Done = <<>>
    BY <2>3, <2>4
  <2>6. QED
    BY <2>1, <2>5, SameOrder DEF Progress!Init, FirstOpen, Done
<1>2. StoreInv /\ FirstOpen /\ [Next]_vars => FirstOpen'
  BY FirstStays
<1>3. StoreInv /\ FirstOpen /\ [Next]_vars => [Progress!Next]_<<flow, sorted, Replayed(file, Intact)>>
  BY StepProgresses DEF Done
<1>4. QED
  BY <1>1, <1>2, <1>3, StoreIsSound, PTL DEF Spec, ImplementsFlowProgress, Progress!Spec

-----------------------------------------------------------------------------
(* The replay only grows.                                                  *)

\* What a call replays of a file, and the lines it is taken from.
Recall(lines) == Replayed(lines, Loaded(lines))

Recalled(lines) ==
  {i \in Loaded(lines) : \A j \in Loaded(lines) : j <= i => lines[j].outcome \in Resumable}

LEMMA RecallOf ==
  ASSUME NEW lines
  PROVE  Recall(lines) = [n \in {lines[i].node : i \in Recalled(lines)} |->
                            lines[Max({i \in Recalled(lines) : lines[i].node = n})].outcome]
BY DEF Recall, Recalled, Replayed

\* One more line takes back nothing, and concerns no other node than its own.
LEMMA OthersStay ==
  ASSUME NEW lines \in Seq(LineSet), NEW line \in LineSet
  PROVE  LET more == Append(lines, line)
         IN /\ DOMAIN Recall(lines) \subseteq DOMAIN Recall(more)
            /\ \A n : line = Corrupt \/ n # line.node =>
                 /\ n \in DOMAIN Recall(more) <=> n \in DOMAIN Recall(lines)
                 /\ n \in DOMAIN Recall(lines) => Recall(more)[n] = Recall(lines)[n]
<1> DEFINE more == Append(lines, line)
           N == Len(lines)
           at(n) == {i \in Recalled(lines) : lines[i].node = n}
           then(n) == {i \in Recalled(more) : more[i].node = n}
<1>1. /\ N \in Nat /\ DOMAIN lines = 1 .. N /\ DOMAIN more = 1 .. N + 1
      /\ \A i \in 1 .. N : more[i] = lines[i]
      /\ more[N + 1] = line
  BY Grown
<1> HIDE DEF more, N
<1>2. \A i \in 1 .. N : i \in Loaded(more) <=> i \in Loaded(lines)
  BY <1>1 DEF Loaded
<1>3. Loaded(lines) \subseteq 1 .. N /\ Loaded(more) \subseteq 1 .. N + 1
      /\ (N + 1 \in Loaded(more) => line # Corrupt)
  BY <1>1 DEF Loaded
<1>4. ASSUME NEW i \in 1 .. N
      PROVE  i \in Recalled(more) <=> i \in Recalled(lines)
  <2>1. \A j \in Loaded(more) : j <= i => j \in 1 .. N /\ j \in Loaded(lines)
    BY <1>1, <1>2, <1>3
  <2>2. \A j \in Loaded(lines) : j \in Loaded(more) /\ more[j] = lines[j]
    BY <1>1, <1>2, <1>3
  <2>3. QED
    BY <1>2, <2>1, <2>2 DEF Recalled
<1>5. Recalled(lines) \subseteq 1 .. N /\ Recalled(more) \subseteq 1 .. N + 1
      /\ (N + 1 \in Recalled(more) => line # Corrupt)
  BY <1>3 DEF Recalled
<1>6. /\ DOMAIN Recall(lines) = {lines[i].node : i \in Recalled(lines)}
      /\ DOMAIN Recall(more) = {more[i].node : i \in Recalled(more)}
      /\ \A n \in DOMAIN Recall(lines) : Recall(lines)[n] = lines[Max(at(n))].outcome
      /\ \A n \in DOMAIN Recall(more) : Recall(more)[n] = more[Max(then(n))].outcome
  BY RecallOf
<1>7. DOMAIN Recall(lines) \subseteq DOMAIN Recall(more)
  BY <1>1, <1>4, <1>5, <1>6
<1>8. ASSUME NEW n, line = Corrupt \/ n # line.node
      PROVE  /\ n \in DOMAIN Recall(more) <=> n \in DOMAIN Recall(lines)
             /\ n \in DOMAIN Recall(lines) => Recall(more)[n] = Recall(lines)[n]
  <2>1. \A i \in Recalled(more) : more[i].node = n => i \in 1 .. N
    <3>1. ASSUME NEW i \in Recalled(more), more[i].node = n, i \notin 1 .. N
          PROVE  FALSE
      <4>1. i = N + 1
        BY <1>1, <1>5, <3>1
      <4>2. QED
        BY <1>1, <1>5, <1>8, <3>1, <4>1
    <3>2. QED
      BY <3>1
  <2>2. then(n) = at(n) /\ at(n) \subseteq 1 .. N
    <3>1. ASSUME NEW i \in then(n)
          PROVE  i \in at(n)
      BY <1>1, <1>4, <2>1
    <3>2. ASSUME NEW i \in at(n)
          PROVE  i \in then(n)
      BY <1>1, <1>4, <1>5
    <3>3. QED
      BY <1>5, <3>1, <3>2
  <2>3. n \in DOMAIN Recall(more) <=> n \in DOMAIN Recall(lines)
    <3>1. n \in DOMAIN Recall(more) <=> then(n) # {}
      BY <1>6
    <3>2. n \in DOMAIN Recall(lines) <=> at(n) # {}
      BY <1>6
    <3>3. QED
      BY <2>2, <3>1, <3>2
  <2>4. ASSUME n \in DOMAIN Recall(lines)
        PROVE  Recall(more)[n] = Recall(lines)[n]
    <3>1. at(n) # {}
      BY <1>6, <2>4
    <3>2. Recall(lines)[n] = lines[Max(at(n))].outcome /\ Recall(more)[n] = more[Max(at(n))].outcome
      BY <1>6, <2>2, <2>3, <2>4
    <3> HIDE DEF at
    <3>3. at(n) \subseteq Nat /\ \A i \in at(n) : i <= N
      BY <1>1, <2>2
    <3>4. Max(at(n)) \in at(n)
      BY <1>1, <3>1, <3>3, MaxIsGreatest
    <3>5. QED
      BY <1>1, <2>2, <3>2, <3>4
  <2>5. QED
    BY <2>3, <2>4
<1>9. QED
  BY <1>7, <1>8 DEF more

\* A call knows all that could be replayed, but for the node being appended.
RecallKnown ==
  /\ Calling => DOMAIN Recall(Lines) \subseteq DOMAIN outcomes
  /\ pc = "append" => sorted[pos] \notin DOMAIN Recall(Lines)

\* A write takes back at most the node of a rest, and adds at most the one being appended.
LEMMA WriteGrows ==
  ASSUME StoreInv, RecallKnown, pc = "append", WriteLine \/ TearLine
  PROVE  /\ DOMAIN Recall(Lines') \subseteq DOMAIN Recall(Lines) \cup {sorted[pos]}
         /\ \A n \in DOMAIN Recall(Lines) :
              \/ n \in DOMAIN Recall(Lines') /\ Recall(Lines')[n] = Recall(Lines)[n]
              \/ rest # <<>> /\ n = rest[1].node
<1> DEFINE x == sorted[pos]
<1>1. PICK line \in LineSet \cap {Line, Corrupt} :
        /\ Lines' = Append(file, line)
        /\ rest # <<>> => line = Corrupt
  BY LineIs
<1>2. StoreTypes /\ file \in Seq(LineSet) /\ Line.node = x
  BY DEF StoreInv, StoreTypes, Line
<1> HIDE DEF x, LineSet
<1>3. CASE rest = <<>>
  <2>1. Lines = file
    BY <1>2, <1>3, RestOfFile
  <2>2. \A n : n # x => line = Corrupt \/ n # line.node
    BY <1>1, <1>2
  <2>3. /\ DOMAIN Recall(file) \subseteq DOMAIN Recall(Lines')
        /\ \A n : line = Corrupt \/ n # line.node =>
             /\ n \in DOMAIN Recall(Lines') <=> n \in DOMAIN Recall(file)
             /\ n \in DOMAIN Recall(file) => Recall(Lines')[n] = Recall(file)[n]
    BY <1>1, <1>2, OthersStay
  <2>4. x \notin DOMAIN Recall(Lines)
    BY DEF RecallKnown, x
  <2>5. QED
    BY <2>1, <2>2, <2>3, <2>4 DEF x
<1>4. CASE rest # <<>>
  <2>1. rest[1] \in LineSet /\ Lines = Append(file, rest[1])
    BY <1>2, <1>4, RestOfFile
  <2>2. \A n : /\ n \in DOMAIN Recall(Lines') <=> n \in DOMAIN Recall(file)
               /\ n \in DOMAIN Recall(file) => Recall(Lines')[n] = Recall(file)[n]
    BY <1>1, <1>2, <1>4, OthersStay
  <2>3. /\ DOMAIN Recall(file) \subseteq DOMAIN Recall(Lines)
        /\ \A n : n # rest[1].node =>
             /\ n \in DOMAIN Recall(Lines) <=> n \in DOMAIN Recall(file)
             /\ n \in DOMAIN Recall(file) => Recall(Lines)[n] = Recall(file)[n]
    BY <1>2, <2>1, OthersStay
  <2>4. QED
    BY <1>4, <2>2, <2>3
<1>5. QED
  BY <1>3, <1>4

LEMMA RecallStays == StoreInv /\ RecallKnown /\ [Next]_vars => RecallKnown'
<1> SUFFICES ASSUME StoreInv, RecallKnown, [Next]_vars
             PROVE  RecallKnown'
  OBVIOUS
<1>1. CASE Resume
  <2>1. pc' # "append" /\ Lines' = Lines /\ (Calling' => outcomes' = Recall(Lines))
    BY <1>1 DEF Resume, Lines, Recall, Calling
  <2>2. QED
    BY <2>1 DEF RecallKnown
<1>2. CASE Visit \/ UNCHANGED vars
  <2>1. /\ Lines' = Lines /\ outcomes' = outcomes /\ (Calling' => Calling)
        /\ pc' = "append" => pc = "append" /\ UNCHANGED <<sorted, pos>>
    BY <1>2 DEF Visit, vars, Lines, Calling
  <2>2. QED
    BY <2>1 DEF RecallKnown
<1>3. CASE HandlerSettles
  <2>1. PICK outcome \in HandlerOutcomes : outcomes' = WithOutcome(outcomes, sorted[pos], outcome)
    BY <1>3 DEF HandlerSettles
  <2>2. pc = "handler" /\ pc' = "append" /\ Lines' = Lines /\ UNCHANGED <<sorted, pos>>
    BY <1>3 DEF HandlerSettles, Lines
  <2>3. DOMAIN outcomes \subseteq DOMAIN outcomes'
    BY <2>1 DEF WithOutcome
  <2>4. sorted[pos] \notin DOMAIN outcomes
    BY <2>2 DEF StoreInv, CallAt
  <2>5. QED
    BY <2>2, <2>3, <2>4 DEF RecallKnown, Calling
<1>4. CASE Finish \/ Interrupt
  <2>1. pc' \notin {"visit", "handler", "append"}
    BY <1>4 DEF Finish, Interrupt
  <2>2. QED
    BY <2>1 DEF RecallKnown, Calling
<1>5. CASE Checkpointed
  <2>1. pc = "append" /\ pc' # "append" /\ WriteLine /\ outcomes' = outcomes
    BY <1>5 DEF Checkpointed
  <2>2. DOMAIN Recall(Lines') \subseteq DOMAIN Recall(Lines) \cup {sorted[pos]}
    BY <2>1, WriteGrows
  <2>3. sorted[pos] \in DOMAIN outcomes
    BY <2>1 DEF StoreInv, CallAt
  <2>4. QED
    BY <2>1, <2>2, <2>3 DEF RecallKnown, Calling
<1>6. QED
  BY <1>1, <1>2, <1>3, <1>4, <1>5 DEF Next

\* Whatever happened to the file, the next call replays all that a call could have
\* replayed before; only a record that lacked its newline is lost, at the next append.
THEOREM ReplaysOnlyGrow == Spec => ReplayOnlyGrows
<1> DEFINE Grows == \A n \in DOMAIN Remembered :
                      \/ n \in DOMAIN Remembered' /\ Remembered'[n] = Remembered[n]
                      \/ rest # <<>> /\ n = rest[1].node
<1>1. Init => RecallKnown
  BY DEF Init, RecallKnown, Calling
<1>2. StoreInv /\ RecallKnown /\ [Next]_vars => RecallKnown'
  BY RecallStays
<1>3. StoreInv /\ RecallKnown /\ [Next]_vars => [Grows]_vars
  <2> SUFFICES ASSUME StoreInv, RecallKnown, [Next]_vars
               PROVE  Grows
    OBVIOUS
  <2>1. Remembered = Recall(Lines) /\ Remembered' = Recall(Lines')
    BY DEF Remembered, Recall
  <2>2. CASE UNCHANGED <<file, rest>>
    <3>1. Lines' = Lines
      BY <2>2 DEF Lines
    <3>2. QED
      BY <2>1, <3>1
  <2>3. CASE pc = "append" /\ (WriteLine \/ TearLine)
    BY <2>1, <2>3, WriteGrows
  <2>4. QED
    BY <2>2, <2>3 DEF Next, Resume, Visit, Finish, HandlerSettles, Checkpointed, Interrupt, vars
<1>4. QED
  BY <1>1, <1>2, <1>3, StoreIsSound, PTL DEF Spec, ReplayOnlyGrows
=============================================================================
