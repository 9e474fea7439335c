------------------------- MODULE AuditEmitterProofs -------------------------
(***************************************************************************)
(* What AuditEmitter guarantees for every set of workspaces, events and    *)
(* batch ids, over every store and every batch size.                       *)
(***************************************************************************)
EXTENDS AuditEmitter, SequenceTheorems, TLAPS

-----------------------------------------------------------------------------
(* The inductive invariant.  TypeOK alone is not inductive: a batch on its *)
(* way must belong to a workspace for the store's chain to stay typed.     *)

\* A batch that was started holds events, all of the workspace it is for.
BatchesOfWorkspace ==
  \A b \in Batches :
    IF batch[b].phase = "unused" THEN batch[b].events = {}
    ELSE /\ batch[b].ws \in Workspaces
         /\ batch[b].events # {}
         /\ \A e \in batch[b].events : WorkspaceOf[e] = batch[b].ws

\* A buffer holds events of its workspace.
BuffersOfWorkspace ==
  \A w \in Workspaces : \A e \in buffer[w] : WorkspaceOf[e] = w

\* The events taken over by ingest are those in buffers and batches, which are
\* disjoint from each other.
HomesDisjoint ==
  /\ \A e \in Events : ingest[e] = "taken" <=>
       \/ \E w \in Workspaces : e \in buffer[w]
       \/ \E b \in Batches : e \in batch[b].events
  /\ \A b \in Batches, w \in Workspaces, e \in Events :
       ~(e \in batch[b].events /\ e \in buffer[w])
  /\ \A b, c \in Batches, e \in Events :
       e \in batch[b].events /\ e \in batch[c].events => b = c

\* The store's chain of a workspace is made of batches stored for it.
ChainOfStored ==
  \A w \in Workspaces : \A i \in DOMAIN chain[w] :
    /\ batch[chain[w][i]].phase = "stored"
    /\ batch[chain[w][i]].ws = w

Inv ==
  /\ TypeOK
  /\ BatchesOfWorkspace
  /\ BuffersOfWorkspace
  /\ HomesDisjoint
  /\ ChainOfStored

-----------------------------------------------------------------------------
(* Type correctness                                                        *)

\* The digest a flush chains to is a batch's or the genesis digest.
LEMMA LatestDigestType ==
  ASSUME TypeOK, NEW w \in Workspaces
  PROVE  LatestDigest(w) \in Batches \cup {Genesis}
BY DEF TypeOK, LatestDigest

\* A batch keeps its type when its phase changes.
LEMMA PhaseChangeType ==
  ASSUME TypeOK, NEW b \in Batches, NEW p \in Phases,
         batch' = [batch EXCEPT ![b].phase = p]
  PROVE  batch' \in [Batches -> BatchRecord]
BY DEF TypeOK, BatchRecord

\* Every flush keeps the buffers and the batches well typed.
LEMMA StartFlushType ==
  ASSUME TypeOK, NEW w \in Workspaces, NEW evs \in SUBSET Events, NEW b \in Batches,
         StartFlush(w, evs, b)
  PROVE  /\ buffer' \in [Workspaces -> SUBSET Events]
         /\ batch' \in [Batches -> BatchRecord]
         /\ chain' = chain
<1>1. LatestDigest(w) \in Batches \cup {Genesis}
  BY LatestDigestType
<1>2. QED
  BY <1>1 DEF TypeOK, StartFlush, Phases, InFlight, BatchRecord

\* Storing a batch keeps the batches and the chains well typed.
LEMMA PersistType ==
  ASSUME TypeOK, NEW b \in Batches, batch[b].ws \in Workspaces, Persist(b)
  PROVE  /\ batch' \in [Batches -> BatchRecord]
         /\ chain' \in [Workspaces -> Seq(Batches)]
<1>1. batch' \in [Batches -> BatchRecord]
  BY PhaseChangeType DEF Persist, Phases
<1>2. Append(chain[batch[b].ws], b) \in Seq(Batches)
  BY DEF TypeOK
<1>3. QED
  BY <1>1, <1>2 DEF TypeOK, Persist

\* A step of a batch on its way to the store.
LEMMA BatchStepType ==
  ASSUME TypeOK, BatchesOfWorkspace, NEW b \in Batches,
         ReadLatest(b) \/ Sign(b) \/ CheckChain(b) \/ WriteBatch(b)
  PROVE  TypeOK'
<1>1. batch[b].ws \in Workspaces
  BY DEF BatchesOfWorkspace, ReadLatest, Sign, CheckChain, WriteBatch
<1>2. UNCHANGED <<ingest, buffer, drain>>
  BY DEF ReadLatest, Sign, CheckChain, WriteBatch
<1>3. /\ batch' \in [Batches -> BatchRecord]
      /\ chain' \in [Workspaces -> Seq(Batches)]
  <2>1. CASE ReadLatest(b)
    <3>1. LatestDigest(batch[b].ws) \in Batches \cup {Genesis}
      BY <1>1, LatestDigestType
    <3>2. QED
      BY <2>1, <3>1, ZenonT(60) DEF TypeOK, ReadLatest, BatchRecord, Phases, InFlight
  <2>2. CASE Persist(b)
    BY <1>1, <2>2, PersistType
  <2>3. CASE /\ \E p \in Phases : batch' = [batch EXCEPT ![b].phase = p]
             /\ UNCHANGED chain
    BY <2>3, PhaseChangeType DEF TypeOK
  <2>4. QED
    BY <2>1, <2>2, <2>3
       DEF Sign, CheckChain, WriteBatch, Reject, Phases, InFlight, Rejected
<1>4. QED
  BY <1>2, <1>3 DEF TypeOK

\* A step of a caller of flushAll.
LEMMA DrainStepType ==
  ASSUME TypeOK, NEW d \in Drainers, DrainStep(d)
  PROVE  TypeOK'
<1>1. ingest' = ingest
  BY DEF DrainStep, DrainStart, DrainNext, DrainResume, DrainDone
<1>2. /\ buffer' \in [Workspaces -> SUBSET Events]
      /\ batch' \in [Batches -> BatchRecord]
      /\ chain' = chain
  <2>1. CASE UNCHANGED <<buffer, batch, chain>>
    BY <2>1 DEF TypeOK
  <2>2. CASE \E w \in Workspaces, b \in Batches : StartFlush(w, buffer[w], b)
    BY <2>2, StartFlushType DEF TypeOK
  <2>3. drain[d].todo \subseteq Workspaces
    BY DEF TypeOK, DrainRecord
  <2>4. Dirty \subseteq Workspaces
    BY DEF Dirty
  <2>5. QED
    BY <2>1, <2>2, <2>3, <2>4 DEF DrainStep, DrainStart, DrainNext, DrainResume, DrainDone
<1>3. drain' \in [Drainers -> DrainRecord]
  <2>1. CASE DrainStart(d)
    <3>1. [pc |-> "flushing", todo |-> {}, awaiting |-> None] \in DrainRecord
      BY DEF DrainRecord
    <3>2. ASSUME NEW w \in Workspaces, NEW b \in Batches
          PROVE  [pc |-> "flushing", todo |-> Dirty \ {w}, awaiting |-> b] \in DrainRecord
      <4>1. Dirty \ {w} \in SUBSET Workspaces
        BY DEF Dirty
      <4>2. QED
        BY <4>1 DEF DrainRecord
    <3>3. \E r \in DrainRecord : drain' = [drain EXCEPT ![d] = r]
      BY <2>1, <3>1, <3>2 DEF DrainStart, Dirty
    <3>4. QED
      BY <3>3 DEF TypeOK
  <2>2. CASE DrainNext(d)
    <3>1. drain[d] \in DrainRecord
      BY DEF TypeOK
    <3>2. ASSUME NEW w \in Workspaces
          PROVE  /\ [drain[d] EXCEPT !.todo = drain[d].todo \ {w}] \in DrainRecord
                 /\ \A b \in Batches :
                      [drain[d] EXCEPT !.todo = drain[d].todo \ {w}, !.awaiting = b] \in DrainRecord
      BY <3>1 DEF DrainRecord
    <3>3. PICK w \in drain[d].todo :
            \/ drain' = [drain EXCEPT ![d] = [drain[d] EXCEPT !.todo = drain[d].todo \ {w}]]
            \/ \E b \in Batches :
                 drain' = [drain EXCEPT ![d] =
                             [drain[d] EXCEPT !.todo = drain[d].todo \ {w}, !.awaiting = b]]
      BY <2>2 DEF DrainNext
    <3>4. w \in Workspaces
      BY <3>1 DEF DrainRecord
    <3>5. \E r \in DrainRecord : drain' = [drain EXCEPT ![d] = r]
      BY <3>2, <3>3, <3>4
    <3>6. QED
      BY <3>5 DEF TypeOK
  <2>3. CASE DrainResume(d)
    <3>1. drain[d] \in DrainRecord
      BY DEF TypeOK
    <3>2. /\ [drain[d] EXCEPT !.awaiting = None] \in DrainRecord
          /\ [pc |-> "failed", todo |-> {}, awaiting |-> None] \in DrainRecord
      BY <3>1 DEF DrainRecord
    <3>3. \E r \in DrainRecord : drain' = [drain EXCEPT ![d] = r]
      BY <2>3, <3>2 DEF DrainResume
    <3>4. QED
      BY <3>3 DEF TypeOK
  <2>4. CASE DrainDone(d)
    BY <2>4 DEF TypeOK, DrainDone, DrainRecord
  <2>5. QED
    BY <2>1, <2>2, <2>3, <2>4 DEF DrainStep
<1>4. QED
  BY <1>1, <1>2, <1>3 DEF TypeOK

\* Every step keeps the types.
LEMMA TypeStep ==
  ASSUME TypeOK, BatchesOfWorkspace, [Next]_vars
  PROVE  TypeOK'
<1>1. CASE UNCHANGED vars
  BY <1>1 DEF TypeOK, vars
<1>2. CASE \E e \in Events : Ingest(e)
  BY <1>2 DEF TypeOK, Ingest
<1>3. CASE \E e \in Events : Buffered(e)
  <2>1. PICK e \in Events : Buffered(e)
    BY <1>3
  <2>2. WorkspaceOf[e] \in Workspaces
    BY ConstantsAssumption
  <2>3. /\ ingest' \in [Events -> {"new", "hashing", "taken", "refused"}]
        /\ drain' = drain
    BY <2>1 DEF TypeOK, Buffered
  <2>4. buffer[WorkspaceOf[e]] \cup {e} \in SUBSET Events
    BY <2>2 DEF TypeOK
  <2>5. CASE \E b \in Batches :
               StartFlush(WorkspaceOf[e], buffer[WorkspaceOf[e]] \cup {e}, b)
    <3>1. /\ buffer' \in [Workspaces -> SUBSET Events]
          /\ batch' \in [Batches -> BatchRecord]
          /\ chain' = chain
      BY <2>2, <2>4, <2>5, StartFlushType
    <3>2. QED
      BY <2>3, <3>1 DEF TypeOK
  <2>6. CASE buffer' = [buffer EXCEPT ![WorkspaceOf[e]] = buffer[WorkspaceOf[e]] \cup {e}]
             /\ UNCHANGED <<batch, chain>>
    BY <2>3, <2>4, <2>6 DEF TypeOK
  <2>7. QED
    BY <2>1, <2>5, <2>6 DEF Buffered
<1>4. CASE \E w \in Workspaces : Flush(w)
  <2>1. PICK w \in Workspaces, b \in Batches :
          StartFlush(w, buffer[w], b) /\ UNCHANGED <<ingest, drain>>
    BY <1>4 DEF Flush
  <2>2. buffer[w] \in SUBSET Events
    BY DEF TypeOK
  <2>3. /\ buffer' \in [Workspaces -> SUBSET Events]
        /\ batch' \in [Batches -> BatchRecord]
        /\ chain' = chain
    BY <2>1, <2>2, StartFlushType
  <2>4. QED
    BY <2>1, <2>3 DEF TypeOK
<1>5. CASE \E b \in Batches : ReadLatest(b) \/ Sign(b) \/ CheckChain(b) \/ WriteBatch(b)
  BY <1>5, BatchStepType
<1>6. CASE \E d \in Drainers : DrainStep(d)
  BY <1>6, DrainStepType
<1>7. QED
  BY <1>1, <1>2, <1>3, <1>4, <1>5, <1>6 DEF Next, EmitterStep

-----------------------------------------------------------------------------
(* The inductive invariant                                                 *)

\* A flush moves what the buffer of w holds, and the events that ingest hands
\* over in the same step, to a fresh batch.
LEMMA StartFlushInv ==
  ASSUME Inv, NEW w \in Workspaces, NEW extra \in SUBSET Events, NEW b \in Batches,
         \A e \in extra : WorkspaceOf[e] = w /\ ingest[e] # "taken",
         \A e \in Events : ingest'[e] = "taken" <=> ingest[e] = "taken" \/ e \in extra,
         StartFlush(w, buffer[w] \cup extra, b)
  PROVE  BatchesOfWorkspace' /\ BuffersOfWorkspace' /\ HomesDisjoint' /\ ChainOfStored'
<1> USE DEF Inv
<1>1. /\ batch[b].phase = "unused"
      /\ batch[b].events = {}
      /\ batch'[b].phase # "unused"
      /\ batch'[b].ws = w
      /\ batch'[b].events = buffer[w] \cup extra
      /\ buffer[w] \cup extra # {}
      /\ \A c \in Batches : c # b => batch'[c] = batch[c]
  BY DEF TypeOK, StartFlush, BatchesOfWorkspace, BatchRecord
<1>2. /\ buffer'[w] = {}
      /\ \A v \in Workspaces : v # w => buffer'[v] = buffer[v]
      /\ chain' = chain
  BY DEF TypeOK, StartFlush
<1>3. BatchesOfWorkspace'
  BY <1>1 DEF BatchesOfWorkspace, BuffersOfWorkspace
<1>4. BuffersOfWorkspace'
  BY <1>2 DEF BuffersOfWorkspace
<1>5. HomesDisjoint'
  <2>1. \A e \in extra : /\ \A v \in Workspaces : e \notin buffer[v]
                         /\ \A c \in Batches : e \notin batch[c].events
    BY DEF HomesDisjoint
  <2>2. \A e \in Events : ingest'[e] = "taken" <=>
          \/ \E v \in Workspaces : e \in buffer'[v]
          \/ \E c \in Batches : e \in batch'[c].events
    BY <1>1, <1>2 DEF HomesDisjoint
  <2>3. \A c \in Batches, v \in Workspaces, e \in Events :
          ~(e \in batch'[c].events /\ e \in buffer'[v])
    BY <1>1, <1>2, <2>1 DEF HomesDisjoint, BuffersOfWorkspace
  <2>4. \A c, k \in Batches, e \in Events :
          e \in batch'[c].events /\ e \in batch'[k].events => c = k
    BY <1>1, <2>1 DEF HomesDisjoint
  <2>5. QED
    BY <2>2, <2>3, <2>4 DEF HomesDisjoint
<1>6. ChainOfStored'
  <2>1. \A v \in Workspaces : \A i \in DOMAIN chain[v] :
          chain[v][i] \in Batches /\ chain[v][i] # b
    BY <1>1 DEF ChainOfStored, TypeOK
  <2>2. QED
    BY <1>1, <1>2, <2>1 DEF ChainOfStored
<1>7. QED
  BY <1>3, <1>4, <1>5, <1>6

\* A batch on its way keeps its events and its workspace; once it is stored
\* nothing changes it.
LEMMA BatchStepKeeps ==
  ASSUME Inv, NEW b \in Batches,
         ReadLatest(b) \/ Sign(b) \/ CheckChain(b) \/ WriteBatch(b)
  PROVE  /\ batch[b].phase \in InFlight
         /\ batch'[b].phase # "unused"
         /\ batch'[b].events = batch[b].events
         /\ batch'[b].ws = batch[b].ws
         /\ \A c \in Batches : c # b => batch'[c] = batch[c]
         /\ UNCHANGED <<ingest, buffer, drain>>
         /\ UNCHANGED chain \/ Persist(b)
<1>1. batch \in [Batches -> BatchRecord]
  BY DEF Inv, TypeOK
<1>2. batch[b].phase \in InFlight
  BY DEF ReadLatest, Sign, CheckChain, WriteBatch, InFlight
<1>3. UNCHANGED <<ingest, buffer, drain>> /\ (UNCHANGED chain \/ Persist(b))
  BY DEF ReadLatest, Sign, CheckChain, WriteBatch
<1>4. CASE ReadLatest(b)
  BY <1>1, <1>2, <1>3, <1>4 DEF ReadLatest, BatchRecord
<1>5. CASE \E p \in Phases \ {"unused"} : batch' = [batch EXCEPT ![b].phase = p]
  BY <1>1, <1>2, <1>3, <1>5 DEF BatchRecord
<1>6. QED
  BY <1>4, <1>5 DEF Sign, CheckChain, WriteBatch, Persist, Reject, Phases, InFlight, Rejected

LEMMA BatchStepInv ==
  ASSUME Inv, NEW b \in Batches,
         ReadLatest(b) \/ Sign(b) \/ CheckChain(b) \/ WriteBatch(b)
  PROVE  BatchesOfWorkspace' /\ BuffersOfWorkspace' /\ HomesDisjoint' /\ ChainOfStored'
<1> USE DEF Inv
<1>1. /\ batch[b].phase \in InFlight
      /\ batch'[b].phase # "unused"
      /\ batch'[b].events = batch[b].events
      /\ batch'[b].ws = batch[b].ws
      /\ \A c \in Batches : c # b => batch'[c] = batch[c]
      /\ UNCHANGED <<ingest, buffer>>
      /\ UNCHANGED chain \/ Persist(b)
  BY BatchStepKeeps
<1>2. batch[b].phase # "unused" /\ batch[b].phase # "stored"
  BY <1>1 DEF InFlight
<1>3. BatchesOfWorkspace'
  BY <1>1, <1>2 DEF BatchesOfWorkspace
<1>4. BuffersOfWorkspace' /\ HomesDisjoint'
  <2>1. \A c \in Batches : batch'[c].events = batch[c].events
    BY <1>1
  <2>2. QED
    BY <1>1, <2>1 DEF BuffersOfWorkspace, HomesDisjoint
<1>5. ChainOfStored'
  <2>1. \A w \in Workspaces : \A i \in DOMAIN chain[w] :
          chain[w][i] \in Batches /\ chain[w][i] # b
    BY <1>2 DEF ChainOfStored, TypeOK
  <2>2. CASE UNCHANGED chain
    BY <1>1, <2>1, <2>2 DEF ChainOfStored
  <2>3. CASE Persist(b)
    <3>1. batch[b].ws \in Workspaces
      BY <1>2 DEF BatchesOfWorkspace
    <3>2. batch'[b].phase = "stored"
      BY <2>3 DEF Persist, TypeOK, BatchRecord
    <3>3. \A w \in Workspaces : w # batch[b].ws => chain'[w] = chain[w]
      BY <2>3 DEF Persist, TypeOK
    <3>4. \A i \in DOMAIN chain'[batch[b].ws] :
            \/ i \in DOMAIN chain[batch[b].ws] /\ chain'[batch[b].ws][i] = chain[batch[b].ws][i]
            \/ chain'[batch[b].ws][i] = b
      BY <2>3, <3>1 DEF Persist, TypeOK
    <3>5. QED
      BY <1>1, <2>1, <3>1, <3>2, <3>3, <3>4 DEF ChainOfStored
  <2>4. QED
    BY <1>1, <2>2, <2>3
<1>6. QED
  BY <1>3, <1>4, <1>5

LEMMA InvInit == Init => Inv
BY ConstantsAssumption
   DEF Init, Inv, TypeOK, BatchesOfWorkspace, BuffersOfWorkspace, HomesDisjoint,
       ChainOfStored, NoBatch, BatchRecord, DrainRecord, Phases, Drainers

\* Every step keeps the invariant.
LEMMA InvStep ==
  ASSUME Inv, [Next]_vars
  PROVE  Inv'
<1>1. TypeOK'
  BY TypeStep DEF Inv
<1>2. BatchesOfWorkspace' /\ BuffersOfWorkspace' /\ HomesDisjoint' /\ ChainOfStored'
  <2>1. ASSUME UNCHANGED <<buffer, batch, chain>>,
               \A e \in Events : ingest'[e] = "taken" <=> ingest[e] = "taken"
        PROVE  BatchesOfWorkspace' /\ BuffersOfWorkspace' /\ HomesDisjoint' /\ ChainOfStored'
    BY <2>1 DEF Inv, BatchesOfWorkspace, BuffersOfWorkspace, HomesDisjoint, ChainOfStored
  <2>2. ASSUME NEW w \in Workspaces, NEW b \in Batches, StartFlush(w, buffer[w], b),
               UNCHANGED ingest
        PROVE  BatchesOfWorkspace' /\ BuffersOfWorkspace' /\ HomesDisjoint' /\ ChainOfStored'
    <3>1. StartFlush(w, buffer[w] \cup {}, b)
      BY <2>2
    <3>2. /\ {} \in SUBSET Events
          /\ \A e \in {} : WorkspaceOf[e] = w /\ ingest[e] # "taken"
          /\ \A e \in Events : ingest'[e] = "taken" <=> ingest[e] = "taken" \/ e \in {}
      BY <2>2
    <3>3. QED
      BY <2>2, <3>1, <3>2, StartFlushInv, Zenon
  <2>3. CASE UNCHANGED vars
    BY <2>1, <2>3 DEF vars
  <2>4. CASE \E e \in Events : Ingest(e)
    BY <2>1, <2>4 DEF Inv, TypeOK, Ingest
  <2>5. CASE \E e \in Events : Buffered(e)
    <3>1. PICK e \in Events : Buffered(e)
      BY <2>5
    <3>2. WorkspaceOf[e] \in Workspaces
      BY ConstantsAssumption
    <3>3. /\ ingest[e] = "hashing"
          /\ \A f \in Events : ingest'[f] = "taken" <=> ingest[f] = "taken" \/ f \in {e}
      BY <3>1 DEF Inv, TypeOK, Buffered
    <3>4. CASE \E b \in Batches :
                 StartFlush(WorkspaceOf[e], buffer[WorkspaceOf[e]] \cup {e}, b)
      BY <3>2, <3>3, <3>4, StartFlushInv
    <3>5. CASE /\ buffer' = [buffer EXCEPT ![WorkspaceOf[e]] = buffer[WorkspaceOf[e]] \cup {e}]
               /\ UNCHANGED <<batch, chain>>
      <4>1. /\ buffer'[WorkspaceOf[e]] = buffer[WorkspaceOf[e]] \cup {e}
            /\ \A v \in Workspaces : v # WorkspaceOf[e] => buffer'[v] = buffer[v]
        BY <3>2, <3>5 DEF Inv, TypeOK
      <4>2. BatchesOfWorkspace' /\ ChainOfStored'
        BY <3>5 DEF Inv, BatchesOfWorkspace, ChainOfStored
      <4>3. BuffersOfWorkspace'
        BY <4>1 DEF Inv, BuffersOfWorkspace
      <4>4. HomesDisjoint'
        BY <3>2, <3>3, <3>5, <4>1 DEF Inv, HomesDisjoint
      <4>5. QED
        BY <4>2, <4>3, <4>4
    <3>6. QED
      BY <3>1, <3>4, <3>5 DEF Buffered
  <2>6. CASE \E w \in Workspaces : Flush(w)
    BY <2>2, <2>6 DEF Flush
  <2>7. CASE \E b \in Batches : ReadLatest(b) \/ Sign(b) \/ CheckChain(b) \/ WriteBatch(b)
    BY <2>7, BatchStepInv
  <2>8. CASE \E d \in Drainers : DrainStep(d)
    <3>1. PICK d \in Drainers : DrainStep(d)
      BY <2>8
    <3>2. UNCHANGED ingest
      BY <3>1 DEF DrainStep, DrainStart, DrainNext, DrainResume, DrainDone
    <3>3. \/ UNCHANGED <<buffer, batch, chain>>
          \/ \E w \in Workspaces, b \in Batches : StartFlush(w, buffer[w], b)
      <4>1. drain[d].todo \subseteq Workspaces
        BY DEF Inv, TypeOK, DrainRecord
      <4>2. QED
        BY <3>1, <4>1 DEF DrainStep, DrainStart, DrainNext, DrainResume, DrainDone, Dirty
    <3>4. QED
      BY <2>1, <2>2, <3>2, <3>3
  <2>9. QED
    BY <2>3, <2>4, <2>5, <2>6, <2>7, <2>8 DEF Next, EmitterStep
<1>3. QED
  BY <1>1, <1>2 DEF Inv

\* The invariant holds of every behaviour, whatever the store.
THEOREM Invariance == Spec => []Inv
BY InvInit, InvStep, PTL DEF Spec

\* The emitter's state keeps its types.
THEOREM TypeCorrect == Spec => []TypeOK
BY Invariance, PTL DEF Inv

\* No event is audited twice and none vanishes between its buffer and a batch:
\* the homes of an event that ingest accepted are always exactly one.
THEOREM OneHome == Spec => []EachEventHasOneHome
<1>1. Inv => EachEventHasOneHome
  <2>1. SUFFICES ASSUME Inv, NEW e \in Events
                 PROVE  IF ingest[e] = "taken" THEN \E h \in Homes(e) : Homes(e) = {h}
                                               ELSE Homes(e) = {}
    BY DEF EachEventHasOneHome
  <2>2. CASE ingest[e] # "taken"
    BY <2>1, <2>2 DEF Inv, HomesDisjoint, Homes
  <2>3. CASE \E w \in Workspaces : e \in buffer[w]
    <3>1. PICK w \in Workspaces : e \in buffer[w]
      BY <2>3
    <3>2. \A v \in Workspaces : e \in buffer[v] => v = w
      BY <2>1, <3>1 DEF Inv, BuffersOfWorkspace
    <3>3. \A b \in Batches : e \notin batch[b].events
      BY <2>1, <3>1 DEF Inv, HomesDisjoint
    <3>4. Homes(e) = {<<"buffer", w>>}
      BY <3>1, <3>2, <3>3 DEF Homes
    <3>5. QED
      BY <2>1, <3>1, <3>4 DEF Inv, HomesDisjoint
  <2>4. CASE \E b \in Batches : e \in batch[b].events
    <3>1. PICK b \in Batches : e \in batch[b].events
      BY <2>4
    <3>2. \A c \in Batches : e \in batch[c].events => c = b
      BY <2>1, <3>1 DEF Inv, HomesDisjoint
    <3>3. \A w \in Workspaces : e \notin buffer[w]
      BY <2>1, <3>1 DEF Inv, HomesDisjoint
    <3>4. Homes(e) = {<<"batch", b>>}
      BY <3>1, <3>2, <3>3 DEF Homes
    <3>5. QED
      BY <2>1, <3>1, <3>4 DEF Inv, HomesDisjoint
  <2>5. QED
    BY <2>1, <2>2, <2>3, <2>4 DEF Inv, HomesDisjoint
<1>2. QED
  BY <1>1, Invariance, PTL

-----------------------------------------------------------------------------
(* The steps as the store sees them                                        *)

\* A step leaves the batches and the store alone, starts a flush, or moves one
\* batch on.
LEMMA StoreStep ==
  ASSUME Inv, [Next]_vars
  PROVE  \/ UNCHANGED <<batch, chain>>
         \/ \E w \in Workspaces, evs \in SUBSET Events, b \in Batches : StartFlush(w, evs, b)
         \/ \E b \in Batches : ReadLatest(b) \/ Sign(b) \/ CheckChain(b) \/ WriteBatch(b)
<1>1. \A w \in Workspaces : buffer[w] \in SUBSET Events
  BY DEF Inv, TypeOK
<1>2. \A e \in Events : WorkspaceOf[e] \in Workspaces
  BY ConstantsAssumption
<1>3. \A d \in Drainers : drain[d].todo \subseteq Workspaces
  BY DEF Inv, TypeOK, DrainRecord
<1>4. CASE \E e \in Events : Ingest(e) \/ Buffered(e)
  BY <1>1, <1>2, <1>4 DEF Ingest, Buffered
<1>5. CASE \E w \in Workspaces : Flush(w)
  BY <1>1, <1>5 DEF Flush
<1>6. CASE \E d \in Drainers : DrainStep(d)
  BY <1>1, <1>3, <1>6
     DEF DrainStep, DrainStart, DrainNext, DrainResume, DrainDone, Dirty
<1>7. QED
  BY <1>4, <1>5, <1>6 DEF Next, EmitterStep, vars

-----------------------------------------------------------------------------
(* The in-memory store                                                     *)

\* Every digest a flush chains to was the latest once and, a chain only ever
\* growing, is in the chain still; so when it is no longer the latest, the batch
\* after it names it.  This is what makes ChainVerifies inductive.
MemoryInv ==
  /\ \A b \in Batches : batch[b].phase \notin {"reading", "writing"}
  /\ \A b \in Batches : batch[b].phase # "unused" =>
       \/ batch[b].prev = Genesis
       \/ \E i \in DOMAIN chain[batch[b].ws] : chain[batch[b].ws][i] = batch[b].prev
  /\ ChainVerifies
  /\ LostToAWinner

\* The latest digest is the last batch of the chain.
LEMMA LatestDigestOfChain ==
  ASSUME TypeOK, NEW w \in Workspaces
  PROVE  /\ Len(chain[w]) \in Nat
         /\ DOMAIN chain[w] = 1 .. Len(chain[w])
         /\ Len(chain[w]) = 0 => LatestDigest(w) = Genesis
         /\ Len(chain[w]) > 0 => LatestDigest(w) = chain[w][Len(chain[w])]
BY DEF TypeOK, LatestDigest

\* A flush that finds another latest digest than its own finds a winner.
LEMMA BrokenHasWinner ==
  ASSUME Inv, MemoryInv, NEW b \in Batches, batch[b].phase # "unused",
         batch[b].prev # LatestDigest(batch[b].ws)
  PROVE  \E i \in DOMAIN chain[batch[b].ws] :
           batch[chain[batch[b].ws][i]].prev = batch[b].prev
<1> DEFINE w == batch[b].ws
           n == Len(chain[w])
<1>1. w \in Workspaces
  BY DEF Inv, BatchesOfWorkspace
<1>2. /\ n \in Nat
      /\ DOMAIN chain[w] = 1 .. n
      /\ n = 0 => LatestDigest(w) = Genesis
      /\ n > 0 => LatestDigest(w) = chain[w][n]
  BY <1>1, LatestDigestOfChain DEF Inv
<1>3. CASE batch[b].prev = Genesis
  <2>1. 1 \in DOMAIN chain[w]
    BY <1>2, <1>3
  <2>2. batch[chain[w][1]].prev = Genesis
    BY <1>1, <2>1 DEF MemoryInv, ChainVerifies
  <2>3. QED
    BY <1>3, <2>1, <2>2
<1>4. CASE \E i \in DOMAIN chain[w] : chain[w][i] = batch[b].prev
  <2>1. PICK i \in DOMAIN chain[w] : chain[w][i] = batch[b].prev
    BY <1>4
  <2>2. i + 1 \in DOMAIN chain[w] /\ i + 1 # 1
    BY <1>2, <2>1
  <2>3. batch[chain[w][i + 1]].prev = chain[w][(i + 1) - 1]
    BY <1>1, <2>2 DEF MemoryInv, ChainVerifies
  <2>4. (i + 1) - 1 = i
    BY <1>2, <2>1
  <2>5. QED
    BY <2>1, <2>2, <2>3, <2>4
<1>5. QED
  BY <1>3, <1>4 DEF MemoryInv

\* A flush started over the in-memory store has read the latest digest.
LEMMA MemoryStartFlush ==
  ASSUME Store = "memory", Inv, MemoryInv,
         NEW w \in Workspaces, NEW evs \in SUBSET Events, NEW b \in Batches,
         StartFlush(w, evs, b)
  PROVE  MemoryInv'
<1>1. /\ batch'[b] = [phase |-> "signing", ws |-> w, events |-> evs, prev |-> LatestDigest(w)]
      /\ \A c \in Batches : c # b => batch'[c] = batch[c]
      /\ batch[b].phase = "unused"
      /\ chain' = chain
  BY DEF Inv, TypeOK, StartFlush, ReadAtCall
<1>2. \A v \in Workspaces : \A i \in DOMAIN chain[v] :
        /\ chain[v][i] \in Batches
        /\ batch'[chain[v][i]] = batch[chain[v][i]]
  BY <1>1 DEF Inv, TypeOK, ChainOfStored
<1>3. batch'[b].prev = Genesis \/ \E i \in DOMAIN chain[w] : chain[w][i] = batch'[b].prev
  BY <1>1, LatestDigestOfChain DEF Inv
<1>4. ChainVerifies'
  BY <1>1, <1>2 DEF MemoryInv, ChainVerifies
<1>5. LostToAWinner'
  <2>1. SUFFICES ASSUME NEW c \in Batches, batch'[c].phase = "broken"
                 PROVE  \E i \in DOMAIN chain'[batch'[c].ws] :
                          batch'[chain'[batch'[c].ws][i]].prev = batch'[c].prev
    BY DEF LostToAWinner
  <2>2. batch'[c] = batch[c] /\ batch[c].ws \in Workspaces
    BY <1>1, <2>1 DEF Inv, BatchesOfWorkspace
  <2>3. QED
    BY <1>1, <1>2, <2>1, <2>2 DEF MemoryInv, LostToAWinner
<1>6. QED
  BY <1>1, <1>3, <1>4, <1>5 DEF MemoryInv

\* A batch moved on over the in-memory store without being stored.
LEMMA MemoryPhaseChange ==
  ASSUME Inv, MemoryInv, NEW b \in Batches, NEW p \in {"checking", "faulted", "broken"},
         batch[b].phase \in InFlight,
         batch' = [batch EXCEPT ![b].phase = p],
         UNCHANGED chain,
         p = "broken" => batch[b].prev # LatestDigest(batch[b].ws)
  PROVE  MemoryInv'
<1>1. /\ batch'[b].phase = p /\ batch'[b].ws = batch[b].ws /\ batch'[b].prev = batch[b].prev
      /\ \A c \in Batches : c # b => batch'[c] = batch[c]
      /\ batch[b].phase # "unused"
  BY DEF Inv, TypeOK, BatchRecord, InFlight
<1>2. \A c \in Batches : batch'[c].ws = batch[c].ws /\ batch'[c].prev = batch[c].prev
  BY <1>1
<1>3. \A v \in Workspaces : \A i \in DOMAIN chain[v] : chain[v][i] \in Batches
  BY DEF Inv, TypeOK
<1>4. ChainVerifies'
  BY <1>2, <1>3 DEF MemoryInv, ChainVerifies
<1>5. LostToAWinner'
  <2>1. SUFFICES ASSUME NEW c \in Batches, batch'[c].phase = "broken"
                 PROVE  \E i \in DOMAIN chain[batch[c].ws] :
                          batch'[chain[batch[c].ws][i]].prev = batch[c].prev
    BY <1>2 DEF LostToAWinner
  <2>2. batch[c].ws \in Workspaces
    BY <1>1, <2>1 DEF Inv, BatchesOfWorkspace
  <2>3. \E i \in DOMAIN chain[batch[c].ws] :
          batch[chain[batch[c].ws][i]].prev = batch[c].prev
    BY <1>1, <2>1, BrokenHasWinner DEF MemoryInv, LostToAWinner
  <2>4. QED
    BY <1>2, <1>3, <2>2, <2>3
<1>6. QED
  BY <1>1, <1>2, <1>4, <1>5 DEF MemoryInv

\* Storing a batch that names the digest before it keeps the chain verified and what is
\* stored where it was, over every store.
LEMMA PersistLinks ==
  ASSUME Inv, ChainVerifies, NEW b \in Batches, batch[b].phase \in InFlight,
         batch[b].prev = LatestDigest(batch[b].ws), Persist(b)
  PROVE  /\ ChainVerifies'
         /\ \A v \in Workspaces : \A i \in DOMAIN chain[v] :
              /\ i \in DOMAIN chain'[v]
              /\ chain'[v][i] = chain[v][i]
              /\ chain[v][i] \in Batches
<1> DEFINE w == batch[b].ws
           n == Len(chain[w])
<1>1. /\ batch'[b].phase = "stored" /\ batch'[b].ws = w /\ batch'[b].prev = batch[b].prev
      /\ \A c \in Batches : c # b => batch'[c] = batch[c]
      /\ batch[b].phase # "unused" /\ batch[b].phase # "stored"
  BY DEF Inv, TypeOK, BatchRecord, InFlight, Persist
<1>2. \A c \in Batches : batch'[c].ws = batch[c].ws /\ batch'[c].prev = batch[c].prev
  BY <1>1
<1>3. w \in Workspaces
  BY <1>1 DEF Inv, BatchesOfWorkspace
<1>4. /\ n \in Nat
      /\ DOMAIN chain[w] = 1 .. n
      /\ n = 0 => batch[b].prev = Genesis
      /\ n > 0 => batch[b].prev = chain[w][n]
  BY <1>3, LatestDigestOfChain DEF Inv
<1>5. /\ DOMAIN chain'[w] = 1 .. n + 1
      /\ \A i \in 1 .. n : chain'[w][i] = chain[w][i]
      /\ chain'[w][n + 1] = b
      /\ \A v \in Workspaces : v # w => chain'[v] = chain[v]
  BY <1>3 DEF Inv, TypeOK, Persist
<1>6. \A v \in Workspaces : \A i \in DOMAIN chain[v] :
        /\ i \in DOMAIN chain'[v]
        /\ chain'[v][i] = chain[v][i]
        /\ chain[v][i] \in Batches
  <2>1. SUFFICES ASSUME NEW v \in Workspaces, NEW i \in DOMAIN chain[v]
                 PROVE  i \in DOMAIN chain'[v] /\ chain'[v][i] = chain[v][i]
    BY DEF Inv, TypeOK
  <2>2. CASE v = w
    BY <1>4, <1>5, <2>1, <2>2
  <2>3. CASE v # w
    BY <1>5, <2>1, <2>3
  <2>4. QED
    BY <2>2, <2>3
<1>7. ChainVerifies'
  <2>1. SUFFICES ASSUME NEW v \in Workspaces, NEW i \in DOMAIN chain'[v]
                 PROVE  batch'[chain'[v][i]].prev = IF i = 1 THEN Genesis ELSE chain'[v][i - 1]
    BY DEF ChainVerifies
  <2>2. CASE v # w
    BY <1>2, <1>5, <1>6, <2>2 DEF ChainVerifies
  <2>3. CASE v = w /\ i \in 1 .. n
    <3>1. batch[chain[w][i]].prev = IF i = 1 THEN Genesis ELSE chain[w][i - 1]
      BY <1>3, <1>4, <2>3 DEF ChainVerifies
    <3>2. batch'[chain'[w][i]].prev = batch[chain[w][i]].prev
      BY <1>2, <1>3, <1>4, <1>6, <2>3
    <3>3. i # 1 => chain'[w][i - 1] = chain[w][i - 1]
      <4>1. i # 1 => i - 1 \in 1 .. n
        BY <1>4, <2>3
      <4>2. QED
        BY <1>5, <4>1
    <3>4. QED
      BY <2>3, <3>1, <3>2, <3>3
  <2>4. CASE v = w /\ i = n + 1
    <3>1. batch'[chain'[w][i]].prev = batch[b].prev
      BY <1>1, <1>5, <2>4
    <3>2. n > 0 => chain'[w][i - 1] = chain[w][n]
      BY <1>4, <1>5, <2>4, SMTT(30)
    <3>3. QED
      BY <1>4, <2>4, <3>1, <3>2
  <2>5. QED
    BY <1>4, <1>5, <2>1, <2>2, <2>3, <2>4
<1>8. QED
  BY <1>6, <1>7

\* A batch stored over the in-memory store names the digest before it.
LEMMA MemoryPersist ==
  ASSUME Inv, MemoryInv, NEW b \in Batches, batch[b].phase \in InFlight,
         batch[b].prev = LatestDigest(batch[b].ws), Persist(b)
  PROVE  MemoryInv'
<1> DEFINE w == batch[b].ws
<1>1. /\ batch'[b].phase = "stored" /\ batch'[b].ws = w /\ batch'[b].prev = batch[b].prev
      /\ \A c \in Batches : c # b => batch'[c] = batch[c]
      /\ batch[b].phase # "unused" /\ batch[b].phase # "stored"
  BY DEF Inv, TypeOK, BatchRecord, InFlight, Persist
<1>2. \A c \in Batches : batch'[c].ws = batch[c].ws /\ batch'[c].prev = batch[c].prev
  BY <1>1
<1>3. \A v \in Workspaces : \A i \in DOMAIN chain[v] :
        /\ i \in DOMAIN chain'[v]
        /\ chain'[v][i] = chain[v][i]
        /\ chain[v][i] \in Batches
  BY PersistLinks DEF MemoryInv
<1>4. ChainVerifies'
  BY PersistLinks DEF MemoryInv
<1>5. LostToAWinner'
  <2>1. SUFFICES ASSUME NEW c \in Batches, batch'[c].phase = "broken"
                 PROVE  \E i \in DOMAIN chain'[batch[c].ws] :
                          batch'[chain'[batch[c].ws][i]].prev = batch[c].prev
    BY <1>2 DEF LostToAWinner
  <2>2. batch[c].phase = "broken" /\ batch[c].ws \in Workspaces
    BY <1>1, <2>1 DEF Inv, BatchesOfWorkspace
  <2>3. PICK i \in DOMAIN chain[batch[c].ws] :
          batch[chain[batch[c].ws][i]].prev = batch[c].prev
    BY <2>2 DEF MemoryInv, LostToAWinner
  <2>4. QED
    BY <1>2, <1>3, <2>2, <2>3
<1>6. \A c \in Batches : batch'[c].phase # "unused" =>
        \/ batch'[c].prev = Genesis
        \/ \E i \in DOMAIN chain'[batch'[c].ws] : chain'[batch'[c].ws][i] = batch'[c].prev
  <2>1. SUFFICES ASSUME NEW c \in Batches, batch'[c].phase # "unused", batch[c].prev # Genesis
                 PROVE  \E i \in DOMAIN chain'[batch[c].ws] : chain'[batch[c].ws][i] = batch[c].prev
    BY <1>2
  <2>2. batch[c].phase # "unused" /\ batch[c].ws \in Workspaces
    BY <1>1, <2>1 DEF Inv, BatchesOfWorkspace
  <2>3. PICK i \in DOMAIN chain[batch[c].ws] : chain[batch[c].ws][i] = batch[c].prev
    BY <2>1, <2>2 DEF MemoryInv
  <2>4. QED
    BY <1>3, <2>2, <2>3
<1>7. QED
  BY <1>1, <1>4, <1>5, <1>6 DEF MemoryInv

LEMMA MemoryInvariance ==
  Spec => [](Store = "memory" => ChainVerifies /\ LostToAWinner)
<1> DEFINE I == Store = "memory" => MemoryInv
<1>1. Init => I
  BY DEF Init, NoBatch, MemoryInv, ChainVerifies, LostToAWinner
<1>2. Inv /\ I /\ [Next]_vars => I'
  <2>1. SUFFICES ASSUME Store = "memory", Inv, MemoryInv, [Next]_vars
                 PROVE  MemoryInv'
    OBVIOUS
  <2>2. CASE UNCHANGED <<batch, chain>>
    BY <2>1, <2>2 DEF MemoryInv, ChainVerifies, LostToAWinner
  <2>3. CASE \E w \in Workspaces, evs \in SUBSET Events, b \in Batches : StartFlush(w, evs, b)
    BY <2>1, <2>3, MemoryStartFlush
  <2>4. ASSUME NEW b \in Batches,
               ReadLatest(b) \/ Sign(b) \/ CheckChain(b) \/ WriteBatch(b)
        PROVE  MemoryInv'
    <3>1. batch[b].phase \notin {"reading", "writing"}
      BY <2>1 DEF MemoryInv
    <3>2. batch[b].phase \in InFlight
      BY <2>1, <2>4, BatchStepKeeps
    <3>3. \/ batch[b].prev = LatestDigest(batch[b].ws) /\ Persist(b)
          \/ \E p \in {"checking", "faulted", "broken"} :
               /\ batch' = [batch EXCEPT ![b].phase = p]
               /\ UNCHANGED chain
               /\ p = "broken" => batch[b].prev # LatestDigest(batch[b].ws)
      BY <2>1, <2>4, <3>1 DEF ReadLatest, Sign, CheckChain, WriteBatch, Reject, AtomicAppend
    <3>4. QED
      BY <2>1, <3>2, <3>3, MemoryPersist, MemoryPhaseChange
  <2>5. QED
    BY <2>1, <2>2, <2>3, <2>4, StoreStep
<1>3. I => (Store = "memory" => ChainVerifies /\ LostToAWinner)
  BY DEF MemoryInv
<1> HIDE DEF I
<1>4. QED
  BY <1>1, <1>2, <1>3, Invariance, PTL DEF Spec

\* The chain of the in-memory store verifies, however flushes overlap.
THEOREM MemoryChain == Spec => [](Store = "memory" => ChainVerifies)
<1>1. (Store = "memory" => ChainVerifies /\ LostToAWinner)
        => (Store = "memory" => ChainVerifies)
  OBVIOUS
<1>2. QED
  BY <1>1, MemoryInvariance, PTL

\* Of the in-memory store, a flush that is refused with a chain break lost to a batch
\* that is stored and names the digest it read.
THEOREM LosersHaveWinners == Spec => [](Store = "memory" => LostToAWinner)
<1>1. (Store = "memory" => ChainVerifies /\ LostToAWinner)
        => (Store = "memory" => LostToAWinner)
  OBVIOUS
<1>2. QED
  BY <1>1, MemoryInvariance, PTL

-----------------------------------------------------------------------------
(* What keeps the other stores' chains whole.  Over the file and the sqlite  *)
(* store a chain forks, and flushes lose their events, when flushes of one   *)
(* workspace overlap; nothing else makes them.                               *)

\* A workspace has at most one flush on its way.
FlushesTakeTurns ==
  \A b, c \in Batches :
    batch[b].phase \in InFlight /\ batch[c].phase \in InFlight /\ batch[b].ws = batch[c].ws
      => b = c

\* The phases of a flush that has read the digest it chains to.
HasRead == InFlight \ {"reading"}

\* While flushes take turns, the digest a flush has read stays the latest one.
TurnInv ==
  /\ ChainVerifies
  /\ \A b \in Batches :
       /\ batch[b].phase \in HasRead => batch[b].prev = LatestDigest(batch[b].ws)
       /\ batch[b].phase # "broken"

\* A flush that starts reads the latest digest, or has still to read it.
LEMMA TurnStartFlush ==
  ASSUME Inv, TurnInv, NEW w \in Workspaces, NEW evs \in SUBSET Events, NEW b \in Batches,
         StartFlush(w, evs, b)
  PROVE  TurnInv'
<1>1. /\ batch'[b].phase = IF ReadAtCall THEN "signing" ELSE "reading"
      /\ ReadAtCall => batch'[b].prev = LatestDigest(w)
      /\ batch'[b].ws = w
      /\ \A c \in Batches : c # b => batch'[c] = batch[c]
      /\ batch[b].phase = "unused"
      /\ chain' = chain
  BY DEF Inv, TypeOK, StartFlush
<1>2. \A v \in Workspaces : \A i \in DOMAIN chain[v] :
        batch'[chain[v][i]] = batch[chain[v][i]]
  BY <1>1 DEF Inv, TypeOK, ChainOfStored
<1>3. ChainVerifies'
  BY <1>1, <1>2 DEF TurnInv, ChainVerifies
<1>4. \A v : LatestDigest(v)' = LatestDigest(v)
  BY <1>1 DEF LatestDigest
<1>5. ASSUME NEW c \in Batches
      PROVE  /\ batch'[c].phase \in HasRead => batch'[c].prev = LatestDigest(batch'[c].ws)
             /\ batch'[c].phase # "broken"
  <2>1. CASE c = b
    BY <1>1, <2>1 DEF HasRead
  <2>2. CASE c # b
    BY <1>1, <2>2 DEF TurnInv
  <2>3. QED
    BY <2>1, <2>2
<1>6. QED
  BY <1>3, <1>4, <1>5 DEF TurnInv

\* A flush that reads, signs, is checked or fails leaves the chain as it is, and finds
\* the latest digest to be its own.
LEMMA TurnPhaseChange ==
  ASSUME Inv, TurnInv, NEW b \in Batches, UNCHANGED chain,
         ReadLatest(b) \/ Sign(b) \/ CheckChain(b) \/ WriteBatch(b)
  PROVE  TurnInv'
<1>1. \A c \in Batches : c # b => batch'[c] = batch[c]
  BY BatchStepKeeps
<1>2. /\ batch[b].phase # "stored"
      /\ batch'[b].phase # "broken"
      /\ batch'[b].phase \in HasRead => batch'[b].prev = LatestDigest(batch'[b].ws)
  <2>1. batch \in [Batches -> BatchRecord]
    BY DEF Inv, TypeOK
  <2>2. batch[b].phase \in HasRead => batch[b].prev = LatestDigest(batch[b].ws)
    BY DEF TurnInv
  <2>3. CASE ReadLatest(b)
    BY <2>1, <2>3 DEF ReadLatest, BatchRecord
  <2>4. CASE Sign(b)
    BY <2>1, <2>2, <2>4 DEF Sign, Reject, BatchRecord, HasRead, InFlight
  <2>5. CASE CheckChain(b)
    <3>1. batch[b].prev = LatestDigest(batch[b].ws)
      BY <2>2, <2>5 DEF CheckChain, HasRead, InFlight
    <3>2. CASE AtomicAppend
      BY <2>1, <2>5, <3>1, <3>2 DEF CheckChain, Persist, BatchRecord, HasRead, InFlight
    <3>3. CASE ~AtomicAppend
      BY <2>1, <2>5, <3>1, <3>3 DEF CheckChain, BatchRecord
    <3>4. QED
      BY <3>2, <3>3
  <2>6. CASE WriteBatch(b)
    BY <2>1, <2>6 DEF WriteBatch, Persist, Reject, BatchRecord, HasRead, InFlight
  <2>7. QED
    BY <2>3, <2>4, <2>5, <2>6
<1>3. \A v \in Workspaces : \A i \in DOMAIN chain[v] :
        batch'[chain[v][i]] = batch[chain[v][i]]
  BY <1>1, <1>2 DEF Inv, TypeOK, ChainOfStored
<1>4. ChainVerifies'
  BY <1>3 DEF TurnInv, ChainVerifies
<1>5. \A v : LatestDigest(v)' = LatestDigest(v)
  BY DEF LatestDigest
<1>6. QED
  BY <1>1, <1>2, <1>4, <1>5 DEF TurnInv

\* A flush that stores its batch names the latest digest, and no other flush of its
\* workspace has read one.
LEMMA TurnPersist ==
  ASSUME Inv, TurnInv, FlushesTakeTurns, NEW b \in Batches, batch[b].phase \in HasRead,
         Persist(b)
  PROVE  TurnInv'
<1>1. /\ batch'[b].phase = "stored"
      /\ batch[b].ws \in Workspaces
      /\ \A c \in Batches : c # b => batch'[c] = batch[c]
      /\ \A v \in Workspaces : v # batch[b].ws => chain'[v] = chain[v]
  BY DEF Inv, TypeOK, BatchesOfWorkspace, BatchRecord, HasRead, InFlight, Persist
<1>2. ChainVerifies'
  BY PersistLinks DEF TurnInv, HasRead
<1>3. ASSUME NEW c \in Batches
      PROVE  (/\ batch[c].phase \in HasRead => batch[c].prev = LatestDigest(batch[c].ws)
              /\ batch[c].phase # "broken")'
  <2>1. CASE c = b
    BY <1>1, <2>1 DEF HasRead, InFlight
  <2>2. CASE c # b /\ batch[c].phase \in HasRead
    <3>1. batch[c].ws \in Workspaces /\ batch[c].ws # batch[b].ws
      BY <2>2 DEF Inv, BatchesOfWorkspace, FlushesTakeTurns, HasRead, InFlight
    <3>2. batch'[c] = batch[c] /\ chain'[batch[c].ws] = chain[batch[c].ws]
      BY <1>1, <2>2, <3>1
    <3>3. batch[c].prev = LatestDigest(batch[c].ws) /\ batch[c].phase # "broken"
      BY <2>2 DEF TurnInv
    <3>4. QED
      BY <3>2, <3>3 DEF LatestDigest
  <2>3. CASE c # b /\ batch[c].phase \notin HasRead
    BY <1>1, <2>3 DEF TurnInv
  <2>4. QED
    BY <2>1, <2>2, <2>3
<1>4. QED
  BY <1>2, <1>3 DEF TurnInv

LEMMA TurnInvariance == Spec /\ []FlushesTakeTurns => []TurnInv
<1>1. Init => TurnInv
  BY DEF Init, NoBatch, TurnInv, ChainVerifies, HasRead, InFlight
<1>2. Inv /\ FlushesTakeTurns /\ TurnInv /\ [Next]_vars => TurnInv'
  <2>1. SUFFICES ASSUME Inv, FlushesTakeTurns, TurnInv, [Next]_vars
                 PROVE  TurnInv'
    OBVIOUS
  <2>2. CASE UNCHANGED <<batch, chain>>
    BY <2>1, <2>2 DEF TurnInv, ChainVerifies, LatestDigest
  <2>3. CASE \E w \in Workspaces, evs \in SUBSET Events, b \in Batches : StartFlush(w, evs, b)
    BY <2>1, <2>3, TurnStartFlush
  <2>4. ASSUME NEW b \in Batches,
               ReadLatest(b) \/ Sign(b) \/ CheckChain(b) \/ WriteBatch(b)
        PROVE  TurnInv'
    <3>1. CASE UNCHANGED chain
      BY <2>1, <2>4, <3>1, TurnPhaseChange
    <3>2. CASE ~UNCHANGED chain
      <4>1. Persist(b) /\ batch[b].phase \in HasRead
        BY <2>4, <3>2 DEF ReadLatest, Sign, CheckChain, WriteBatch, HasRead, InFlight
      <4>2. QED
        BY <2>1, <4>1, TurnPersist
    <3>3. QED
      BY <3>1, <3>2
  <2>5. QED
    BY <2>1, <2>2, <2>3, <2>4, StoreStep
<1>3. QED
  BY <1>1, <1>2, Invariance, PTL DEF Spec

\* Over every store, and with any failures of signer and store, the chain of every
\* workspace verifies as long as its flushes take turns.
THEOREM TurnsKeepTheChain == Spec /\ []FlushesTakeTurns => []ChainVerifies
<1>1. TurnInv => ChainVerifies
  BY DEF TurnInv
<1>2. QED
  BY <1>1, TurnInvariance, PTL

\* Over every store, no event is dropped with a chain break as long as the flushes of
\* its workspace take turns.
THEOREM TurnsDropNoEvent == Spec /\ []FlushesTakeTurns => []NoEventDropped
<1>1. TurnInv => NoEventDropped
  BY DEF TurnInv, NoEventDropped
<1>2. QED
  BY <1>1, TurnInvariance, PTL

-----------------------------------------------------------------------------
(* The emitter implements the abstract audit log                           *)

\* The stored log of one workspace.
LEMMA StoredLogType ==
  ASSUME Inv, NEW w \in Workspaces
  PROVE  /\ StoredLog[w] \in Seq(SUBSET Events)
         /\ Len(StoredLog[w]) = Len(chain[w])
         /\ DOMAIN StoredLog[w] = 1 .. Len(chain[w])
         /\ \A i \in 1 .. Len(chain[w]) : StoredLog[w][i] = batch[chain[w][i]].events
<1>1. Len(chain[w]) \in Nat /\ DOMAIN chain[w] = 1 .. Len(chain[w])
  BY LatestDigestOfChain DEF Inv
<1>2. \A i \in DOMAIN chain[w] : batch[chain[w][i]].events \in SUBSET Events
  BY DEF Inv, TypeOK, BatchRecord
<1>3. StoredLog[w] = [i \in 1 .. Len(chain[w]) |-> batch[chain[w][i]].events]
  BY <1>1 DEF StoredLog
<1>4. QED
  BY <1>1, <1>2, <1>3

\* The log of a workspace is untouched while its chain and the events of the
\* batches are.
LEMMA StoredLogKept ==
  ASSUME Inv, NEW w \in Workspaces, chain'[w] = chain[w],
         \A i \in DOMAIN chain[w] : batch'[chain[w][i]].events = batch[chain[w][i]].events
  PROVE  StoredLog'[w] = StoredLog[w]
BY DEF StoredLog

\* A sequence of one element more than another, whose elements it begins with, is
\* that one with its last element appended.
LEMMA IsAppend ==
  ASSUME NEW S, NEW s \in Seq(S), NEW x \in S, NEW n \in Nat, n = Len(s),
         NEW t \in Seq(S), Len(t) = n + 1,
         \A i \in 1 .. n : t[i] = s[i],
         t[n + 1] = x
  PROVE  t = Append(s, x)
<1>1. /\ Append(s, x) \in Seq(S)
      /\ Len(Append(s, x)) = n + 1
      /\ \A i \in 1 .. n : Append(s, x)[i] = s[i]
      /\ Append(s, x)[n + 1] = x
  BY AppendProperties
<1>2. \A i \in 1 .. n + 1 : i \in 1 .. n \/ i = n + 1
  OBVIOUS
<1>3. \A i \in 1 .. n + 1 : t[i] = Append(s, x)[i]
  BY <1>1, <1>2
<1>4. QED
  BY <1>1, <1>3, SeqEqual

\* Storing a batch appends its events to the log of its workspace.
LEMMA PersistAppends ==
  ASSUME Inv, NEW b \in Batches, batch[b].phase \in InFlight, Persist(b)
  PROVE  \E w \in Workspaces, evs \in SUBSET Events : AuditLog!AppendBatch(w, evs)
<1> DEFINE w == batch[b].ws
           evs == batch[b].events
           n == Len(chain[w])
<1>1. /\ w \in Workspaces
      /\ evs # {}
      /\ evs \in SUBSET Events
      /\ \A e \in evs : WorkspaceOf[e] = w
      /\ batch[b].phase # "stored"
  BY DEF Inv, TypeOK, BatchRecord, BatchesOfWorkspace, InFlight
<1>2. \A c \in Batches : batch'[c].events = batch[c].events
  BY DEF Inv, TypeOK, BatchRecord, Persist
<1>3. \A v \in Workspaces : \A i \in DOMAIN chain[v] :
        chain[v][i] \in Batches /\ chain[v][i] # b
  BY <1>1 DEF Inv, TypeOK, ChainOfStored
<1>4. /\ n \in Nat
      /\ DOMAIN chain[w] = 1 .. n
      /\ DOMAIN chain'[w] = 1 .. n + 1
      /\ \A i \in 1 .. n : chain'[w][i] = chain[w][i]
      /\ chain'[w][n + 1] = b
      /\ \A v \in Workspaces : v # w => chain'[v] = chain[v]
  BY <1>1, LatestDigestOfChain DEF Inv, TypeOK, Persist
<1>5. /\ StoredLog[w] \in Seq(SUBSET Events)
      /\ Len(StoredLog[w]) = n
      /\ DOMAIN StoredLog[w] = 1 .. n
      /\ \A i \in 1 .. n : StoredLog[w][i] = batch[chain[w][i]].events
  BY <1>1, StoredLogType
<1>6. evs \subseteq AuditLog!EventsOf(w) \ AuditLog!Logged(w)
  <2>1. \A i \in 1 .. n : \A e \in evs : e \notin StoredLog[w][i]
    <3>1. ASSUME NEW i \in 1 .. n, NEW e \in evs
          PROVE  e \notin StoredLog[w][i]
      <4>1. PICK c : c = chain[w][i]
        OBVIOUS
      <4>2. i \in DOMAIN chain[w] /\ StoredLog[w][i] = batch[c].events
        BY <1>4, <1>5, <4>1
      <4>3. c \in Batches /\ c # b
        BY <1>1, <1>3, <4>1, <4>2
      <4>4. QED
        BY <1>1, <4>2, <4>3 DEF Inv, HomesDisjoint
    <3>2. QED
      BY <3>1
  <2>2. QED
    BY <1>1, <1>5, <2>1 DEF AuditLog!EventsOf, AuditLog!Logged
<1>7. StoredLog'[w] = Append(StoredLog[w], evs)
  <2>1. StoredLog'[w] = [i \in 1 .. n + 1 |-> batch'[chain'[w][i]].events]
    BY <1>1, <1>4 DEF StoredLog
  <2>2. \A i \in 1 .. n : batch'[chain'[w][i]].events = StoredLog[w][i]
    <3>1. ASSUME NEW i \in 1 .. n
          PROVE  batch'[chain'[w][i]].events = StoredLog[w][i]
      <4>1. PICK c : c = chain[w][i]
        OBVIOUS
      <4>2. i \in DOMAIN chain[w] /\ c \in Batches /\ chain'[w][i] = c
        BY <1>1, <1>3, <1>4, <4>1
      <4>3. batch'[c].events = batch[c].events /\ StoredLog[w][i] = batch[c].events
        BY <1>2, <1>5, <4>1, <4>2
      <4>4. QED
        BY <4>2, <4>3
    <3>2. QED
      BY <3>1
  <2>3. batch'[chain'[w][n + 1]].events = evs
    BY <1>2, <1>4
  <2> DEFINE T == SUBSET Events
             log == StoredLog[w]
             next == StoredLog'[w]
  <2>4. /\ log \in Seq(T) /\ evs \in T
        /\ n \in Nat /\ n = Len(log)
    BY <1>1, <1>4, <1>5
  <2>5. /\ next \in Seq(T) /\ Len(next) = n + 1
        /\ \A i \in 1 .. n + 1 : next[i] = batch'[chain'[w][i]].events
    <3>1. n + 1 \in Nat
      BY <1>4
    <3>2. \A i \in 1 .. n + 1 : batch'[chain'[w][i]].events \in T
      <4>1. \A i \in 1 .. n + 1 : i \in 1 .. n \/ i = n + 1
        BY <1>4
      <4>2. \A i \in 1 .. n : StoredLog[w][i] \in T
        BY <2>4
      <4>3. QED
        BY <1>1, <2>2, <2>3, <4>1, <4>2
    <3> HIDE DEF T, n
    <3>3. next \in [1 .. n + 1 -> T]
      BY <2>1, <3>2
    <3>4. \A i \in 1 .. n + 1 : next[i] = batch'[chain'[w][i]].events
      BY <2>1
    <3> HIDE DEF next
    <3>5. QED
      BY <3>1, <3>3, <3>4
  <2>6. /\ \A i \in 1 .. n : next[i] = log[i]
        /\ next[n + 1] = evs
    <3>1. n + 1 \in 1 .. n + 1 /\ \A i \in 1 .. n : i \in 1 .. n + 1
      BY <1>4
    <3> HIDE DEF next, n, evs
    <3>2. QED
      BY <2>2, <2>3, <2>5, <3>1
  <2> HIDE DEF T, log, next, n, evs
  <2>7. next = Append(log, evs)
    BY <2>4, <2>5, <2>6, IsAppend
  <2>8. QED
    BY <2>7 DEF next, log
<1>8. \A v \in Workspaces : v # w => StoredLog'[v] = StoredLog[v]
  BY <1>2, <1>3, <1>4, StoredLogKept
<1>9. StoredLog' = [StoredLog EXCEPT ![w] = Append(@, evs)]
  BY <1>1, <1>7, <1>8 DEF StoredLog
<1>10. QED
  BY <1>1, <1>6, <1>9 DEF AuditLog!AppendBatch

\* Over every store, even one whose chain forks, the emitter only ever appends
\* to a workspace's log a non-empty batch of its events none of which is logged.
THEOREM Refinement == Spec => ImplementsAuditChain
<1>1. Init => AuditLog!Init
  BY DEF Init, AuditLog!Init, StoredLog
<1>2. Inv /\ [Next]_vars => [AuditLog!Next]_StoredLog
  <2>1. SUFFICES ASSUME Inv, [Next]_vars
                 PROVE  AuditLog!Next \/ StoredLog' = StoredLog
    OBVIOUS
  <2>2. ASSUME chain' = chain,
               \A w \in Workspaces : \A i \in DOMAIN chain[w] :
                 batch'[chain[w][i]].events = batch[chain[w][i]].events
        PROVE  StoredLog' = StoredLog
    BY <2>2 DEF StoredLog
  <2>3. \A w \in Workspaces : \A i \in DOMAIN chain[w] :
          chain[w][i] \in Batches /\ batch[chain[w][i]].phase = "stored"
    BY <2>1 DEF Inv, TypeOK, ChainOfStored
  <2>4. CASE UNCHANGED <<batch, chain>>
    BY <2>2, <2>4
  <2>5. ASSUME NEW w \in Workspaces, NEW evs \in SUBSET Events, NEW b \in Batches,
               StartFlush(w, evs, b)
        PROVE  StoredLog' = StoredLog
    <3>1. /\ chain' = chain
          /\ batch[b].phase = "unused"
          /\ \A c \in Batches : c # b => batch'[c] = batch[c]
      BY <2>1, <2>5 DEF Inv, TypeOK, StartFlush
    <3>2. QED
      BY <2>2, <2>3, <3>1
  <2>6. ASSUME NEW b \in Batches,
               ReadLatest(b) \/ Sign(b) \/ CheckChain(b) \/ WriteBatch(b)
        PROVE  AuditLog!Next \/ StoredLog' = StoredLog
    <3>1. /\ batch[b].phase \in InFlight
          /\ \A c \in Batches : batch'[c].events = batch[c].events
          /\ UNCHANGED chain \/ Persist(b)
      BY <2>1, <2>6, BatchStepKeeps
    <3>2. CASE UNCHANGED chain
      BY <2>2, <2>3, <3>1, <3>2
    <3>3. CASE Persist(b)
      BY <2>1, <3>1, <3>3, PersistAppends DEF AuditLog!Next
    <3>4. QED
      BY <3>1, <3>2, <3>3
  <2>7. QED
    BY <2>1, <2>4, <2>5, <2>6, StoreStep
<1>3. QED
  BY <1>1, <1>2, Invariance, PTL DEF Spec, ImplementsAuditChain, AuditLog!Spec
=============================================================================
