---------------------------- MODULE AuditEmitter ----------------------------
(***************************************************************************)
(* The AuditEmitter of os-audit over one of its three batch stores.        *)
(*                                                                         *)
(* JavaScript runs one continuation at a time, so an action is the code    *)
(* between two awaits: ingest before and after hashEvent, flush up to      *)
(* latestDigest, the signer's answer, the store's check of prevBatchHash   *)
(* and its write.  The three stores differ only in where they await:       *)
(*   memory  latestDigest and append run to their end when called;         *)
(*   sqlite  latestDigest reads when called, but append awaits it before   *)
(*           the insert;                                                   *)
(*   file    both read the file first and write it later.                  *)
(*                                                                         *)
(* A batch's digest covers its batchId, so the identity of a batch stands  *)
(* for its digest; Merkle roots and signatures are recomputed from the     *)
(* batch itself and cannot disagree with it here.                          *)
(***************************************************************************)
EXTENDS Naturals, FiniteSets, Sequences

CONSTANTS
  Workspaces,         \* the workspaces whose events are audited
  Events,             \* the calls of ingest
  WorkspaceOf,        \* the workspace of each ingested event
  Batches,            \* batch ids handed out by newBatchId
  Genesis,            \* GENESIS_PREV_HASH
  None,               \* undefined
  MaxEventsPerBatch,  \* opts.maxEventsPerBatch
  Store,              \* "memory", "sqlite" or "file"
  Faults              \* whether the signer or the store's write may reject

ASSUME ConstantsAssumption ==
  /\ WorkspaceOf \in [Events -> Workspaces]
  /\ Genesis \notin Batches
  /\ None \notin Batches
  /\ MaxEventsPerBatch \in Nat \ {0}
  /\ Store \in {"memory", "sqlite", "file"}
  /\ Faults \in BOOLEAN

VARIABLES
  ingest,   \* where each call of ingest stands
  buffer,   \* per workspace, the buffered events; {} when there is no buffer
  batch,    \* per batch id, the flush that builds it
  chain,    \* per workspace, the ids of the batches the store holds
  drain     \* the callers of flushAll: dispose(), and close()

vars == <<ingest, buffer, batch, chain, drain>>

Drainers == {"dispose", "close"}

\* latestDigest has read the store by the time flush() first awaits
ReadAtCall == Store # "file"

\* append compares prevBatchHash and stores the batch without an await
AtomicAppend == Store = "memory"

Closed == drain["close"].pc = "done"

InFlight == {"reading", "signing", "checking", "writing"}
Rejected == {"broken", "faulted"}

NoBatch == [phase |-> "unused", ws |-> None, events |-> {}, prev |-> None]

LatestDigest(w) ==
  IF chain[w] = <<>> THEN Genesis ELSE chain[w][Len(chain[w])]

HeldEvents(w) == UNION {batch[chain[w][i]].events : i \in DOMAIN chain[w]}

Init ==
  /\ ingest = [e \in Events |-> "new"]
  /\ buffer = [w \in Workspaces |-> {}]
  /\ batch = [b \in Batches |-> NoBatch]
  /\ chain = [w \in Workspaces |-> <<>>]
  /\ drain = [d \in Drainers |-> [pc |-> "idle", todo |-> {}, awaiting |-> None]]

-----------------------------------------------------------------------------
\* Mutants of StartFlush: the buffer is not dropped; the digest is not read; the
\* position in the chain is taken for the digest.
StartFlushKeepsBuffer(w, evs, b) ==
  /\ evs # {} /\ batch[b].phase = "unused"
  /\ batch' = [batch EXCEPT ![b] =
       [phase |-> "signing", ws |-> w, events |-> evs, prev |-> LatestDigest(w)]]
  /\ UNCHANGED <<buffer, chain>>

StartFlushUnread(w, evs, b) ==
  /\ evs # {} /\ batch[b].phase = "unused"
  /\ buffer' = [buffer EXCEPT ![w] = {}]
  /\ batch' = [batch EXCEPT ![b] =
       [phase |-> "signing", ws |-> w, events |-> evs, prev |-> None]]
  /\ UNCHANGED chain

StartFlushNumbered(w, evs, b) ==
  /\ evs # {} /\ batch[b].phase = "unused"
  /\ buffer' = [buffer EXCEPT ![w] = {}]
  /\ batch' = [batch EXCEPT ![b] =
       [phase |-> "signing", ws |-> w, events |-> evs, prev |-> Len(chain[w])]]
  /\ UNCHANGED chain

(* flush(w): take the buffer's events, drop the buffer and its timer, ask  *)
(* the store for the digest to chain to.  evs is what the buffer holds.     *)
StartFlush(w, evs, b) ==
  /\ evs # {}
  /\ batch[b].phase = "unused"
  /\ buffer' = [buffer EXCEPT ![w] = {}]
  /\ batch' = [batch EXCEPT ![b] =
       [phase  |-> IF ReadAtCall THEN "signing" ELSE "reading",
        ws     |-> w,
        events |-> evs,
        prev   |-> IF ReadAtCall THEN LatestDigest(w) ELSE None]]
  /\ UNCHANGED chain

\* ingest(event) up to its await: refused once closed, else hashing
Ingest(e) ==
  /\ ingest[e] = "new"
  /\ ingest' = [ingest EXCEPT ![e] = IF Closed THEN "refused" ELSE "hashing"]
  /\ UNCHANGED <<buffer, batch, chain, drain>>

\* hashEvent resolved: buffer the event, flush when the buffer is full
Buffered(e) ==
  LET w == WorkspaceOf[e]
      evs == buffer[w] \cup {e}
  IN /\ ingest[e] = "hashing"
     /\ ingest' = [ingest EXCEPT ![e] = "taken"]
     /\ IF Cardinality(evs) >= MaxEventsPerBatch
        THEN \E b \in Batches : StartFlush(w, evs, b)
        ELSE /\ buffer' = [buffer EXCEPT ![w] = evs]
             /\ UNCHANGED <<batch, chain>>
     /\ UNCHANGED drain

\* the buffer's timer fires, or a caller of flush(w): every buffer has a timer
Flush(w) ==
  /\ \E b \in Batches : StartFlush(w, buffer[w], b)
  /\ UNCHANGED <<ingest, drain>>

\* the file store's latestDigest has read the file
ReadLatest(b) ==
  /\ batch[b].phase = "reading"
  /\ batch' = [batch EXCEPT ![b] =
       [@ EXCEPT !.prev = LatestDigest(batch[b].ws), !.phase = "signing"]]
  /\ UNCHANGED <<ingest, buffer, chain, drain>>

Reject(b, why) == batch' = [batch EXCEPT ![b].phase = why]

\* Mutant of Persist: the batch is put in front of the chain.
PersistFirst(b) ==
  /\ batch' = [batch EXCEPT ![b].phase = "stored"]
  /\ chain' = [chain EXCEPT ![batch[b].ws] = <<b>> \o @]

Persist(b) ==
  /\ batch' = [batch EXCEPT ![b].phase = "stored"]
  /\ chain' = [chain EXCEPT ![batch[b].ws] = Append(@, b)]

\* the signer answers: append is called, or the flush rejects
Sign(b) ==
  /\ batch[b].phase = "signing"
  /\ \/ batch' = [batch EXCEPT ![b].phase = "checking"]
     \/ Faults /\ Reject(b, "faulted")
  /\ UNCHANGED <<ingest, buffer, chain, drain>>

\* Mutant of CheckChain: append does not compare prevBatchHash.
CheckChainUnchecked(b) ==
  /\ batch[b].phase = "checking"
  /\ Persist(b)
  /\ UNCHANGED <<ingest, buffer, drain>>

\* append compares prevBatchHash with the latest digest: "chain break" rejects
CheckChain(b) ==
  /\ batch[b].phase = "checking"
  /\ IF batch[b].prev # LatestDigest(batch[b].ws)
     THEN Reject(b, "broken") /\ UNCHANGED chain
     ELSE IF AtomicAppend
          THEN Persist(b)
          ELSE /\ batch' = [batch EXCEPT ![b].phase = "writing"]
               /\ UNCHANGED chain
  /\ UNCHANGED <<ingest, buffer, drain>>

\* the sqlite insert, or the file's appendFile
WriteBatch(b) ==
  /\ batch[b].phase = "writing"
  /\ \/ Persist(b)
     \/ Faults /\ Reject(b, "faulted") /\ UNCHANGED chain
  /\ UNCHANGED <<ingest, buffer, drain>>

-----------------------------------------------------------------------------
(* flushAll(): the workspaces with a buffer when it is called, one flush    *)
(* awaited after the other; close() sets closed when it returns.            *)

Dirty == {w \in Workspaces : buffer[w] # {}}

DrainStart(d) ==
  /\ drain[d].pc \in {"idle", "failed"}
  /\ \/ /\ Dirty = {}
        /\ drain' = [drain EXCEPT ![d] =
             [pc |-> "flushing", todo |-> {}, awaiting |-> None]]
        /\ UNCHANGED <<buffer, batch, chain>>
     \/ \E w \in Dirty, b \in Batches :
          /\ StartFlush(w, buffer[w], b)
          /\ drain' = [drain EXCEPT ![d] =
               [pc |-> "flushing", todo |-> Dirty \ {w}, awaiting |-> b]]
  /\ UNCHANGED ingest

\* the next workspace of the snapshot; its buffer may be gone by now
DrainNext(d) ==
  /\ drain[d].pc = "flushing"
  /\ drain[d].awaiting = None
  /\ \E w \in drain[d].todo :
       \/ /\ buffer[w] = {}
          /\ drain' = [drain EXCEPT ![d].todo = @ \ {w}]
          /\ UNCHANGED <<buffer, batch, chain>>
       \/ \E b \in Batches :
            /\ StartFlush(w, buffer[w], b)
            /\ drain' = [drain EXCEPT ![d] = [@ EXCEPT !.todo = drain[d].todo \ {w}, !.awaiting = b]]
  /\ UNCHANGED ingest

\* Mutant of DrainResume: the rejection of an awaited flush is not noticed.
DrainResumeOnStored(d) ==
  /\ drain[d].pc = "flushing"
  /\ drain[d].awaiting # None
  /\ batch[drain[d].awaiting].phase = "stored"
  /\ drain' = [drain EXCEPT ![d].awaiting = None]
  /\ UNCHANGED <<ingest, buffer, batch, chain>>

\* the awaited flush settled; a rejection leaves flushAll and close() early
DrainResume(d) ==
  /\ drain[d].pc = "flushing"
  /\ drain[d].awaiting # None
  /\ \/ /\ batch[drain[d].awaiting].phase = "stored"
        /\ drain' = [drain EXCEPT ![d].awaiting = None]
     \/ /\ batch[drain[d].awaiting].phase \in Rejected
        /\ drain' = [drain EXCEPT ![d] =
             [pc |-> "failed", todo |-> {}, awaiting |-> None]]
  /\ UNCHANGED <<ingest, buffer, batch, chain>>

DrainDone(d) ==
  /\ drain[d].pc = "flushing"
  /\ drain[d].awaiting = None
  /\ drain[d].todo = {}
  /\ drain' = [drain EXCEPT ![d].pc = "done"]
  /\ UNCHANGED <<ingest, buffer, batch, chain>>

-----------------------------------------------------------------------------
EmitterStep ==
  \/ \E e \in Events : Ingest(e) \/ Buffered(e)
  \/ \E w \in Workspaces : Flush(w)
  \/ \E b \in Batches : ReadLatest(b) \/ Sign(b) \/ CheckChain(b) \/ WriteBatch(b)

DrainStep(d) == DrainStart(d) \/ DrainNext(d) \/ DrainResume(d) \/ DrainDone(d)

Next == EmitterStep \/ \E d \in Drainers : DrainStep(d)

Spec == Init /\ [][Next]_vars

(* Promises settle and timers fire while the process lives; nobody is     *)
(* obliged to call ingest, close or dispose.                               *)
Fairness ==
  /\ \A e \in Events : WF_vars(Buffered(e))
  /\ \A w \in Workspaces : WF_vars(Flush(w))
  /\ \A b \in Batches :
       /\ WF_vars(ReadLatest(b)) /\ WF_vars(Sign(b))
       /\ WF_vars(CheckChain(b)) /\ WF_vars(WriteBatch(b))
  /\ \A d \in Drainers :
       WF_vars(DrainNext(d)) /\ WF_vars(DrainResume(d)) /\ WF_vars(DrainDone(d))

FairSpec == Spec /\ Fairness

-----------------------------------------------------------------------------
(* Properties                                                              *)

Phases == {"unused", "stored"} \cup InFlight \cup Rejected

BatchRecord == [phase : Phases, ws : Workspaces \cup {None},
                events : SUBSET Events, prev : Batches \cup {Genesis, None}]

DrainRecord == [pc : {"idle", "flushing", "failed", "done"},
                todo : SUBSET Workspaces, awaiting : Batches \cup {None}]

\* The type invariant of the emitter's buffers, its flushes and the store.
TypeOK ==
  /\ ingest \in [Events -> {"new", "hashing", "taken", "refused"}]
  /\ buffer \in [Workspaces -> SUBSET Events]
  /\ batch \in [Batches -> BatchRecord]
  /\ chain \in [Workspaces -> Seq(Batches)]
  /\ drain \in [Drainers -> DrainRecord]

\* verifyChain accepts what the store holds: each batch names the digest of
\* the batch stored before it, the first one the genesis digest, whatever the
\* order in which overlapping flushes of a workspace read, sign and append.
ChainVerifies ==
  \A w \in Workspaces : \A i \in DOMAIN chain[w] :
    batch[chain[w][i]].prev = IF i = 1 THEN Genesis ELSE chain[w][i - 1]

\* Where an event that ingest accepted is held.
Homes(e) ==
  {<<"buffer", w>> : w \in {v \in Workspaces : e \in buffer[v]}}
    \cup {<<"batch", b>> : b \in {c \in Batches : e \in batch[c].events}}

\* An accepted event is in exactly one buffer or one batch, however size,
\* timer and close flushes overlap: none is audited twice and none vanishes
\* between a buffer and the flush that takes it over.
EachEventHasOneHome ==
  \A e \in Events : IF ingest[e] = "taken" THEN \E h \in Homes(e) : Homes(e) = {h}
                                           ELSE Homes(e) = {}

\* A flush that fails with "chain break" lost a race: another batch of its
\* workspace was chained to the very digest it had read, so of the flushes
\* that compete for one digest one always wins.
LostToAWinner ==
  \A b \in Batches : batch[b].phase = "broken" =>
    \E i \in DOMAIN chain[batch[b].ws] :
      batch[chain[batch[b].ws][i]].prev = batch[b].prev

\* What the store holds, read as the abstract audit log.
StoredLog ==
  [w \in Workspaces |-> [i \in DOMAIN chain[w] |-> batch[chain[w][i]].events]]

AuditLog == INSTANCE AuditChain WITH log <- StoredLog

\* The emitter over its store implements AuditChain: batches are only ever
\* appended, each with events of its workspace that no batch held before.
ImplementsAuditChain == AuditLog!Spec

\* Every event that enters ingest before the close is in the end stored, or
\* was in a batch whose flush rejected: none stays in a buffer for ever.
EventsSettle ==
  \A e \in Events : ingest[e] = "hashing" ~>
    \E b \in Batches : e \in batch[b].events /\ batch[b].phase \in {"stored"} \cup Rejected

\* flushAll() works off the workspaces it found buffered when it was called, so
\* dispose() and close() return or reject however long ingest goes on.
DrainsEnd ==
  \A d \in Drainers : drain[d].pc = "flushing" ~> drain[d].pc \in {"done", "failed"}

\* With timers and close overlapping, and signer and store failing at will, no event and no
\* caller of flushAll waits for ever.
FlushesSettle == EventsSettle /\ DrainsEnd

\* The header of emitter.ts: events accumulate and are flushed into batch
\* records of the store.  No accepted event is dropped on the way when
\* neither the signer nor the store fails.
NoEventDropped ==
  \A e \in Events, b \in Batches :
    e \in batch[b].events => batch[b].phase # "broken"
=============================================================================
