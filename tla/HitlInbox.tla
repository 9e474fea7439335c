------------------------------ MODULE HitlInbox ------------------------------
(***************************************************************************)
(* The in-memory inbox of tasks for a human of os-core, its snapshots, and *)
(* the reload that builds a new inbox from the last snapshot.  Operators   *)
(* decide from a list they have read before, so a decision may be the      *)
(* second one of its task.  Prompts, approvers, quorum, notes and times    *)
(* are data that no operation looks at.                                    *)
(***************************************************************************)

CONSTANT TaskIds

VARIABLES
  byId,      \* the inbox: the status of the tasks it holds
  snapshot,  \* the tasks of the last snapshot
  told,      \* history: of each task, the statuses that calls of decide returned
  toldThen   \* history: the same when the snapshot was taken

inboxVars == <<byId, snapshot, told, toldThen>>

Statuses == {"open", "approved", "rejected"}
Nobodys == [id \in TaskIds |-> {}]

InboxInit ==
  /\ byId = <<>>
  /\ snapshot = <<>>
  /\ told = Nobodys
  /\ toldThen = Nobodys

\* Mutant of StatusGiven: a task is open when it is put into an inbox.
StatusGivenUp(status) == "open"

\* enqueue takes the status it is given
StatusGiven(status) == status

\* a new task, or one whose id is taken and that is replaced
Enqueue(id) ==
  /\ byId' = [i \in DOMAIN byId \cup {id} |-> IF i = id THEN StatusGiven("open") ELSE byId[i]]
  /\ told' = [told EXCEPT ![id] = {}]
  /\ UNCHANGED <<snapshot, toldThen>>

\* decide returns the task as it is when it is not open any more; it throws for an id
\* that a reload has forgotten
Decide(id, decision) ==
  /\ id \in DOMAIN byId
  /\ byId' = IF byId[id] = "open" THEN [byId EXCEPT ![id] = decision] ELSE byId
  /\ told' = [told EXCEPT ![id] = @ \cup {byId'[id]}]
  /\ UNCHANGED <<snapshot, toldThen>>

\* snapshotHitlInbox
Snapshot ==
  /\ snapshot' = byId
  /\ toldThen' = told
  /\ UNCHANGED <<byId, told>>

\* restoreHitlInbox: every task of the snapshot is enqueued in a new inbox
Restore ==
  /\ byId' = [id \in DOMAIN snapshot |-> StatusGiven(snapshot[id])]
  /\ told' = toldThen
  /\ UNCHANGED <<snapshot, toldThen>>

InboxNext ==
  \/ \E id \in TaskIds : \/ Enqueue(id)
                         \/ \E decision \in {"approved", "rejected"} : Decide(id, decision)
  \/ Snapshot \/ Restore

InboxSpec == InboxInit /\ [][InboxNext]_inboxVars

-----------------------------------------------------------------------------
InboxTypeOK ==
  /\ byId \in [DOMAIN byId -> Statuses] /\ DOMAIN byId \subseteq TaskIds
  /\ snapshot \in [DOMAIN snapshot -> Statuses] /\ DOMAIN snapshot \subseteq TaskIds
  /\ told \in [TaskIds -> SUBSET Statuses]
  /\ toldThen \in [TaskIds -> SUBSET Statuses]

\* Every operator who decided a task was told the decision that the inbox holds, also
\* when another decided first and across reloads, as long as the task is not enqueued
\* anew and the reload is not to a time before the decision.
DecisionStands ==
  \A id \in TaskIds : \A status \in told[id] : id \in DOMAIN byId /\ byId[id] = status
=============================================================================
