----------------------------- MODULE FlowBranch -----------------------------
(***************************************************************************)
(* Branching from a past step: branchFromSnapshot of branch.ts turns the   *)
(* last snapshot of a finished run into the seeds of a new run of runFlow, *)
(* which in turn leaves a snapshot to branch from.                         *)
(***************************************************************************)
EXTENDS FlowRunner

CONSTANT MaxGeneration   \* how many times runs are branched from runs

VARIABLES
  generation,    \* 0 for the first run, n + 1 for a branch of generation n
  branchPoint,   \* the node this run was branched at
  parent         \* the snapshot it was branched from

branchVars == <<vars, generation, branchPoint, parent>>

BranchInit ==
  /\ Init
  /\ generation = 0
  /\ branchPoint = None
  /\ parent = None

\* Mutants of SeedsBefore: the branch point is seeded too; the node right before it
\* is not.
SeedsUpTo(snap, id) ==
  LET idx == CHOOSE i \in DOMAIN snap.executed : snap.executed[i] = id
  IN [n \in ToSet(SubSeq(snap.executed, 1, idx)) |-> snap.outcomes[n]]

SeedsWellBefore(snap, id) ==
  LET idx == CHOOSE i \in DOMAIN snap.executed : snap.executed[i] = id
  IN [n \in ToSet(SubSeq(snap.executed, 1, idx - 2)) |-> snap.outcomes[n]]

\* branchFromSnapshot: the outcomes of the nodes before the branch point in the
\* snapshot's executedOrder; a branch point outside it throws
SeedsBefore(snap, id) ==
  LET idx == CHOOSE i \in DOMAIN snap.executed : snap.executed[i] = id
      prior == ToSet(SubSeq(snap.executed, 1, idx - 1)) \cap DOMAIN snap.outcomes
  IN [n \in prior |-> snap.outcomes[n]]

\* the host branches the finished run and starts runFlow with the seeds
Branch(id) ==
  /\ pc = "returned"
  /\ snapshot # None
  /\ generation < MaxGeneration
  /\ id \in ToSet(snapshot.executed)
  /\ seeds' = SeedsBefore(snapshot, id)
  /\ generation' = generation + 1
  /\ branchPoint' = id
  /\ parent' = snapshot
  /\ pc' = "called"
  /\ node' = None
  /\ outcomes' = <<>>
  /\ executed' = <<>>
  /\ enabled' = {}
  /\ aborted' = FALSE
  /\ result' = NoResult
  /\ snapshot' = None
  /\ UNCHANGED <<flow, call, sorted>>

BranchNext ==
  \/ Next /\ UNCHANGED <<generation, branchPoint, parent>>
  \/ \E id \in Ids(flow) : Branch(id)

BranchSpec == BranchInit /\ [][BranchNext]_branchVars

-----------------------------------------------------------------------------
(* Properties                                                              *)

\* The comment on branchPoint in branch.ts, "This node will be re-executed from
\* scratch": a branched run that completes has executed its branch point.
BranchPointReexecuted ==
  generation > 0 /\ result.status \in {"completed", "skipped"} =>
    branchPoint \in ToSet(executed)

\* A branch never rewrites its past: the nodes executed before the branch point
\* keep their outcomes and are not run again.
PastIsKept ==
  generation > 0 /\ pc # "called" =>
    LET idx == CHOOSE i \in DOMAIN parent.executed : parent.executed[i] = branchPoint
    IN \A i \in 1 .. idx - 1 :
         /\ parent.executed[i] \notin ToSet(executed)
         /\ parent.executed[i] \in DOMAIN outcomes =>
              outcomes[parent.executed[i]] = parent.outcomes[parent.executed[i]]
         /\ result.status \notin {None, "cancelled", "failed"} =>
              parent.executed[i] \in DOMAIN outcomes

\* A branch goes on where its past ends: that past stays as it was, and a branch that
\* completes has decided every node that its outcomes open, those of the past included.
BranchGoesOn == PastIsKept /\ NothingLeftBehind
=============================================================================
