-------------------------- MODULE WorktreeManager ---------------------------
(***************************************************************************)
(* createCodingAgentWorktreeManager of os-dev-orchestrator over git: one   *)
(* worktree and one branch per task.  The manager remembers the names it   *)
(* has handed out and the tasks it has made; git remembers the worktrees   *)
(* and the branches, and never forgets a branch.  A git command that runs  *)
(* into its timeout is killed and reported as failed, whatever it did      *)
(* before it died.  A task is the index of its shard: task ids carry the   *)
(* clock, which moves on while git runs.  finalize is modelled for the     *)
(* outcome "delete", the only one its callers ask for.                     *)
(***************************************************************************)
EXTENDS Naturals, FiniteSets, FiniteSetsExt

CONSTANTS
  Shards,    \* the tasks, 1 .. n
  BaseName   \* the sanitised and shortened name of each: two may share one

ASSUME ShardsAssumption == IsFiniteSet(Shards) /\ Shards = 1 .. Cardinality(Shards)

VARIABLES
  usedBranches,  \* names handed out and not released
  tasks,         \* the manager's tasks, with the branch of each
  worktrees,     \* git: the tasks whose worktree exists
  gitBranches,   \* git: the branches that exist
  misfired       \* history: tasks of whom a git command was reported as failed

worktreeVars == <<usedBranches, tasks, worktrees, gitBranches, misfired>>

\* the names base, base-1, base-2, ...
Names == [base : {BaseName[s] : s \in Shards}, n : 0 .. Cardinality(Shards)]

uniqueBranch(s) ==
  [base |-> BaseName[s],
   n    |-> Min({n \in 0 .. Cardinality(usedBranches) :
                   [base |-> BaseName[s], n |-> n] \notin usedBranches})]

WorktreesInit ==
  /\ usedBranches = {}
  /\ tasks = <<>>
  /\ worktrees = {}
  /\ gitBranches = {}
  /\ misfired = {}

\* createForTask up to its git command: the name is reserved
Reserve(s) ==
  /\ usedBranches' = usedBranches \cup {uniqueBranch(s)}
  /\ UNCHANGED <<tasks, worktrees, gitBranches, misfired>>

\* git worktree add -b name, which refuses a branch that exists
Added(s, name) ==
  /\ name \notin gitBranches
  /\ gitBranches' = gitBranches \cup {name}
  /\ worktrees' = worktrees \cup {s}
  /\ tasks' = [t \in DOMAIN tasks \cup {s} |-> IF t = s THEN name ELSE tasks[t]]
  /\ UNCHANGED <<usedBranches, misfired>>

\* the same command failing, or killed before, between or after its two effects
NotAdded(s, name) ==
  /\ \/ UNCHANGED <<worktrees, gitBranches>>
     \/ /\ name \notin gitBranches
        /\ gitBranches' = gitBranches \cup {name}
        /\ worktrees' \in {worktrees, worktrees \cup {s}}
  /\ misfired' = misfired \cup {s}
  /\ UNCHANGED <<usedBranches, tasks>>

\* finalize(s, 'delete'), git worktree remove --force succeeding
Removed(s) ==
  /\ s \in DOMAIN tasks
  /\ worktrees' = worktrees \ {s}
  /\ usedBranches' = usedBranches \ {tasks[s]}
  /\ tasks' = [t \in DOMAIN tasks \ {s} |-> tasks[t]]
  /\ UNCHANGED <<gitBranches, misfired>>

\* ... and failing, or killed: the task and its name are kept
NotRemoved(s) ==
  /\ s \in DOMAIN tasks
  /\ worktrees' \in {worktrees, worktrees \ {s}}
  /\ misfired' = misfired \cup {s}
  /\ UNCHANGED <<usedBranches, tasks, gitBranches>>

WorktreesTypeOK ==
  /\ usedBranches \subseteq Names
  /\ tasks \in [DOMAIN tasks -> Names] /\ DOMAIN tasks \subseteq Shards
  /\ worktrees \subseteq Shards
  /\ gitBranches \subseteq Names
  /\ misfired \subseteq Shards
=============================================================================
