----------------------------- MODULE CodingRuns -----------------------------
(***************************************************************************)
(* One call of runDelegatedCodingTask or of runCodingAgentBenchmark: the   *)
(* shards (or providers) of a job get a worktree each, run, have their     *)
(* result recorded as an artifact and lose the worktree again.  An action  *)
(* is the code between two awaits.  A delegation prepares all shards       *)
(* before it runs any, and may run them in parallel, in which case the     *)
(* others go on when one of them rejects; a benchmark takes them one by    *)
(* one from worktree to clean-up.                                          *)
(***************************************************************************)
EXTENDS WorktreeManager, Sequences

CONSTANTS
  Jobs,         \* the calls to be made, see Job
  ProviderOf,   \* the provider of each shard: several may have the same
  TaskResults,  \* what runTask may come to, among Result
  NotYet        \* no result, no name

\* The status of a shard, "threw" being the "fail" of a runTask that rejected; whether it
\* edited the file that all may edit; whether an expected artifact is missing.
Result == [status : {"ok", "partial", "timeout", "fail", "threw"},
           edited : BOOLEAN, missing : BOOLEAN]

\* the results that are not the provider's: of a failed set-up, and of a rejection
Without(status) == [status |-> status, edited |-> FALSE, missing |-> FALSE]

Job == [kind : {"delegation", "benchmark"}, parallel : BOOLEAN,
        isolate : BOOLEAN, artifacts : BOOLEAN, dryRun : SUBSET Shards]

ASSUME JobsAssumption ==
  /\ TaskResults \subseteq Result
  /\ \A job \in Jobs : job \in Job
  /\ NotYet \notin Result

VARIABLES
  job,         \* the arguments of the call
  jobPc,       \* where the call is
  nextShard,   \* the index of the loop over the shards
  stage,       \* where each shard is
  branch,      \* the name reserved for each shard
  result,      \* what each shard came to
  rows,        \* the shards the report has a row for, in its order
  review,      \* whether the report was put into the human inbox
  aborted,     \* the abort signal
  unrecorded   \* history: shards whose artifact could not be written

codingVars == <<worktreeVars, job, jobPc, nextShard, stage, branch, result, rows,
                review, aborted, unrecorded>>

Stages == {"waiting", "adding", "refused", "unusable", "ready", "launched", "running",
           "recording", "removing", "done"}

\* the stages of a shard that some asynchronous function is busy with
Active == {"adding", "refused", "launched", "running", "recording", "removing"}

Busy == \E s \in Shards : stage[s] \in Active

Delegation == job.kind = "delegation"
Over == jobPc \in {"returned", "rejected"}

\* the shards of S by their index
InOrder(S) ==
  CHOOSE order \in [1 .. Cardinality(S) -> S] :
    \A i, j \in 1 .. Cardinality(S) : i < j => order[i] < order[j]

CodingInit ==
  /\ WorktreesInit
  /\ job \in Jobs
  /\ jobPc = "called"
  /\ nextShard = 1
  /\ stage = [s \in Shards |-> "waiting"]
  /\ branch = [s \in Shards |-> NotYet]
  /\ result = [s \in Shards |-> NotYet]
  /\ rows = <<>>
  /\ review = FALSE
  /\ aborted = FALSE
  /\ unrecorded = {}

-----------------------------------------------------------------------------
SettledLocals == <<job, nextShard, branch, result, rows, review, aborted>>

\* the checks at the top of a delegation; a benchmark has none
MayCall ==
  Delegation => /\ ~aborted
                /\ ~(job.parallel /\ ~job.isolate /\ job.dryRun # Shards)

Call ==
  /\ jobPc = "called"
  /\ jobPc' = IF MayCall THEN "looping" ELSE "rejected"
  /\ UNCHANGED <<SettledLocals, worktreeVars, stage, unrecorded>>

\* The signal is looked at before each shard.  A delegation rejects; a benchmark
\* records the cancellation, which may reject, and returns the rows it has.
StopAtSignal ==
  /\ jobPc = "looping"
  /\ nextShard \in Shards
  /\ ~Busy
  /\ aborted
  /\ \/ jobPc' = "rejected" /\ (Delegation \/ job.artifacts)
     \/ jobPc' = "returned" /\ ~Delegation
  /\ UNCHANGED <<SettledLocals, worktreeVars, stage, unrecorded>>

\* prepareShard, or the head of the benchmark's loop, up to git: without worktrees
\* the shard has the repository itself
Prepare ==
  /\ jobPc = "looping"
  /\ nextShard \in Shards
  /\ stage[nextShard] = "waiting"
  /\ ~Busy
  /\ ~aborted
  /\ IF job.isolate
     THEN /\ Reserve(nextShard)
          /\ stage' = [stage EXCEPT ![nextShard] = "adding"]
          /\ branch' = [branch EXCEPT ![nextShard] = uniqueBranch(nextShard)]
          /\ UNCHANGED nextShard
     ELSE /\ stage' = [stage EXCEPT ![nextShard] = IF Delegation THEN "ready" ELSE "launched"]
          /\ nextShard' = nextShard + 1
          /\ UNCHANGED <<worktreeVars, branch>>
  /\ UNCHANGED <<job, jobPc, result, rows, review, aborted, unrecorded>>

\* mkdtemp rejects, and the call with it
NoDirectory ==
  /\ jobPc = "looping"
  /\ nextShard \in Shards
  /\ ~Busy
  /\ ~aborted
  /\ job.isolate
  /\ jobPc' = "rejected"
  /\ UNCHANGED <<SettledLocals, worktreeVars, stage, unrecorded>>

WorktreeAdded(s) ==
  /\ stage[s] = "adding"
  /\ Added(s, branch[s])
  /\ stage' = [stage EXCEPT ![s] = IF Delegation THEN "ready" ELSE "launched"]
  /\ nextShard' = nextShard + 1
  /\ UNCHANGED <<job, jobPc, branch, result, rows, review, aborted, unrecorded>>

\* the shard fails; a benchmark has its row before the artifact is written
WorktreeRefused(s) ==
  /\ stage[s] = "adding"
  /\ NotAdded(s, branch[s])
  /\ stage' = [stage EXCEPT ![s] = "refused"]
  /\ result' = [result EXCEPT ![s] = Without("fail")]
  /\ rows' = IF Delegation THEN rows ELSE Append(rows, s)
  /\ UNCHANGED <<job, jobPc, nextShard, branch, review, aborted, unrecorded>>

\* the artifact of a failed set-up is written, or the call rejects
SetupRecorded(s) ==
  /\ stage[s] = "refused"
  /\ stage' = [stage EXCEPT ![s] = "unusable"]
  /\ nextShard' = nextShard + 1
  /\ \/ UNCHANGED <<jobPc, unrecorded>>
     \/ /\ job.artifacts
        /\ jobPc' = "rejected"
        /\ unrecorded' = unrecorded \cup {s}
  /\ UNCHANGED <<worktreeVars, job, branch, result, rows, review, aborted>>

-----------------------------------------------------------------------------
\* A delegation whose shards are all prepared runs them: together, or the next one
\* if the signal permits.
Launch ==
  /\ Delegation
  /\ jobPc = "looping"
  /\ nextShard \notin Shards
  /\ ~Busy
  /\ LET ready == {s \in Shards : stage[s] = "ready"}
     IN /\ ready # {}
        /\ IF job.parallel
           THEN /\ stage' = [s \in Shards |-> IF s \in ready THEN "launched" ELSE stage[s]]
                /\ UNCHANGED jobPc
           ELSE IF aborted
           THEN jobPc' = "rejected" /\ UNCHANGED stage
           ELSE /\ stage' = [stage EXCEPT ![InOrder(ready)[1]] = "launched"]
                /\ UNCHANGED jobPc
  /\ UNCHANGED <<SettledLocals, worktreeVars, unrecorded>>

\* the head commit has been read: runTask is called
RunTask(s) ==
  /\ stage[s] = "launched"
  /\ stage' = [stage EXCEPT ![s] = "running"]
  /\ UNCHANGED <<SettledLocals, worktreeVars, jobPc, unrecorded>>

TaskSettled(s) ==
  /\ stage[s] = "running"
  /\ \E r \in TaskResults : result' = [result EXCEPT ![s] = r]
  /\ stage' = [stage EXCEPT ![s] = "recording"]
  /\ UNCHANGED <<worktreeVars, job, jobPc, nextShard, branch, rows, review, aborted,
                 unrecorded>>

Recorded(s) ==
  /\ stage[s] = "recording"
  /\ stage' = [stage EXCEPT ![s] = IF job.isolate THEN "removing" ELSE "done"]
  /\ rows' = IF Delegation THEN rows ELSE Append(rows, s)
  /\ UNCHANGED <<worktreeVars, job, jobPc, nextShard, branch, result, review, aborted,
                 unrecorded>>

\* Mutant of NotRecorded: a benchmark rejects without its finally block, too.
NotRecordedNorRemoved(s) ==
  /\ stage[s] = "recording"
  /\ job.artifacts
  /\ unrecorded' = unrecorded \cup {s}
  /\ stage' = [stage EXCEPT ![s] = "done"]
  /\ jobPc' = "rejected"
  /\ UNCHANGED <<worktreeVars, job, nextShard, branch, rows, review, aborted, result>>

\* The artifact cannot be written.  A delegation rejects at once and the worktree
\* stays.  A benchmark takes it for a rejection of runTask, tries to record that, and
\* rejects only if it cannot, its finally block removing the worktree.
NotRecorded(s) ==
  /\ stage[s] = "recording"
  /\ job.artifacts
  /\ unrecorded' = unrecorded \cup {s}
  /\ IF Delegation
     THEN /\ stage' = [stage EXCEPT ![s] = "done"]
          /\ jobPc' = "rejected"
          /\ UNCHANGED result
     ELSE IF result[s].status # "threw"
     THEN /\ result' = [result EXCEPT ![s] = Without("threw")]
          /\ UNCHANGED <<stage, jobPc>>
     ELSE /\ stage' = [stage EXCEPT ![s] = IF job.isolate THEN "removing" ELSE "done"]
          /\ jobPc' = "rejected"
          /\ UNCHANGED result
  /\ UNCHANGED <<worktreeVars, job, nextShard, branch, rows, review, aborted>>

\* finalize(taskId, 'delete'), whose failure nobody looks at
Finalized(s) ==
  /\ stage[s] = "removing"
  /\ Removed(s) \/ NotRemoved(s)
  /\ stage' = [stage EXCEPT ![s] = "done"]
  /\ UNCHANGED <<SettledLocals, jobPc, unrecorded>>

-----------------------------------------------------------------------------
\* collectConflicts: the file has edits of two providers; two shards of one are none
Conflicts ==
  \E s, t \in Shards :
    result[s].edited /\ result[t].edited /\ ProviderOf[s] # ProviderOf[t]

\* Or a shard failed, or something is missing; "partial" and "timeout" are no failures.
SuggestHumanInbox ==
  \/ Conflicts
  \/ \E s \in Shards : result[s].status \in {"fail", "threw"} \/ result[s].missing

\* Mutant of AllSettled: the report waits for results, not for artifacts and clean-ups.
AllSettledButRecording ==
  /\ nextShard \notin Shards
  /\ \A s \in Shards : stage[s] \in {"unusable", "recording", "removing", "done"}

\* Mutant of AllSettled: shards without a worktree are waited for.
AllSettledButUnusable ==
  /\ nextShard \notin Shards
  /\ \A s \in Shards : stage[s] = "done"

AllSettled ==
  /\ nextShard \notin Shards
  /\ \A s \in Shards : stage[s] \in {"unusable", "done"}

\* the report of a delegation: the unusable shards first, and a task for the inbox
Report ==
  /\ jobPc = "looping"
  /\ AllSettled
  /\ jobPc' = "returned"
  /\ IF Delegation
     THEN /\ rows' = InOrder({s \in Shards : stage[s] = "unusable"})
                       \o InOrder({s \in Shards : stage[s] # "unusable"})
          /\ review' = SuggestHumanInbox
     ELSE UNCHANGED <<rows, review>>
  /\ UNCHANGED <<worktreeVars, job, nextShard, stage, branch, result, aborted, unrecorded>>

\* the environment aborts
AbortJob ==
  /\ ~aborted
  /\ ~Over
  /\ aborted' = TRUE
  /\ UNCHANGED <<worktreeVars, job, jobPc, nextShard, stage, branch, result, rows, review,
                 unrecorded>>

JobStep ==
  \/ Call \/ StopAtSignal \/ Prepare \/ NoDirectory \/ Launch \/ Report
  \/ \E s \in Shards :
       \/ WorktreeAdded(s) \/ WorktreeRefused(s) \/ SetupRecorded(s)
       \/ RunTask(s) \/ TaskSettled(s) \/ Recorded(s) \/ NotRecorded(s) \/ Finalized(s)

CodingNext == JobStep \/ AbortJob

CodingSpec == CodingInit /\ [][CodingNext]_codingVars

-----------------------------------------------------------------------------
CodingTypeOK ==
  /\ WorktreesTypeOK
  /\ job \in Jobs
  /\ jobPc \in {"called", "looping", "returned", "rejected"}
  /\ nextShard \in 1 .. Cardinality(Shards) + 1
  /\ stage \in [Shards -> Stages]
  /\ branch \in [Shards -> Names \cup {NotYet}]
  /\ result \in [Shards -> Result \cup {NotYet}]
  /\ rows \in Seq(Shards)
  /\ review \in BOOLEAN
  /\ aborted \in BOOLEAN
  /\ unrecorded \subseteq Shards

\* Two agents that may write never run at the same time in the same directory: the
\* check at the top of a delegation is enough, though it looks only at the arguments,
\* also after one shard has made the call reject and while the others go on.
WritersIsolated ==
  \A s, t \in {u \in Shards : stage[u] = "running"} \ job.dryRun :
    s # t => s \in worktrees /\ t \in worktrees

\* When nothing runs any more, a worktree is left only where git failed or, in a
\* delegation that rejected, where the shard was not recorded or was never started.
\* A benchmark's finally block leaves none, whatever rejected.
WorktreesAccountedFor ==
  Over /\ ~Busy =>
    \A s \in worktrees \ misfired :
      Delegation /\ jobPc = "rejected" /\ (s \in unrecorded \/ stage[s] = "ready")

\* However shards are prepared, fail and are removed next to each other, writers stay in
\* worktrees of their own and no worktree is lost sight of.
WorktreesAreSound == WritersIsolated /\ WorktreesAccountedFor

\* A delegation that returns has waited for every shard, has one row for each, and
\* has asked for a human unless no shard failed, nothing is missing and all edits of the
\* file are by one provider, of however many shards; a benchmark has one row for each
\* provider it took up.
ReportIsWhole ==
  jobPc = "returned" =>
    /\ ~Busy
    /\ \A i, j \in DOMAIN rows : rows[i] = rows[j] => i = j
    /\ {rows[i] : i \in DOMAIN rows} =
         IF Delegation THEN Shards ELSE {s \in Shards : stage[s] # "waiting"}
    /\ Delegation /\ ~review =>
         /\ \A s \in Shards :
              result[s].status \in {"ok", "partial", "timeout"} /\ ~result[s].missing
         /\ \A s, t \in Shards :
              result[s].edited /\ result[t].edited => ProviderOf[s] = ProviderOf[t]
=============================================================================
