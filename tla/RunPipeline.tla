---------------------------- MODULE RunPipeline ----------------------------
(***************************************************************************)
(* One research cycle's experiment pipeline: the run records, the jobs the *)
(* operators hand each other,                                              *)
(*   execution_setup -> execution_run -> execution_capture                 *)
(*     -> verification_check -> signal_classify -> recommend               *)
(*                           -> auto_remediate -> (a retry run's setup)    *)
(*                                -> verification_postmortem -> recommend, *)
(* the cycle status they move through the state machine, and the user's    *)
(* start, pause, resume, cancel and retry requests (experiment_service).   *)
(*                                                                         *)
(* An operator commits its own transaction; the worker commits the job's   *)
(* outcome and the state patch later, in another.  Everything that can     *)
(* happen between the two is what this module is about.  The queue itself  *)
(* is reduced to claim, start, settle and the reclaim of a dead worker's   *)
(* row: JobQueue has its races.  Metrics, code, images and prompts are     *)
(* abstracted to the outcomes they can have; cycles are user-driven, not   *)
(* autonomous.                                                             *)
(***************************************************************************)
EXTENDS Integers, Sequences, FiniteSets, FiniteSetsExt

CONSTANTS
    Workers,      \* worker process slots; a dead process is started again
    Specs,        \* the validated experiment specs of the cycle
    MaxReclaims,  \* settings.job_max_reclaims
    ControlOps,   \* the run control requests the user may send
    MaxRequests,  \* bound: start and control requests
    Scenarios     \* bounds of a behaviour, records of
                  \*   crew:     the workers that run
                  \*   attempts: remediate.DEFAULT_MAX_ATTEMPTS
                  \*   faults:   worker crashes and operator exceptions

ASSUME PipelineAssumption ==
    /\ IsFiniteSet(Workers)
    /\ MaxReclaims \in Nat
    /\ ControlOps \subseteq {"cancel", "pause", "resume", "retry"}
    /\ MaxRequests \in Nat
    /\ Scenarios \subseteq [crew : SUBSET Workers, attempts : Nat, faults : Nat]

VARIABLES
    cycle,       \* ResearchCycle.status
    spec_status, \* ExperimentSpec.status
    runs,        \* the run_records table, with what hangs off a run
    jobs,        \* the jobs table, in created_at order
    worktrees,   \* runs whose git worktree exists on disk
    frontier,    \* MetricFrontier.total_runs of the hypothesis line
    pc, job,     \* each worker: where it stands, and the job it holds (0: none)
    result,      \* how the container or the operator ended
    patch,       \* the cycle status in OperatorResult.state_patch
    seen,        \* total_runs as the worker's signal_classify read it (0: no row)
    api,         \* requests that have read their row and not yet committed
    requests, faults,
    scenario     \* the bounds of this behaviour (constant)

tables == <<cycle, spec_status, runs, jobs, worktrees, frontier>>
worker == <<pc, job, result, patch, seen>>
env    == <<api, requests, faults, scenario>>
vars   == <<tables, worker, env>>

CycleStatus == {"protocol_ready", "running", "verifying", "reporting"}
RunStatus   == {"pending", "building", "running", "paused", "capturing",
                "completed", "failed", "cancelled"}
JobStatus   == {"pending", "claimed", "running", "paused",
                "completed", "failed", "cancelled"}
Operators   == {"execution_setup", "execution_run", "execution_capture",
                "verification_check", "auto_remediate",
                "verification_postmortem", "signal_classify", "recommend"}
ExecutionOps == {"execution_setup", "execution_run", "execution_capture"}
RunIds      == 1..Len(runs)
JobIds      == 1..Len(jobs)

\* Mutant: a verified cycle cannot go back to running for a retry.
AllowedWithoutRetry ==
    {<<"protocol_ready", "running">>, <<"running", "verifying">>,
     <<"running", "running">>, <<"verifying", "reporting">>}

\* The part of ALLOWED_TRANSITIONS that experiments move through.
AllowedTransitions ==
    {<<"protocol_ready", "running">>, <<"running", "verifying">>,
     <<"running", "running">>, <<"verifying", "reporting">>,
     <<"verifying", "running">>}

Init ==
    /\ cycle = "protocol_ready"
    /\ spec_status = [s \in Specs |-> "validated"]
    /\ runs = <<>>
    /\ jobs = <<>>
    /\ worktrees = {}
    /\ frontier = 0
    /\ pc = [w \in Workers |-> "idle"]
    /\ job = [w \in Workers |-> 0]
    /\ result = [w \in Workers |-> "none"]
    /\ patch = [w \in Workers |-> "none"]
    /\ seen = [w \in Workers |-> 0]
    /\ api = {}
    /\ requests = 0
    /\ faults = 0
    /\ scenario \in Scenarios

-----------------------------------------------------------------------------
(* Rows. *)

\* A new run record.  container is what run.container_id refers to; actions
\* counts the RemediationAction rows of the run; overlapped is history: the run
\* was classified between another classification's read of the frontier and
\* its commit.
NewRun(parent) ==
    [status |-> "pending", parent |-> parent, failure |-> "none",
     workspace |-> FALSE, container |-> "none", actions |-> 0,
     exhausted |-> FALSE, reports |-> 0, postmortems |-> 0,
     signal |-> FALSE, overlapped |-> FALSE, recommendation |-> "none"]

NewJob(op, r, flag) ==
    [op |-> op, run |-> r, flag |-> flag, status |-> "pending", reclaims |-> 0]

\* flag is payload.resume of an execution_run, payload.failed of a recommend.
Enqueue(op, r, flag) == jobs' = Append(jobs, NewJob(op, r, flag))

SetJob(j, s) == [jobs EXCEPT ![j].status = s]

Holder(j) == {w \in Workers : job[w] = j}
RunOf(w)  == jobs[job[w]].run

\* load_lineage_run_ids: the ancestor chain of a run, itself included.
Lineage(r) ==
    LET chain[k \in 0..Len(runs)] ==
            IF k = 0 THEN {} ELSE {k} \cup chain[runs[k].parent]
    IN  chain[r]

\* count_lineage_attempts: RemediationAction rows along the chain.
LineageAttempts(r) == MapThenSumSet(LAMBDA k : runs[k].actions, Lineage(r))

-----------------------------------------------------------------------------
(* The worker around the operators. *)

ClaimJob(w) ==
    /\ pc[w] = "idle"
    /\ \E j \in JobIds :
          /\ jobs[j].status = "pending"
          /\ \A k \in 1..(j - 1) : jobs[k].status # "pending"
          /\ jobs' = SetJob(j, "claimed")
          /\ job' = [job EXCEPT ![w] = j]
    /\ pc' = [pc EXCEPT ![w] = "claimed"]
    /\ UNCHANGED <<cycle, spec_status, runs, worktrees, frontier, result, patch, seen, env>>

\* start_job, by id.
StartJob(w) ==
    /\ pc[w] = "claimed"
    /\ jobs' = SetJob(job[w], "running")
    /\ pc' = [pc EXCEPT ![w] = "executing"]
    /\ UNCHANGED <<cycle, spec_status, runs, worktrees, frontier, job, result, patch, seen, env>>

\* execute() dispatches to the operator registered for the job's type.
Executing(w, op) == pc[w] = "executing" /\ jobs[job[w]].op = op

\* The operator returns: success with a state patch, or failure.
Return(w, r, p) ==
    /\ pc' = [pc EXCEPT ![w] = "finished"]
    /\ result' = [result EXCEPT ![w] = r]
    /\ patch' = [patch EXCEPT ![w] = p]
    /\ seen' = [seen EXCEPT ![w] = 0]
    /\ UNCHANGED <<cycle, spec_status, job, env>>

Release(w) ==
    /\ pc' = [pc EXCEPT ![w] = "idle"]
    /\ job' = [job EXCEPT ![w] = 0]
    /\ result' = [result EXCEPT ![w] = "none"]
    /\ patch' = [patch EXCEPT ![w] = "none"]
    /\ seen' = [seen EXCEPT ![w] = 0]

\* A job cancelled meanwhile: acknowledged, and result and patch are dropped.
AcknowledgeCancel(w) ==
    /\ pc[w] = "finished"
    /\ jobs[job[w]].status = "cancelled"
    /\ Release(w)
    /\ UNCHANGED <<tables, env>>

PatchAllowed(w) == patch[w] = "none" \/ <<cycle, patch[w]>> \in AllowedTransitions

\* Apply the state patch and complete the job, or keep it paused.
SettleSuccess(w) ==
    /\ pc[w] = "finished" /\ result[w] = "success"
    /\ jobs[job[w]].status # "cancelled"
    /\ PatchAllowed(w)
    /\ cycle' = IF patch[w] = "none" THEN cycle ELSE patch[w]
    /\ jobs' = SetJob(job[w], IF jobs[job[w]].status = "paused"
                              THEN "paused" ELSE "completed")
    /\ Release(w)
    /\ UNCHANGED <<spec_status, runs, worktrees, frontier, env>>

\* validate_transition raises, the transaction rolls back, the process ends.
RejectedPatch(w) ==
    /\ pc[w] = "finished" /\ result[w] = "success"
    /\ jobs[job[w]].status # "cancelled"
    /\ ~PatchAllowed(w)
    /\ Release(w)
    /\ UNCHANGED <<tables, env>>

\* _mark_execution_job_failed and fail_job.
MarksRun(op) ==
    op \in ExecutionOps \cup {"verification_check", "verification_postmortem"}
SettleFailure(w) ==
    /\ pc[w] = "finished" /\ result[w] = "failure"
    /\ jobs[job[w]].status # "cancelled"
    /\ jobs' = SetJob(job[w], "failed")
    /\ runs' = [runs EXCEPT ![RunOf(w)].status =
          IF MarksRun(jobs[job[w]].op) /\ @ \notin {"failed", "cancelled"}
          THEN "failed" ELSE @]
    /\ Release(w)
    /\ UNCHANGED <<cycle, spec_status, worktrees, frontier, env>>

\* The process dies, wherever it is; what it had not committed is lost.
Crash(w) ==
    /\ job[w] # 0
    /\ faults < scenario.faults
    /\ faults' = faults + 1
    /\ Release(w)
    /\ UNCHANGED <<tables, api, requests, scenario>>

\* Mutant: rows claimed but never started are not reclaimed.
ReclaimStarted(j) ==
    /\ jobs[j].status = "running"
    /\ Holder(j) = {}
    /\ jobs' = IF jobs[j].reclaims + 1 <= MaxReclaims
               THEN [jobs EXCEPT ![j].status = "pending", ![j].reclaims = @ + 1]
               ELSE SetJob(j, "failed")
    /\ UNCHANGED <<cycle, spec_status, runs, worktrees, frontier, worker, env>>

\* reclaim_stale_jobs on a row whose worker died.
Reclaim(j) ==
    /\ jobs[j].status \in {"claimed", "running"}
    /\ Holder(j) = {}
    /\ jobs' = IF jobs[j].reclaims + 1 <= MaxReclaims
               THEN [jobs EXCEPT ![j].status = "pending", ![j].reclaims = @ + 1]
               ELSE SetJob(j, "failed")
    /\ UNCHANGED <<cycle, spec_status, runs, worktrees, frontier, worker, env>>

\* An operator raises and its open transaction rolls back (the database or the
\* file system fails it): execute() turns that into a failed result.
OperatorRaises(w) ==
    /\ pc[w] \in {"executing", "building", "stopped", "classifying"}
    /\ faults < scenario.faults
    /\ faults' = faults + 1
    /\ pc' = [pc EXCEPT ![w] = "finished"]
    /\ result' = [result EXCEPT ![w] = "failure"]
    /\ seen' = [seen EXCEPT ![w] = 0]
    /\ UNCHANGED <<tables, job, patch, api, requests, scenario>>

-----------------------------------------------------------------------------
(* Execution operators.  None of them looks at the status a run already has. *)

\* The run row is flushed, hence locked, from the start of setup to its commit.
RowLocked(r) == \E w \in Workers : pc[w] = "building" /\ RunOf(w) = r

FailRun(r, class) ==
    runs' = [runs EXCEPT ![r].status = "failed", ![r].failure = class]

\* execution_setup, first half: git worktree add, which fails on a worktree
\* an earlier execution left behind.
SetupWorktree(w) ==
    /\ Executing(w, "execution_setup")
    /\ ~RowLocked(RunOf(w))
    /\ \/ /\ RunOf(w) \notin worktrees
          /\ worktrees' = worktrees \cup {RunOf(w)}
          /\ pc' = [pc EXCEPT ![w] = "building"]
          /\ UNCHANGED <<cycle, spec_status, runs, jobs, frontier, job, result, patch, seen, env>>
       \/ /\ FailRun(RunOf(w), "mechanical")
          /\ Return(w, "failure", "none")
          /\ UNCHANGED <<jobs, worktrees, frontier>>

\* execution_setup, second half: commit the code, build the image, hand over.
SetupCommit(w) ==
    LET r == RunOf(w) IN
    /\ pc[w] = "building"
    /\ \/ /\ runs' = [runs EXCEPT ![r].status = "building", ![r].workspace = TRUE]
          /\ Enqueue("execution_run", r, FALSE)
          /\ Return(w, "success", "none")
       \/ /\ runs' = [runs EXCEPT ![r].status = "failed", ![r].failure = "mechanical",
                                  ![r].workspace = TRUE]
          /\ Return(w, "failure", "none")
          /\ UNCHANGED jobs
    /\ UNCHANGED <<worktrees, frontier>>

\* execution_run up to its first commit.
RunContainer(w) ==
    LET r == RunOf(w) IN
    /\ Executing(w, "execution_run")
    /\ ~RowLocked(r)
    /\ IF runs[r].workspace /\ r \in worktrees
       THEN /\ runs' = [runs EXCEPT ![r].status = "running"]
            /\ pc' = [pc EXCEPT ![w] = "container"]
            /\ UNCHANGED <<cycle, spec_status, job, result, patch, seen, env>>
       ELSE /\ FailRun(r, "mechanical")
            /\ Return(w, "failure", "none")
    /\ UNCHANGED <<jobs, worktrees, frontier>>

\* DockerRunner.run returns.  Each second it polls the run's status and stops
\* on pause or cancel; resuming a container that is gone raises.
ContainerStops(w) ==
    LET r == RunOf(w)
        lost == jobs[job[w]].flag /\ runs[r].container = "gone"
    IN
    /\ pc[w] = "container"
    /\ \E end \in {"exit0", "exit1", "raised", "paused", "cancelled"} :
          /\ end \in {"paused", "cancelled"} => runs[r].status = end
          /\ lost => end = "raised"
          /\ result' = [result EXCEPT ![w] = end]
    /\ pc' = [pc EXCEPT ![w] = "stopped"]
    /\ UNCHANGED <<tables, job, patch, seen, env>>

\* Mutant: the container's end is written as the run's status.
StatusAsEnded(end) == IF end = "exit0" THEN "capturing" ELSE end

\* The status execution_run writes for the way the container ended.
StatusAfter(end) ==
    CASE end \in {"exit1", "raised"} -> "failed"
      [] end = "exit0"               -> "capturing"
      [] OTHER                       -> end

\* execution_run, its last commit: blind to any request since the poll.
RunCommit(w) ==
    LET r == RunOf(w)
        end == result[w]
    IN
    /\ pc[w] = "stopped"
    /\ ~RowLocked(r)
    /\ runs' = [runs EXCEPT ![r].status = StatusAfter(end),
                            ![r].failure = IF end \in {"exit1", "raised"}
                                           THEN "mechanical" ELSE @,
                            ![r].container = CASE end = "raised" -> @
                                               [] end = "paused" -> "paused"
                                               [] OTHER -> "gone"]
    /\ CASE end = "exit1" -> Enqueue("verification_check", r, FALSE)
         [] end = "exit0" -> Enqueue("execution_capture", r, FALSE)
         [] OTHER         -> UNCHANGED jobs
    /\ worktrees' = IF end = "cancelled" THEN worktrees \ {r} ELSE worktrees
    /\ Return(w, IF end = "raised" THEN "failure" ELSE "success",
                 IF end = "exit1" THEN "verifying" ELSE "none")
    /\ UNCHANGED frontier

\* execution_capture: the metrics parse, or they do not.
CaptureArtifacts(w) ==
    LET r == RunOf(w) IN
    /\ Executing(w, "execution_capture")
    /\ ~RowLocked(r)
    /\ \/ runs' = [runs EXCEPT ![r].status = "completed"]
       \/ FailRun(r, "metric_parse")
    /\ Enqueue("verification_check", r, FALSE)
    /\ Return(w, "success", "verifying")
    /\ UNCHANGED <<worktrees, frontier>>

-----------------------------------------------------------------------------
(* Verification, remediation, signal and recommendation operators. *)

\* verification_check always adds a report; a failed run fails verification.
VerificationCheck(w) ==
    LET r == RunOf(w) IN
    /\ Executing(w, "verification_check")
    /\ runs' = [runs EXCEPT ![r].reports = @ + 1]
    /\ \/ Enqueue("auto_remediate", r, FALSE)
       \/ runs[r].status # "failed" /\ Enqueue("signal_classify", r, FALSE)
    /\ Return(w, "success", "none")
    /\ UNCHANGED <<worktrees, frontier>>

\* select_strategy: a metric parse failure or an unclassified one is never
\* remediable; the mechanical classes may be, up to resource caps and to
\* whether the debug model finds a fix.
Remediable(r) == runs[r].failure = "mechanical"

\* Mutant: giving up sends the run back to verification.
GiveUpRechecks(w) ==
    LET r == RunOf(w) IN
    /\ Executing(w, "auto_remediate")
    /\ runs' = [runs EXCEPT ![r].actions = @ + 1,
                            ![r].exhausted = @ \/ LineageAttempts(r) >= scenario.attempts]
    /\ Enqueue("verification_check", r, FALSE)
    /\ Return(w, "success", "none")
    /\ UNCHANGED <<worktrees, frontier>>

\* auto_remediate gives up: attempts exhausted, or nothing to try.
GiveUp(w) ==
    LET r == RunOf(w) IN
    /\ Executing(w, "auto_remediate")
    /\ runs' = [runs EXCEPT ![r].actions = @ + 1,
                            ![r].exhausted = @ \/ LineageAttempts(r) >= scenario.attempts]
    /\ Enqueue("verification_postmortem", r, FALSE)
    /\ Return(w, "success", "none")
    /\ UNCHANGED <<worktrees, frontier>>

\* auto_remediate creates a retry run and sends the cycle back to running.
CreateRetry(w) ==
    LET r == RunOf(w)
        retry == Len(runs) + 1
    IN
    /\ Executing(w, "auto_remediate")
    /\ LineageAttempts(r) < scenario.attempts
    /\ Remediable(r)
    /\ runs' = Append([runs EXCEPT ![r].actions = @ + 1], NewRun(r))
    /\ Enqueue("execution_setup", retry, FALSE)
    /\ Return(w, "success", "running")
    /\ UNCHANGED <<worktrees, frontier>>

\* scalar_one_or_none() raises MultipleResultsFound on a second report.
ReportAmbiguous(r) == runs[r].reports > 1

AmbiguousReport(w) ==
    /\ \E op \in {"verification_postmortem", "signal_classify", "recommend"} :
          Executing(w, op)
    /\ ReportAmbiguous(RunOf(w))
    /\ Return(w, "failure", "none")
    /\ UNCHANGED <<runs, jobs, worktrees, frontier>>

\* Mutant: the postmortem does not hand over to recommend.
PostmortemEndsHere(w) ==
    LET r == RunOf(w) IN
    /\ Executing(w, "verification_postmortem")
    /\ ~ReportAmbiguous(r)
    /\ runs' = [runs EXCEPT ![r].postmortems = @ + 1]
    /\ Return(w, "success", "none")
    /\ UNCHANGED <<jobs, worktrees, frontier>>

\* verification_postmortem adds a postmortem and hands over to recommend.
VerificationPostmortem(w) ==
    LET r == RunOf(w) IN
    /\ Executing(w, "verification_postmortem")
    /\ ~ReportAmbiguous(r)
    /\ runs' = [runs EXCEPT ![r].postmortems = @ + 1]
    /\ Enqueue("recommend", r, TRUE)
    /\ Return(w, "success", "none")
    /\ UNCHANGED <<worktrees, frontier>>

\* signal_classify without a primary metric, in the spec or in the run's output.
SignalSkipped(w) ==
    /\ Executing(w, "signal_classify")
    /\ Enqueue("recommend", RunOf(w), FALSE)
    /\ Return(w, "success", "none")
    /\ UNCHANGED <<runs, worktrees, frontier>>

\* signal_classify up to upsert_frontier's SELECT, which takes no lock.
SignalClassify(w) ==
    /\ Executing(w, "signal_classify")
    /\ ~ReportAmbiguous(RunOf(w))
    /\ pc' = [pc EXCEPT ![w] = "classifying"]
    /\ seen' = [seen EXCEPT ![w] = frontier]
    /\ UNCHANGED <<tables, job, result, patch, env>>

\* The first row of a line was inserted by another worker meanwhile.
InsertRefused(w) == seen[w] = 0 /\ frontier # 0

\* Mutant: a refused insert is caught and the row there is updated, after the
\* rollback that took the signal.
RefusedInsertCaught(w) ==
    LET r == RunOf(w) IN
    /\ pc[w] = "classifying"
    /\ IF InsertRefused(w)
       THEN frontier' = frontier + 1 /\ UNCHANGED runs
       ELSE /\ frontier' = seen[w] + 1
            /\ runs' = [runs EXCEPT ![r].signal = TRUE,
                  ![r].overlapped = @ \/ \E v \in Workers \ {w} : pc[v] = "classifying"]
    /\ Enqueue("recommend", r, FALSE)
    /\ Return(w, "success", "none")
    /\ UNCHANGED worktrees

\* signal_classify writes total_runs as it read it plus one, commits with it the
\* run's DirectionalSignal, and hands over to recommend.  uq_metric_frontiers_line
\* refuses a second first row: the operator raises and the signal is rolled back.
SignalCommit(w) ==
    LET r == RunOf(w) IN
    /\ pc[w] = "classifying"
    /\ IF InsertRefused(w)
       THEN /\ Return(w, "failure", "none")
            /\ UNCHANGED <<runs, jobs, frontier>>
       ELSE /\ frontier' = seen[w] + 1
            /\ runs' = [runs EXCEPT ![r].signal = TRUE,
                  ![r].overlapped = @ \/ \E v \in Workers \ {w} : pc[v] = "classifying"]
            /\ Enqueue("recommend", r, FALSE)
            /\ Return(w, "success", "none")
    /\ UNCHANGED worktrees

\* compute_recommendation, up to the signal's table: "resolved" is its
\* continue_current with the text "Remediation resolved the failure".
Advice(r, failed) ==
    CASE failed /\ \E k \in Lineage(r) : runs[k].exhausted -> "exhausted"
      [] failed /\ \A k \in Lineage(r) : ~runs[k].exhausted -> "resolved"
      [] OTHER -> "by_signal"

\* recommend upserts the recommendation and owns the move to reporting.
Recommend(w) ==
    LET r == RunOf(w) IN
    /\ Executing(w, "recommend")
    /\ ~ReportAmbiguous(r)
    /\ runs' = [runs EXCEPT ![r].recommendation = Advice(r, jobs[job[w]].flag)]
    /\ Return(w, "success", "reporting")
    /\ UNCHANGED <<jobs, worktrees, frontier>>

-----------------------------------------------------------------------------
(* The API: a request reads its row and checks it, then writes. *)

Request(op, target, saw) ==
    /\ requests < MaxRequests
    /\ requests' = requests + 1
    /\ api' = api \cup {[id |-> requests, op |-> op, target |-> target, saw |-> saw]}
    /\ UNCHANGED <<tables, worker, faults, scenario>>

\* start_run requires a validated spec, and notes whether the cycle is in
\* protocol_ready.
StartRequested(s) ==
    /\ spec_status[s] = "validated"
    /\ Request("start", s, {cycle})

\* _ALLOWED_ACTIONS.  workspace_setup is never committed.
AllowedActions(status) ==
    CASE status \in {"pending", "building"} -> {"cancel"}
      [] status = "running"                 -> {"pause", "cancel"}
      [] status = "paused"                  -> {"resume", "cancel"}
      [] status \in {"failed", "cancelled"} -> {"retry"}
      [] OTHER                              -> {}

\* control_run also reads the workspace and the container to clean up.
ControlRequested(op, r) ==
    /\ op \in AllowedActions(runs[r].status)
    /\ Request(op, r, {t \in {"workspace", "container"} :
                            \/ t = "workspace" /\ runs[r].workspace
                            \/ t = "container" /\ runs[r].container # "none"})

Commit(q) ==
    /\ api' = api \ {q}
    /\ UNCHANGED <<requests, faults, scenario, worker, frontier>>

StartCommits(q) ==
    /\ q.op = "start"
    /\ cycle' = IF "protocol_ready" \in q.saw THEN "running" ELSE cycle
    /\ spec_status' = [spec_status EXCEPT ![q.target] = "executing"]
    /\ runs' = Append(runs, NewRun(0))
    /\ Enqueue("execution_setup", Len(runs) + 1, FALSE)
    /\ Commit(q)
    /\ UNCHANGED worktrees

\* Statuses of the run's jobs that a control action takes with it.
SetJobsOf(r, from, s) ==
    jobs' = [j \in JobIds |-> IF jobs[j].run = r /\ jobs[j].status \in from
                              THEN [jobs[j] EXCEPT !.status = s] ELSE jobs[j]]

\* Mutant: cancel leaves the run's waiting jobs in the queue.
CancelInFlight(q) ==
    /\ q.op = "cancel" /\ ~RowLocked(q.target)
    /\ runs' = [runs EXCEPT ![q.target].status = "cancelled",
                            ![q.target].container =
                                IF "container" \in q.saw THEN "gone" ELSE @]
    /\ SetJobsOf(q.target, {"claimed", "running", "paused"}, "cancelled")
    /\ worktrees' = IF "workspace" \in q.saw THEN worktrees \ {q.target} ELSE worktrees
    /\ Commit(q)
    /\ UNCHANGED <<cycle, spec_status>>

CancelCommits(q) ==
    /\ q.op = "cancel" /\ ~RowLocked(q.target)
    /\ runs' = [runs EXCEPT ![q.target].status = "cancelled",
                            ![q.target].container =
                                IF "container" \in q.saw THEN "gone" ELSE @]
    /\ SetJobsOf(q.target, {"pending", "claimed", "running", "paused"}, "cancelled")
    /\ worktrees' = IF "workspace" \in q.saw THEN worktrees \ {q.target} ELSE worktrees
    /\ Commit(q)
    /\ UNCHANGED <<cycle, spec_status>>

PauseCommits(q) ==
    /\ q.op = "pause" /\ ~RowLocked(q.target)
    /\ runs' = [runs EXCEPT ![q.target].status = "paused"]
    /\ SetJobsOf(q.target, {"claimed", "running"}, "paused")
    /\ Commit(q)
    /\ UNCHANGED <<cycle, spec_status, worktrees>>

\* The paused job stays paused; a second execution_run job resumes the run.
ResumeCommits(q) ==
    /\ q.op = "resume" /\ ~RowLocked(q.target)
    /\ runs' = [runs EXCEPT ![q.target].status = "running"]
    /\ Enqueue("execution_run", q.target, TRUE)
    /\ cycle' = "running"
    /\ Commit(q)
    /\ UNCHANGED <<spec_status, worktrees>>

RetryCommits(q) ==
    /\ q.op = "retry"
    /\ runs' = Append(runs, NewRun(0))
    /\ Enqueue("execution_setup", Len(runs) + 1, FALSE)
    /\ cycle' = "running"
    /\ Commit(q)
    /\ UNCHANGED <<spec_status, worktrees>>

-----------------------------------------------------------------------------

OperatorStep(w) ==
    \/ SetupWorktree(w) \/ SetupCommit(w)
    \/ RunContainer(w) \/ ContainerStops(w) \/ RunCommit(w) \/ CaptureArtifacts(w)
    \/ VerificationCheck(w) \/ GiveUp(w) \/ CreateRetry(w) \/ AmbiguousReport(w)
    \/ VerificationPostmortem(w)
    \/ SignalSkipped(w) \/ SignalClassify(w) \/ SignalCommit(w) \/ Recommend(w)

SettleStep(w) ==
    AcknowledgeCancel(w) \/ SettleSuccess(w) \/ RejectedPatch(w) \/ SettleFailure(w)

ApiStep(q) ==
    \/ StartCommits(q) \/ CancelCommits(q) \/ PauseCommits(q)
    \/ ResumeCommits(q) \/ RetryCommits(q)

Next ==
    \/ \E w \in scenario.crew :
          \/ ClaimJob(w) \/ StartJob(w) \/ OperatorStep(w) \/ SettleStep(w)
          \/ Crash(w) \/ OperatorRaises(w)
    \/ \E j \in JobIds : Reclaim(j)
    \/ \E s \in Specs : StartRequested(s)
    \/ \E op \in ControlOps, r \in RunIds : ControlRequested(op, r)
    \/ \E q \in api : ApiStep(q)

Spec == Init /\ [][Next]_vars

\* Workers keep polling, operators return, outcomes are persisted, dead
\* workers' rows are reclaimed and requests that were read commit.
Fairness ==
    /\ \A w \in Workers : WF_vars(ClaimJob(w) \/ StartJob(w) \/ OperatorStep(w)
                                  \/ SettleStep(w))
    /\ WF_vars(\E j \in JobIds : Reclaim(j))
    /\ WF_vars(\E q \in api : ApiStep(q))

FairSpec == Spec /\ Fairness

-----------------------------------------------------------------------------
(* Properties. *)

RunType ==
    [status : RunStatus, parent : Nat, failure : {"none", "mechanical", "metric_parse"},
     workspace : BOOLEAN, container : {"none", "paused", "gone"}, actions : Nat,
     exhausted : BOOLEAN, reports : Nat, postmortems : Nat, signal : BOOLEAN,
     overlapped : BOOLEAN, recommendation : {"none", "exhausted", "resolved", "by_signal"}]
JobType ==
    [op : Operators, run : Nat, flag : BOOLEAN, status : JobStatus, reclaims : Nat]
RequestType ==
    [id : Nat, op : {"start"}, target : Specs, saw : SUBSET CycleStatus] \cup
    [id : Nat, op : ControlOps, target : RunIds, saw : SUBSET {"workspace", "container"}]
Phase  == {"idle", "claimed", "executing", "building", "container", "stopped",
           "classifying", "finished"}
Result == {"none", "success", "failure", "exit0", "exit1", "raised", "paused", "cancelled"}

\* Every variable has its type, and a job's run exists.
TypeOK ==
    /\ cycle \in CycleStatus
    /\ spec_status \in [Specs -> {"validated", "executing"}]
    /\ runs \in Seq(RunType) /\ \A r \in RunIds : runs[r].parent < r
    /\ jobs \in Seq(JobType) /\ \A j \in JobIds : jobs[j].run \in RunIds
    /\ worktrees \subseteq RunIds
    /\ frontier \in Nat
    /\ pc \in [Workers -> Phase]
    /\ job \in [Workers -> 0..Len(jobs)]
    /\ result \in [Workers -> Result]
    /\ patch \in [Workers -> CycleStatus \cup {"none"}]
    /\ seen \in [Workers -> Nat]
    /\ api \subseteq RequestType
    /\ requests \in 0..MaxRequests /\ scenario \in Scenarios
    /\ faults \in 0..scenario.faults

\* One worker and one experiment, and nothing has failed so far.
Undisturbed == Cardinality(scenario.crew) = 1 /\ faults = 0 /\ requests <= 1

\* While one worker executes the jobs of an experiment in turn, the operators'
\* state patches fit the state machine: when it comes to persist a job's outcome, the
\* transition it asks for is allowed, so the worker survives.
PatchesFit == Undisturbed => \A w \in Workers :
    pc[w] = "finished" /\ result[w] = "success" /\ jobs[job[w]].status # "cancelled"
        => PatchAllowed(w)

\* A run is verified once unless a worker fails: signal_classify, postmortem and recommend read its
\* report with scalar_one_or_none, which raises on a second one.
OneReport == Undisturbed => \A r \in RunIds : runs[r].reports <= 1

\* MetricFrontier.total_runs against the classified runs, though it is written as
\* an unlocked read plus one: it can miss a run only if that run was classified
\* while another classification of the line was between its read and its
\* commit, and it counts a run again only when a fault made signal_classify
\* run again after its commit.
FrontierCountsRuns ==
    LET classified == {r \in RunIds : runs[r].signal}
        apart      == {r \in classified : ~runs[r].overlapped}
    IN  frontier \in Cardinality(apart)..(Cardinality(classified) + faults)

Retried(r)   == \E k \in RunIds : runs[k].parent = r
MaxRuns      == MaxRequests * (1 + Max({s.attempts : s \in Scenarios}))

\* A run that failed outside the paths that enqueue verification_check.
Abandoned(r) == runs[r].status = "failed" /\ runs[r].reports = 0

Concluded(r) ==
    \/ runs[r].recommendation # "none"
    \/ Retried(r)
    \/ runs[r].status \in {"cancelled", "paused"}
    \/ Abandoned(r)

\* Every run comes to an end the user can act on: a recommendation, a retry
\* run, a cancellation, a pause, or a failure that was never verified.
EveryRunConcludes ==
    \A r \in 1..MaxRuns :
        (r \in RunIds) ~> (r \in RunIds /\ (Undisturbed => Concluded(r)))

\* Neither a crash nor a follow-up job that overtakes the outcome of the job
\* that enqueued it loses a run silently: it still concludes, or one of the
\* pipeline's jobs ends as failed, which is what the user sees.
NoSilentLoss ==
    \A r \in 1..MaxRuns :
        (r \in RunIds) ~> /\ r \in RunIds
                          /\ \/ Concluded(r)
                             \/ \E j \in JobIds : jobs[j].run = r
                                                  /\ jobs[j].status = "failed"

\* A cancelled run that no worker is on and no request is about.
CancelledIsLeftAlone(r) ==
    /\ runs[r].status = "cancelled"
    /\ \A j \in JobIds : jobs[j].run = r => jobs[j].status \notin {"claimed", "running"}
    /\ \A w \in Workers : job[w] # 0 => RunOf(w) # r
    /\ \A q \in api : q.target # r

\* The execution of the run was put back into the queue, by a resume request or
\* by the reclaim of a dead worker's job.
Revived(r) ==
    \E j \in JobIds : /\ jobs[j].run = r
                      /\ jobs[j].op \in ExecutionOps
                      /\ jobs[j].flag \/ jobs[j].reclaims > 0

\* Cancelling is final: once no worker is in the middle of one of its jobs and
\* no request on it is under way, a cancelled run stays cancelled, and unless it
\* was revived nothing of its execution is started again, because cancel took
\* the waiting and paused jobs of the run with it.  (A verification that was
\* under way may still have handed on a verification or remediation job.)
CancelIsFinal ==
    [][\A r \in RunIds : CancelledIsLeftAlone(r) =>
          /\ runs'[r].status = "cancelled"
          /\ \A j \in JobIds :
                jobs[j].run = r /\ jobs[j].op \in ExecutionOps
                    /\ jobs'[j].status = "claimed" => Revived(r)]_vars
=============================================================================
