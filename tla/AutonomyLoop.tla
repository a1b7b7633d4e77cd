---------------------------- MODULE AutonomyLoop ----------------------------
(***************************************************************************)
(* The autonomous loop of one research cycle: recommend hands each         *)
(* finished run to loop_decide, which charges the budget, stops at a       *)
(* limit, pauses at a checkpoint gate, moves the hypothesis' life cycle    *)
(* and starts the next run: the same spec again, a recompiled variation,   *)
(* or the next hypothesis.  The user resumes a gate or stops the loop.     *)
(*                                                                         *)
(* The experiment itself (RunPipeline) is one job here, execution_setup,   *)
(* which ends in a recommend job.  The queue is reduced to claim, settle   *)
(* and the reclaim of a dead worker's row (JobQueue has its races).        *)
(* Metrics, signals and prompts are abstracted to the evidence loop_decide *)
(* tells apart; a hypothesis is its rank.                                  *)
(***************************************************************************)
EXTENDS Integers, Sequences, FiniteSets, FiniteSetsExt

CONSTANTS
    Workers,      \* worker process slots; a dead process is started again
    NCards,       \* hypothesis cards of the cycle, in rank order
    Policies,     \* the autonomy policies a cycle may be configured with
    MaxReclaims,  \* settings.job_max_reclaims
    MaxRequeued,  \* bound: rows put back after a worker's death, all jobs together
    Bounds        \* bounds, by policy: the gates the user resumes, his stop requests,
                  \* worker crashes, the workers that run, the recommendations made,
                  \* and how many hypotheses may be compiled at the start

None == -1

Advice == {"halt", "continue_current", "parameter_variation", "hypothesis_pivot"}

\* AutonomyPolicy and its CheckpointGateConfig; None is an absent limit.
\* wall: a wall clock limit is set.  A policy without any run limit is left
\* out: its loop need not end.
PolicyType ==
    [max_total_runs : Nat \cup {None}, max_runs_per_hypothesis : Nat \cup {None},
     wall : BOOLEAN, after_every_run : BOOLEAN,
     after_every_n_runs : (Nat \ {0}) \cup {None}, before_hardware_escalation : BOOLEAN,
     before_result_promotion : BOOLEAN, before_network_execution : BOOLEAN]

ASSUME LoopAssumption ==
    /\ NCards \in Nat \ {0}
    /\ Policies \subseteq PolicyType
    /\ \A p \in Policies : p.max_total_runs # None \/ p.max_runs_per_hypothesis # None
    /\ MaxReclaims \in Nat /\ MaxRequeued \in Nat
    /\ Bounds \in [Policies -> [approvals : Nat, stops : Nat, crashes : Nat,
                                crew : SUBSET Workers, advice : SUBSET Advice,
                                compiled : SUBSET (1..NCards)]]

VARIABLES
    policy,     \* ResearchCycle.config["autonomy"]
    cycle,      \* ResearchCycle.status
    cards,      \* HypothesisCard.status by rank
    specs,      \* the validated experiment specs
    runs,       \* the run records, with their recommendation and gate rows
    total,      \* AutonomyBudget.total_runs
    per,        \* AutonomyBudget.runs_per_hypothesis
    last_gate,  \* total_runs in the newest stop_gate decision's snapshot
    jobs,       \* the cycle's jobs, in created_at order
    worker,     \* each worker: where it stands, its job, its operator's result
    crashes,
    approvals,  \* history: gates the user resumed
    stops,      \* stop requests of the user
    lost,       \* history: a resumed job was completed by the worker that had paused it
    requeued,   \* history: how often a row was put back after a worker's death
    overlap     \* history: a decision overwrote what another had charged meanwhile

budget == <<total, per, overlap>>
tables == <<policy, cycle, cards, specs, runs, budget, last_gate, jobs>>
env    == <<crashes, approvals, stops, lost, requeued>>
vars   == <<tables, worker, env>>

Cards     == 1..NCards
JobIds    == 1..Len(jobs)

\* What a run shows and what a spec needs, told apart only where a gate of the
\* policy looks at it.
Evidence  == IF policy.before_result_promotion
             THEN {"none", "advancing", "stalled", "target_met"} ELSE {"none"}
Networked == IF policy.before_network_execution THEN BOOLEAN ELSE {FALSE}
Gpus      == IF policy.before_hardware_escalation THEN {0, 1} ELSE {0}
Late      == IF policy.wall THEN BOOLEAN ELSE {FALSE}

CardStatus == {"candidate", "selected", "compiled", "active", "promising", "stalled",
               "validated", "deprioritized"}

NewJob(op, r, target, status) ==
    [op |-> op, run |-> r, target |-> target, status |-> status, reclaims |-> 0]
NewRun(s) ==
    [spec |-> s, advice |-> "none", gates |-> 0, by_loop |-> TRUE, approved |-> FALSE]
NewSpec(c, net, hw) == [card |-> c, network |-> net, gpus |-> hw]

\* What loop_decide has read of its run and of the budget before it writes.
Unread == [gates |-> 0, advice |-> "none", total |-> 0, per |-> [c \in Cards |-> 0]]
Idle == [pc |-> "idle", job |-> 0, result |-> "none", patch |-> "none", spec |-> 0,
         saw |-> Unread]

\* An autonomous cycle whose first experiment, of the best hypothesis, the
\* user has started.  Lower ranked cards may have been compiled with it.
Init ==
    /\ policy \in Policies
    /\ cycle = "running"
    /\ \E net \in Networked, hw \in Gpus, n \in Bounds[policy].compiled :
          /\ cards = [c \in Cards |-> IF c <= n THEN "compiled" ELSE "candidate"]
          /\ specs = [c \in 1..n |-> NewSpec(c, net, IF c = 1 THEN 0 ELSE hw)]
    /\ runs = <<[NewRun(1) EXCEPT !.by_loop = FALSE]>>
    /\ total = 0
    /\ per = [c \in Cards |-> 0]
    /\ last_gate = 0
    /\ jobs = <<NewJob("execution_setup", 1, 0, "pending")>>
    /\ worker = [w \in Workers |-> Idle]
    /\ crashes = 0 /\ approvals = 0 /\ stops = 0 /\ requeued = 0
    /\ lost = FALSE /\ overlap = FALSE

-----------------------------------------------------------------------------
(* The worker around the operators. *)

AllowedTransitions ==
    {<<"running", "verifying">>, <<"running", "running">>,
     <<"verifying", "reporting">>, <<"verifying", "running">>,
     <<"verifying", "loop_deciding">>, <<"loop_deciding", "running">>,
     <<"loop_deciding", "reporting">>, <<"reporting", "closed">>}

Priority(j) ==
    IF j.op = "loop_report" \/ (j.op = "loop_decide" /\ j.target = 0) THEN 5 ELSE 10

\* claim_job: the oldest pending job of the highest priority; and start_job.
ClaimJob(w) ==
    /\ worker[w].pc = "idle" /\ w \in Bounds[policy].crew
    /\ \E j \in JobIds :
          /\ jobs[j].status = "pending"
          /\ \A k \in JobIds : jobs[k].status = "pending" =>
                \/ Priority(jobs[k]) < Priority(jobs[j])
                \/ Priority(jobs[k]) = Priority(jobs[j]) /\ k >= j
          /\ jobs' = [jobs EXCEPT ![j].status = "running"]
          /\ worker' = [worker EXCEPT ![w].pc = "executing", ![w].job = j]
    /\ UNCHANGED <<policy, cycle, cards, specs, runs, budget, last_gate, env>>

Executing(w, op) == worker[w].pc = "executing" /\ jobs[worker[w].job].op = op
Job(w) == jobs[worker[w].job]

\* The operator has committed and returns: success with a state patch, or not.
Return(w, res, patch) ==
    /\ worker' = [worker EXCEPT ![w].pc = "finished", ![w].result = res, ![w].patch = patch,
                                ![w].saw = Unread]
    /\ UNCHANGED <<policy, cycle, env>>

\* A row the user cancelled meanwhile is left alone, result and patch with it.
AcknowledgeCancel(w) ==
    /\ worker[w].pc = "finished" /\ Job(w).status = "cancelled"
    /\ worker' = [worker EXCEPT ![w] = Idle]
    /\ UNCHANGED <<tables, env>>

PatchAllowed(w) ==
    worker[w].patch = "none" \/ <<cycle, worker[w].patch>> \in AllowedTransitions

\* Apply the patch; a paused row stays paused, any other is completed, also one
\* a resume request has just put back into the queue, claimed again or not.
SettleSuccess(w) ==
    /\ worker[w].pc = "finished" /\ worker[w].result = "success"
    /\ Job(w).status # "cancelled"
    /\ PatchAllowed(w)
    /\ cycle' = IF worker[w].patch = "none" THEN cycle ELSE worker[w].patch
    /\ jobs' = [jobs EXCEPT ![worker[w].job].status =
                    IF @ = "paused" THEN "paused" ELSE "completed"]
    /\ lost' = (lost \/ (Job(w).op = "loop_decide" /\ worker[w].patch = "none"
                         /\ Job(w).status # "paused"))
    /\ worker' = [worker EXCEPT ![w] = Idle]
    /\ UNCHANGED <<policy, cards, specs, runs, budget, last_gate,
                   crashes, approvals, stops, requeued>>

\* validate_transition raises and the worker process ends.
RejectedPatch(w) ==
    /\ worker[w].pc = "finished" /\ worker[w].result = "success"
    /\ Job(w).status # "cancelled"
    /\ ~PatchAllowed(w)
    /\ worker' = [worker EXCEPT ![w] = Idle]
    /\ UNCHANGED <<tables, env>>

SettleFailure(w) ==
    /\ worker[w].pc = "finished" /\ worker[w].result = "failure"
    /\ Job(w).status # "cancelled"
    /\ jobs' = [jobs EXCEPT ![worker[w].job].status = "failed"]
    /\ worker' = [worker EXCEPT ![w] = Idle]
    /\ UNCHANGED <<policy, cycle, cards, specs, runs, budget, last_gate, env>>

Crash(w) ==
    /\ worker[w].pc # "idle"
    /\ crashes < Bounds[policy].crashes /\ crashes' = crashes + 1
    /\ worker' = [worker EXCEPT ![w] = Idle]
    /\ UNCHANGED <<tables, approvals, stops, lost, requeued>>

Stale == {j \in JobIds : jobs[j].status = "running" /\ \A w \in Workers : worker[w].job # j}

\* The rows that are put back; past the bound rows fail as they do past
\* job_max_reclaims.
Reclaimable ==
    {j \in Stale : /\ jobs[j].reclaims + 1 <= MaxReclaims
                   /\ requeued + Cardinality(Stale) <= MaxRequeued}

\* reclaim_stale_jobs takes every stale row at once; a paused row is not stale.
ReclaimStale ==
    /\ Stale # {}
    /\ jobs' = [j \in JobIds |->
          IF j \in Reclaimable
          THEN [jobs[j] EXCEPT !.status = "pending", !.reclaims = @ + 1]
          ELSE IF j \in Stale THEN [jobs[j] EXCEPT !.status = "failed"] ELSE jobs[j]]
    /\ requeued' = requeued + Cardinality(Reclaimable)
    /\ UNCHANGED <<policy, cycle, cards, specs, runs, budget, last_gate, worker,
                   crashes, approvals, stops, lost>>

-----------------------------------------------------------------------------
(* The experiment and its recommendation. *)

\* The run's pipeline, up to the transaction that enqueues recommend.
RunExperiment(w) ==
    /\ Executing(w, "execution_setup")
    /\ jobs' = Append(jobs, NewJob("recommend", Job(w).run, 0, "pending"))
    /\ Return(w, "success", "verifying")
    /\ UNCHANGED <<cards, specs, runs, budget, last_gate>>

\* recommend in an autonomous cycle; the run's recommendation row is rewritten
\* when it is executed again, the loop_decide job is inserted again.
Recommend(w) ==
    /\ Executing(w, "recommend")
    /\ \E a \in Bounds[policy].advice : runs' = [runs EXCEPT ![Job(w).run].advice = a]
    /\ jobs' = Append(jobs, NewJob("loop_decide", Job(w).run, 0, "pending"))
    /\ Return(w, "success", "loop_deciding")
    /\ UNCHANGED <<cards, specs, budget, last_gate>>

-----------------------------------------------------------------------------
(* Budget, gates and the hypothesis life cycle. *)

\* Mutant: the limit is compared with >, so one run too many is started.
PastLimit(n, limit) == limit # None /\ n > limit

\* The comparison of check_budget and check_per_hypothesis_budget.
LimitReached(n, limit) == limit # None /\ n >= limit

\* check_budget and check_per_hypothesis_budget on counters already raised.
BudgetExceeded(n, k, late) ==
    \/ LimitReached(n, policy.max_total_runs)
    \/ late
    \/ LimitReached(k, policy.max_runs_per_hypothesis)

Escalation(cur, next) == cur # None /\ next > cur

\* Mutant: the gate after every n runs fires one run late.
GateLate(since, cur, next, promotion, network) ==
    IF policy.after_every_run THEN "after_every_run"
    ELSE IF policy.after_every_n_runs # None /\ since > policy.after_every_n_runs
         THEN "after_every_n_runs"
    ELSE IF policy.before_network_execution /\ network
         THEN "before_network_execution"
    ELSE "none"

\* evaluate_gates: the first configured gate that fires.
Gate(since, cur, next, promotion, network) ==
    IF policy.after_every_run THEN "after_every_run"
    ELSE IF policy.after_every_n_runs # None /\ since >= policy.after_every_n_runs
         THEN "after_every_n_runs"
    ELSE IF policy.before_hardware_escalation /\ Escalation(cur, next)
         THEN "before_hardware_escalation"
    ELSE IF policy.before_result_promotion /\ promotion
         THEN "before_result_promotion"
    ELSE IF policy.before_network_execution /\ network
         THEN "before_network_execution"
    ELSE "none"

\* The gates evaluated for a spec about to be run; only two of them pause.
SpecGate(cur, s) ==
    LET g == Gate(0, cur, s.gpus, FALSE, s.network)
    IN  g \in {"before_hardware_escalation", "before_network_execution"}

\* compute_lifecycle_status, or the unchanged status.
Lifecycle(status, ev, advice) ==
    CASE status \in {"compiled", "deferred"} -> "active"
      [] status \in {"active", "stalled"} /\ advice = "hypothesis_pivot" -> "deprioritized"
      [] status = "promising" /\ ev = "target_met" -> "validated"
      [] status = "active" /\ advice # "hypothesis_pivot" /\ ev = "advancing" -> "promising"
      [] status \in {"active", "promising"} /\ advice # "hypothesis_pivot" /\ ev = "stalled"
            -> "stalled"
      [] OTHER -> status

\* detect_repetition can report a duplicate only of another validated spec.
MayRepeat == Len(specs) > 1

-----------------------------------------------------------------------------
(* loop_decide. *)

\* _continue_current, and _pivot_hypothesis with a spec at hand.
StartNextRun(w, s) ==
    /\ runs' = Append(runs, NewRun(s))
    /\ jobs' = Append(jobs, NewJob("execution_setup", Len(runs) + 1, 0, "pending"))
    /\ Return(w, "success", "running")
    /\ UNCHANGED last_gate

\* _vary_parameters, and _pivot_hypothesis to a card without a spec.
CompileFor(w, c) ==
    /\ jobs' = Append(jobs, NewJob("protocol_compile", Job(w).run, c, "pending"))
    /\ Return(w, "success", "running")
    /\ UNCHANGED <<runs, last_gate>>

\* Mutant: the loop stops without its report.
StopSilently(w) ==
    /\ Return(w, "success", "reporting")
    /\ UNCHANGED <<runs, last_gate, jobs>>

\* _stop.
Stop(w) ==
    /\ jobs' = Append(jobs, NewJob("loop_report", Job(w).run, 0, "pending"))
    /\ Return(w, "success", "reporting")
    /\ UNCHANGED <<runs, last_gate>>

\* Mutant: the snapshot counts the run that has not been made yet.
PauseAhead(w, n) ==
    /\ jobs' = [jobs EXCEPT ![worker[w].job].status = "paused"]
    /\ runs' = [runs EXCEPT ![Job(w).run].gates = @ + 1]
    /\ last_gate' = n + 1
    /\ Return(w, "success", "none")

\* _pause_for_gate: the operator pauses its own row; no patch.
PauseForGate(w, n) ==
    /\ jobs' = [jobs EXCEPT ![worker[w].job].status = "paused"]
    /\ runs' = [runs EXCEPT ![Job(w).run].gates = @ + 1]
    /\ last_gate' = n
    /\ Return(w, "success", "none")

SpecGateOr(w, s, n) ==
    IF SpecGate(specs[runs[Job(w).run].spec].gpus, specs[s])
    THEN PauseForGate(w, n)
    ELSE StartNextRun(w, s)

\* _pivot_hypothesis, the current card already deprioritized in after.
Pivot(w, after, n) ==
    LET viable == {c \in Cards : after[c] \in {"candidate", "compiled", "deferred"}}
        next == Min(viable)
        ready == {s \in 1..Len(specs) : specs[s].card = next}
    IN  IF viable = {} THEN Stop(w)
        ELSE IF after[next] = "compiled" /\ ready # {}
             THEN SpecGateOr(w, Max(ready), n)
             ELSE CompileFor(w, next)

\* Steps 7 and 8: the life cycle, then the recommendation.
Act(w, n, ev) ==
    LET r == Job(w).run
        c == specs[runs[r].spec].card
        advice == worker[w].saw.advice
        moved == Lifecycle(cards[c], ev, advice)
    IN
    /\ cards' = [cards EXCEPT ![c] = IF advice = "hypothesis_pivot"
                                     THEN "deprioritized" ELSE moved]
    /\ \/ advice = "halt" /\ Stop(w)
       \/ advice = "continue_current" /\ SpecGateOr(w, runs[r].spec, n)
       \/ advice = "continue_current" /\ MayRepeat /\ CompileFor(w, c)
       \/ advice = "parameter_variation" /\ CompileFor(w, c)
       \/ advice = "hypothesis_pivot" /\ Pivot(w, cards', n)
    /\ UNCHANGED specs

\* loop_decide loads the recommendation, the budget row and the run's
\* stop_gate decision.  Nothing locks the budget until it is written.
DecideRead(w) ==
    LET r == Job(w).run IN
    /\ Executing(w, "loop_decide") /\ Job(w).target = 0
    /\ worker' = [worker EXCEPT ![w].pc = "deciding",
                      ![w].saw = [gates |-> runs[r].gates, advice |-> runs[r].advice,
                                  total |-> total, per |-> per]]
    /\ UNCHANGED <<tables, env>>

\* The budget row is inserted by the first decision; a second insert is refused.
InsertRefused(w) == worker[w].saw.total = 0 /\ total # 0

\* On a run without a stop_gate decision: charge, then check.
DecideFresh(w) ==
    LET r == Job(w).run
        c == specs[runs[r].spec].card
        saw == worker[w].saw
        n == saw.total + 1
        k == saw.per[c] + 1
    IN
    /\ worker[w].pc = "deciding" /\ saw.gates = 0 /\ ~InsertRefused(w)
    /\ total' = n
    /\ per' = [saw.per EXCEPT ![c] = k]
    /\ overlap' = (overlap \/ saw.total # total \/ saw.per # per)
    /\ \E ev \in Evidence, late \in Late :
          LET promotion == Lifecycle(cards[c], ev, saw.advice) = "validated"
              gpus == specs[runs[r].spec].gpus
              gate == Gate(Max({0, n - last_gate}), gpus, gpus, promotion, FALSE)
          IN  IF BudgetExceeded(n, k, late)
              THEN Stop(w) /\ UNCHANGED <<cards, specs>>
              ELSE IF gate # "none"
                   THEN PauseForGate(w, n) /\ UNCHANGED <<cards, specs>>
                   ELSE Act(w, n, ev)

\* A run with one stop_gate decision: taken for the resume of an approved gate.
\* Neither the budget nor the checkpoint gates are looked at.
DecideResumed(w) ==
    /\ worker[w].pc = "deciding" /\ worker[w].saw.gates = 1
    /\ \E ev \in Evidence : Act(w, worker[w].saw.total, ev)
    /\ UNCHANGED budget

\* Two stop_gate decisions of one run (scalar_one_or_none), or a budget row
\* another decision has inserted meanwhile: the operator raises.
DecideRaises(w) ==
    /\ worker[w].pc = "deciding"
    /\ \/ worker[w].saw.gates > 1
       \/ worker[w].saw.gates = 0 /\ InsertRefused(w)
    /\ Return(w, "failure", "none")
    /\ UNCHANGED <<cards, specs, runs, budget, last_gate, jobs>>

\* loop_decide with prepared_run_record_id: the compiled run may start.
StartPrepared(w) ==
    /\ Executing(w, "loop_decide") /\ Job(w).target # 0
    /\ jobs' = Append(jobs, NewJob("execution_setup", Job(w).target, 0, "pending"))
    /\ Return(w, "success", "running")
    /\ UNCHANGED <<cards, specs, runs, budget, last_gate>>

-----------------------------------------------------------------------------
(* protocol_compile for the loop, and loop_report. *)

\* First transaction: the model call may fail, the spec may be under-specified.
\* Any status the card had is overwritten.
CompileSpec(w) ==
    LET c == Job(w).target
        r == Job(w).run
        old == specs[runs[r].spec]
    IN
    /\ Executing(w, "protocol_compile")
    /\ \/ \E net \in Networked :
             /\ cards' = [cards EXCEPT ![c] = "compiled"]
             /\ specs' = Append(specs, NewSpec(c, net, IF c = old.card
                                                       THEN old.gpus ELSE None))
             /\ worker' = [worker EXCEPT ![w].pc = "compiled", ![w].spec = Len(specs) + 1]
             /\ UNCHANGED <<policy, cycle, env>>
       \/ /\ cards' = [cards EXCEPT ![c] = IF @ = "candidate" THEN "selected" ELSE @]
          /\ Return(w, "failure", "none")
          /\ UNCHANGED specs
       \/ /\ Return(w, "failure", "none")
          /\ UNCHANGED <<cards, specs>>
    /\ UNCHANGED <<runs, budget, last_gate, jobs>>

\* Mutant: the compiled run is started before anyone is asked.
PrepareUngated(w) ==
    /\ worker[w].pc = "compiled"
    /\ runs' = Append(runs, NewRun(worker[w].spec))
    /\ jobs' = Append(jobs, NewJob("execution_setup", Len(runs) + 1, 0, "pending"))
    /\ Return(w, "success", "none")
    /\ UNCHANGED <<cards, specs, budget, last_gate>>

\* Second transaction: the run, and either its setup or a paused loop_decide
\* with the gate's decision on the run the loop came from.
PrepareRun(w) ==
    LET s == worker[w].spec
        from == Job(w).run
        new == Len(runs) + 1
    IN
    /\ worker[w].pc = "compiled"
    /\ IF SpecGate(specs[runs[from].spec].gpus, specs[s])
       THEN /\ runs' = Append([runs EXCEPT ![from].gates = @ + 1], NewRun(s))
            /\ jobs' = Append(jobs, NewJob("loop_decide", from, new, "paused"))
            /\ last_gate' = total
            /\ Return(w, "success", "loop_deciding")
       ELSE /\ runs' = Append(runs, NewRun(s))
            /\ jobs' = Append(jobs, NewJob("execution_setup", new, 0, "pending"))
            /\ Return(w, "success", "none")
            /\ UNCHANGED last_gate
    /\ UNCHANGED <<cards, specs, budget>>

\* The report is a file; consolidation is enqueued (PatternMemory).
LoopReport(w) ==
    /\ Executing(w, "loop_report")
    /\ Return(w, "success", "closed")
    /\ UNCHANGED <<cards, specs, runs, budget, last_gate, jobs>>

-----------------------------------------------------------------------------
(* The user. *)

\* resume_gate: the newest paused loop_decide goes back into the queue.
ResumeGate ==
    LET paused == {j \in JobIds : jobs[j].op = "loop_decide" /\ jobs[j].status = "paused"}
        j == Max(paused)
    IN
    /\ approvals < Bounds[policy].approvals /\ paused # {}
    /\ jobs' = [jobs EXCEPT ![j].status = "pending"]
    /\ runs' = IF jobs[j].target = 0 THEN runs
               ELSE [runs EXCEPT ![jobs[j].target].approved = TRUE]
    /\ approvals' = approvals + 1
    /\ UNCHANGED <<policy, cycle, cards, specs, budget, last_gate, worker,
                   crashes, stops, lost, requeued>>

\* stop_loop: every open job is cancelled, whatever is executing it; the cycle
\* is moved only out of two statuses.
StopLoop ==
    LET open == {"pending", "claimed", "running", "paused"}
        cancelled == [j \in JobIds |-> IF jobs[j].status \in open
                                       THEN [jobs[j] EXCEPT !.status = "cancelled"]
                                       ELSE jobs[j]]
    IN
    /\ stops < Bounds[policy].stops /\ stops' = stops + 1
    /\ IF cycle \in {"loop_deciding", "running"}
       THEN /\ cycle' = "reporting"
            /\ jobs' = Append(cancelled, NewJob("loop_report", 1, 0, "pending"))
       ELSE jobs' = cancelled /\ UNCHANGED cycle
    /\ UNCHANGED <<policy, cards, specs, runs, budget, last_gate, worker,
                   crashes, approvals, lost, requeued>>

-----------------------------------------------------------------------------
OperatorStep(w) ==
    \/ RunExperiment(w) \/ Recommend(w)
    \/ DecideRead(w) \/ DecideFresh(w) \/ DecideResumed(w) \/ DecideRaises(w)
    \/ StartPrepared(w) \/ CompileSpec(w) \/ PrepareRun(w) \/ LoopReport(w)

SettleStep(w) ==
    AcknowledgeCancel(w) \/ SettleSuccess(w) \/ RejectedPatch(w) \/ SettleFailure(w)

Next ==
    \/ \E w \in Workers : ClaimJob(w) \/ OperatorStep(w) \/ SettleStep(w) \/ Crash(w)
    \/ ReclaimStale \/ ResumeGate \/ StopLoop

\* Workers keep polling, operators return, outcomes are persisted and dead
\* workers' rows are reclaimed.  Nothing is assumed of the user.
Fairness ==
    /\ \A w \in Workers : WF_vars(ClaimJob(w) \/ OperatorStep(w) \/ SettleStep(w))
    /\ WF_vars(ReclaimStale)

Spec == Init /\ [][Next]_vars /\ Fairness

-----------------------------------------------------------------------------
(* Properties. *)

SpecType == [card : Cards, network : BOOLEAN, gpus : {None, 0, 1}]
RunType  == [spec : Nat, advice : Advice \cup {"none"}, gates : Nat, by_loop : BOOLEAN,
             approved : BOOLEAN]
JobType  == [op : {"execution_setup", "recommend", "loop_decide", "protocol_compile",
                   "loop_report"},
             run : Nat, target : Nat, reclaims : 0..MaxReclaims,
             status : {"pending", "running", "paused", "completed", "failed", "cancelled"}]
WorkerType ==
    [pc : {"idle", "executing", "deciding", "compiled", "finished"}, job : Nat,
     result : {"none", "success", "failure"},
     patch : {"none", "running", "verifying", "loop_deciding", "reporting", "closed"},
     spec : Nat,
     saw : [gates : Nat, advice : Advice \cup {"none"}, total : Nat, per : [Cards -> Nat]]]

\* Every table holds what its columns and the status enums allow and refers to
\* rows that exist: the jobs to runs (loop_decide's to the run prepared for it,
\* protocol_compile's to a card), the runs to specs, a busy worker to its job.
TypeOK ==
    /\ policy \in Policies
    /\ cycle \in {"running", "verifying", "loop_deciding", "reporting", "closed"}
    /\ cards \in [Cards -> CardStatus]
    /\ specs \in Seq(SpecType) /\ runs \in Seq(RunType) /\ jobs \in Seq(JobType)
    /\ Len(runs) > 0
    /\ \A r \in 1..Len(runs) : runs[r].spec \in 1..Len(specs)
    /\ \A j \in JobIds :
          /\ jobs[j].run \in 1..Len(runs)
          /\ jobs[j].op = "protocol_compile" => jobs[j].target \in Cards
          /\ jobs[j].op = "loop_decide" => jobs[j].target \in 0..Len(runs)
    /\ total \in Nat /\ per \in [Cards -> Nat] /\ last_gate \in Nat
    /\ last_gate <= total \/ overlap
    /\ worker \in [Workers -> WorkerType]
    /\ \A w \in Workers :
          /\ worker[w].pc # "idle" => worker[w].job \in JobIds
          /\ worker[w].pc = "compiled" => worker[w].spec \in 1..Len(specs)
    /\ crashes \in Nat /\ approvals \in Nat /\ stops \in Nat /\ requeued \in Nat
    /\ lost \in BOOLEAN /\ overlap \in BOOLEAN

\* The runs the loop has put into the queue.
Started == {jobs[j].run : j \in {k \in JobIds : jobs[k].op = "execution_setup"}} \ {1}

\* Runs the policy's limits leave room for: the decision that reaches a limit
\* stops, so a limit of n buys n - 1 further runs.
Room(limit) == IF limit = 0 THEN 0 ELSE limit - 1
Budgeted ==
    IF policy.max_total_runs # None THEN Room(policy.max_total_runs)
    ELSE NCards * Room(policy.max_runs_per_hypothesis)

\* The loop never starts more runs than its budget has room for, but for one
\* per re-execution of a job after a worker's death (budget.py, loop_decide.py
\* step 4): whatever the recommendations, gates, resumes, stops and crashes.
\* Excepted are decisions that overwrite each other's charge, which takes two
\* workers and a re-execution.
WithinBudget ==
    /\ ~overlap => Cardinality(Started) <= Budgeted + requeued
    /\ overlap => requeued > 0

\* As long as no job was executed twice, a cycle that pauses after every n
\* runs starts fewer than n runs between two approvals of the user
\* (gates.py 59-78, loop_decide.py steps 3 and 5).
EveryNth ==
    IF policy.after_every_run THEN 1 ELSE policy.after_every_n_runs
GateHonoured ==
    EveryNth # None /\ requeued = 0
        => Cardinality(Started) < EveryNth * (approvals + 1)

\* Under a network gate that no gate after every run masks, no spec that needs
\* the network is run unless the user approved that very run, crashes and
\* re-executions included (loop_decide.py 371-394, compile.py 391-453).  Where
\* both gates are configured evaluate_gates returns after_every_run for every
\* spec (gates.py 60-65), the operators pause for other gates only, and a spec
\* that needs the network is run unapproved.
NetworkApproved ==
    policy.before_network_execution /\ ~policy.after_every_run =>
        \A r \in Started : specs[runs[r].spec].network => runs[r].approved

\* Under fairness the loop closes the cycle, waits at a gate, or leaves a
\* failed job to look at; it never goes quiet in between.  Excepted are a
\* manual stop, and a resume that lands between the operator's pause and the
\* settlement, which completes the resumed row.
LoopEnds ==
    <>[](\/ cycle = "closed"
         \/ \E j \in JobIds : jobs[j].status = "failed"
         \/ \E j \in JobIds : jobs[j].op = "loop_decide" /\ jobs[j].status = "paused"
         \/ stops > 0 \/ lost)

\* A loop_decide job executed again after its gate was resumed does not pause
\* at a gate again.  States the comment "Gate was approved -- skip gate
\* evaluation, proceed with recommendation" (loop_decide.py 194).
ApprovedGateProceeds ==
    [][\A j \in JobIds :
          /\ jobs[j].op = "loop_decide" /\ jobs[j].status = "running"
          /\ runs[jobs[j].run].gates > 0
          => jobs'[j].status # "paused"]_vars

=============================================================================
