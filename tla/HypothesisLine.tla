--------------------------- MODULE HypothesisLine ---------------------------
(***************************************************************************)
(* What the pipeline decides about one hypothesis line: the verdict on a   *)
(* run (verification/), the fix for a failed one (remediation/strategies), *)
(* the directional signal of a verified one, the metric frontier of the    *)
(* line, and the recommendation (remediation/recommendations).             *)
(*                                                                         *)
(* RunPipeline has the jobs, the cycle and the failures of the workers and *)
(* leaves every decision open; here the decisions are computed and the     *)
(* queue is reduced to a set of jobs that are executed at least once: a    *)
(* worker that dies after an operator's commit leaves its job to be        *)
(* executed again.  (A verification that is executed again stops the       *)
(* pipeline: RunPipeline.AmbiguousReport.)  An operator reads and writes   *)
(* in one step: what two overlapping updates do to the frontier's total is *)
(* RunPipeline.FrontierCountsRuns.  A metric is an integer, the noise band *)
(* is exact; stderr, code, prompts and texts are the outcomes they lead    *)
(* to.                                                                     *)
(***************************************************************************)
EXTENDS Integers, Sequences, FiniteSets, SequencesExt, FiniteSetsExt

CONSTANTS
    Values,       \* the values the primary metric may take
    Specs,        \* what the line's specs may declare, records of
                  \*   direction, threshold (NoMetric: none declared),
                  \*   sane: the values between the metric's min and max, and
                  \*   limits: the hardware profile, in GB and seconds
    MaxAttempts,  \* remediate.DEFAULT_MAX_ATTEMPTS
    Bounds        \* bounds of a behaviour, records of
                  \*   runs:     experiments the user starts on the line
                  \*   open:     of them under way at a time
                  \*   failures: containers that fail
                  \*   repeats:  jobs executed again after a crash

NoMetric == 1000000
None     == "none"
Limits   == [memory : Nat, timeout : Nat]

ASSUME LineAssumption ==
    /\ Values \subseteq Int /\ NoMetric \notin Values
    /\ Specs \subseteq [direction : {"maximize", "minimize"},
                        threshold : Values \cup {NoMetric}, sane : SUBSET Values,
                        limits : Limits]
    /\ MaxAttempts \in Nat
    /\ Bounds \subseteq [runs : Nat, open : Nat, failures : Nat, repeats : Nat]

VARIABLES
    spec,       \* what the line's specs declare
    runs,       \* run_records, with the rows that hang off a run
    actions,    \* remediation_actions, in created_at order
    completed,  \* the runs that completed, in completed_at order
    frontier,   \* the metric_frontiers row of the line
    todo,       \* the jobs: <<operator, run>>
    log,        \* history: the runs in the order they were classified
    bound,      \* the bounds of this behaviour
    repeats     \* jobs executed again so far

vars == <<spec, runs, actions, completed, frontier, todo, log, bound, repeats>>

FailureClasses == {"oom", "timeout", "dependency", "invalid_artifact", "runtime"}
Signals  == {"advancing", "stalled", "regressing", "noisy", "breakthrough"}
Advices  == {"continue_current", "parameter_variation", "hypothesis_pivot"}
Focused  == {"install_deps", "increase_memory", "extend_timeout",
             "repair_artifact_path"}
MemoryCap      == 64
TimeoutCap     == 14400
StallThreshold == 5

NoFrontier == [best |-> NoMetric, run |-> 0, total |-> 0, successful |-> 0,
               since |-> 0]

Init ==
    /\ spec \in Specs
    /\ runs = <<>> /\ actions = <<>> /\ completed = <<>>
    /\ frontier = NoFrontier
    /\ todo = {}
    /\ log = <<>>
    /\ bound \in Bounds
    /\ repeats = 0

RunIds == 1..Len(runs)

NewRun(parent, limits) ==
    [parent |-> parent, limits |-> limits, status |-> "pending", class |-> None,
     value |-> NoMetric, manifest |-> None, verdict |-> None,
     signal |-> None, improved |-> FALSE, comparable |-> FALSE,
     postmortem |-> FALSE, advice |-> None]

\* load_lineage_run_ids: the walk from a run to the root of its retries.
Ancestry[r \in 0..Len(runs)] ==
    IF r = 0 THEN {} ELSE {r} \cup Ancestry[runs[r].parent]
Lineage(r) == Ancestry[r]

\* Mutant: only the failed run's own actions are loaded.
OwnActions(r) == {k \in DOMAIN actions : actions[k].run = r}

\* load_lineage_actions, as positions in the table.
LineageActions(r) == {k \in DOMAIN actions : actions[k].run \in Lineage(r)}

-----------------------------------------------------------------------------
(* The algorithms. *)

Better(a, b) == IF spec.direction = "maximize" THEN a > b ELSE a < b

\* Mutant: a minimized metric is compared like a maximized one.
AlwaysGreater(current, best) == current > best

IsImprovement(current, best) == Better(current, best)

Abs(x) == IF x < 0 THEN -x ELSE x

\* abs(delta) / max(abs(prev), 1e-8) <= noise_band, at the default band of 1%.
WithinBand(prev, x) == 100 * Abs(x - prev) <= Abs(prev)

\* z_score > 2 with the sample deviation of the history, multiplied out: with
\* n values of sum t and sum of squares q, (n - 1) stdev^2 = q - t^2 / n.
FarFromMean(x, history) ==
    LET n == Len(history)
        t == SumFunction(history)
        q == SumFunction([k \in 1..n |-> history[k] * history[k]])
    IN  /\ n * q > t * t
        /\ (n - 1) * (n * x - t) * (n * x - t) > 4 * n * (n * q - t * t)

\* Both of the last two changes of direction, of four values, are reversals.
Alternates(x, history) ==
    LET recent == Append(SubSeq(history, Len(history) - 2, Len(history)), x)
        delta(k) == recent[k + 1] - recent[k]
    IN  delta(1) * delta(2) < 0 /\ delta(2) * delta(3) < 0

\* Mutant: a smaller metric never counts as progress.
Increasing(x, prev) == x > prev

Improving(x, prev) == Better(x, prev)

\* classify_signal.  (That the change is within the band for the third time in
\* a row only alters the wording of a stall.)
ClassifySignal(x, history) ==
    LET prev      == Last(history)
        improving == Improving(x, prev)
    IN  CASE history = <<>> -> "advancing"
          [] history # <<>> /\ Len(history) >= 3 /\ improving /\ FarFromMean(x, history)
                -> "breakthrough"
          [] OTHER ->
             IF Len(history) >= 3 /\ Alternates(x, history) THEN "noisy"
             ELSE IF WithinBand(prev, x) THEN "stalled"
             ELSE IF improving THEN "advancing" ELSE "regressing"

\* Mutant: an improvement does not reset the count of runs since the last.
UpsertWithoutReset(r, x) ==
    IF frontier = NoFrontier
    THEN [best |-> x, run |-> r, total |-> 1, successful |-> 1, since |-> 0]
    ELSE LET counted == [frontier EXCEPT !.total = @ + 1, !.successful = @ + 1,
                                         !.since = @ + 1]
         IN  IF IsImprovement(x, frontier.best)
             THEN [counted EXCEPT !.best = x, !.run = r] ELSE counted

\* upsert_frontier.  Its caller passes is_successful = True.
UpsertFrontier(r, x) ==
    IF frontier = NoFrontier
    THEN [best |-> x, run |-> r, total |-> 1, successful |-> 1, since |-> 0]
    ELSE LET counted == [frontier EXCEPT !.total = @ + 1, !.successful = @ + 1]
         IN  IF IsImprovement(x, frontier.best)
             THEN [counted EXCEPT !.best = x, !.run = r, !.since = 0]
             ELSE [counted EXCEPT !.since = @ + 1]

Improves(x) == frontier = NoFrontier \/ IsImprovement(x, frontier.best)

\* compute_recommendation, on what recommend_operator collects.
Recommendation(failed, exhausted, unresolved, signal) ==
    LET successful == IF frontier # NoFrontier THEN frontier.successful
                      ELSE IF failed THEN 0 ELSE 1
    IN  CASE failed /\ exhausted /\ successful = 0 -> "hypothesis_pivot"
          [] failed /\ exhausted /\ successful > 0 -> "parameter_variation"
          [] failed /\ ~exhausted                  -> "continue_current"
          [] ~failed /\ signal = "breakthrough"    -> "continue_current"
          [] ~failed /\ signal = "advancing"       ->
                IF unresolved THEN "parameter_variation" ELSE "continue_current"
          [] ~failed /\ signal = "stalled" /\ frontier.since >= StallThreshold ->
                "hypothesis_pivot"
          [] OTHER -> "parameter_variation"

\* The metric against its threshold; the baseline itself is only reported.
MetricPasses(x) ==
    spec.threshold = NoMetric \/ x = spec.threshold \/ Better(x, spec.threshold)

\* compare_to_baseline: a metric that is missing fails.
MetricsPass(r) == runs[r].value # NoMetric /\ MetricPasses(runs[r].value)

\* The metric is between its declared min and max.
MetricSane(r) == runs[r].value \in spec.sane

\* The one required artifact is in the manifest, under its name.
ArtifactsPass(r) == runs[r].manifest = "complete"

\* The verdict of verification_check on a completed run.
Verdict(r) ==
    IF MetricsPass(r) /\ MetricSane(r) /\ ArtifactsPass(r)
    THEN IF spec.threshold # NoMetric THEN "passed" ELSE "inconclusive"
    ELSE "failed"

\* run.failure_class or "unknown"
ClassOf(r) == IF runs[r].class = None THEN "unknown" ELSE runs[r].class

\* Mutant: the filter on the prior strategies is inverted.
EscalatesAfterBroad(r) ==
    \E k \in LineageActions(r) : actions[k].class = ClassOf(r)
                                 /\ actions[k].strategy = "debug_broad"

NeedsEscalation(r) ==
    \E k \in LineageActions(r) : actions[k].class = ClassOf(r)
                                 /\ actions[k].strategy # "debug_broad"

\* Mutant: the memory is set to the smaller of the two, whatever it was.
MemoryUnguarded(limits) ==
    {[limits EXCEPT !.memory = Min({2 * @, MemoryCap})]}

\* The raised limits of a retry, none when they are already at the cap.
MoreMemory(limits) ==
    {new \in {[limits EXCEPT !.memory = Min({2 * @, MemoryCap})]} :
        new.memory > limits.memory}

MoreTime(limits) ==
    {new \in {[limits EXCEPT !.timeout = Min({(3 * @) \div 2, TimeoutCap})]} :
        new.timeout > limits.timeout}

\* _select_invalid_artifact_fix: one artifact of the expected extension under
\* another name, in the manifest that execution_capture stored.
ArtifactFix(r) == runs[r].manifest = "misnamed"

\* The runs whose stderr.log exists.  execution_run gives every run the path
\* but writes all output to stdout.log, and auto_remediate falls back on that
\* only for a run without the path.
StderrWritten == {}

\* _extract_missing_modules finds a name in the tail of stderr.log.
NamesModules(r) == r \in StderrWritten

\* select_strategy: the strategies it may choose, each with the limits of the
\* retry.
SelectStrategy(r) ==
    LET limits == runs[r].limits
        c      == ClassOf(r)
        with(strategy, new) == {[strategy |-> strategy, limits |-> l] : l \in new}
        orSkip(strategy, new) ==
            IF new = {} THEN with("skip", {limits}) ELSE with(strategy, new)
        broad == with("debug_broad", {limits})
    IN  CASE c = "metric_parse" -> with("skip", {limits})
          [] c \in {"dependency", "oom", "timeout", "invalid_artifact"}
                /\ NeedsEscalation(r) -> broad
          [] c = "runtime" -> broad
          [] c = "dependency" /\ ~NeedsEscalation(r) ->
                IF NamesModules(r) THEN with("install_deps", {limits}) ELSE broad
          [] c = "oom" /\ ~NeedsEscalation(r) ->
                orSkip("increase_memory", MoreMemory(limits))
          [] c = "timeout" /\ ~NeedsEscalation(r) ->
                orSkip("extend_timeout", MoreTime(limits))
          [] c = "invalid_artifact" /\ ~NeedsEscalation(r) ->
                IF ArtifactFix(r) THEN with("repair_artifact_path", {limits}) ELSE broad
          [] OTHER -> with("skip", {limits})

-----------------------------------------------------------------------------
(* The operators. *)

\* A job is done and its follow-ups are queued; or its worker died after the
\* operator's commit and the job will be executed again.
Hand(j, next) ==
    \/ /\ todo' = (todo \ {j}) \cup next
       /\ UNCHANGED repeats
    \/ /\ repeats < bound.repeats
       /\ repeats' = repeats + 1
       /\ todo' = todo \cup next

\* Of the user's experiments, those that are not through.
Open == {r \in RunIds : \E j \in todo : j[2] = r}
Roots == {r \in RunIds : runs[r].parent = 0}
Failures == {r \in RunIds : runs[r].class # None}

\* start_run, and execution_setup with the limits of the hardware profile.
StartRun ==
    /\ Cardinality(Roots) < bound.runs /\ Cardinality(Open) < bound.open
    /\ runs' = Append(runs, NewRun(0, spec.limits))
    /\ todo' = todo \cup {<<"run", Len(runs) + 1>>}
    /\ UNCHANGED <<spec, actions, completed, frontier, log, bound, repeats>>

\* The container exits with an error: no artifact is captured.
ContainerFails(r, class) ==
    /\ <<"run", r>> \in todo
    /\ Cardinality(Failures) < bound.failures
    /\ runs' = [runs EXCEPT ![r].status = "failed", ![r].class = class]
    /\ todo' = (todo \ {<<"run", r>>}) \cup {<<"check", r>>}
    /\ UNCHANGED <<spec, actions, completed, frontier, log, bound, repeats>>

\* It exits with 0, but parse_metrics refuses its metrics file.
MetricsUnreadable(r) ==
    /\ <<"run", r>> \in todo
    /\ Cardinality(Failures) < bound.failures
    /\ runs' = [runs EXCEPT ![r].status = "failed", ![r].class = "metric_parse",
                            ![r].manifest = "complete"]
    /\ todo' = (todo \ {<<"run", r>>}) \cup {<<"check", r>>}
    /\ UNCHANGED <<spec, actions, completed, frontier, log, bound, repeats>>

\* execution_capture stores the metric and the manifest.
CaptureArtifacts(r, x, manifest) ==
    /\ <<"run", r>> \in todo
    /\ manifest = "misnamed" => bound.failures > 0
    /\ runs' = [runs EXCEPT ![r].status = "completed", ![r].value = x,
                            ![r].manifest = manifest]
    /\ completed' = Append(completed, r)
    /\ todo' = (todo \ {<<"run", r>>}) \cup {<<"check", r>>}
    /\ UNCHANGED <<spec, actions, frontier, log, bound, repeats>>

\* Mutant: the next operator is chosen by the run's status, not the verdict.
CheckByStatus(r) ==
    /\ <<"check", r>> \in todo
    /\ LET verdict == IF runs[r].status = "failed" THEN "failed" ELSE Verdict(r)
       IN  /\ runs' = [runs EXCEPT ![r].verdict = verdict]
           /\ todo' = (todo \ {<<"check", r>>}) \cup
                      {<<IF runs[r].status = "failed" THEN "remediate" ELSE "signal", r>>}
    /\ UNCHANGED <<spec, actions, completed, frontier, log, bound, repeats>>

VerificationCheck(r) ==
    /\ <<"check", r>> \in todo
    /\ LET verdict == IF runs[r].status = "failed" THEN "failed" ELSE Verdict(r)
       IN  /\ runs' = [runs EXCEPT ![r].verdict = verdict]
           /\ todo' = (todo \ {<<"check", r>>}) \cup
                      {<<IF verdict = "failed" THEN "remediate" ELSE "signal", r>>}
    /\ UNCHANGED <<spec, actions, completed, frontier, log, bound, repeats>>

Act(r, strategy, outcome) ==
    actions' = Append(actions, [run |-> r, class |-> ClassOf(r),
                                strategy |-> strategy, outcome |-> outcome])

\* auto_remediate_operator gives the run up: the attempts of the lineage are
\* used up, the failure is not remediable, or no code fix was found.
GiveUp(r) ==
    /\ <<"remediate", r>> \in todo
    /\ \/ Cardinality(LineageActions(r)) >= MaxAttempts /\ Act(r, "skip", "exhausted")
       \/ /\ Cardinality(LineageActions(r)) < MaxAttempts
          /\ \E s \in SelectStrategy(r) : /\ s.strategy \in {"skip", "debug_broad"}
                                          /\ Act(r, s.strategy, "skipped")
    /\ Hand(<<"remediate", r>>, {<<"postmortem", r>>})
    /\ UNCHANGED <<spec, runs, completed, frontier, log, bound>>

\* It creates a retry run with the fix.
CreateRetry(r) ==
    /\ <<"remediate", r>> \in todo
    /\ Cardinality(LineageActions(r)) < MaxAttempts
    /\ \E s \in SelectStrategy(r) :
          /\ s.strategy # "skip"
          /\ Act(r, s.strategy, "retry_created")
          /\ runs' = Append(runs, NewRun(r, s.limits))
    /\ Hand(<<"remediate", r>>, {<<"run", Len(runs) + 1>>})
    /\ UNCHANGED <<spec, completed, frontier, log, bound>>

VerificationPostmortem(r) ==
    /\ <<"postmortem", r>> \in todo
    /\ runs' = [runs EXCEPT ![r].postmortem = TRUE]
    /\ Hand(<<"postmortem", r>>, {<<"recommend_failed", r>>})
    /\ UNCHANGED <<spec, actions, completed, frontier, log, bound>>

\* The other completed runs of the line, verified or not, in the order they
\* completed: those that completed after this one too.  (A run completes once.)
History(r) == RemoveFirst(completed, r)
ValuesOf(s) == [k \in DOMAIN s |-> runs[s[k]].value]

SignalClassify(r) ==
    /\ <<"signal", r>> \in todo
    /\ runs' = [runs EXCEPT
          ![r].signal = ClassifySignal(runs[r].value, ValuesOf(History(r))),
          ![r].improved = Improves(runs[r].value),
          ![r].comparable = ToSet(History(r)) \subseteq ToSet(log)]
    /\ frontier' = UpsertFrontier(r, runs[r].value)
    /\ log' = Append(log, r)
    /\ Hand(<<"signal", r>>, {<<"recommend", r>>})
    /\ UNCHANGED <<spec, actions, completed, bound>>

\* Mutant: any remediation of the lineage counts as an unresolved failure.
UnresolvedIfRemediated(r, failed) == failed \/ LineageActions(r) # {}

Exhausted(r) == \E k \in LineageActions(r) : actions[k].outcome = "exhausted"

HasUnresolved(r, failed) ==
    failed \/ Exhausted(r) \/ \E k \in Lineage(r) : runs[k].postmortem

Recommend(r, failed) ==
    LET j == <<IF failed THEN "recommend_failed" ELSE "recommend", r>>
    IN  /\ j \in todo
        /\ runs' = [runs EXCEPT ![r].advice =
              Recommendation(failed, Exhausted(r), HasUnresolved(r, failed), runs[r].signal)]
        /\ Hand(j, {})
        /\ UNCHANGED <<spec, actions, completed, frontier, log, bound>>

Next ==
    \/ StartRun
    \/ \E r \in RunIds :
          \/ \E c \in FailureClasses : ContainerFails(r, c)
          \/ MetricsUnreadable(r)
          \/ \E x \in Values, a \in {"complete", "misnamed"} : CaptureArtifacts(r, x, a)
          \/ VerificationCheck(r)
          \/ GiveUp(r) \/ CreateRetry(r)
          \/ VerificationPostmortem(r)
          \/ SignalClassify(r)
          \/ Recommend(r, TRUE) \/ Recommend(r, FALSE)

Spec == Init /\ [][Next]_vars

-----------------------------------------------------------------------------
(* Properties. *)

Operators == {"run", "check", "remediate", "postmortem", "signal", "recommend",
              "recommend_failed"}
RunType ==
    [parent : Nat, limits : Limits, status : {"pending", "completed", "failed"},
     class : FailureClasses \cup {None, "metric_parse"},
     value : Values \cup {NoMetric}, manifest : {None, "complete", "misnamed"},
     verdict : {None, "passed", "inconclusive", "failed"},
     signal : Signals \cup {None}, improved : BOOLEAN, comparable : BOOLEAN,
     postmortem : BOOLEAN, advice : Advices \cup {None}]
ActionType ==
    [run : Nat, class : FailureClasses \cup {"metric_parse", "unknown"},
     strategy : Focused \cup {"skip", "debug_broad"},
     outcome : {"retry_created", "skipped", "exhausted"}]

FrontierType ==
    [best : Values \cup {NoMetric}, run : Nat, total : Nat, successful : Nat, since : Nat]

\* Every variable has its type: what is classified was verified with a metric,
\* and what was remediated or given up was not.
TypeOK ==
    /\ spec \in Specs /\ bound \in Bounds /\ repeats \in 0..bound.repeats
    /\ runs \in Seq(RunType) /\ \A r \in RunIds : runs[r].parent < r
    /\ actions \in Seq(ActionType)
    /\ \A k \in DOMAIN actions : /\ actions[k].run \in RunIds
                                 /\ runs[actions[k].run].verdict = "failed"
    /\ todo \subseteq Operators \X RunIds
    /\ completed \in Seq(RunIds)
    /\ \A k \in DOMAIN completed : runs[completed[k]].status = "completed"
    /\ log \in Seq(RunIds)
    /\ \A k \in DOMAIN log : /\ runs[log[k]].value \in Values
                             /\ runs[log[k]].verdict \in {"passed", "inconclusive"}
    /\ frontier \in FrontierType

LogValue(k) == runs[log[k]].value

\* The k-th classification is the first to reach the best value of all.
ReachesBest(k) ==
    /\ \A i \in DOMAIN log : ~Better(LogValue(i), LogValue(k))
    /\ \A i \in 1..(k - 1) : LogValue(i) # LogValue(k)

\* upsert_frontier, one classification at a time, keeps what a pass over all
\* classifications would find: the best value, the first run to reach it, how
\* many there were and how many came after it.
FrontierMatches ==
    IF log = <<>> THEN frontier = NoFrontier
    ELSE \E k \in DOMAIN log :
            /\ ReachesBest(k)
            /\ frontier = [best |-> LogValue(k), run |-> log[k],
                           total |-> Len(log), successful |-> Len(log),
                           since |-> Len(log) - k]

\* The signal agrees with the frontier: a run that sets a new best, measured
\* against a history that was all classified before it, is never called a
\* regression.
BestIsNoRegression == \A r \in RunIds :
    runs[r].improved /\ runs[r].comparable => runs[r].signal # "regressing"

\* A retry is never given less memory or time than the run it repeats, and
\* what it is given more stays within the caps, at any starting profile and
\* however often remediation is executed.
LimitsGrow == \A r \in RunIds : runs[r].parent # 0 =>
    LET old == runs[runs[r].parent].limits
        new == runs[r].limits
    IN  /\ new.memory >= old.memory /\ new.timeout >= old.timeout
        /\ new.memory # old.memory => new.memory <= MemoryCap
        /\ new.timeout # old.timeout => new.timeout <= TimeoutCap

\* Along a chain of retries a focused strategy is tried once per failure
\* class, then remediation escalates: also when auto_remediate is executed
\* again for a run it has already repaired.
FocusedOnce == \A r \in RunIds :
    \A i, k \in LineageActions(r) :
        i < k /\ actions[i].class = actions[k].class /\ actions[i].strategy \in Focused
            => actions[k].strategy \notin Focused

\* However often remediation is executed, no chain of retries outgrows
\* DEFAULT_MAX_ATTEMPTS.
RetriesBounded == \A r \in RunIds : Cardinality(Lineage(r)) <= 1 + MaxAttempts

\* recommend: "only current-lineage failures influence the recommendation
\* type".  When no job was executed twice, failures that remediation repaired
\* are not held against a run that advances.
RecoveryCounts == \A r \in RunIds :
    repeats = 0 /\ runs[r].signal = "advancing" /\ runs[r].advice # None
        => runs[r].advice = "continue_current"

\* The runs classified since the best was reached.
RunsSinceBest ==
    {log[k] : k \in {i \in DOMAIN log : \E b \in 1..(i - 1) : ReachesBest(b)}}

\* A line is abandoned only for a reason: its first success is still to come
\* and remediation is exhausted, or five runs since the best one did not
\* improve on it (a run that a crash had classified twice counts twice).
PivotEarned ==
    [][\A r \in RunIds :
          runs'[r].advice = "hypothesis_pivot" /\ runs[r].advice # "hypothesis_pivot"
              => \/ log = <<>> /\ Exhausted(r)
                 \/ Cardinality(RunsSinceBest) + repeats >= StallThreshold]_vars
=============================================================================
