---------------------------- MODULE SessionChains ----------------------------
(***************************************************************************)
(* The three chains of sessions that lead a research cycle from a problem  *)
(* to validated experiment specs:                                          *)
(*   discovery: intake -> search -> rerank -> analyze -> finalize,         *)
(*   analysis:  ingest -> chunk -> graph_extract -> coverage -> review     *)
(*                -> evidence, one session per analysed paper,             *)
(*   ideation:  generate -> critique -> rank, and protocol_compile;        *)
(* the requests that start them, the user's own moves of the cycle, and    *)
(* the worker that runs the steps, marks a session failed when a step      *)
(* fails, and may die anywhere.                                            *)
(*                                                                         *)
(* A step is one transaction (an analysis or ideation step writes its      *)
(* session's row first, so two steps of one session never overlap); the    *)
(* job is settled, and the cycle patched, in another one.  A request reads *)
(* its rows, checks them, and commits later.  Texts, scores and models are *)
(* left out: a session is its status and the products it has stored, an    *)
(* ideation session's hypotheses are one card.                             *)
(***************************************************************************)
EXTENDS Integers, Sequences, FiniteSets, FiniteSetsExt

CONSTANTS
    Workers,      \* worker process slots; a dead process is started again
    Papers,       \* the papers a search can find
    Starts,       \* where the cycle stands when the model starts
    MaxReclaims,  \* settings.job_max_reclaims
    MaxRequeued,  \* bound: rows put back after a worker's death
    MaxCrashes,   \* bound: worker crashes
    Asks,         \* bound, by start: the kinds of requests users send
    MaxRequests,  \* bound, by start: requests
    MaxCycles     \* bound: cycles of the charter

ASSUME ChainsAssumption ==
    /\ Starts \subseteq {"problem", "screened", "evidence"}
    /\ MaxReclaims \in Nat /\ MaxRequeued \in Nat /\ MaxCrashes \in Nat
    /\ Asks \in [Starts -> SUBSET {"cycle", "triage", "card", "discovery", "analysis",
                                   "ideation", "compile", "transition"}]
    /\ MaxRequests \in [Starts -> Nat] /\ MaxCycles \in Nat \ {0}

VARIABLES
    start,     \* where the model starts (constant)
    cycles,    \* the charter's cycles: status, profile row, triage of its paper cards
    sessions,  \* discovery, analysis and hypothesis sessions
    jobs,      \* the jobs, in created_at order
    worker,    \* each worker: where it stands, its job, its operator's result
    api,       \* requests that have read their rows and not yet committed
    requests, crashes

tables == <<cycles, sessions, jobs>>
env    == <<start, api, requests, crashes>>
vars   == <<tables, worker, env>>

CycleIds   == 1..Len(cycles)
SessionIds == 1..Len(sessions)
JobIds     == 1..Len(jobs)

CycleStatus == {"created", "discovery_ready", "discovery_screened", "analysis_ready",
                "evidence_ready", "portfolio_ready", "protocol_ready"}
Triage      == {"absent", "discovered", "shortlisted", "dropped", "escalated"}
CardStatus  == {"none", "candidate", "selected", "rejected", "deferred", "compiled"}
JobStatus   == {"pending", "running", "completed", "failed"}
SessionStatus ==
    {"created", "intake_complete", "search_complete", "rerank_complete", "analyze_complete",
     "ingested", "chunked", "graph_extracted", "coverage_verified", "reviewed",
     "generating", "critiquing", "completed", "failed"}
Kinds    == {"discovery", "analysis", "ideation"}
Products == {"cards", "report", "document", "chunks", "coverage", "packet", "review",
             "evidence", "candidates", "critique", "ranks", "spec"}
Operators ==
    [discovery |-> {"discovery_intake", "discovery_search", "discovery_rerank",
                    "discovery_analyze", "discovery_finalize"},
     analysis  |-> {"analysis_ingest", "analysis_chunk", "analysis_graph_extract",
                    "analysis_coverage", "analysis_review", "analysis_evidence"},
     ideation  |-> {"hypothesis_generate", "hypothesis_critique", "hypothesis_rank",
                    "protocol_compile"}]

NewCycle(status) ==
    [status |-> status, profile |-> FALSE, papers |-> [p \in Papers |-> "absent"]]
NewSession(kind, c) ==
    [kind |-> kind, cycle |-> c, status |-> "created", made |-> {}, card |-> "none"]
NewJob(op, s) ==
    [op |-> op, session |-> s, explicit |-> FALSE, status |-> "pending", reclaims |-> 0]
Idle == [pc |-> "idle", job |-> 0, result |-> "none", patch |-> "none"]

Discovered == [NewSession("discovery", 1) EXCEPT !.status = "completed", !.made = {"cards", "report"}]
Analysed   == [NewSession("analysis", 1) EXCEPT !.status = "completed",
                  !.made = {"document", "chunks", "coverage", "packet", "review"}]
\* A hypothesis session whose candidates an earlier release generated: this
\* one's hypothesis_generate never gets that far (see HypothesisGenerate).
Generated  == [NewSession("ideation", 1) EXCEPT !.status = "generating",
                  !.made = {"candidates"}, !.card = "candidate"]

\* A new charter, perhaps with a cycle; a screened cycle with a shortlisted paper; or a cycle whose
\* evidence is ready, with hypotheses waiting for their critique.
Init ==
    /\ start \in Starts
    /\ \/ /\ start = "problem"
          /\ cycles \in {<<>>, <<NewCycle("created")>>}
          /\ sessions = <<>> /\ jobs = <<>>
       \/ /\ start = "screened"
          /\ \E p \in Papers : cycles =
                <<[NewCycle("discovery_screened") EXCEPT !.profile = TRUE,
                      !.papers = [q \in Papers |-> IF q = p THEN "shortlisted" ELSE "discovered"]]>>
          /\ sessions = <<Discovered>> /\ jobs = <<>>
       \/ /\ start = "evidence"
          /\ cycles = <<[NewCycle("evidence_ready") EXCEPT !.profile = TRUE,
                            !.papers = [p \in Papers |-> "shortlisted"]]>>
          /\ \E found \in {{}, {"evidence"}} :
                sessions = <<Discovered, [Analysed EXCEPT !.made = @ \cup found], Generated>>
          /\ jobs = <<NewJob("hypothesis_critique", 3)>>
    /\ worker = [w \in Workers |-> Idle]
    /\ api = {} /\ requests = 0 /\ crashes = 0

AllowedTransitions ==
    {<<"created", "discovery_ready">>, <<"discovery_ready", "discovery_screened">>,
     <<"discovery_screened", "analysis_ready">>, <<"analysis_ready", "analysis_ready">>,
     <<"analysis_ready", "evidence_ready">>, <<"evidence_ready", "portfolio_ready">>,
     <<"portfolio_ready", "protocol_ready">>}

-----------------------------------------------------------------------------
(* The worker around the operators. *)

\* claim_job and start_job: every chain job has priority 10, the oldest is next.
ClaimJob(w) ==
    /\ worker[w].pc = "idle"
    /\ \E j \in JobIds :
          /\ jobs[j].status = "pending"
          /\ \A k \in 1..(j - 1) : jobs[k].status # "pending"
          /\ jobs' = [jobs EXCEPT ![j].status = "running"]
          /\ worker' = [worker EXCEPT ![w].pc = "executing", ![w].job = j]
    /\ UNCHANGED <<cycles, sessions, env>>

Executing(w, op) == worker[w].pc = "executing" /\ jobs[worker[w].job].op = op
S(w) == jobs[worker[w].job].session
C(w) == sessions[S(w)].cycle

\* The operator returns: success with a patch of the cycle, or failure.
Return(w, res, patch) ==
    /\ worker' = [worker EXCEPT ![w].pc = "finished", ![w].result = res, ![w].patch = patch]
    /\ UNCHANGED env

\* What the step commits for its session, and the job it hands over to.
Store(w, status, new) ==
    sessions' = [sessions EXCEPT ![S(w)].status = status, ![S(w)].made = @ \cup new]
HandOver(w, op) == jobs' = Append(jobs, NewJob(op, S(w)))

\* The last step of a chain hands over to nobody.
Conclude(w, new) == Store(w, "completed", new) /\ UNCHANGED jobs

\* mark_failed, committed by the operator, with what it had flushed before.
MarkFailed(w, new) == Store(w, "failed", new) /\ UNCHANGED jobs /\ Return(w, "failure", "none")

\* An exception leaves the operator: its transaction is rolled back.
OperatorRaises(w) ==
    /\ worker[w].pc = "executing"
    /\ Return(w, "failure", "none")
    /\ UNCHANGED tables

PatchAllowed(w) ==
    \/ worker[w].patch = "none"
    \/ <<cycles[C(w)].status, worker[w].patch>> \in AllowedTransitions

SettleSuccess(w) ==
    /\ worker[w].pc = "finished" /\ worker[w].result = "success"
    /\ PatchAllowed(w)
    /\ cycles' = [cycles EXCEPT ![C(w)].status =
                      IF worker[w].patch = "none" THEN @ ELSE worker[w].patch]
    /\ jobs' = [jobs EXCEPT ![worker[w].job].status = "completed"]
    /\ worker' = [worker EXCEPT ![w] = Idle]
    /\ UNCHANGED <<sessions, env>>

\* validate_transition raises and the worker process ends, its row running.
RejectedPatch(w) ==
    /\ worker[w].pc = "finished" /\ worker[w].result = "success"
    /\ ~PatchAllowed(w)
    /\ worker' = [worker EXCEPT ![w] = Idle]
    /\ UNCHANGED <<tables, env>>

\* Mutant: the failed step's row is completed instead of failed.
SettleQuietly(w) ==
    /\ worker[w].pc = "finished" /\ worker[w].result = "failure"
    /\ jobs' = [jobs EXCEPT ![worker[w].job].status = "completed"]
    /\ sessions' = [sessions EXCEPT ![S(w)].status = "failed"]
    /\ worker' = [worker EXCEPT ![w] = Idle]
    /\ UNCHANGED <<cycles, env>>

\* The job fails and _mark_*_job_failed fails its session, completed or not; a
\* protocol_compile job names no run record, so nothing is marked for it.
SettleFailure(w) ==
    /\ worker[w].pc = "finished" /\ worker[w].result = "failure"
    /\ jobs' = [jobs EXCEPT ![worker[w].job].status = "failed"]
    /\ sessions' = IF jobs[worker[w].job].op = "protocol_compile" THEN sessions
                   ELSE [sessions EXCEPT ![S(w)].status = "failed"]
    /\ worker' = [worker EXCEPT ![w] = Idle]
    /\ UNCHANGED <<cycles, env>>

Crash(w) ==
    /\ worker[w].pc # "idle"
    /\ crashes < MaxCrashes /\ crashes' = crashes + 1
    /\ worker' = [worker EXCEPT ![w] = Idle]
    /\ UNCHANGED <<tables, start, api, requests>>

Reexecutions == MapThenSumSet(LAMBDA j : jobs[j].reclaims, JobIds)

\* Mutant: the scan does not look at the heartbeat.
StaleByStatus == {j \in JobIds : jobs[j].status = "running"}

Stale == {j \in JobIds : jobs[j].status = "running" /\ \A w \in Workers : worker[w].job # j}

\* Mutant: a row past its reclaims is left as it is.
ReclaimForgets ==
    /\ Stale # {}
    /\ jobs' = [j \in JobIds |->
          IF j \in Stale /\ jobs[j].reclaims + 1 <= MaxReclaims
             /\ Reexecutions + Cardinality(Stale) <= MaxRequeued
          THEN [jobs[j] EXCEPT !.status = "pending", !.reclaims = @ + 1]
          ELSE jobs[j]]
    /\ UNCHANGED <<cycles, sessions, worker, env>>

\* reclaim_stale_jobs; a row that is failed this way leaves its session alone.
ReclaimStale ==
    /\ Stale # {}
    /\ jobs' = [j \in JobIds |->
          IF j \notin Stale THEN jobs[j]
          ELSE IF jobs[j].reclaims + 1 <= MaxReclaims
                  /\ Reexecutions + Cardinality(Stale) <= MaxRequeued
               THEN [jobs[j] EXCEPT !.status = "pending", !.reclaims = @ + 1]
               ELSE [jobs[j] EXCEPT !.status = "failed"]]
    /\ UNCHANGED <<cycles, sessions, worker, env>>

-----------------------------------------------------------------------------
(* Discovery. *)

\* A failing scoping skill is only a warning.
DiscoveryIntake(w) ==
    /\ Executing(w, "discovery_intake")
    /\ Store(w, "intake_complete", {})
    /\ HandOver(w, "discovery_search")
    /\ Return(w, "success", "discovery_ready")
    /\ UNCHANGED cycles

\* The cards of the hits are inserted; one that the session already has breaks
\* the unique (session_id, dedupe_key) and the search raises.
DiscoverySearch(w) ==
    /\ Executing(w, "discovery_search")
    /\ \E hits \in SUBSET Papers :
          /\ \A p \in hits : cycles[C(w)].papers[p] = "absent"
          /\ cycles' = [cycles EXCEPT ![C(w)].papers =
                [p \in Papers |-> IF p \in hits THEN "discovered" ELSE @[p]]]
    /\ Store(w, "search_complete", {"cards"})
    /\ HandOver(w, "discovery_rerank")
    /\ Return(w, "success", "none")

DiscoveryRerank(w) ==
    /\ Executing(w, "discovery_rerank")
    /\ Store(w, "rerank_complete", {})
    /\ HandOver(w, "discovery_analyze")
    /\ Return(w, "success", "none")
    /\ UNCHANGED cycles

DiscoveryAnalyze(w) ==
    /\ Executing(w, "discovery_analyze")
    /\ Store(w, "analyze_complete", {})
    /\ HandOver(w, "discovery_finalize")
    /\ Return(w, "success", "none")
    /\ UNCHANGED cycles

\* The views are built and their untriaged cards shortlisted, also when the
\* report cannot be written.
DiscoveryFinalize(w) ==
    /\ Executing(w, "discovery_finalize")
    /\ \E views \in SUBSET {p \in Papers : cycles[C(w)].papers[p] = "discovered"} : cycles' = [cycles EXCEPT ![C(w)].papers =
          [p \in Papers |-> IF p \in views THEN "shortlisted" ELSE @[p]]]
    /\ \/ Conclude(w, {"report"}) /\ Return(w, "success", "discovery_screened")
       \/ MarkFailed(w, {})

-----------------------------------------------------------------------------
(* Analysis of one paper.  What a step had flushed before it failed is        *)
(* committed with the failure.                                               *)

Has(w, p) == p \in sessions[S(w)].made

\* Fetch the full text; a second document of the session is refused.
AnalysisIngest(w) ==
    /\ Executing(w, "analysis_ingest")
    /\ \/ /\ ~Has(w, "document")
          /\ Store(w, "ingested", {"document"})
          /\ HandOver(w, "analysis_chunk")
          /\ Return(w, "success", "none")
       \/ MarkFailed(w, {})
    /\ UNCHANGED cycles

\* A document may yield no chunk; embedding may fail after the chunks' flush.
AnalysisChunk(w) ==
    /\ Executing(w, "analysis_chunk")
    /\ \E new \in {{}, {"chunks"}} :
          /\ new # {} => Has(w, "document")
          /\ \/ /\ Has(w, "document")
                /\ Store(w, "chunked", new)
                /\ HandOver(w, "analysis_graph_extract")
                /\ Return(w, "success", "none")
             \/ MarkFailed(w, new)
    /\ UNCHANGED cycles

\* Mutant: the graph of a document without chunks is taken for an empty one.
GraphOfNothing(w) ==
    /\ Executing(w, "analysis_graph_extract")
    /\ Store(w, "graph_extracted", {})
    /\ HandOver(w, "analysis_coverage")
    /\ Return(w, "success", "none")
    /\ UNCHANGED cycles

\* Without chunks there is nothing to extract.  A chunk the model cannot read is
\* skipped, so the graph may be empty and is not told apart.
AnalysisGraphExtract(w) ==
    /\ Executing(w, "analysis_graph_extract")
    /\ \/ /\ Has(w, "chunks")
          /\ Store(w, "graph_extracted", {})
          /\ HandOver(w, "analysis_coverage")
          /\ Return(w, "success", "none")
       \/ MarkFailed(w, {})
    /\ UNCHANGED cycles

\* A second diagnostic of the session is refused.
AnalysisCoverage(w) ==
    /\ Executing(w, "analysis_coverage")
    /\ \/ /\ Has(w, "document") /\ ~Has(w, "coverage")
          /\ Store(w, "coverage_verified", {"coverage"})
          /\ HandOver(w, "analysis_review")
          /\ Return(w, "success", "none")
       \/ MarkFailed(w, {})
    /\ UNCHANGED cycles

\* The model call, the review and the report file may fail in turn; a second
\* packet of the session is refused.
AnalysisReview(w) ==
    /\ Executing(w, "analysis_review")
    /\ \/ /\ ~Has(w, "packet")
          /\ Store(w, "reviewed", {"packet", "review"})
          /\ HandOver(w, "analysis_evidence")
          /\ Return(w, "success", "none")
       \/ MarkFailed(w, {})
       \/ \E new \in {{"packet"}, {"packet", "review"}} : ~Has(w, "packet") /\ MarkFailed(w, new)
    /\ UNCHANGED cycles

AnalysisEvidence(w) ==
    /\ Executing(w, "analysis_evidence")
    /\ \E new \in {{}, {"evidence"}} :
          /\ new # {} => Has(w, "packet")
          /\ \/ Has(w, "packet") /\ Conclude(w, new) /\ Return(w, "success", "none")
             \/ MarkFailed(w, new)
    /\ UNCHANGED cycles

-----------------------------------------------------------------------------
(* Ideation and supervised protocol compilation. *)

Evidence(c) == \E s \in SessionIds : sessions[s].cycle = c /\ "evidence" \in sessions[s].made
Card(w) == sessions[S(w)].card

\* Without evidence the session fails.  With evidence the pattern query reads a
\* key its summaries do not have, and the step always raises (OperatorRaises).
HypothesisGenerate(w) ==
    /\ Executing(w, "hypothesis_generate")
    /\ ~Evidence(C(w))
    /\ MarkFailed(w, {})
    /\ UNCHANGED cycles

\* No candidate left, or the model call fails: the session fails.
HypothesisCritique(w) ==
    /\ Executing(w, "hypothesis_critique")
    /\ \/ /\ Card(w) = "candidate"
          /\ Store(w, "critiquing", {"critique"})
          /\ HandOver(w, "hypothesis_rank")
          /\ Return(w, "success", "none")
       \/ MarkFailed(w, {})
    /\ UNCHANGED cycles

HypothesisRank(w) ==
    /\ Executing(w, "hypothesis_rank")
    /\ \/ /\ Card(w) = "candidate"
          /\ Conclude(w, {"ranks"})
          /\ Return(w, "success", "portfolio_ready")
       \/ Card(w) # "candidate" /\ MarkFailed(w, {})
    /\ UNCHANGED cycles

\* Compile the named cards, or the candidate and selected ones.  Specs that all
\* fail validation are committed and the job fails.
ProtocolCompile(w) ==
    /\ Executing(w, "protocol_compile")
    /\ jobs[worker[w].job].explicit \/ Card(w) \in {"candidate", "selected"}
    /\ \/ /\ sessions' = [sessions EXCEPT ![S(w)].card = "compiled", ![S(w)].made = @ \cup {"spec"}]
          /\ Return(w, "success", "protocol_ready")
       \/ /\ sessions' = [sessions EXCEPT ![S(w)].card = IF @ = "candidate" THEN "selected" ELSE @]
          /\ Return(w, "failure", "none")
    /\ UNCHANGED <<cycles, jobs>>

-----------------------------------------------------------------------------
(* Requests. *)

Ask(kind) ==
    /\ kind \in Asks[start]
    /\ requests < MaxRequests[start] /\ requests' = requests + 1

Accept(r) ==
    /\ Ask(r.op)
    /\ \E id \in 1..MaxRequests[start] :
          /\ \A q \in api : q.id # id
          /\ \A i \in 1..(id - 1) : \E q \in api : q.id = i
          /\ api' = api \cup {[id |-> id, ask |-> r]}
    /\ UNCHANGED <<tables, worker, start, crashes>>

\* A request that writes one column whatever it was.
Direct(kind) ==
    /\ Ask(kind)
    /\ UNCHANGED <<jobs, worker, start, api, crashes>>

CreateCycle ==
    /\ Direct("cycle")
    /\ Len(cycles) < MaxCycles
    /\ cycles' = Append(cycles, NewCycle("created"))
    /\ UNCHANGED sessions

TriagePaperCard(c, p, st) ==
    /\ Direct("triage")
    /\ cycles[c].papers[p] # "absent"
    /\ cycles' = [cycles EXCEPT ![c].papers[p] = st]
    /\ UNCHANGED sessions

UpdateHypothesisCard(s, st) ==
    /\ Direct("card")
    /\ sessions[s].card # "none"
    /\ sessions' = [sessions EXCEPT ![s].card = st]
    /\ UNCHANGED cycles

Active == {c \in CycleIds : cycles[c].status \in {"created", "discovery_ready"}}

\* On the newest cycle that has not been screened, else on one of its own (0).
StartDiscovery ==
    \/ /\ Active # {}
       /\ ~cycles[Max(Active)].profile
       /\ Accept([op |-> "discovery", cycle |-> Max(Active)])
    \/ Active = {} /\ Accept([op |-> "discovery", cycle |-> 0])

\* Of a shortlisted or escalated paper, on any cycle.
StartAnalysis(c, p, k) ==
    /\ cycles[c].papers[p] \in {"shortlisted", "escalated"}
    /\ Accept([op |-> "analysis", cycle |-> k, seen |-> cycles[k].status])

StartHypothesisSession(c) ==
    /\ cycles[c].status = "evidence_ready"
    /\ Accept([op |-> "ideation", cycle |-> c])

CompileProtocols(c, s, explicit) ==
    /\ cycles[c].status = "portfolio_ready"
    /\ sessions[s].kind = "ideation" /\ sessions[s].cycle = c /\ sessions[s].status = "completed"
    /\ Accept([op |-> "compile", session |-> s, explicit |-> explicit])

TransitionCycle(c, target) ==
    /\ <<cycles[c].status, target>> \in AllowedTransitions
    /\ Accept([op |-> "transition", cycle |-> c, seen |-> cycles[c].status, target |-> target])

Begin(kind, c, op) ==
    /\ sessions' = Append(sessions, NewSession(kind, c))
    /\ jobs' = Append(jobs, NewJob(op, Len(sessions) + 1))

\* Mutant: the profile's cycle_id is not unique.
CommitDiscoveryTwice(r) ==
    /\ r.op = "discovery"
    /\ cycles' = IF r.cycle = 0 THEN Append(cycles, [NewCycle("created") EXCEPT !.profile = TRUE])
                 ELSE [cycles EXCEPT ![r.cycle].profile = TRUE]
    /\ Begin("discovery", IF r.cycle = 0 THEN Len(cycles) + 1 ELSE r.cycle, "discovery_intake")

\* A second profile of the cycle breaks its unique index: rolled back.
CommitDiscovery(r) ==
    /\ r.op = "discovery"
    /\ IF r.cycle = 0
       THEN /\ cycles' = Append(cycles, [NewCycle("created") EXCEPT !.profile = TRUE])
            /\ Begin("discovery", Len(cycles) + 1, "discovery_intake")
       ELSE IF cycles[r.cycle].profile THEN UNCHANGED tables
       ELSE /\ cycles' = [cycles EXCEPT ![r.cycle].profile = TRUE]
            /\ Begin("discovery", r.cycle, "discovery_intake")

\* The status read is written back, advanced if it was discovery_screened.
CommitAnalysis(r) ==
    /\ r.op = "analysis"
    /\ cycles' = IF r.seen = "discovery_screened"
                 THEN [cycles EXCEPT ![r.cycle].status = "analysis_ready"] ELSE cycles
    /\ Begin("analysis", r.cycle, "analysis_ingest")

CommitIdeation(r) ==
    /\ r.op = "ideation"
    /\ Begin("ideation", r.cycle, "hypothesis_generate")
    /\ UNCHANGED cycles

CommitCompile(r) ==
    /\ r.op = "compile"
    /\ jobs' = Append(jobs, [NewJob("protocol_compile", r.session) EXCEPT !.explicit = r.explicit])
    /\ UNCHANGED <<cycles, sessions>>

CommitTransition(r) ==
    /\ r.op = "transition"
    /\ cycles' = IF r.target = r.seen THEN cycles
                 ELSE [cycles EXCEPT ![r.cycle].status = r.target]
    /\ UNCHANGED <<sessions, jobs>>

\* The request's transaction ends.
Commit(q) ==
    /\ api' = api \ {q}
    /\ \/ CommitDiscovery(q.ask) \/ CommitAnalysis(q.ask) \/ CommitIdeation(q.ask)
       \/ CommitCompile(q.ask) \/ CommitTransition(q.ask)
    /\ UNCHANGED <<worker, start, requests, crashes>>

-----------------------------------------------------------------------------
Discovery(w) ==
    \/ DiscoveryIntake(w) \/ DiscoverySearch(w) \/ DiscoveryRerank(w)
    \/ DiscoveryAnalyze(w) \/ DiscoveryFinalize(w)
Analysis(w) ==
    \/ AnalysisIngest(w) \/ AnalysisChunk(w) \/ AnalysisGraphExtract(w)
    \/ AnalysisCoverage(w) \/ AnalysisReview(w) \/ AnalysisEvidence(w)
Ideation(w) ==
    \/ HypothesisGenerate(w) \/ HypothesisCritique(w) \/ HypothesisRank(w)
    \/ ProtocolCompile(w)

WorkerStep(w) ==
    \/ ClaimJob(w) \/ Discovery(w) \/ Analysis(w) \/ Ideation(w) \/ OperatorRaises(w)
    \/ SettleSuccess(w) \/ SettleFailure(w) \/ RejectedPatch(w)

User ==
    \/ CreateCycle
    \/ StartDiscovery
    \/ \E c \in CycleIds :
          \/ \E p \in Papers, st \in Triage \ {"absent"} : TriagePaperCard(c, p, st)
          \/ \E p \in Papers, k \in CycleIds : StartAnalysis(c, p, k)
          \/ StartHypothesisSession(c)
          \/ \E s \in SessionIds, explicit \in BOOLEAN : CompileProtocols(c, s, explicit)
          \/ \E target \in CycleStatus : TransitionCycle(c, target)
    \/ \E s \in SessionIds, st \in {"candidate", "selected", "rejected", "deferred"} :
          UpdateHypothesisCard(s, st)

Next ==
    \/ \E w \in Workers : WorkerStep(w) \/ Crash(w)
    \/ ReclaimStale
    \/ User
    \/ \E q \in api : Commit(q)

\* Workers poll, the reclaim scan ticks and requests end; users and crashes are free.
Fairness ==
    /\ \A w \in Workers : WF_vars(WorkerStep(w))
    /\ WF_vars(ReclaimStale)
    /\ WF_vars(\E q \in api : Commit(q))

Spec == Init /\ [][Next]_vars /\ Fairness

-----------------------------------------------------------------------------
(* Properties. *)

CycleType   == [status : CycleStatus, profile : BOOLEAN, papers : [Papers -> Triage]]
SessionType == [kind : Kinds, cycle : CycleIds, status : SessionStatus,
                made : SUBSET Products, card : CardStatus]
JobType     == [op : UNION {Operators[k] : k \in Kinds}, session : SessionIds,
                explicit : BOOLEAN, status : JobStatus, reclaims : 0..MaxReclaims]
WorkerType  == [pc : {"idle", "executing", "finished"}, job : 0..Len(jobs),
                result : {"none", "success", "failure"}, patch : CycleStatus \cup {"none"}]

\* Every table holds what its columns allow, a session's jobs are of its chain,
\* and the job a worker works on is running: nobody else took it over.
TypeOK ==
    /\ cycles \in Seq(CycleType)
    /\ sessions \in Seq(SessionType)
    /\ jobs \in Seq(JobType)
    /\ \A j \in JobIds : jobs[j].op \in Operators[sessions[jobs[j].session].kind]
    /\ worker \in [Workers -> WorkerType]
    /\ \A w \in Workers : worker[w].pc # "idle" => jobs[worker[w].job].status = "running"

\* One discovery session per cycle (_start_discovery_session_on_cycle), also
\* when two requests find the same cycle free.
OneDiscoveryPerCycle ==
    \A s, t \in SessionIds :
        sessions[s].kind = "discovery" /\ sessions[t].kind = "discovery"
        /\ sessions[s].cycle = sessions[t].cycle => s = t

\* A failed session has a failed job that says why, or one that is still to be
\* settled: a failure never outlives its explanation (mark_failed and
\* _mark_discovery_job_failed, _mark_analysis_job_failed, _mark_ideation_job_failed).
FailureExplained ==
    \A s \in SessionIds : sessions[s].status = "failed" =>
        \E j \in JobIds : jobs[j].session = s /\ jobs[j].status # "completed"

\* The sessions as their readers see them.
Outcome(st) == IF st \in {"completed", "failed"} THEN st ELSE "open"
Progress == INSTANCE SessionProgress WITH progress <-
    [s \in SessionIds |-> [kind |-> sessions[s].kind, products |-> sessions[s].made,
                           outcome |-> Outcome(sessions[s].status)]]

\* However often steps are executed again, products are stored in the order of
\* the chain, none disappears, and a completed session has all of them.
ImplementsProgress == Progress!Spec

\* No session is forgotten: each ends completed or failed, or one of its jobs is
\* failed for an operator to see, whatever crashes, exceptions and rejected
\* patches met its chain (enqueue_next and reclaim_stale_jobs).
NoSessionForgotten ==
    <>[](\A s \in SessionIds :
            \/ sessions[s].status \in {"completed", "failed"}
            \/ \E j \in JobIds : jobs[j].session = s /\ jobs[j].status = "failed")
=============================================================================
