------------------------ MODULE SessionChainsProofs ------------------------
(***************************************************************************)
(* Theorems about the session chains, for any number of workers, papers,   *)
(* requests, crashes and reclaims: the type invariant, one discovery       *)
(* session per cycle, a job behind every failed session, and that the      *)
(* sessions implement SessionProgress.                                     *)
(***************************************************************************)
EXTENDS SessionChains, SequenceTheorems, WellFoundedInduction, TLAPS

\* No two workers are on one job, and a worker without work holds none and has
\* no result.
OneHolder ==
    /\ \A w \in Workers : /\ (worker[w].pc = "idle") <=> (worker[w].job = 0)
                          /\ worker[w].pc = "idle" => worker[w].result = "none"
    /\ \A w, v \in Workers : worker[w].pc # "idle" /\ worker[w].job = worker[v].job => w = v

\* What the requests under way refer to exists, and a session whose hypotheses
\* are to be compiled has ranked them.
RequestRefers(q) ==
    /\ q.ask.op = "discovery" => q.ask.cycle \in 0..Len(cycles)
    /\ q.ask.op \in {"analysis", "ideation", "transition"} => q.ask.cycle \in CycleIds
    /\ q.ask.op = "transition" => q.ask.target \in CycleStatus
    /\ q.ask.op = "compile" =>
          /\ q.ask.session \in SessionIds
          /\ sessions[q.ask.session].kind = "ideation"
          /\ Progress!Promised["ideation"] \subseteq sessions[q.ask.session].made
          /\ q.ask.explicit \in BOOLEAN
RequestsRefer == \A q \in api : RequestRefers(q)

\* A cycle with a discovery session has its profile row.
ProfileTaken ==
    \A s \in SessionIds : sessions[s].kind = "discovery" => cycles[sessions[s].cycle].profile

\* A failed session has a job that can still say why: not a protocol_compile
\* job, which leaves the session alone, not completed, and not about to be.
Culprit(s, j) ==
    /\ jobs[j].session = s /\ jobs[j].op # "protocol_compile" /\ jobs[j].status # "completed"
    /\ \A w \in Workers : worker[w].job = j => worker[w].result # "success"
FailureHasCulprit ==
    \A s \in SessionIds : sessions[s].status = "failed" => \E j \in JobIds : Culprit(s, j)

\* What has been stored when a job of an operator is handed over.
Needs ==
    [discovery_intake |-> {}, discovery_search |-> {}, discovery_rerank |-> {"cards"},
     discovery_analyze |-> {"cards"}, discovery_finalize |-> {"cards"},
     analysis_ingest |-> {}, analysis_chunk |-> {"document"},
     analysis_graph_extract |-> {"document"}, analysis_coverage |-> {"document", "chunks"},
     analysis_review |-> {"document", "chunks", "coverage"},
     analysis_evidence |-> {"document", "chunks", "coverage", "packet", "review"},
     hypothesis_generate |-> {}, hypothesis_critique |-> {},
     hypothesis_rank |-> {"candidates", "critique"},
     protocol_compile |-> {"candidates", "critique", "ranks"}]
JobsReady == \A j \in JobIds : Needs[jobs[j].op] \subseteq sessions[jobs[j].session].made

\* Products are made from stored ones, completed sessions have what they promise
\* and hypotheses come from candidates.
SessionSound(s) ==
    /\ \A p \in sessions[s].made : Progress!MadeFrom[p] \subseteq sessions[s].made
    /\ sessions[s].status = "completed" =>
           Progress!Promised[sessions[s].kind] \subseteq sessions[s].made
    /\ sessions[s].card # "none" => "candidates" \in sessions[s].made
SessionsSound == \A s \in SessionIds : SessionSound(s)

Inv ==
    /\ TypeOK /\ OneHolder /\ RequestsRefer
    /\ ProfileTaken /\ OneDiscoveryPerCycle
    /\ FailureHasCulprit
    /\ JobsReady /\ SessionsSound

-----------------------------------------------------------------------------
(* What the types say of rows. *)

AllOps == UNION {Operators[k] : k \in Kinds}

\* The lengths are numbers and every row has its type.
LEMMA Rows ==
    ASSUME TypeOK
    PROVE  /\ Len(cycles) \in Nat /\ Len(sessions) \in Nat /\ Len(jobs) \in Nat
           /\ \A c \in CycleIds : cycles[c] \in CycleType
           /\ \A s \in SessionIds : sessions[s] \in SessionType
           /\ \A j \in JobIds : jobs[j] \in JobType
           /\ \A w \in Workers : worker[w] \in WorkerType
           /\ DOMAIN cycles = CycleIds /\ DOMAIN sessions = SessionIds /\ DOMAIN jobs = JobIds
BY DEF TypeOK, CycleIds, SessionIds, JobIds

\* The columns of a session's row.
LEMMA SessionColumns ==
    ASSUME TypeOK, NEW s \in SessionIds
    PROVE  /\ sessions[s].kind \in Kinds /\ sessions[s].cycle \in CycleIds
           /\ sessions[s].status \in SessionStatus /\ sessions[s].made \in SUBSET Products
           /\ sessions[s].card \in CardStatus
           /\ sessions[s] = [kind |-> sessions[s].kind, cycle |-> sessions[s].cycle,
                             status |-> sessions[s].status, made |-> sessions[s].made,
                             card |-> sessions[s].card]
BY Rows DEF SessionType

\* The columns of a job's row.
LEMMA JobColumns ==
    ASSUME TypeOK, NEW j \in JobIds
    PROVE  /\ jobs[j].op \in AllOps /\ jobs[j].session \in SessionIds
           /\ jobs[j].explicit \in BOOLEAN /\ jobs[j].status \in JobStatus
           /\ jobs[j].reclaims \in 0..MaxReclaims
           /\ jobs[j].op \in Operators[sessions[jobs[j].session].kind]
BY Rows DEF JobType, AllOps, TypeOK

\* A worker that is not idle works on a running job of an existing session.
LEMMA Busy ==
    ASSUME TypeOK, OneHolder, NEW w \in Workers, worker[w].pc # "idle"
    PROVE  /\ worker[w].job \in JobIds /\ S(w) \in SessionIds /\ C(w) \in CycleIds
           /\ jobs[worker[w].job].status = "running"
           /\ jobs[worker[w].job].op \in Operators[sessions[S(w)].kind]
           /\ sessions[S(w)].kind \in Kinds
<1>1. worker[w] \in WorkerType /\ Len(jobs) \in Nat
  BY Rows
<1>2. worker[w].job \in JobIds
  BY <1>1 DEF OneHolder, WorkerType, JobIds
<1>3. S(w) \in SessionIds /\ jobs[worker[w].job].op \in Operators[sessions[S(w)].kind]
  BY <1>2, JobColumns DEF S
<1>4. C(w) \in CycleIds /\ sessions[S(w)].kind \in Kinds
  BY <1>3, SessionColumns DEF C
<1>5. QED
  BY <1>2, <1>3, <1>4 DEF TypeOK

\* Which chain an operator belongs to.
LEMMA KindOfOp ==
    ASSUME NEW kind \in Kinds, NEW op \in Operators[kind]
    PROVE  /\ op \in Operators.discovery => kind = "discovery"
           /\ op \in Operators.analysis => kind = "analysis"
           /\ op \in Operators.ideation => kind = "ideation"
           /\ op \in AllOps
BY DEF Operators, Kinds, AllOps

-----------------------------------------------------------------------------
(* Tables that only grow. *)

KeepsCycles ==
    /\ cycles' \in Seq(CycleType) /\ Len(cycles) <= Len(cycles')
    /\ \A c \in CycleIds : cycles[c].profile => cycles'[c].profile

KeepsSessions ==
    /\ sessions' \in Seq(SessionType') /\ Len(sessions') = Len(sessions)
    /\ \A s \in SessionIds : /\ sessions'[s].kind = sessions[s].kind
                              /\ sessions'[s].cycle = sessions[s].cycle
                              /\ sessions[s].made \subseteq sessions'[s].made

KeepsJobs ==
    /\ jobs' \in Seq(JobType') /\ Len(jobs) <= Len(jobs')
    /\ \A j \in JobIds : jobs'[j].op = jobs[j].op /\ jobs'[j].session = jobs[j].session

\* A job that was not there is of its session's chain and has what it needs.
NewJobsReady ==
    \A j \in JobIds' \ JobIds :
        /\ jobs'[j].op \in Operators[sessions'[jobs'[j].session].kind]
        /\ Needs[jobs'[j].op] \subseteq sessions'[jobs'[j].session].made

\* Session types carry over to a longer list of cycles, job types to a longer
\* list of sessions.
LEMMA TypesWiden ==
    /\ TypeOK /\ Len(cycles') \in Nat /\ Len(cycles) <= Len(cycles')
          => CycleIds \subseteq CycleIds' /\ SessionType \subseteq SessionType'
    /\ TypeOK /\ Len(sessions') \in Nat /\ Len(sessions) <= Len(sessions')
          => SessionIds \subseteq SessionIds' /\ JobType \subseteq JobType'
    /\ TypeOK /\ Len(jobs') \in Nat /\ Len(jobs) <= Len(jobs')
          => JobIds \subseteq JobIds' /\ WorkerType \subseteq WorkerType'
<1>1. TypeOK => Len(cycles) \in Nat /\ Len(sessions) \in Nat /\ Len(jobs) \in Nat
  BY Rows
<1>2. TypeOK /\ Len(cycles') \in Nat /\ Len(cycles) <= Len(cycles') => CycleIds \subseteq CycleIds'
  BY <1>1 DEF CycleIds
<1>3. TypeOK /\ Len(sessions') \in Nat /\ Len(sessions) <= Len(sessions')
         => SessionIds \subseteq SessionIds'
  BY <1>1 DEF SessionIds
<1>4. TypeOK /\ Len(jobs') \in Nat /\ Len(jobs) <= Len(jobs')
         => JobIds \subseteq JobIds' /\ 0..Len(jobs) \subseteq 0..Len(jobs')
  BY <1>1 DEF JobIds
<1>5. CycleIds \subseteq CycleIds' => SessionType \subseteq SessionType'
  BY DEF SessionType
<1>6. SessionIds \subseteq SessionIds' => JobType \subseteq JobType'
  BY DEF JobType
<1>7. 0..Len(jobs) \subseteq 0..Len(jobs') => WorkerType \subseteq WorkerType'
  BY DEF WorkerType
<1>8. QED
  BY <1>2, <1>3, <1>4, <1>5, <1>6, <1>7

\* A table that stays as it is keeps everything.
LEMMA Unchanged ==
    ASSUME TypeOK
    PROVE  /\ UNCHANGED cycles => KeepsCycles
           /\ UNCHANGED sessions /\ KeepsCycles => KeepsSessions
           /\ UNCHANGED jobs /\ KeepsSessions => KeepsJobs /\ NewJobsReady
<1>1. UNCHANGED cycles => KeepsCycles
  BY Rows DEF KeepsCycles, TypeOK
<1>2. UNCHANGED sessions /\ KeepsCycles => KeepsSessions
  <2>1. KeepsCycles => SessionType \subseteq SessionType'
    BY TypesWiden DEF KeepsCycles
  <2>2. sessions \in Seq(SessionType)
    BY DEF TypeOK
  <2>3. SessionType \subseteq SessionType' => sessions \in Seq(SessionType')
    BY <2>2
  <2>4. QED
    BY <2>1, <2>3 DEF KeepsSessions
<1>3. UNCHANGED jobs /\ KeepsSessions => KeepsJobs /\ NewJobsReady
  <2>1. KeepsSessions => JobType \subseteq JobType'
    BY TypesWiden, Rows DEF KeepsSessions
  <2>2. jobs \in Seq(JobType)
    BY DEF TypeOK
  <2>3. JobType \subseteq JobType' => jobs \in Seq(JobType')
    BY <2>2
  <2>4. QED
    BY <2>1, <2>3, Rows DEF KeepsJobs, NewJobsReady, JobIds
<1>4. QED
  BY <1>1, <1>2, <1>3

\* The part of the type invariant that is about the tables.
TablesTyped ==
    /\ cycles \in Seq(CycleType)
    /\ sessions \in Seq(SessionType)
    /\ jobs \in Seq(JobType)
    /\ \A j \in JobIds : jobs[j].op \in Operators[sessions[jobs[j].session].kind]

\* As long as tables only grow, they stay typed, the jobs there were stay
\* ready, and discovery sessions stay alone on their cycles.
LEMMA GrowingTables ==
    ASSUME Inv, KeepsCycles, KeepsSessions, KeepsJobs, NewJobsReady
    PROVE  /\ TablesTyped'
           /\ ProfileTaken' /\ OneDiscoveryPerCycle'
           /\ JobsReady'
<1>1. TypeOK
  BY DEF Inv
<1>2. /\ SessionIds' = SessionIds /\ \A s \in SessionIds : sessions[s].cycle \in CycleIds
      /\ \A j \in JobIds : jobs[j].session \in SessionIds
  BY <1>1, SessionColumns, JobColumns DEF KeepsSessions, SessionIds
<1>3. ASSUME NEW j \in JobIds'
      PROVE  /\ jobs'[j].op \in Operators[sessions'[jobs'[j].session].kind]
             /\ Needs[jobs'[j].op] \subseteq sessions'[jobs'[j].session].made
  <2>1. CASE j \in JobIds
    <3>1. jobs'[j].op = jobs[j].op /\ jobs'[j].session = jobs[j].session
      BY <2>1 DEF KeepsJobs
    <3>2. /\ sessions'[jobs[j].session].kind = sessions[jobs[j].session].kind
          /\ sessions[jobs[j].session].made \subseteq sessions'[jobs[j].session].made
      BY <1>2, <2>1 DEF KeepsSessions
    <3>3. /\ jobs[j].op \in Operators[sessions[jobs[j].session].kind]
          /\ Needs[jobs[j].op] \subseteq sessions[jobs[j].session].made
      BY <2>1 DEF Inv, JobsReady, TypeOK
    <3>4. QED
      BY <3>1, <3>2, <3>3
  <2>2. CASE j \notin JobIds
    BY <1>3, <2>2 DEF NewJobsReady
  <2>3. QED
    BY <2>1, <2>2
<1>4. TablesTyped'
  BY <1>3 DEF TablesTyped, KeepsCycles, KeepsSessions, KeepsJobs
<1>5. ProfileTaken' /\ OneDiscoveryPerCycle'
  BY <1>2 DEF Inv, ProfileTaken, OneDiscoveryPerCycle, KeepsSessions, KeepsCycles
<1>6. QED
  BY <1>3, <1>4, <1>5 DEF JobsReady

\* Requests under way keep referring to what exists, if the new ones do.
LEMMA GrowingTablesRequests ==
    ASSUME Inv, KeepsCycles, KeepsSessions, \A q \in api' \ api : RequestRefers(q)'
    PROVE  RequestsRefer'
<1>1. /\ CycleIds \subseteq CycleIds' /\ 0..Len(cycles) \subseteq 0..Len(cycles')
      /\ SessionIds' = SessionIds
  BY Rows DEF Inv, KeepsCycles, KeepsSessions, CycleIds, SessionIds
<1>2. ASSUME NEW q \in api, RequestRefers(q)
      PROVE  RequestRefers(q)'
  BY <1>1, <1>2 DEF RequestRefers, KeepsSessions
<1>3. QED
  BY <1>2 DEF Inv, RequestsRefer

\* One worker moves, the others stay where they are; the job it comes to hold,
\* if any, was nobody's.
Moves(w) ==
    /\ worker' = [worker EXCEPT ![w] = worker'[w]]
    /\ worker'[w] \in WorkerType'
    /\ (worker'[w].pc = "idle") <=> (worker'[w].job = 0)
    /\ worker'[w].pc = "idle" => worker'[w].result = "none"
    /\ \/ worker'[w].job \in {0, worker[w].job}
       \/ \A v \in Workers : worker[v].job # worker'[w].job
    /\ worker'[w].pc # "idle" => jobs'[worker'[w].job].status = "running"

\* Workers are typed, on running jobs, and apart from each other.
WorkersSound ==
    /\ worker \in [Workers -> WorkerType]
    /\ \A w \in Workers : worker[w].pc # "idle" => jobs[worker[w].job].status = "running"
    /\ OneHolder

\* If moreover no job another worker is on changes its status, workers
\* stay sound.
LEMMA MovesWorkers ==
    ASSUME Inv, KeepsJobs, NEW w \in Workers, Moves(w),
           \A v \in Workers \ {w} : worker[v].pc # "idle" =>
               jobs'[worker[v].job].status = jobs[worker[v].job].status
    PROVE  WorkersSound'
<1>1. \A v \in Workers \ {w} : worker'[v] = worker[v]
  BY DEF Moves, Inv, TypeOK
<1>2. WorkerType \subseteq WorkerType'
  BY TypesWiden DEF Inv, KeepsJobs
<1>3. worker' \in [Workers -> WorkerType']
  BY <1>1, <1>2 DEF Moves, Inv, TypeOK
<1>4. \A v \in Workers : worker'[v].pc # "idle" => jobs'[worker'[v].job].status = "running"
  BY <1>1 DEF Moves, Inv, TypeOK
<1>5. \A v \in Workers : /\ (worker'[v].pc = "idle") <=> (worker'[v].job = 0)
                         /\ worker'[v].pc = "idle" => worker'[v].result = "none"
  BY <1>1 DEF Moves, Inv, OneHolder
<1>6. ASSUME NEW u \in Workers, NEW v \in Workers,
             worker'[u].pc # "idle", worker'[u].job = worker'[v].job
      PROVE  u = v
  <2>1. worker'[u].job # 0 /\ worker'[v].pc # "idle"
    BY <1>5, <1>6
  <2>2. CASE u # w /\ v # w
    BY <1>1, <1>6, <2>2 DEF Inv, OneHolder
  <2>3. CASE u = w /\ v # w
    BY <1>1, <1>6, <2>1, <2>3 DEF Inv, OneHolder, Moves
  <2>4. CASE u # w /\ v = w
    BY <1>1, <1>6, <2>1, <2>4 DEF Inv, OneHolder, Moves
  <2>5. QED
    BY <2>2, <2>3, <2>4
<1>7. QED
  BY <1>3, <1>4, <1>5, <1>6 DEF OneHolder, WorkersSound

\* A row is added to the jobs.
LEMMA AppendJob ==
    ASSUME TypeOK, Len(sessions') \in Nat, Len(sessions) <= Len(sessions'),
           NEW row \in JobType', jobs' = Append(jobs, row)
    PROVE  /\ KeepsJobs
           /\ Len(jobs') = Len(jobs) + 1 /\ JobIds' = JobIds \cup {Len(jobs) + 1}
           /\ Len(jobs) + 1 \notin JobIds
           /\ jobs'[Len(jobs) + 1] = row
           /\ \A j \in JobIds : jobs'[j] = jobs[j]
<1>1. jobs \in Seq(JobType) /\ Len(jobs) \in Nat /\ JobType \subseteq JobType'
  BY TypesWiden, Rows DEF TypeOK
<1>2. jobs \in Seq(JobType')
  BY <1>1
<1>3. /\ jobs' \in Seq(JobType') /\ Len(jobs') = Len(jobs) + 1
      /\ jobs'[Len(jobs) + 1] = row /\ \A j \in 1..Len(jobs) : jobs'[j] = jobs[j]
  BY <1>1, <1>2
<1>4. QED
  BY <1>1, <1>3 DEF KeepsJobs, JobIds

\* The statuses of some jobs change.
LEMMA SetJobs ==
    ASSUME TypeOK, NEW f, jobs' = [j \in JobIds |-> f[j]], UNCHANGED sessions,
           \A j \in JobIds : /\ f[j] \in JobType /\ f[j].op = jobs[j].op
                             /\ f[j].session = jobs[j].session
    PROVE  KeepsJobs /\ NewJobsReady /\ JobIds' = JobIds /\ \A j \in JobIds : jobs'[j] = f[j]
<1>1. Len(jobs) \in Nat /\ JobIds = 1..Len(jobs) /\ JobType' = JobType
  BY Rows DEF JobIds, JobType, SessionIds
<1>2. jobs' \in Seq(JobType) /\ Len(jobs') = Len(jobs)
  BY <1>1
<1>3. QED
  BY <1>1, <1>2 DEF KeepsJobs, NewJobsReady, JobIds

-----------------------------------------------------------------------------
(* The steps of the chains. *)

\* What every step of a chain, from discovery_intake to hypothesis_rank, does:
\* it stores the session's status and products made from stored ones, fails
\* the session exactly when it fails itself, completes it only with all that
\* is promised, and hands over only to a job that has what it needs.
Advance(w) ==
    LET made == sessions[S(w)].made
        kind == sessions[S(w)].kind
    IN
    /\ worker[w].pc = "executing" /\ jobs[worker[w].job].op # "protocol_compile"
    /\ \E status \in SessionStatus, new \in SUBSET Products,
          result \in {"success", "failure"}, patch \in CycleStatus \cup {"none"} :
          /\ status = "failed" <=> result = "failure"
          /\ \A p \in new : Progress!MadeFrom[p] \subseteq made \cup new
          /\ status = "completed" => Progress!Promised[kind] \subseteq made \cup new
          /\ Store(w, status, new)
          /\ \/ UNCHANGED jobs
             \/ \E op \in Operators[kind] : Needs[op] \subseteq made \cup new /\ HandOver(w, op)
          /\ Return(w, result, patch)
    /\ KeepsCycles /\ Len(cycles') = Len(cycles)

\* The effect of storing on the sessions.
LEMMA StoreEffect ==
    ASSUME TypeOK, NEW w \in Workers, S(w) \in SessionIds, KeepsCycles,
           NEW status \in SessionStatus, NEW new \in SUBSET Products, Store(w, status, new)
    PROVE  /\ KeepsSessions
           /\ sessions'[S(w)] = [sessions[S(w)] EXCEPT !.status = status, !.made = @ \cup new]
           /\ \A s \in SessionIds \ {S(w)} : sessions'[s] = sessions[s]
<1> DEFINE row == [sessions[S(w)] EXCEPT !.status = status, !.made = @ \cup new]
<1>1. sessions' = [sessions EXCEPT ![S(w)] = row]
  BY DEF Store
<1>2. row \in SessionType /\ row.kind = sessions[S(w)].kind /\ row.cycle = sessions[S(w)].cycle
      /\ row.made = sessions[S(w)].made \cup new
  BY SessionColumns, Rows DEF SessionType
<1>3. SessionType \subseteq SessionType'
  BY TypesWiden DEF KeepsCycles
<1>4. /\ sessions' \in Seq(SessionType) /\ Len(sessions') = Len(sessions)
      /\ sessions'[S(w)] = row
      /\ \A s \in SessionIds \ {S(w)} : sessions'[s] = sessions[s]
  <2> HIDE DEF row
  <2>1. sessions \in Seq(SessionType) /\ S(w) \in 1..Len(sessions)
    BY DEF TypeOK, SessionIds
  <2>2. QED
    BY <1>1, <1>2, <2>1, ExceptSeq DEF SessionIds
<1>5. sessions' \in Seq(SessionType')
  BY <1>3, <1>4
<1>6. QED
  BY <1>2, <1>4, <1>5 DEF KeepsSessions

\* The effect of an operator's return on its worker.
LEMMA ReturnEffect ==
    ASSUME TypeOK, OneHolder, NEW w \in Workers, worker[w].pc = "executing",
           NEW result \in {"success", "failure"}, NEW patch \in CycleStatus \cup {"none"},
           Return(w, result, patch), KeepsJobs,
           jobs'[worker[w].job].status = "running"
    PROVE  /\ Moves(w)
           /\ worker'[w].result = result /\ worker'[w].job = worker[w].job
           /\ worker'[w].pc = "finished"
           /\ \A v \in Workers \ {w} : worker'[v] = worker[v]
<1> DEFINE row == [worker[w] EXCEPT !.pc = "finished", !.result = result, !.patch = patch]
<1>1. worker' = [worker EXCEPT ![w] = row]
  BY DEF Return
<1>2. worker[w] \in WorkerType /\ WorkerType \subseteq WorkerType'
  BY Rows, TypesWiden DEF KeepsJobs
<1>3. row \in WorkerType /\ row.pc = "finished" /\ row.job = worker[w].job
      /\ row.result = result
  BY <1>2 DEF WorkerType
<1>4. /\ worker'[w] = row /\ worker' = [worker EXCEPT ![w] = worker'[w]]
      /\ \A v \in Workers \ {w} : worker'[v] = worker[v]
  BY <1>1 DEF TypeOK
<1>5. worker[w].job # 0
  BY DEF OneHolder
<1>6. QED
  BY <1>2, <1>3, <1>4, <1>5 DEF Moves

\* What is left to show of a step that only lets tables grow: its workers, its
\* new requests, and the sessions it changed.
LEMMA Assemble ==
    ASSUME Inv, KeepsCycles, KeepsSessions, KeepsJobs, NewJobsReady,
           \A q \in api' \ api : RequestRefers(q)',
           WorkersSound', FailureHasCulprit', SessionsSound'
    PROVE  Inv'
<1>1. RequestsRefer'
  BY GrowingTablesRequests
<1>2. TablesTyped' /\ ProfileTaken' /\ OneDiscoveryPerCycle' /\ JobsReady'
  BY GrowingTables
<1>3. TypeOK'
  BY <1>2 DEF TypeOK, TablesTyped, WorkersSound
<1>4. QED
  BY <1>1, <1>2, <1>3 DEF Inv, WorkersSound

\* Steps of the chains keep the invariant.
LEMMA AdvancePreservesInv ==
    ASSUME Inv, NEW w \in Workers, Advance(w)
    PROVE  Inv' /\ KeepsSessions
           /\ \A s \in SessionIds \ {S(w)} : sessions'[s] = sessions[s]
<1>0. TypeOK /\ OneHolder
  BY DEF Inv
<1>1. PICK status \in SessionStatus, new \in SUBSET Products,
           result \in {"success", "failure"}, patch \in CycleStatus \cup {"none"} :
          /\ status = "failed" <=> result = "failure"
          /\ \A p \in new : Progress!MadeFrom[p] \subseteq sessions[S(w)].made \cup new
          /\ status = "completed" =>
                Progress!Promised[sessions[S(w)].kind] \subseteq sessions[S(w)].made \cup new
          /\ Store(w, status, new)
          /\ \/ UNCHANGED jobs
             \/ \E op \in Operators[sessions[S(w)].kind] :
                   Needs[op] \subseteq sessions[S(w)].made \cup new /\ HandOver(w, op)
          /\ Return(w, result, patch)
  BY DEF Advance
<1>2. worker[w].pc = "executing" /\ jobs[worker[w].job].op # "protocol_compile" /\ KeepsCycles
  BY DEF Advance
<1>3. /\ worker[w].job \in JobIds /\ S(w) \in SessionIds /\ sessions[S(w)].kind \in Kinds
      /\ jobs[worker[w].job].status = "running"
  BY <1>0, <1>2, Busy
<1>4. /\ KeepsSessions /\ SessionIds' = SessionIds
      /\ sessions'[S(w)] = [sessions[S(w)] EXCEPT !.status = status, !.made = @ \cup new]
      /\ \A s \in SessionIds \ {S(w)} : sessions'[s] = sessions[s]
  BY <1>0, <1>1, <1>2, <1>3, StoreEffect DEF KeepsSessions, SessionIds
<1>5. /\ sessions'[S(w)].status = status /\ sessions'[S(w)].made = sessions[S(w)].made \cup new
      /\ sessions'[S(w)].kind = sessions[S(w)].kind /\ sessions'[S(w)].card = sessions[S(w)].card
  BY <1>0, <1>3, <1>4, SessionColumns
<1>6. KeepsJobs /\ NewJobsReady /\ \A j \in JobIds : jobs'[j] = jobs[j]
  <2>1. CASE UNCHANGED jobs
    BY <1>0, <1>4, <2>1, Unchanged
  <2>2. ASSUME NEW op \in Operators[sessions[S(w)].kind],
               Needs[op] \subseteq sessions[S(w)].made \cup new, HandOver(w, op)
        PROVE  KeepsJobs /\ NewJobsReady /\ \A j \in JobIds : jobs'[j] = jobs[j]
    <3> DEFINE row == NewJob(op, S(w))
    <3>1. op \in AllOps /\ MaxReclaims \in Nat
      BY <1>3, KindOfOp, ChainsAssumption
    <3>2. row \in JobType' /\ row.op = op /\ row.session = S(w)
      BY <1>3, <1>4, <3>1 DEF NewJob, JobType, AllOps, JobStatus
    <3> HIDE DEF row
    <3>3. jobs' = Append(jobs, row) /\ Len(sessions') \in Nat /\ Len(sessions) <= Len(sessions')
      BY <1>0, <1>4, <2>2, Rows DEF HandOver, KeepsSessions, row
    <3>4. /\ KeepsJobs /\ JobIds' = JobIds \cup {Len(jobs) + 1}
          /\ jobs'[Len(jobs) + 1] = row /\ \A j \in JobIds : jobs'[j] = jobs[j]
      BY <1>0, <3>2, <3>3, AppendJob
    <3>5. NewJobsReady
      BY <1>5, <2>2, <3>2, <3>4 DEF NewJobsReady
    <3>6. QED
      BY <3>4, <3>5
  <2>3. QED
    BY <1>1, <2>1, <2>2
<1>7. /\ Moves(w) /\ worker'[w].result = result /\ worker'[w].job = worker[w].job
      /\ \A v \in Workers \ {w} : worker'[v] = worker[v]
  BY <1>0, <1>1, <1>2, <1>3, <1>6, ReturnEffect
<1>8. \A v \in Workers \ {w} : worker[v].pc # "idle" =>
          jobs'[worker[v].job].status = jobs[worker[v].job].status
  BY <1>0, <1>6, Busy
<1>9. WorkersSound'
  BY <1>6, <1>7, <1>8, MovesWorkers
<1>10. FailureHasCulprit'
  <2> SUFFICES ASSUME NEW s \in SessionIds, sessions'[s].status = "failed"
               PROVE  \E j \in JobIds : Culprit(s, j)'
    BY <1>0, <1>4, <1>6, Rows, TypesWiden DEF FailureHasCulprit, KeepsJobs
  <2>1. CASE s = S(w)
    <3>1. PICK j \in JobIds : j = worker[w].job
      BY <1>3
    <3>2. worker'[w].result # "success"
      BY <1>1, <1>5, <1>7, <2>1
    <3>3. \A v \in Workers : worker'[v].job = j => v = w
      BY <1>0, <1>2, <1>7, <3>1 DEF OneHolder
    <3>4. Culprit(s, j)'
      BY <1>2, <1>3, <1>6, <2>1, <3>1, <3>2, <3>3 DEF Culprit, S
    <3>5. QED
      BY <3>4
  <2>2. CASE s # S(w)
    <3>1. PICK j \in JobIds : Culprit(s, j)
      BY <1>4, <2>2 DEF Inv, FailureHasCulprit
    <3>2. worker[w].job # j
      BY <2>2, <3>1 DEF Culprit, S
    <3>3. Culprit(s, j)'
      BY <1>6, <1>7, <3>1, <3>2 DEF Culprit
    <3>4. QED
      BY <3>3
  <2>3. QED
    BY <2>1, <2>2
<1>11. SessionsSound'
  <2> SUFFICES ASSUME NEW s \in SessionIds PROVE SessionSound(s)'
    BY <1>4 DEF SessionsSound
  <2>1. SessionSound(s)
    BY DEF Inv, SessionsSound
  <2>2. CASE s = S(w)
    BY <1>1, <1>5, <2>1, <2>2 DEF SessionSound
  <2>3. CASE s # S(w)
    BY <1>4, <2>1, <2>3 DEF SessionSound
  <2>4. QED
    BY <2>2, <2>3
<1>12. \A q \in api' \ api : RequestRefers(q)'
  BY <1>1 DEF Return, env
<1>13. Inv'
  BY <1>2, <1>4, <1>6, <1>9, <1>10, <1>11, <1>12, Assemble
<1>14. QED
  BY <1>4, <1>13

-----------------------------------------------------------------------------
(* Each operator makes such a step. *)

\* One cycle's row is written, its profile not taken back.
LEMMA SetCycle ==
    ASSUME TypeOK, NEW c \in CycleIds, NEW row \in CycleType, cycles[c].profile => row.profile,
           cycles' = [cycles EXCEPT ![c] = row]
    PROVE  KeepsCycles /\ Len(cycles') = Len(cycles) /\ cycles'[c] = row
<1>1. cycles \in Seq(CycleType) /\ c \in 1..Len(cycles) /\ Len(cycles) \in Nat
  BY Rows DEF TypeOK, CycleIds
<1>2. /\ cycles' \in Seq(CycleType) /\ Len(cycles') = Len(cycles) /\ cycles'[c] = row
      /\ \A k \in (1..Len(cycles)) \ {c} : cycles'[k] = cycles[k]
  BY <1>1, ExceptSeq
<1>3. QED
  BY <1>1, <1>2 DEF KeepsCycles, CycleIds

\* Triage of a cycle's papers.
LEMMA SetPapers ==
    ASSUME TypeOK, NEW c \in CycleIds, NEW f \in [Papers -> Triage],
           cycles' = [cycles EXCEPT ![c].papers = f]
    PROVE  KeepsCycles /\ Len(cycles') = Len(cycles)
<1>1. cycles[c] \in CycleType
  BY Rows
<1> DEFINE row == [cycles[c] EXCEPT !.papers = f]
<1>2. row \in CycleType /\ row.profile = cycles[c].profile
  BY <1>1 DEF CycleType
<1>3. cycles' = [cycles EXCEPT ![c] = row]
  OBVIOUS
<1> HIDE DEF row
<1>4. QED
  BY <1>2, <1>3, SetCycle

\* The step fails its session.
LEMMA FailAdvances ==
    ASSUME NEW w, worker[w].pc = "executing", jobs[worker[w].job].op # "protocol_compile",
           KeepsCycles, Len(cycles') = Len(cycles),
           NEW new \in SUBSET Products,
           \A p \in new : Progress!MadeFrom[p] \subseteq sessions[S(w)].made \cup new,
           MarkFailed(w, new)
    PROVE  Advance(w)
<1>1. /\ "failed" \in SessionStatus /\ "failure" \in {"success", "failure"}
      /\ "none" \in CycleStatus \cup {"none"}
  BY DEF SessionStatus
<1>2. Store(w, "failed", new) /\ UNCHANGED jobs /\ Return(w, "failure", "none")
  BY DEF MarkFailed
<1>3. QED
  BY <1>1, <1>2 DEF Advance

\* The step hands over.
LEMMA HandOverAdvances ==
    ASSUME NEW w, worker[w].pc = "executing", jobs[worker[w].job].op # "protocol_compile",
           KeepsCycles, Len(cycles') = Len(cycles),
           NEW status \in SessionStatus \ {"completed", "failed"}, NEW new \in SUBSET Products,
           \A p \in new : Progress!MadeFrom[p] \subseteq sessions[S(w)].made \cup new,
           Store(w, status, new),
           NEW op \in Operators[sessions[S(w)].kind],
           Needs[op] \subseteq sessions[S(w)].made \cup new, HandOver(w, op),
           NEW patch \in CycleStatus \cup {"none"}, Return(w, "success", patch)
    PROVE  Advance(w)
<1>1. "success" \in {"success", "failure"} /\ status # "failed" /\ status # "completed"
  OBVIOUS
<1>2. QED
  BY <1>1 DEF Advance

\* The step is the last of its chain.
LEMMA ConcludeAdvances ==
    ASSUME NEW w, worker[w].pc = "executing", jobs[worker[w].job].op # "protocol_compile",
           KeepsCycles, Len(cycles') = Len(cycles),
           NEW new \in SUBSET Products,
           \A p \in new : Progress!MadeFrom[p] \subseteq sessions[S(w)].made \cup new,
           Progress!Promised[sessions[S(w)].kind] \subseteq sessions[S(w)].made \cup new,
           Conclude(w, new),
           NEW patch \in CycleStatus \cup {"none"}, Return(w, "success", patch)
    PROVE  Advance(w)
<1>1. "completed" \in SessionStatus /\ "success" \in {"success", "failure"}
  BY DEF SessionStatus
<1>2. Store(w, "completed", new) /\ UNCHANGED jobs
  BY DEF Conclude
<1>3. QED
  BY <1>1, <1>2 DEF Advance

\* What an operator finds: its session is of its chain and has what it needs.
LEMMA Executes ==
    ASSUME Inv, NEW w \in Workers, NEW op, Executing(w, op)
    PROVE  /\ worker[w].pc = "executing" /\ jobs[worker[w].job].op = op
           /\ S(w) \in SessionIds /\ C(w) \in CycleIds
           /\ op \in Operators.discovery => sessions[S(w)].kind = "discovery"
           /\ op \in Operators.analysis => sessions[S(w)].kind = "analysis"
           /\ op \in Operators.ideation => sessions[S(w)].kind = "ideation"
           /\ Needs[op] \subseteq sessions[S(w)].made
<1>1. worker[w].pc = "executing" /\ jobs[worker[w].job].op = op /\ worker[w].pc # "idle"
  BY DEF Executing
<1>2. /\ worker[w].job \in JobIds /\ S(w) \in SessionIds /\ C(w) \in CycleIds
      /\ op \in Operators[sessions[S(w)].kind] /\ sessions[S(w)].kind \in Kinds
  BY <1>1, Busy DEF Inv
<1>3. Needs[op] \subseteq sessions[S(w)].made
  BY <1>1, <1>2 DEF Inv, JobsReady, S
<1>4. QED
  BY <1>1, <1>2, <1>3, KindOfOp

\* Steps that do not touch the cycle.
LEMMA SameCycles ==
    ASSUME Inv, UNCHANGED cycles
    PROVE  KeepsCycles /\ Len(cycles') = Len(cycles)
BY Unchanged DEF Inv

\* discovery_intake to discovery_finalize.
LEMMA DiscoveryAdvances ==
    ASSUME Inv, NEW w \in Workers, Discovery(w)
    PROVE  Advance(w)
<1>1. CASE DiscoveryIntake(w)
  <2>1. /\ Executing(w, "discovery_intake") /\ Store(w, "intake_complete", {})
        /\ HandOver(w, "discovery_search") /\ Return(w, "success", "discovery_ready")
        /\ KeepsCycles /\ Len(cycles') = Len(cycles)
    BY <1>1, SameCycles DEF DiscoveryIntake
  <2>2. sessions[S(w)].kind = "discovery" /\ worker[w].pc = "executing"
        /\ jobs[worker[w].job].op # "protocol_compile"
    BY <2>1, Executes DEF Operators
  <2>3. /\ "intake_complete" \in SessionStatus \ {"completed", "failed"}
        /\ "discovery_ready" \in CycleStatus \cup {"none"}
        /\ "discovery_search" \in Operators[sessions[S(w)].kind]
        /\ Needs["discovery_search"] \subseteq sessions[S(w)].made \cup {}
    BY <2>2 DEF SessionStatus, CycleStatus, Operators, Needs
  <2>4. QED
    BY <2>1, <2>2, <2>3, HandOverAdvances
<1>2. CASE DiscoverySearch(w)
  <2>1. /\ Executing(w, "discovery_search") /\ Store(w, "search_complete", {"cards"})
        /\ HandOver(w, "discovery_rerank") /\ Return(w, "success", "none")
    BY <1>2 DEF DiscoverySearch
  <2>2. /\ sessions[S(w)].kind = "discovery" /\ worker[w].pc = "executing"
        /\ jobs[worker[w].job].op # "protocol_compile" /\ C(w) \in CycleIds
    BY <2>1, Executes DEF Operators
  <2>3. /\ "search_complete" \in SessionStatus \ {"completed", "failed"}
        /\ "none" \in CycleStatus \cup {"none"} /\ {"cards"} \in SUBSET Products
        /\ "discovery_rerank" \in Operators[sessions[S(w)].kind]
        /\ Needs["discovery_rerank"] \subseteq sessions[S(w)].made \cup {"cards"}
        /\ \A p \in {"cards"} : Progress!MadeFrom[p] \subseteq sessions[S(w)].made \cup {"cards"}
    BY <2>2 DEF SessionStatus, CycleStatus, Operators, Needs, Products, Progress!MadeFrom
  <2>4. KeepsCycles /\ Len(cycles') = Len(cycles)
    <3>1. PICK hits \in SUBSET Papers : cycles' = [cycles EXCEPT ![C(w)].papers =
              [p \in Papers |-> IF p \in hits THEN "discovered" ELSE @[p]]]
      BY <1>2 DEF DiscoverySearch
    <3> DEFINE f == [p \in Papers |->
                        IF p \in hits THEN "discovered" ELSE cycles[C(w)].papers[p]]
    <3>2. cycles[C(w)] \in CycleType
      BY <2>2, Rows DEF Inv
    <3>3. f \in [Papers -> Triage]
      BY <3>2 DEF CycleType, Triage
    <3>4. cycles' = [cycles EXCEPT ![C(w)].papers = f]
      BY <3>1
    <3> HIDE DEF f
    <3>5. QED
      BY <2>2, <3>3, <3>4, SetPapers DEF Inv
  <2>5. QED
    BY <2>1, <2>2, <2>3, <2>4, HandOverAdvances
<1>3. CASE DiscoveryRerank(w)
  <2>1. /\ Executing(w, "discovery_rerank") /\ Store(w, "rerank_complete", {})
        /\ HandOver(w, "discovery_analyze") /\ Return(w, "success", "none")
        /\ KeepsCycles /\ Len(cycles') = Len(cycles)
    BY <1>3, SameCycles DEF DiscoveryRerank
  <2>2. /\ sessions[S(w)].kind = "discovery" /\ worker[w].pc = "executing"
        /\ jobs[worker[w].job].op # "protocol_compile" /\ "cards" \in sessions[S(w)].made
    BY <2>1, Executes DEF Operators, Needs
  <2>3. /\ "rerank_complete" \in SessionStatus \ {"completed", "failed"}
        /\ "none" \in CycleStatus \cup {"none"}
        /\ "discovery_analyze" \in Operators[sessions[S(w)].kind]
        /\ Needs["discovery_analyze"] \subseteq sessions[S(w)].made \cup {}
    BY <2>2 DEF SessionStatus, CycleStatus, Operators, Needs
  <2>4. QED
    BY <2>1, <2>2, <2>3, HandOverAdvances
<1>4. CASE DiscoveryAnalyze(w)
  <2>1. /\ Executing(w, "discovery_analyze") /\ Store(w, "analyze_complete", {})
        /\ HandOver(w, "discovery_finalize") /\ Return(w, "success", "none")
        /\ KeepsCycles /\ Len(cycles') = Len(cycles)
    BY <1>4, SameCycles DEF DiscoveryAnalyze
  <2>2. /\ sessions[S(w)].kind = "discovery" /\ worker[w].pc = "executing"
        /\ jobs[worker[w].job].op # "protocol_compile" /\ "cards" \in sessions[S(w)].made
    BY <2>1, Executes DEF Operators, Needs
  <2>3. /\ "analyze_complete" \in SessionStatus \ {"completed", "failed"}
        /\ "none" \in CycleStatus \cup {"none"}
        /\ "discovery_finalize" \in Operators[sessions[S(w)].kind]
        /\ Needs["discovery_finalize"] \subseteq sessions[S(w)].made \cup {}
    BY <2>2 DEF SessionStatus, CycleStatus, Operators, Needs
  <2>4. QED
    BY <2>1, <2>2, <2>3, HandOverAdvances
<1>5. CASE DiscoveryFinalize(w)
  <2>1. /\ Executing(w, "discovery_finalize")
        /\ \/ Conclude(w, {"report"}) /\ Return(w, "success", "discovery_screened")
           \/ MarkFailed(w, {})
    BY <1>5 DEF DiscoveryFinalize
  <2>2. /\ sessions[S(w)].kind = "discovery" /\ worker[w].pc = "executing"
        /\ jobs[worker[w].job].op # "protocol_compile" /\ C(w) \in CycleIds
        /\ "cards" \in sessions[S(w)].made
    BY <2>1, Executes DEF Operators, Needs
  <2>3. KeepsCycles /\ Len(cycles') = Len(cycles)
    <3>1. PICK views \in SUBSET {p \in Papers : cycles[C(w)].papers[p] = "discovered"} :
              cycles' = [cycles EXCEPT ![C(w)].papers =
                  [p \in Papers |-> IF p \in views THEN "shortlisted" ELSE @[p]]]
      BY <1>5 DEF DiscoveryFinalize
    <3> DEFINE f == [p \in Papers |->
                        IF p \in views THEN "shortlisted" ELSE cycles[C(w)].papers[p]]
    <3>2. cycles[C(w)] \in CycleType
      BY <2>2, Rows DEF Inv
    <3>3. f \in [Papers -> Triage]
      BY <3>2 DEF CycleType, Triage
    <3>4. cycles' = [cycles EXCEPT ![C(w)].papers = f]
      BY <3>1
    <3> HIDE DEF f
    <3>5. QED
      BY <2>2, <3>3, <3>4, SetPapers DEF Inv
  <2>4. CASE Conclude(w, {"report"}) /\ Return(w, "success", "discovery_screened")
    <3>1. /\ "discovery_screened" \in CycleStatus \cup {"none"} /\ {"report"} \in SUBSET Products
          /\ \A p \in {"report"} : Progress!MadeFrom[p] \subseteq sessions[S(w)].made \cup {"report"}
          /\ Progress!Promised[sessions[S(w)].kind] \subseteq sessions[S(w)].made \cup {"report"}
      BY <2>2 DEF CycleStatus, Products, Progress!MadeFrom, Progress!Promised
    <3>2. QED
      BY <2>2, <2>3, <2>4, <3>1, ConcludeAdvances
  <2>5. CASE MarkFailed(w, {})
    BY <2>2, <2>3, <2>5, FailAdvances
  <2>6. QED
    BY <2>1, <2>4, <2>5
<1>6. QED
  BY <1>1, <1>2, <1>3, <1>4, <1>5 DEF Discovery

\* A step that fails before it has stored anything, cycle untouched.
LEMMA PlainFailure ==
    ASSUME Inv, NEW w \in Workers, NEW op, Executing(w, op), op # "protocol_compile",
           UNCHANGED cycles, MarkFailed(w, {})
    PROVE  Advance(w)
<1>1. worker[w].pc = "executing" /\ jobs[worker[w].job].op # "protocol_compile"
  BY Executes
<1>2. KeepsCycles /\ Len(cycles') = Len(cycles)
  BY SameCycles
<1>3. QED
  BY <1>1, <1>2, FailAdvances

\* analysis_ingest to analysis_evidence.
LEMMA AnalysisAdvances ==
    ASSUME Inv, NEW w \in Workers, Analysis(w)
    PROVE  Advance(w)
<1>0. UNCHANGED cycles /\ KeepsCycles /\ Len(cycles') = Len(cycles)
  <2>1. UNCHANGED cycles
    BY DEF Analysis, AnalysisIngest, AnalysisChunk, AnalysisGraphExtract, AnalysisCoverage,
           AnalysisReview, AnalysisEvidence
  <2>2. QED
    BY <2>1, SameCycles
<1>n. "none" \in CycleStatus \cup {"none"}
  OBVIOUS
<1>1. CASE AnalysisIngest(w)
  <2>1. Executing(w, "analysis_ingest")
    BY <1>1 DEF AnalysisIngest
  <2>2. /\ sessions[S(w)].kind = "analysis" /\ worker[w].pc = "executing"
        /\ jobs[worker[w].job].op # "protocol_compile"
    BY <2>1, Executes DEF Operators
  <2>3. CASE /\ Store(w, "ingested", {"document"})
             /\ HandOver(w, "analysis_chunk") /\ Return(w, "success", "none")
    <3>1. /\ "ingested" \in SessionStatus \ {"completed", "failed"}
          /\ {"document"} \in SUBSET Products
          /\ "analysis_chunk" \in Operators[sessions[S(w)].kind]
          /\ Needs["analysis_chunk"] \subseteq sessions[S(w)].made \cup {"document"}
          /\ \A p \in {"document"} :
                Progress!MadeFrom[p] \subseteq sessions[S(w)].made \cup {"document"}
      BY <2>2 DEF SessionStatus, Operators, Needs, Products, Progress!MadeFrom
    <3>2. QED
      BY <1>0, <1>n, <2>2, <2>3, <3>1, HandOverAdvances
  <2>4. CASE MarkFailed(w, {})
    BY <1>0, <2>1, <2>4, PlainFailure
  <2>5. QED
    BY <1>1, <2>3, <2>4 DEF AnalysisIngest
<1>2. CASE AnalysisChunk(w)
  <2>1. Executing(w, "analysis_chunk")
    BY <1>2 DEF AnalysisChunk
  <2>2. /\ sessions[S(w)].kind = "analysis" /\ worker[w].pc = "executing"
        /\ jobs[worker[w].job].op # "protocol_compile" /\ "document" \in sessions[S(w)].made
    BY <2>1, Executes DEF Operators, Needs
  <2>3. PICK new \in {{}, {"chunks"}} :
            \/ /\ Store(w, "chunked", new) /\ HandOver(w, "analysis_graph_extract")
               /\ Return(w, "success", "none")
            \/ MarkFailed(w, new)
    BY <1>2 DEF AnalysisChunk
  <2>4. /\ new \in SUBSET Products
        /\ \A p \in new : Progress!MadeFrom[p] \subseteq sessions[S(w)].made \cup new
    BY <2>2 DEF Products, Progress!MadeFrom
  <2>5. CASE /\ Store(w, "chunked", new) /\ HandOver(w, "analysis_graph_extract")
             /\ Return(w, "success", "none")
    <3>1. /\ "chunked" \in SessionStatus \ {"completed", "failed"}
          /\ "analysis_graph_extract" \in Operators[sessions[S(w)].kind]
          /\ Needs["analysis_graph_extract"] \subseteq sessions[S(w)].made \cup new
      BY <2>2 DEF SessionStatus, Operators, Needs
    <3>2. QED
      BY <1>0, <1>n, <2>2, <2>4, <2>5, <3>1, HandOverAdvances
  <2>6. CASE MarkFailed(w, new)
    BY <1>0, <2>2, <2>4, <2>6, FailAdvances
  <2>7. QED
    BY <2>3, <2>5, <2>6
<1>3. CASE AnalysisGraphExtract(w)
  <2>1. Executing(w, "analysis_graph_extract")
    BY <1>3 DEF AnalysisGraphExtract
  <2>2. /\ sessions[S(w)].kind = "analysis" /\ worker[w].pc = "executing"
        /\ jobs[worker[w].job].op # "protocol_compile" /\ "document" \in sessions[S(w)].made
    BY <2>1, Executes DEF Operators, Needs
  <2>3. CASE /\ Has(w, "chunks") /\ Store(w, "graph_extracted", {})
             /\ HandOver(w, "analysis_coverage") /\ Return(w, "success", "none")
    <3>1. /\ "graph_extracted" \in SessionStatus \ {"completed", "failed"}
          /\ "analysis_coverage" \in Operators[sessions[S(w)].kind]
          /\ Needs["analysis_coverage"] \subseteq sessions[S(w)].made \cup {}
      BY <2>2, <2>3 DEF SessionStatus, Operators, Needs, Has
    <3>2. QED
      BY <1>0, <1>n, <2>2, <2>3, <3>1, HandOverAdvances
  <2>4. CASE MarkFailed(w, {})
    BY <1>0, <2>1, <2>4, PlainFailure
  <2>5. QED
    BY <1>3, <2>3, <2>4 DEF AnalysisGraphExtract
<1>4. CASE AnalysisCoverage(w)
  <2>1. Executing(w, "analysis_coverage")
    BY <1>4 DEF AnalysisCoverage
  <2>2. /\ sessions[S(w)].kind = "analysis" /\ worker[w].pc = "executing"
        /\ jobs[worker[w].job].op # "protocol_compile"
        /\ {"document", "chunks"} \subseteq sessions[S(w)].made
    BY <2>1, Executes DEF Operators, Needs
  <2>3. CASE /\ Store(w, "coverage_verified", {"coverage"})
             /\ HandOver(w, "analysis_review") /\ Return(w, "success", "none")
    <3>1. /\ "coverage_verified" \in SessionStatus \ {"completed", "failed"}
          /\ {"coverage"} \in SUBSET Products
          /\ "analysis_review" \in Operators[sessions[S(w)].kind]
          /\ Needs["analysis_review"] \subseteq sessions[S(w)].made \cup {"coverage"}
          /\ \A p \in {"coverage"} :
                Progress!MadeFrom[p] \subseteq sessions[S(w)].made \cup {"coverage"}
      BY <2>2 DEF SessionStatus, Operators, Needs, Products, Progress!MadeFrom
    <3>2. QED
      BY <1>0, <1>n, <2>2, <2>3, <3>1, HandOverAdvances
  <2>4. CASE MarkFailed(w, {})
    BY <1>0, <2>1, <2>4, PlainFailure
  <2>5. QED
    BY <1>4, <2>3, <2>4 DEF AnalysisCoverage
<1>5. CASE AnalysisReview(w)
  <2>1. Executing(w, "analysis_review")
    BY <1>5 DEF AnalysisReview
  <2>2. /\ sessions[S(w)].kind = "analysis" /\ worker[w].pc = "executing"
        /\ jobs[worker[w].job].op # "protocol_compile"
        /\ {"document", "chunks", "coverage"} \subseteq sessions[S(w)].made
    BY <2>1, Executes DEF Operators, Needs
  <2>3. ASSUME NEW new \in {{"packet"}, {"packet", "review"}}
        PROVE  /\ new \in SUBSET Products
               /\ \A p \in new : Progress!MadeFrom[p] \subseteq sessions[S(w)].made \cup new
    BY <2>2 DEF Products, Progress!MadeFrom
  <2>4. CASE /\ Store(w, "reviewed", {"packet", "review"})
             /\ HandOver(w, "analysis_evidence") /\ Return(w, "success", "none")
    <3>1. /\ "reviewed" \in SessionStatus \ {"completed", "failed"}
          /\ "analysis_evidence" \in Operators[sessions[S(w)].kind]
          /\ Needs["analysis_evidence"] \subseteq sessions[S(w)].made \cup {"packet", "review"}
      BY <2>2 DEF SessionStatus, Operators, Needs
    <3>2. QED
      BY <1>0, <1>n, <2>2, <2>3, <2>4, <3>1, HandOverAdvances
  <2>5. CASE MarkFailed(w, {})
    BY <1>0, <2>1, <2>5, PlainFailure
  <2>6. CASE \E new \in {{"packet"}, {"packet", "review"}} : MarkFailed(w, new)
    BY <1>0, <2>2, <2>3, <2>6, FailAdvances
  <2>7. QED
    BY <1>5, <2>4, <2>5, <2>6 DEF AnalysisReview
<1>6. CASE AnalysisEvidence(w)
  <2>1. Executing(w, "analysis_evidence")
    BY <1>6 DEF AnalysisEvidence
  <2>2. /\ sessions[S(w)].kind = "analysis" /\ worker[w].pc = "executing"
        /\ jobs[worker[w].job].op # "protocol_compile"
        /\ {"document", "chunks", "coverage", "packet", "review"} \subseteq sessions[S(w)].made
    BY <2>1, Executes DEF Operators, Needs
  <2>3. PICK new \in {{}, {"evidence"}} :
            \/ Conclude(w, new) /\ Return(w, "success", "none")
            \/ MarkFailed(w, new)
    BY <1>6 DEF AnalysisEvidence
  <2>4. /\ new \in SUBSET Products
        /\ \A p \in new : Progress!MadeFrom[p] \subseteq sessions[S(w)].made \cup new
    BY <2>2 DEF Products, Progress!MadeFrom
  <2>5. Progress!Promised[sessions[S(w)].kind] \subseteq sessions[S(w)].made \cup new
    BY <2>2 DEF Progress!Promised
  <2>6. CASE Conclude(w, new) /\ Return(w, "success", "none")
    BY <1>0, <1>n, <2>2, <2>4, <2>5, <2>6, ConcludeAdvances
  <2>7. CASE MarkFailed(w, new)
    BY <1>0, <2>2, <2>4, <2>7, FailAdvances
  <2>8. QED
    BY <2>3, <2>6, <2>7
<1>7. QED
  BY <1>1, <1>2, <1>3, <1>4, <1>5, <1>6 DEF Analysis

\* hypothesis_generate, hypothesis_critique and hypothesis_rank; a session with a
\* card has candidates.
LEMMA IdeationAdvances ==
    ASSUME Inv, NEW w \in Workers,
           HypothesisGenerate(w) \/ HypothesisCritique(w) \/ HypothesisRank(w)
    PROVE  Advance(w)
<1>0. UNCHANGED cycles /\ KeepsCycles /\ Len(cycles') = Len(cycles)
  <2>1. UNCHANGED cycles
    BY DEF HypothesisGenerate, HypothesisCritique, HypothesisRank
  <2>2. QED
    BY <2>1, SameCycles
<1>1. CASE HypothesisGenerate(w)
  BY <1>0, <1>1, PlainFailure DEF HypothesisGenerate
<1>2. CASE HypothesisCritique(w)
  <2>1. Executing(w, "hypothesis_critique")
    BY <1>2 DEF HypothesisCritique
  <2>2. /\ sessions[S(w)].kind = "ideation" /\ worker[w].pc = "executing"
        /\ jobs[worker[w].job].op # "protocol_compile" /\ S(w) \in SessionIds
    BY <2>1, Executes DEF Operators
  <2>3. CASE /\ Card(w) = "candidate" /\ Store(w, "critiquing", {"critique"})
             /\ HandOver(w, "hypothesis_rank") /\ Return(w, "success", "none")
    <3>1. "candidates" \in sessions[S(w)].made
      BY <2>2, <2>3 DEF Inv, SessionsSound, SessionSound, Card
    <3>2. /\ "critiquing" \in SessionStatus \ {"completed", "failed"}
          /\ "none" \in CycleStatus \cup {"none"} /\ {"critique"} \in SUBSET Products
          /\ "hypothesis_rank" \in Operators[sessions[S(w)].kind]
          /\ Needs["hypothesis_rank"] \subseteq sessions[S(w)].made \cup {"critique"}
          /\ \A p \in {"critique"} :
                Progress!MadeFrom[p] \subseteq sessions[S(w)].made \cup {"critique"}
      BY <2>2, <3>1 DEF SessionStatus, Operators, Needs, Products, Progress!MadeFrom
    <3>3. QED
      BY <1>0, <2>2, <2>3, <3>2, HandOverAdvances
  <2>4. CASE MarkFailed(w, {})
    BY <1>0, <2>1, <2>4, PlainFailure
  <2>5. QED
    BY <1>2, <2>3, <2>4 DEF HypothesisCritique
<1>3. CASE HypothesisRank(w)
  <2>1. Executing(w, "hypothesis_rank")
    BY <1>3 DEF HypothesisRank
  <2>2. /\ sessions[S(w)].kind = "ideation" /\ worker[w].pc = "executing"
        /\ jobs[worker[w].job].op # "protocol_compile"
        /\ {"candidates", "critique"} \subseteq sessions[S(w)].made
    BY <2>1, Executes DEF Operators, Needs
  <2>3. CASE Conclude(w, {"ranks"}) /\ Return(w, "success", "portfolio_ready")
    <3>1. /\ "portfolio_ready" \in CycleStatus \cup {"none"} /\ {"ranks"} \in SUBSET Products
          /\ \A p \in {"ranks"} : Progress!MadeFrom[p] \subseteq sessions[S(w)].made \cup {"ranks"}
          /\ Progress!Promised[sessions[S(w)].kind] \subseteq sessions[S(w)].made \cup {"ranks"}
      BY <2>2 DEF CycleStatus, Products, Progress!MadeFrom, Progress!Promised
    <3>2. QED
      BY <1>0, <2>2, <2>3, <3>1, ConcludeAdvances
  <2>4. CASE MarkFailed(w, {})
    BY <1>0, <2>1, <2>4, PlainFailure
  <2>5. QED
    BY <1>3, <2>3, <2>4 DEF HypothesisRank
<1>4. QED
  BY <1>1, <1>2, <1>3

-----------------------------------------------------------------------------
(* The other steps. *)

\* At most one session is written, none is added or taken back.
OneSession ==
    KeepsSessions /\ \E s \in SessionIds : \A t \in SessionIds \ {s} : sessions'[t] = sessions[t]

\* What a step does to the sessions: nothing, something to one, or it starts one.
SessionStep ==
    \/ UNCHANGED sessions
    \/ OneSession
    \/ \E kind \in Kinds, c \in CycleIds' : sessions' = Append(sessions, NewSession(kind, c))

\* One session's row is written: its products grow.
LEMMA SetSession ==
    ASSUME TypeOK, KeepsCycles, NEW s \in SessionIds, NEW row \in SessionType,
           row.kind = sessions[s].kind, row.cycle = sessions[s].cycle,
           sessions[s].made \subseteq row.made,
           sessions' = [sessions EXCEPT ![s] = row]
    PROVE  /\ OneSession /\ KeepsSessions /\ SessionIds' = SessionIds /\ sessions'[s] = row
           /\ \A t \in SessionIds \ {s} : sessions'[t] = sessions[t]
<1>1. sessions \in Seq(SessionType) /\ s \in 1..Len(sessions)
  BY DEF TypeOK, SessionIds
<1>2. /\ sessions' \in Seq(SessionType) /\ Len(sessions') = Len(sessions) /\ sessions'[s] = row
      /\ \A t \in (1..Len(sessions)) \ {s} : sessions'[t] = sessions[t]
  BY <1>1, ExceptSeq
<1>3. SessionType \subseteq SessionType'
  BY TypesWiden DEF KeepsCycles
<1>4. sessions' \in Seq(SessionType')
  BY <1>2, <1>3
<1>5. KeepsSessions /\ SessionIds' = SessionIds
  BY <1>2, <1>4 DEF KeepsSessions, SessionIds
<1>6. QED
  BY <1>2, <1>5 DEF OneSession, SessionIds

\* One job's status is written.
LEMMA SetJob ==
    ASSUME TypeOK, KeepsSessions, NEW k \in JobIds, NEW st \in JobStatus,
           jobs' = [jobs EXCEPT ![k].status = st]
    PROVE  /\ KeepsJobs /\ NewJobsReady /\ JobIds' = JobIds
           /\ jobs'[k].status = st /\ jobs'[k].op = jobs[k].op
           /\ jobs'[k].session = jobs[k].session
           /\ \A j \in JobIds \ {k} : jobs'[j] = jobs[j]
<1> DEFINE row == [jobs[k] EXCEPT !.status = st]
<1>1. jobs' = [jobs EXCEPT ![k] = row]
  OBVIOUS
<1>2. row \in JobType /\ row.status = st /\ row.op = jobs[k].op /\ row.session = jobs[k].session
  BY Rows DEF JobType
<1> HIDE DEF row
<1>3. jobs \in Seq(JobType) /\ k \in 1..Len(jobs)
  BY DEF TypeOK, JobIds
<1>4. /\ jobs' \in Seq(JobType) /\ Len(jobs') = Len(jobs) /\ jobs'[k] = row
      /\ \A j \in (1..Len(jobs)) \ {k} : jobs'[j] = jobs[j]
  BY <1>1, <1>2, <1>3, ExceptSeq
<1>5. JobType \subseteq JobType' /\ Len(jobs) \in Nat
  BY TypesWiden, Rows DEF KeepsSessions
<1>6. jobs' \in Seq(JobType')
  BY <1>4, <1>5
<1>7. QED
  BY <1>2, <1>4, <1>5, <1>6 DEF KeepsJobs, NewJobsReady, JobIds

\* A worker drops what it was at.
LEMMA BecomesIdle ==
    ASSUME TypeOK, KeepsJobs, NEW w \in Workers, worker' = [worker EXCEPT ![w] = Idle]
    PROVE  /\ Moves(w) /\ worker'[w].job = 0
           /\ \A v \in Workers \ {w} : worker'[v] = worker[v]
<1>1. worker'[w] = Idle /\ \A v \in Workers \ {w} : worker'[v] = worker[v]
  BY DEF TypeOK
<1>2. Len(jobs') \in Nat
  BY DEF KeepsJobs
<1>3. Idle \in WorkerType' /\ Idle.pc = "idle" /\ Idle.job = 0 /\ Idle.result = "none"
  BY <1>2 DEF Idle, WorkerType
<1>4. worker' = [worker EXCEPT ![w] = worker'[w]]
  BY <1>1 DEF TypeOK
<1>5. QED
  BY <1>1, <1>3, <1>4 DEF Moves

\* Workers that stay where they are, on jobs whose status stays.
LEMMA SameWorkers ==
    ASSUME Inv, KeepsJobs, UNCHANGED worker,
           \A v \in Workers : worker[v].pc # "idle" =>
               jobs'[worker[v].job].status = jobs[worker[v].job].status
    PROVE  WorkersSound'
<1>1. WorkerType \subseteq WorkerType'
  BY TypesWiden DEF Inv, KeepsJobs
<1>2. worker \in [Workers -> WorkerType']
  BY <1>1 DEF Inv, TypeOK
<1>3. QED
  BY <1>2 DEF Inv, TypeOK, OneHolder, WorkersSound

\* The session that fails is explained if the culprits there were remain.
LEMMA CulpritsStay ==
    ASSUME Inv, KeepsSessions, KeepsJobs,
           \A s \in SessionIds : sessions'[s].status = "failed" =>
               \/ \E j \in JobIds : Culprit(s, j)'
               \/ /\ sessions[s].status = "failed"
                  /\ \A j \in JobIds : Culprit(s, j) => Culprit(s, j)'
    PROVE  FailureHasCulprit'
<1>1. SessionIds' = SessionIds /\ JobIds \subseteq JobIds'
  BY TypesWiden DEF Inv, KeepsSessions, KeepsJobs, SessionIds
<1>2. QED
  BY <1>1 DEF Inv, FailureHasCulprit

\* ClaimJob: the job was pending, so nobody was on it.
LEMMA ClaimPreservesInv ==
    ASSUME Inv, NEW w \in Workers, ClaimJob(w)
    PROVE  Inv' /\ UNCHANGED sessions
<1>0. TypeOK /\ OneHolder
  BY DEF Inv
<1>1. PICK k \in JobIds : /\ jobs[k].status = "pending"
                          /\ jobs' = [jobs EXCEPT ![k].status = "running"]
                          /\ worker' = [worker EXCEPT ![w].pc = "executing", ![w].job = k]
  BY DEF ClaimJob
<1>2. UNCHANGED <<cycles, sessions, api>> /\ worker[w].pc = "idle"
  BY DEF ClaimJob, env
<1>3. KeepsCycles /\ KeepsSessions /\ SessionIds' = SessionIds
  BY <1>0, <1>2, Unchanged DEF SessionIds
<1>4. /\ KeepsJobs /\ NewJobsReady /\ jobs'[k].status = "running"
      /\ jobs'[k].op = jobs[k].op /\ jobs'[k].session = jobs[k].session
      /\ \A j \in JobIds \ {k} : jobs'[j] = jobs[j]
  BY <1>0, <1>1, <1>3, SetJob DEF JobStatus
<1>5. \A v \in Workers : worker[v].job # k
  <2> SUFFICES ASSUME NEW v \in Workers, worker[v].job = k PROVE FALSE
    OBVIOUS
  <2>1. k # 0
    BY <1>0, Rows DEF JobIds
  <2>2. worker[v].pc # "idle"
    BY <1>0, <2>1 DEF OneHolder
  <2>3. QED
    BY <1>0, <1>1, <2>2 DEF TypeOK
<1>6. /\ worker'[w].pc = "executing" /\ worker'[w].job = k /\ worker'[w].result = "none"
      /\ worker'[w] \in WorkerType' /\ worker' = [worker EXCEPT ![w] = worker'[w]]
      /\ \A v \in Workers \ {w} : worker'[v] = worker[v]
  <2> DEFINE row == [worker[w] EXCEPT !.pc = "executing", !.job = k]
  <2>1. worker' = [worker EXCEPT ![w] = row]
    BY <1>1
  <2>2. worker[w] \in WorkerType /\ WorkerType \subseteq WorkerType' /\ k \in 0..Len(jobs)
    BY <1>0, <1>4, Rows, TypesWiden DEF KeepsJobs, JobIds
  <2>3. row \in WorkerType /\ row.pc = "executing" /\ row.job = k /\ row.result = "none"
    BY <1>0, <1>2, <2>2 DEF WorkerType, OneHolder
  <2> HIDE DEF row
  <2>4. QED
    BY <1>0, <2>1, <2>2, <2>3 DEF TypeOK
<1>7. Moves(w)
  BY <1>0, <1>4, <1>5, <1>6, Rows DEF Moves, JobIds
<1>8. \A v \in Workers \ {w} : worker[v].pc # "idle" =>
          jobs'[worker[v].job].status = jobs[worker[v].job].status
  BY <1>0, <1>4, <1>5, Busy
<1>9. WorkersSound'
  BY <1>4, <1>7, <1>8, MovesWorkers
<1>10. \A s \in SessionIds, j \in JobIds : Culprit(s, j) => Culprit(s, j)'
  BY <1>4, <1>6 DEF Culprit
<1>11. FailureHasCulprit'
  BY <1>2, <1>3, <1>4, <1>10, CulpritsStay
<1>12. SessionsSound'
  BY <1>2, <1>3 DEF Inv, SessionsSound, SessionSound
<1>13. QED
  BY <1>2, <1>3, <1>4, <1>9, <1>11, <1>12, Assemble

\* Steps that leave the tables as they are: OperatorRaises, RejectedPatch, Crash.
LEMMA WorkerOnlyPreservesInv ==
    ASSUME Inv, NEW w \in Workers, OperatorRaises(w) \/ RejectedPatch(w) \/ Crash(w)
    PROVE  Inv' /\ UNCHANGED sessions
<1>0. TypeOK /\ OneHolder
  BY DEF Inv
<1>1. UNCHANGED <<cycles, sessions, jobs, api>>
  BY DEF OperatorRaises, RejectedPatch, Crash, Return, tables, env
<1>2. KeepsCycles /\ KeepsSessions /\ KeepsJobs /\ NewJobsReady /\ SessionIds' = SessionIds
  BY <1>0, <1>1, Unchanged DEF SessionIds
<1>3. /\ Moves(w)
      /\ worker'[w].job = worker[w].job => worker'[w].result # "success"
      /\ worker'[w].job \in {0, worker[w].job}
      /\ \A v \in Workers \ {w} : worker'[v] = worker[v]
  <2>1. CASE OperatorRaises(w)
    <3>1. /\ worker[w].pc = "executing" /\ Return(w, "failure", "none")
          /\ "failure" \in {"success", "failure"} /\ "none" \in CycleStatus \cup {"none"}
      BY <2>1 DEF OperatorRaises
    <3>2. jobs'[worker[w].job].status = "running"
      BY <1>0, <1>1, <3>1 DEF TypeOK
    <3>3. /\ Moves(w) /\ worker'[w].result = "failure" /\ worker'[w].job = worker[w].job
          /\ \A v \in Workers \ {w} : worker'[v] = worker[v]
      BY <1>0, <1>2, <3>1, <3>2, ReturnEffect
    <3>4. QED
      BY <3>3
  <2>2. CASE RejectedPatch(w) \/ Crash(w)
    <3>1. worker' = [worker EXCEPT ![w] = Idle] /\ worker[w].pc # "idle"
      BY <2>2 DEF RejectedPatch, Crash
    <3>2. worker[w].job # 0
      BY <1>0, <3>1 DEF OneHolder
    <3>3. /\ Moves(w) /\ worker'[w].job = 0
          /\ \A v \in Workers \ {w} : worker'[v] = worker[v]
      BY <1>0, <1>2, <3>1, BecomesIdle
    <3>4. QED
      BY <3>2, <3>3
  <2>3. QED
    BY <2>1, <2>2
<1>4. WorkersSound'
  BY <1>1, <1>2, <1>3, MovesWorkers
<1>5. \A s \in SessionIds, j \in JobIds : Culprit(s, j) => Culprit(s, j)'
  <2> SUFFICES ASSUME NEW s \in SessionIds, NEW j \in JobIds, Culprit(s, j)
               PROVE  Culprit(s, j)'
    OBVIOUS
  <2>1. j # 0
    BY <1>0, Rows DEF JobIds
  <2>2. QED
    BY <1>1, <1>3, <2>1 DEF Culprit
<1>6. FailureHasCulprit'
  BY <1>1, <1>2, <1>5, CulpritsStay
<1>7. SessionsSound'
  BY <1>1, <1>2 DEF Inv, SessionsSound, SessionSound
<1>8. QED
  BY <1>1, <1>2, <1>4, <1>6, <1>7, Assemble

\* SettleSuccess: the completed job was not the culprit of a failed session.
LEMMA SettleSuccessPreservesInv ==
    ASSUME Inv, NEW w \in Workers, SettleSuccess(w)
    PROVE  Inv' /\ UNCHANGED sessions
<1>0. TypeOK /\ OneHolder
  BY DEF Inv
<1>1. /\ UNCHANGED <<sessions, api>> /\ worker[w].pc # "idle" /\ worker[w].result = "success"
      /\ worker' = [worker EXCEPT ![w] = Idle]
      /\ jobs' = [jobs EXCEPT ![worker[w].job].status = "completed"]
  BY DEF SettleSuccess, env
<1>2. PICK k \in JobIds : k = worker[w].job
  BY <1>0, <1>1, Busy
<1>3. C(w) \in CycleIds /\ worker[w] \in WorkerType
  BY <1>0, <1>1, Busy, Rows
<1>4. KeepsCycles
  <2> DEFINE st == IF worker[w].patch = "none" THEN cycles[C(w)].status ELSE worker[w].patch
             row == [cycles[C(w)] EXCEPT !.status = st]
  <2>1. cycles[C(w)] \in CycleType
    BY <1>0, <1>3, Rows
  <2>2. st \in CycleStatus
    BY <1>3, <2>1 DEF CycleType, WorkerType
  <2>3. row \in CycleType /\ row.profile = cycles[C(w)].profile
    BY <2>1, <2>2 DEF CycleType
  <2>4. cycles' = [cycles EXCEPT ![C(w)] = row]
    BY DEF SettleSuccess
  <2> HIDE DEF row
  <2>5. QED
    BY <1>0, <1>3, <2>3, <2>4, SetCycle
<1>5. KeepsSessions /\ SessionIds' = SessionIds
  BY <1>0, <1>1, <1>4, Unchanged DEF SessionIds
<1>6. /\ KeepsJobs /\ NewJobsReady
      /\ \A j \in JobIds \ {k} : jobs'[j] = jobs[j]
  BY <1>0, <1>1, <1>2, <1>5, SetJob DEF JobStatus
<1>7. /\ Moves(w) /\ worker'[w].job = 0
      /\ \A v \in Workers \ {w} : worker'[v] = worker[v]
  BY <1>0, <1>1, <1>6, BecomesIdle
<1>8. \A v \in Workers \ {w} : worker[v].pc # "idle" =>
          jobs'[worker[v].job].status = jobs[worker[v].job].status
  BY <1>0, <1>1, <1>2, <1>6, Busy DEF OneHolder
<1>9. WorkersSound'
  BY <1>6, <1>7, <1>8, MovesWorkers
<1>10. \A s \in SessionIds, j \in JobIds : Culprit(s, j) => Culprit(s, j)'
  <2> SUFFICES ASSUME NEW s \in SessionIds, NEW j \in JobIds, Culprit(s, j)
               PROVE  Culprit(s, j)'
    OBVIOUS
  <2>1. j # k /\ j # 0
    BY <1>0, <1>1, <1>2, Rows DEF JobIds, Culprit
  <2>2. QED
    BY <1>6, <1>7, <2>1 DEF Culprit
<1>11. FailureHasCulprit'
  BY <1>1, <1>5, <1>6, <1>10, CulpritsStay
<1>12. SessionsSound'
  BY <1>1, <1>5 DEF Inv, SessionsSound, SessionSound
<1>13. QED
  BY <1>1, <1>4, <1>5, <1>6, <1>9, <1>11, <1>12, Assemble

\* SettleFailure: the failed job is the culprit of the session it fails.
LEMMA SettleFailurePreservesInv ==
    ASSUME Inv, NEW w \in Workers, SettleFailure(w)
    PROVE  Inv' /\ SessionStep
<1>0. TypeOK /\ OneHolder
  BY DEF Inv
<1>1. /\ UNCHANGED <<cycles, api>> /\ worker[w].pc # "idle"
      /\ worker' = [worker EXCEPT ![w] = Idle]
      /\ jobs' = [jobs EXCEPT ![worker[w].job].status = "failed"]
  BY DEF SettleFailure, env
<1>2. PICK k \in JobIds : k = worker[w].job
  BY <1>0, <1>1, Busy
<1>3. S(w) \in SessionIds /\ k # 0
  BY <1>0, <1>1, <1>2, Busy DEF OneHolder
<1>4. KeepsCycles
  BY <1>0, <1>1, Unchanged
<1>5. /\ KeepsSessions /\ SessionIds' = SessionIds /\ SessionStep
      /\ \A t \in SessionIds \ {S(w)} : sessions'[t] = sessions[t]
      /\ jobs[k].op = "protocol_compile" => sessions' = sessions
      /\ sessions'[S(w)].made = sessions[S(w)].made
      /\ sessions'[S(w)].card = sessions[S(w)].card
      /\ sessions'[S(w)].status \in {sessions[S(w)].status, "failed"}
      /\ sessions'[S(w)].kind = sessions[S(w)].kind
  <2>1. CASE jobs[k].op = "protocol_compile"
    <3>1. sessions' = sessions
      BY <1>2, <2>1 DEF SettleFailure
    <3>2. KeepsSessions
      BY <1>0, <1>4, <3>1, Unchanged
    <3>3. QED
      BY <3>1, <3>2 DEF SessionIds, SessionStep
  <2>2. CASE jobs[k].op # "protocol_compile"
    <3> DEFINE row == [sessions[S(w)] EXCEPT !.status = "failed"]
    <3>1. sessions' = [sessions EXCEPT ![S(w)] = row]
      BY <1>2, <2>2 DEF SettleFailure
    <3>2. sessions[S(w)] \in SessionType
      BY <1>0, <1>3, Rows
    <3>3. /\ row \in SessionType /\ row.kind = sessions[S(w)].kind
          /\ row.cycle = sessions[S(w)].cycle /\ row.made = sessions[S(w)].made
          /\ row.card = sessions[S(w)].card /\ row.status = "failed"
      BY <3>2 DEF SessionType, SessionStatus
    <3> HIDE DEF row
    <3>4. /\ OneSession /\ KeepsSessions /\ SessionIds' = SessionIds /\ sessions'[S(w)] = row
          /\ \A t \in SessionIds \ {S(w)} : sessions'[t] = sessions[t]
      BY <1>0, <1>3, <1>4, <3>1, <3>3, SetSession
    <3>5. QED
      BY <2>2, <3>3, <3>4 DEF SessionStep
  <2>3. QED
    BY <2>1, <2>2
<1>6. /\ KeepsJobs /\ NewJobsReady /\ jobs'[k].status = "failed"
      /\ jobs'[k].op = jobs[k].op /\ jobs'[k].session = jobs[k].session
      /\ \A j \in JobIds \ {k} : jobs'[j] = jobs[j]
  BY <1>0, <1>1, <1>2, <1>5, SetJob DEF JobStatus
<1>7. /\ Moves(w) /\ worker'[w].job = 0
      /\ \A v \in Workers \ {w} : worker'[v] = worker[v]
  BY <1>0, <1>1, <1>6, BecomesIdle
<1>8. \A v \in Workers \ {w} : worker[v].job # k
  BY <1>0, <1>1, <1>2 DEF OneHolder
<1>9. WorkersSound'
  <2>1. \A v \in Workers \ {w} : worker[v].pc # "idle" =>
            jobs'[worker[v].job].status = jobs[worker[v].job].status
    BY <1>0, <1>6, <1>8, Busy
  <2>2. QED
    BY <1>6, <1>7, <2>1, MovesWorkers
<1>10. \A s \in SessionIds, j \in JobIds : Culprit(s, j) => Culprit(s, j)'
  <2> SUFFICES ASSUME NEW s \in SessionIds, NEW j \in JobIds, Culprit(s, j)
               PROVE  Culprit(s, j)'
    OBVIOUS
  <2>1. j # 0
    BY <1>0, Rows DEF JobIds
  <2>2. CASE j = k
    BY <1>3, <1>6, <1>7, <1>8, <2>2 DEF Culprit
  <2>3. CASE j # k
    BY <1>6, <1>7, <2>1, <2>3 DEF Culprit
  <2>4. QED
    BY <2>2, <2>3
<1>11. FailureHasCulprit'
  <2> SUFFICES ASSUME NEW s \in SessionIds, sessions'[s].status = "failed"
               PROVE  \/ \E j \in JobIds : Culprit(s, j)'
                      \/ /\ sessions[s].status = "failed"
                         /\ \A j \in JobIds : Culprit(s, j) => Culprit(s, j)'
    BY <1>5, <1>6, CulpritsStay
  <2>1. CASE s = S(w) /\ jobs[k].op # "protocol_compile"
    <3>1. Culprit(s, k)'
      BY <1>2, <1>3, <1>6, <1>7, <1>8, <2>1 DEF Culprit, S
    <3>2. QED
      BY <3>1
  <2>2. CASE ~(s = S(w) /\ jobs[k].op # "protocol_compile")
    BY <1>5, <1>10, <2>2
  <2>3. QED
    BY <2>1, <2>2
<1>12. SessionsSound'
  <2> SUFFICES ASSUME NEW s \in SessionIds PROVE SessionSound(s)'
    BY <1>5 DEF SessionsSound
  <2>1. SessionSound(s)
    BY DEF Inv, SessionsSound
  <2>2. QED
    BY <1>5, <2>1 DEF SessionSound
<1>13. QED
  BY <1>1, <1>4, <1>5, <1>6, <1>9, <1>11, <1>12, Assemble

\* ProtocolCompile: the session has its ranks, hence candidates, whatever card
\* it ends with.
LEMMA CompilePreservesInv ==
    ASSUME Inv, NEW w \in Workers, ProtocolCompile(w)
    PROVE  Inv' /\ SessionStep
<1>0. TypeOK /\ OneHolder
  BY DEF Inv
<1>1. Executing(w, "protocol_compile") /\ UNCHANGED <<cycles, jobs>>
  BY DEF ProtocolCompile
<1>2. /\ worker[w].pc = "executing" /\ jobs[worker[w].job].op = "protocol_compile"
      /\ S(w) \in SessionIds /\ sessions[S(w)].kind = "ideation"
      /\ {"candidates", "critique", "ranks"} \subseteq sessions[S(w)].made
  <2>1. "protocol_compile" \in Operators.ideation
    BY DEF Operators
  <2>2. Needs["protocol_compile"] = {"candidates", "critique", "ranks"}
    BY DEF Needs
  <2>3. QED
    BY <1>1, <2>1, <2>2, Executes
<1>3. PICK card \in CardStatus, new \in SUBSET {"spec"}, result \in {"success", "failure"},
           patch \in CycleStatus \cup {"none"} :
          /\ sessions' = [sessions EXCEPT ![S(w)] =
                [sessions[S(w)] EXCEPT !.card = card, !.made = @ \cup new]]
          /\ Return(w, result, patch)
  <2> DEFINE row == sessions[S(w)]
             chosen == IF row.card = "candidate" THEN "selected" ELSE row.card
  <2>1. row \in SessionType
    BY <1>0, <1>2, Rows
  <2>2. CASE /\ sessions' = [sessions EXCEPT ![S(w)].card = "compiled",
                                             ![S(w)].made = @ \cup {"spec"}]
             /\ Return(w, "success", "protocol_ready")
    <3>1. "compiled" \in CardStatus /\ "protocol_ready" \in CycleStatus
      BY DEF CardStatus, CycleStatus
    <3>2. sessions' = [sessions EXCEPT ![S(w)] =
                [sessions[S(w)] EXCEPT !.card = "compiled", !.made = @ \cup {"spec"}]]
      BY <2>2
    <3>3. QED
      BY <2>2, <3>1, <3>2
  <2>3. CASE /\ sessions' = [sessions EXCEPT ![S(w)].card =
                                IF @ = "candidate" THEN "selected" ELSE @]
             /\ Return(w, "failure", "none")
    <3>1. chosen \in CardStatus
      BY <2>1 DEF SessionType, CardStatus
    <3>2. row.made = row.made \cup {}
      OBVIOUS
    <3>3. [row EXCEPT !.card = chosen] = [row EXCEPT !.card = chosen, !.made = @ \cup {}]
      BY <2>1, <3>2 DEF SessionType
    <3>4. sessions' = [sessions EXCEPT ![S(w)] = [row EXCEPT !.card = chosen]]
      BY <2>3
    <3>5. sessions' = [sessions EXCEPT ![S(w)] =
                [sessions[S(w)] EXCEPT !.card = chosen, !.made = @ \cup {}]]
      BY <3>3, <3>4
    <3>6. /\ {} \in SUBSET {"spec"} /\ "failure" \in {"success", "failure"}
          /\ "none" \in CycleStatus \cup {"none"} /\ Return(w, "failure", "none")
      BY <2>3
    <3> HIDE DEF chosen
    <3>7. QED
      BY <3>1, <3>5, <3>6
  <2>4. QED
    BY <2>2, <2>3 DEF ProtocolCompile
<1>4. KeepsCycles
  BY <1>1, SameCycles
<1>5. /\ KeepsSessions /\ SessionIds' = SessionIds /\ SessionStep
      /\ \A t \in SessionIds \ {S(w)} : sessions'[t] = sessions[t]
      /\ sessions'[S(w)].made = sessions[S(w)].made \cup new
      /\ sessions'[S(w)].status = sessions[S(w)].status
      /\ sessions'[S(w)].kind = sessions[S(w)].kind
  <2> DEFINE row == [sessions[S(w)] EXCEPT !.card = card, !.made = @ \cup new]
  <2>1. sessions[S(w)] \in SessionType
    BY <1>0, <1>2, Rows
  <2>2. new \in SUBSET Products
    BY DEF Products
  <2>3. /\ row \in SessionType /\ row.kind = sessions[S(w)].kind
        /\ row.cycle = sessions[S(w)].cycle /\ row.made = sessions[S(w)].made \cup new
        /\ row.status = sessions[S(w)].status
    BY <2>1, <2>2 DEF SessionType
  <2>4. sessions' = [sessions EXCEPT ![S(w)] = row]
    BY <1>3
  <2> HIDE DEF row
  <2>5. /\ OneSession /\ KeepsSessions /\ SessionIds' = SessionIds /\ sessions'[S(w)] = row
        /\ \A t \in SessionIds \ {S(w)} : sessions'[t] = sessions[t]
    BY <1>0, <1>2, <1>4, <2>3, <2>4, SetSession
  <2>6. QED
    BY <2>3, <2>5 DEF SessionStep
<1>6. KeepsJobs /\ NewJobsReady
  BY <1>0, <1>1, <1>5, Unchanged
<1>7. /\ Moves(w) /\ worker'[w].job = worker[w].job
      /\ \A v \in Workers \ {w} : worker'[v] = worker[v]
  <2>1. jobs'[worker[w].job].status = "running"
    BY <1>0, <1>1, <1>2 DEF TypeOK
  <2>2. QED
    BY <1>0, <1>2, <1>3, <1>6, <2>1, ReturnEffect
<1>8. WorkersSound'
  BY <1>1, <1>6, <1>7, MovesWorkers
<1>9. \A s \in SessionIds, j \in JobIds : Culprit(s, j) => Culprit(s, j)'
  BY <1>1, <1>2, <1>7 DEF Culprit
<1>10. FailureHasCulprit'
  BY <1>5, <1>6, <1>9, CulpritsStay
<1>11. SessionsSound'
  <2> SUFFICES ASSUME NEW s \in SessionIds PROVE SessionSound(s)'
    BY <1>5 DEF SessionsSound
  <2>1. SessionSound(s)
    BY DEF Inv, SessionsSound
  <2>2. CASE s = S(w)
    <3>1. \A p \in new : Progress!MadeFrom[p] \subseteq sessions[S(w)].made
      BY <1>2 DEF Progress!MadeFrom
    <3>2. QED
      BY <1>2, <1>5, <2>1, <2>2, <3>1 DEF SessionSound
  <2>3. CASE s # S(w)
    BY <1>5, <2>1, <2>3 DEF SessionSound
  <2>4. QED
    BY <2>2, <2>3
<1>12. \A q \in api' \ api : RequestRefers(q)'
  BY <1>3 DEF Return, env
<1>13. QED
  BY <1>4, <1>5, <1>6, <1>8, <1>10, <1>11, <1>12, Assemble

\* ReclaimStale: jobs are put back or failed, never completed.
LEMMA ReclaimPreservesInv ==
    ASSUME Inv, ReclaimStale
    PROVE  Inv' /\ UNCHANGED sessions
<1>0. TypeOK /\ OneHolder
  BY DEF Inv
<1>1. UNCHANGED <<cycles, sessions, worker, api>>
  BY DEF ReclaimStale, env
<1>2. KeepsCycles /\ KeepsSessions /\ SessionIds' = SessionIds
  BY <1>0, <1>1, Unchanged DEF SessionIds
<1> DEFINE f == [j \in JobIds |->
          IF j \notin Stale THEN jobs[j]
          ELSE IF jobs[j].reclaims + 1 <= MaxReclaims
                  /\ Reexecutions + Cardinality(Stale) <= MaxRequeued
               THEN [jobs[j] EXCEPT !.status = "pending", !.reclaims = @ + 1]
               ELSE [jobs[j] EXCEPT !.status = "failed"]]
<1>3. jobs' = f
  BY DEF ReclaimStale
<1>4. ASSUME NEW j \in JobIds
      PROVE  /\ f[j] \in JobType /\ f[j].op = jobs[j].op /\ f[j].session = jobs[j].session
             /\ j \notin Stale => f[j] = jobs[j]
             /\ j \in Stale => f[j].status # "completed"
  <2>1. jobs[j] \in JobType /\ MaxReclaims \in Nat
    BY <1>0, Rows, ChainsAssumption
  <2>2. CASE j \notin Stale
    BY <2>1, <2>2
  <2>3. CASE j \in Stale /\ f[j] = [jobs[j] EXCEPT !.status = "pending", !.reclaims = @ + 1]
             /\ jobs[j].reclaims + 1 <= MaxReclaims
    <3>1. PICK row \in JobType : row = jobs[j]
      BY <2>1
    <3>2. PICK n \in 0..MaxReclaims : n = row.reclaims + 1
      BY <2>1, <2>3, <3>1 DEF JobType
    <3>3. f[j] = [row EXCEPT !.status = "pending", !.reclaims = n]
      BY <2>3, <3>1, <3>2
    <3>4. /\ f[j] \in JobType /\ f[j].status = "pending"
          /\ f[j].op = row.op /\ f[j].session = row.session
      BY <3>3 DEF JobType, JobStatus
    <3>5. QED
      BY <2>3, <3>1, <3>4
  <2>4. CASE j \in Stale /\ f[j] = [jobs[j] EXCEPT !.status = "failed"]
    BY <2>1, <2>4 DEF JobType, JobStatus
  <2>5. QED
    BY <2>2, <2>3, <2>4
<1> HIDE DEF f
<1>5. jobs' = [j \in JobIds |-> f[j]]
  BY <1>3 DEF f
<1>6. KeepsJobs /\ NewJobsReady /\ JobIds' = JobIds /\ \A j \in JobIds : jobs'[j] = f[j]
  BY <1>0, <1>1, <1>4, <1>5, SetJobs
<1>7. \A v \in Workers : worker[v].pc # "idle" => worker[v].job \in JobIds \ Stale
  BY <1>0, Busy DEF Stale
<1>8. WorkersSound'
  BY <1>1, <1>4, <1>6, <1>7, SameWorkers
<1>9. \A s \in SessionIds, j \in JobIds : Culprit(s, j) => Culprit(s, j)'
  BY <1>1, <1>4, <1>6 DEF Culprit
<1>10. FailureHasCulprit'
  BY <1>1, <1>2, <1>6, <1>9, CulpritsStay
<1>11. SessionsSound'
  BY <1>1, <1>2 DEF Inv, SessionsSound, SessionSound
<1>12. QED
  BY <1>1, <1>2, <1>6, <1>8, <1>10, <1>11, Assemble

\* Steps that leave sessions, jobs and workers as they are: a user creates a cycle,
\* triages, asks, or a request patches its cycle.
LEMMA CyclesOnlyPreservesInv ==
    ASSUME Inv, KeepsCycles, UNCHANGED <<sessions, jobs, worker>>,
           \A q \in api' \ api : RequestRefers(q)'
    PROVE  Inv'
<1>0. TypeOK /\ OneHolder
  BY DEF Inv
<1>1. KeepsSessions /\ KeepsJobs /\ NewJobsReady /\ SessionIds' = SessionIds
  BY <1>0, Unchanged DEF SessionIds
<1>2. WorkersSound'
  BY <1>1, SameWorkers
<1>3. \A s \in SessionIds, j \in JobIds : Culprit(s, j) => Culprit(s, j)'
  BY DEF Culprit
<1>4. FailureHasCulprit'
  BY <1>1, <1>3, CulpritsStay
<1>5. SessionsSound'
  BY <1>1 DEF Inv, SessionsSound, SessionSound
<1>6. QED
  BY <1>1, <1>2, <1>4, <1>5, Assemble

-----------------------------------------------------------------------------
(* Users and their requests. *)

\* A request is accepted that refers to what exists.
LEMMA AcceptPreservesInv ==
    ASSUME Inv, NEW r, Accept(r), \A id : RequestRefers([id |-> id, ask |-> r])
    PROVE  Inv' /\ UNCHANGED sessions
<1>1. UNCHANGED <<cycles, sessions, jobs, worker>>
  BY DEF Accept, tables
<1>2. \A q \in api' \ api : RequestRefers(q)
  BY DEF Accept
<1>3. \A q \in api' \ api : RequestRefers(q)'
  BY <1>1, <1>2 DEF RequestRefers, CycleIds, SessionIds
<1>4. QED
  BY <1>1, <1>3, SameCycles, CyclesOnlyPreservesInv

\* A finite set of numbers has a greatest one.
LEMMA MaxOfIds ==
    ASSUME NEW n \in Nat, NEW Ids \in SUBSET (1..n), Ids # {}
    PROVE  Max(Ids) \in Ids
<1> DEFINE T == {m \in Nat : m <= n /\ n - m \in Ids}
<1>1. PICK i \in Ids : TRUE
  OBVIOUS
<1>2. n - i \in T /\ T \in SUBSET Nat
  BY <1>1
<1>3. PICK m \in T : \A k \in T : ~(<<k, m>> \in OpToRel(<, Nat))
  BY <1>2, WFMin, NatLessThanWellFounded, Zenon
<1>4. \A k \in T : ~(k < m)
  BY <1>3, Zenon DEF OpToRel
<1>5. \A j \in Ids : n - j \in T
  OBVIOUS
<1>6. n - m \in Ids /\ \A j \in Ids : n - m >= j
  BY <1>4, <1>5
<1>7. QED
  BY <1>6 DEF Max

\* The users' moves.
LEMMA UserPreservesInv ==
    ASSUME Inv, User
    PROVE  Inv' /\ SessionStep
<1>0. TypeOK
  BY DEF Inv
<1>1. CASE CreateCycle
  <2>1. /\ UNCHANGED <<sessions, jobs, worker, api>>
        /\ cycles' = Append(cycles, NewCycle("created"))
    BY <1>1 DEF CreateCycle, Direct
  <2>2. NewCycle("created") \in CycleType
    BY DEF NewCycle, CycleType, CycleStatus, Triage
  <2>3. KeepsCycles
    BY <1>0, <2>1, <2>2 DEF KeepsCycles, TypeOK, CycleIds
  <2>4. QED
    BY <2>1, <2>3, CyclesOnlyPreservesInv DEF SessionStep
<1>2. ASSUME NEW c \in CycleIds, NEW p \in Papers, NEW st \in Triage \ {"absent"},
             TriagePaperCard(c, p, st)
      PROVE  Inv' /\ SessionStep
  <2> DEFINE f == [cycles[c].papers EXCEPT ![p] = st]
  <2>1. UNCHANGED <<sessions, jobs, worker, api>> /\ cycles' = [cycles EXCEPT ![c].papers = f]
    BY <1>2 DEF TriagePaperCard, Direct
  <2>2. cycles[c] \in CycleType
    BY <1>0, Rows
  <2>3. f \in [Papers -> Triage]
    BY <2>2 DEF CycleType
  <2> HIDE DEF f
  <2>4. KeepsCycles
    BY <1>0, <2>1, <2>3, SetPapers
  <2>5. QED
    BY <2>1, <2>4, CyclesOnlyPreservesInv DEF SessionStep
<1>3. ASSUME NEW s \in SessionIds, NEW st \in {"candidate", "selected", "rejected", "deferred"},
             UpdateHypothesisCard(s, st)
      PROVE  Inv' /\ SessionStep
  <2> DEFINE row == [sessions[s] EXCEPT !.card = st]
  <2>1. /\ UNCHANGED <<cycles, jobs, worker, api>> /\ sessions' = [sessions EXCEPT ![s] = row]
        /\ sessions[s].card # "none"
    BY <1>3 DEF UpdateHypothesisCard, Direct
  <2>2. sessions[s] \in SessionType
    BY <1>0, Rows
  <2>3. /\ row \in SessionType /\ row.kind = sessions[s].kind /\ row.cycle = sessions[s].cycle
        /\ row.made = sessions[s].made /\ row.status = sessions[s].status
    BY <2>2 DEF SessionType, CardStatus
  <2> HIDE DEF row
  <2>4. KeepsCycles
    BY <2>1, SameCycles
  <2>5. /\ OneSession /\ KeepsSessions /\ SessionIds' = SessionIds /\ sessions'[s] = row
        /\ \A t \in SessionIds \ {s} : sessions'[t] = sessions[t]
    BY <1>0, <2>1, <2>3, <2>4, SetSession
  <2>6. KeepsJobs /\ NewJobsReady
    BY <1>0, <2>1, <2>5, Unchanged
  <2>7. WorkersSound'
    BY <2>1, <2>6, SameWorkers
  <2>8. FailureHasCulprit'
    <3>1. \A t \in SessionIds, j \in JobIds : Culprit(t, j) => Culprit(t, j)'
      BY <2>1 DEF Culprit
    <3>2. QED
      BY <2>3, <2>5, <2>6, <3>1, CulpritsStay
  <2>9. SessionsSound'
    <3> SUFFICES ASSUME NEW t \in SessionIds PROVE SessionSound(t)'
      BY <2>5 DEF SessionsSound
    <3>1. SessionSound(t)
      BY DEF Inv, SessionsSound
    <3>2. QED
      BY <2>1, <2>3, <2>5, <3>1 DEF SessionSound
  <2>10. QED
    BY <2>1, <2>4, <2>5, <2>6, <2>7, <2>8, <2>9, Assemble DEF SessionStep
<1>4. CASE StartDiscovery
  <2>1. Len(cycles) \in Nat /\ Active \in SUBSET (1..Len(cycles))
    BY <1>0, Rows DEF Active, CycleIds
  <2>2. Active # {} => Max(Active) \in 0..Len(cycles)
    <3> HIDE DEF Active
    <3>1. Active # {} => Max(Active) \in Active
      BY <2>1, MaxOfIds, Zenon
    <3>2. \A c \in Active : c \in 0..Len(cycles)
      BY <2>1
    <3>3. QED
      BY <3>1, <3>2, Zenon
  <2>3. PICK c \in 0..Len(cycles) : Accept([op |-> "discovery", cycle |-> c])
    BY <1>4, <2>1, <2>2 DEF StartDiscovery
  <2>4. \A id : RequestRefers([id |-> id, ask |-> [op |-> "discovery", cycle |-> c]])
    BY DEF RequestRefers
  <2>5. QED
    BY <2>3, <2>4, AcceptPreservesInv DEF SessionStep
<1>5. ASSUME NEW c \in CycleIds, NEW p \in Papers, NEW k \in CycleIds, StartAnalysis(c, p, k)
      PROVE  Inv' /\ SessionStep
  <2> DEFINE r == [op |-> "analysis", cycle |-> k, seen |-> cycles[k].status]
  <2>1. Accept(r)
    BY <1>5 DEF StartAnalysis
  <2>2. \A id : RequestRefers([id |-> id, ask |-> r])
    BY DEF RequestRefers
  <2>3. QED
    BY <2>1, <2>2, AcceptPreservesInv DEF SessionStep
<1>6. ASSUME NEW c \in CycleIds, StartHypothesisSession(c)
      PROVE  Inv' /\ SessionStep
  <2> DEFINE r == [op |-> "ideation", cycle |-> c]
  <2>1. Accept(r)
    BY <1>6 DEF StartHypothesisSession
  <2>2. \A id : RequestRefers([id |-> id, ask |-> r])
    BY DEF RequestRefers
  <2>3. QED
    BY <2>1, <2>2, AcceptPreservesInv DEF SessionStep
<1>7. ASSUME NEW c \in CycleIds, NEW s \in SessionIds, NEW explicit \in BOOLEAN,
             CompileProtocols(c, s, explicit)
      PROVE  Inv' /\ SessionStep
  <2> DEFINE r == [op |-> "compile", session |-> s, explicit |-> explicit]
  <2>1. Accept(r) /\ sessions[s].kind = "ideation" /\ sessions[s].status = "completed"
    BY <1>7 DEF CompileProtocols
  <2>2. Progress!Promised["ideation"] \subseteq sessions[s].made
    BY <2>1 DEF Inv, SessionsSound, SessionSound
  <2>3. \A id : RequestRefers([id |-> id, ask |-> r])
    BY <2>1, <2>2 DEF RequestRefers
  <2>4. QED
    BY <2>1, <2>3, AcceptPreservesInv DEF SessionStep
<1>8. ASSUME NEW c \in CycleIds, NEW target \in CycleStatus, TransitionCycle(c, target)
      PROVE  Inv' /\ SessionStep
  <2> DEFINE r == [op |-> "transition", cycle |-> c, seen |-> cycles[c].status, target |-> target]
  <2>1. Accept(r)
    BY <1>8 DEF TransitionCycle
  <2>2. \A id : RequestRefers([id |-> id, ask |-> r])
    BY DEF RequestRefers
  <2>3. QED
    BY <2>1, <2>2, AcceptPreservesInv DEF SessionStep
<1>9. QED
  BY <1>1, <1>2, <1>3, <1>4, <1>5, <1>6, <1>7, <1>8 DEF User

\* A session starts with its first job; a discovery session takes a cycle that
\* has none.
LEMMA BeginPreservesInv ==
    ASSUME Inv, KeepsCycles, NEW kind \in Kinds, NEW c \in CycleIds', NEW op \in Operators[kind],
           Needs[op] = {}, Begin(kind, c, op),
           kind = "discovery" => /\ cycles'[c].profile
                                 /\ \A s \in SessionIds : sessions[s].kind = "discovery" =>
                                        sessions[s].cycle # c,
           api' \subseteq api, UNCHANGED worker
    PROVE  Inv' /\ SessionStep
<1>0. TypeOK /\ OneHolder
  BY DEF Inv
<1> DEFINE new == NewSession(kind, c)
           n == Len(sessions) + 1
<1>1. Len(sessions) \in Nat /\ SessionIds = 1..Len(sessions) /\ sessions \in Seq(SessionType)
  BY <1>0, Rows DEF SessionIds, TypeOK
<1>2. /\ new \in SessionType' /\ new.kind = kind /\ new.cycle = c /\ new.made = {}
      /\ new.status = "created" /\ new.card = "none"
  BY DEF NewSession, SessionType, SessionStatus, CardStatus
<1>3. sessions' = Append(sessions, new)
  BY DEF Begin
<1> HIDE DEF new
<1>4. SessionType \subseteq SessionType' /\ CycleIds \subseteq CycleIds'
  BY <1>0, TypesWiden DEF KeepsCycles
<1>5. sessions \in Seq(SessionType')
  BY <1>1, <1>4
<1>6. /\ sessions' \in Seq(SessionType') /\ Len(sessions') = n /\ sessions'[n] = new
      /\ \A s \in SessionIds : sessions'[s] = sessions[s]
  BY <1>1, <1>2, <1>3, <1>5
<1>7. SessionIds' = SessionIds \cup {n} /\ n \notin SessionIds /\ n \in SessionIds'
  BY <1>1, <1>6 DEF SessionIds
<1> DEFINE row == NewJob(op, n)
<1>8. row \in JobType' /\ row.op = op /\ row.session = n
  <2>1. op \in AllOps /\ MaxReclaims \in Nat
    BY KindOfOp, ChainsAssumption
  <2>2. QED
    BY <1>7, <2>1 DEF NewJob, JobType, AllOps, JobStatus
<1>9. jobs' = Append(jobs, row) /\ Len(sessions') \in Nat /\ Len(sessions) <= Len(sessions')
  BY <1>1, <1>6 DEF Begin
<1> HIDE DEF row, n
<1>10. /\ KeepsJobs /\ JobIds' = JobIds \cup {Len(jobs) + 1} /\ Len(jobs) + 1 \notin JobIds
       /\ jobs'[Len(jobs) + 1] = row /\ \A j \in JobIds : jobs'[j] = jobs[j]
  BY <1>0, <1>8, <1>9, AppendJob
<1>11. \A j \in JobIds' : \/ j \in JobIds /\ jobs'[j] = jobs[j] /\ jobs[j].session \in SessionIds
                          \/ jobs'[j] = row
  BY <1>0, <1>10, JobColumns
<1>12. \A j \in JobIds' : /\ jobs'[j].op \in Operators[sessions'[jobs'[j].session].kind]
                          /\ Needs[jobs'[j].op] \subseteq sessions'[jobs'[j].session].made
  <2> SUFFICES ASSUME NEW j \in JobIds'
               PROVE  /\ jobs'[j].op \in Operators[sessions'[jobs'[j].session].kind]
                      /\ Needs[jobs'[j].op] \subseteq sessions'[jobs'[j].session].made
    OBVIOUS
  <2>1. CASE j \in JobIds /\ jobs'[j] = jobs[j] /\ jobs[j].session \in SessionIds
    BY <1>0, <1>6, <2>1 DEF Inv, TypeOK, JobsReady
  <2>2. CASE jobs'[j] = row
    BY <1>2, <1>6, <1>8, <2>2
  <2>3. QED
    BY <1>11, <2>1, <2>2
<1>13. WorkersSound'
  <2>1. \A v \in Workers : worker[v].pc # "idle" =>
            jobs'[worker[v].job].status = jobs[worker[v].job].status
    BY <1>0, <1>10, Busy
  <2>2. QED
    BY <1>10, <2>1, SameWorkers
<1>14. TypeOK' /\ OneHolder' /\ JobsReady'
  BY <1>6, <1>10, <1>12, <1>13 DEF TypeOK, WorkersSound, JobsReady, KeepsCycles, KeepsJobs
<1>15. RequestsRefer'
  <2>1. 0..Len(cycles) \subseteq 0..Len(cycles')
    BY <1>0, Rows DEF KeepsCycles
  <2>2. ASSUME NEW q \in api, RequestRefers(q)
        PROVE  RequestRefers(q)'
    BY <1>4, <1>6, <1>7, <2>1, <2>2 DEF RequestRefers
  <2>3. QED
    BY <2>2 DEF Inv, RequestsRefer
<1>16. ProfileTaken'
  <2> SUFFICES ASSUME NEW s \in SessionIds', sessions'[s].kind = "discovery"
               PROVE  cycles'[sessions'[s].cycle].profile
    BY DEF ProfileTaken
  <2>1. CASE s \in SessionIds
    BY <1>0, <1>6, <2>1, SessionColumns DEF Inv, ProfileTaken, KeepsCycles
  <2>2. CASE s = n
    BY <1>2, <1>6, <2>2
  <2>3. QED
    BY <1>7, <2>1, <2>2
<1>17. OneDiscoveryPerCycle'
  <2> SUFFICES ASSUME NEW s \in SessionIds', NEW t \in SessionIds',
                      sessions'[s].kind = "discovery", sessions'[t].kind = "discovery",
                      sessions'[s].cycle = sessions'[t].cycle
               PROVE  s = t
    BY DEF OneDiscoveryPerCycle
  <2>1. CASE s \in SessionIds /\ t \in SessionIds
    BY <1>6, <2>1 DEF Inv, OneDiscoveryPerCycle
  <2>2. CASE s = n \/ t = n
    BY <1>2, <1>6, <1>7, <2>2
  <2>3. QED
    BY <1>7, <2>1, <2>2
<1>18. FailureHasCulprit'
  <2> SUFFICES ASSUME NEW s \in SessionIds', sessions'[s].status = "failed"
               PROVE  \E j \in JobIds' : Culprit(s, j)'
    BY DEF FailureHasCulprit
  <2>1. s \in SessionIds
    BY <1>2, <1>6, <1>7
  <2>2. PICK j \in JobIds : Culprit(s, j)
    BY <1>6, <2>1 DEF Inv, FailureHasCulprit
  <2>3. Culprit(s, j)'
    BY <1>10, <2>2 DEF Culprit
  <2>4. QED
    BY <1>10, <2>3
<1>19. SessionsSound'
  <2> SUFFICES ASSUME NEW s \in SessionIds' PROVE SessionSound(s)'
    BY DEF SessionsSound
  <2>1. CASE s \in SessionIds
    BY <1>6, <2>1 DEF Inv, SessionsSound, SessionSound
  <2>2. CASE s = n
    BY <1>2, <1>6, <2>2 DEF SessionSound
  <2>3. QED
    BY <1>7, <2>1, <2>2
<1>20. SessionStep
  BY DEF Begin, SessionStep
<1>21. QED
  BY <1>14, <1>15, <1>16, <1>17, <1>18, <1>19, <1>20 DEF Inv

\* A discovery request takes a new cycle, or one without a profile, or is
\* rolled back.
LEMMA CommitDiscoveryPreservesInv ==
    ASSUME Inv, NEW q \in api, Commit(q), CommitDiscovery(q.ask)
    PROVE  Inv' /\ SessionStep
<1>0. TypeOK /\ Len(cycles) \in Nat /\ api' \subseteq api /\ UNCHANGED worker
  BY Rows DEF Inv, Commit
<1>1. q.ask.op = "discovery" /\ q.ask.cycle \in 0..Len(cycles)
  BY DEF Inv, RequestsRefer, RequestRefers, CommitDiscovery
<1>2. /\ "discovery" \in Kinds /\ "discovery_intake" \in Operators["discovery"]
      /\ Needs["discovery_intake"] = {}
  BY DEF Kinds, Operators, Needs
<1>3. CASE q.ask.cycle = 0
  <2> DEFINE row == [NewCycle("created") EXCEPT !.profile = TRUE]
             c == Len(cycles) + 1
  <2>1. cycles' = Append(cycles, row) /\ Begin("discovery", c, "discovery_intake")
    BY <1>3 DEF CommitDiscovery
  <2>2. row \in CycleType /\ row.profile
    BY DEF NewCycle, CycleType, CycleStatus, Triage
  <2> HIDE DEF row
  <2>3. /\ cycles' \in Seq(CycleType) /\ Len(cycles') = c /\ cycles'[c] = row
        /\ \A k \in 1..Len(cycles) : cycles'[k] = cycles[k]
    BY <1>0, <2>1, <2>2 DEF TypeOK
  <2>4. KeepsCycles /\ c \in CycleIds' /\ c \notin CycleIds
    BY <1>0, <2>3 DEF KeepsCycles, CycleIds
  <2>5. \A s \in SessionIds : sessions[s].cycle # c
    BY <1>0, <2>4, SessionColumns
  <2> HIDE DEF c
  <2>6. QED
    BY <1>0, <1>2, <2>1, <2>2, <2>3, <2>4, <2>5, BeginPreservesInv
<1>4. CASE q.ask.cycle # 0 /\ cycles[q.ask.cycle].profile
  <2>1. UNCHANGED <<cycles, sessions, jobs>>
    BY <1>4 DEF CommitDiscovery, tables
  <2>2. QED
    BY <1>0, <2>1, SameCycles, CyclesOnlyPreservesInv DEF SessionStep
<1>5. CASE q.ask.cycle # 0 /\ ~cycles[q.ask.cycle].profile
  <2>1. PICK c \in CycleIds : c = q.ask.cycle
    BY <1>0, <1>1, <1>5 DEF CycleIds
  <2> DEFINE row == [cycles[c] EXCEPT !.profile = TRUE]
  <2>2. cycles' = [cycles EXCEPT ![c] = row] /\ Begin("discovery", c, "discovery_intake")
    BY <1>5, <2>1 DEF CommitDiscovery
  <2>3. cycles[c] \in CycleType
    BY <1>0, Rows
  <2>4. row \in CycleType /\ row.profile
    BY <2>3 DEF CycleType
  <2> HIDE DEF row
  <2>5. KeepsCycles /\ Len(cycles') = Len(cycles) /\ cycles'[c] = row
    BY <1>0, <2>2, <2>4, SetCycle
  <2>6. c \in CycleIds'
    BY <2>5 DEF CycleIds
  <2>7. \A s \in SessionIds : sessions[s].kind = "discovery" => sessions[s].cycle # c
    BY <1>5, <2>1 DEF Inv, ProfileTaken
  <2>8. QED
    BY <1>0, <1>2, <2>2, <2>4, <2>5, <2>6, <2>7, BeginPreservesInv
<1>6. QED
  BY <1>3, <1>4, <1>5

\* A cycle's status is overwritten.
LEMMA SetCycleStatus ==
    ASSUME TypeOK, NEW c \in CycleIds, NEW st \in CycleStatus,
           cycles' = [cycles EXCEPT ![c].status = st]
    PROVE  KeepsCycles /\ Len(cycles') = Len(cycles)
<1> DEFINE row == [cycles[c] EXCEPT !.status = st]
<1>1. cycles[c] \in CycleType
  BY Rows
<1>2. row \in CycleType /\ row.profile = cycles[c].profile
  BY <1>1 DEF CycleType
<1>3. cycles' = [cycles EXCEPT ![c] = row]
  OBVIOUS
<1> HIDE DEF row
<1>4. QED
  BY <1>2, <1>3, SetCycle

\* A request's transaction ends.
LEMMA CommitPreservesInv ==
    ASSUME Inv, NEW q \in api, Commit(q)
    PROVE  Inv' /\ SessionStep
<1>0. TypeOK /\ Len(cycles) \in Nat /\ api' \subseteq api /\ UNCHANGED worker
      /\ RequestRefers(q)
  BY Rows DEF Inv, Commit, RequestsRefer
<1>1. CASE CommitDiscovery(q.ask)
  BY <1>1, CommitDiscoveryPreservesInv
<1>2. CASE CommitAnalysis(q.ask)
  <2>1. PICK c \in CycleIds : c = q.ask.cycle
    BY <1>0, <1>2 DEF CommitAnalysis, RequestRefers
  <2>2. KeepsCycles /\ Len(cycles') = Len(cycles)
    <3>1. CASE cycles' = [cycles EXCEPT ![c].status = "analysis_ready"]
      <4>1. "analysis_ready" \in CycleStatus
        BY DEF CycleStatus
      <4>2. QED
        BY <1>0, <3>1, <4>1, SetCycleStatus
    <3>2. CASE UNCHANGED cycles
      BY <3>2, SameCycles
    <3>3. QED
      BY <1>2, <2>1, <3>1, <3>2 DEF CommitAnalysis
  <2>3. Begin("analysis", c, "analysis_ingest") /\ c \in CycleIds'
    BY <1>2, <2>1, <2>2 DEF CommitAnalysis, CycleIds
  <2>4. /\ "analysis" \in Kinds /\ "analysis_ingest" \in Operators["analysis"]
        /\ Needs["analysis_ingest"] = {}
    BY DEF Kinds, Operators, Needs
  <2>5. QED
    BY <1>0, <2>2, <2>3, <2>4, BeginPreservesInv
<1>3. CASE CommitIdeation(q.ask)
  <2>1. PICK c \in CycleIds : c = q.ask.cycle
    BY <1>0, <1>3 DEF CommitIdeation, RequestRefers
  <2>2. KeepsCycles /\ Len(cycles') = Len(cycles)
    BY <1>3, SameCycles DEF CommitIdeation
  <2>3. Begin("ideation", c, "hypothesis_generate") /\ c \in CycleIds'
    BY <1>3, <2>1, <2>2 DEF CommitIdeation, CycleIds
  <2>4. /\ "ideation" \in Kinds /\ "hypothesis_generate" \in Operators["ideation"]
        /\ Needs["hypothesis_generate"] = {}
    BY DEF Kinds, Operators, Needs
  <2>5. QED
    BY <1>0, <2>2, <2>3, <2>4, BeginPreservesInv
<1>4. CASE CommitCompile(q.ask)
  <2>1. /\ UNCHANGED <<cycles, sessions>> /\ q.ask.op = "compile"
        /\ jobs' = Append(jobs, [NewJob("protocol_compile", q.ask.session)
                                    EXCEPT !.explicit = q.ask.explicit])
    BY <1>4 DEF CommitCompile
  <2>2. PICK s \in SessionIds : s = q.ask.session
    BY <1>0, <2>1 DEF RequestRefers
  <2>3. PICK e \in BOOLEAN : e = q.ask.explicit
    BY <1>0, <2>1 DEF RequestRefers
  <2> DEFINE row == [NewJob("protocol_compile", s) EXCEPT !.explicit = e]
  <2>4. KeepsCycles /\ KeepsSessions /\ SessionIds' = SessionIds
    BY <1>0, <2>1, Unchanged DEF SessionIds
  <2>5. row \in JobType' /\ row.op = "protocol_compile" /\ row.session = s
    <3>1. "protocol_compile" \in UNION {Operators[k] : k \in Kinds} /\ MaxReclaims \in Nat
      BY ChainsAssumption DEF Operators, Kinds
    <3>2. QED
      BY <2>4, <3>1 DEF NewJob, JobType, JobStatus
  <2>6. jobs' = Append(jobs, row) /\ Len(sessions') \in Nat /\ Len(sessions) <= Len(sessions')
    BY <1>0, <2>1, <2>2, <2>3, Rows
  <2> HIDE DEF row
  <2>7. /\ KeepsJobs /\ JobIds' = JobIds \cup {Len(jobs) + 1}
        /\ jobs'[Len(jobs) + 1] = row /\ \A j \in JobIds : jobs'[j] = jobs[j]
    BY <1>0, <2>5, <2>6, AppendJob
  <2>8. NewJobsReady
    <3>1. /\ sessions'[s].kind = "ideation"
          /\ Progress!Promised["ideation"] \subseteq sessions'[s].made
      BY <1>0, <2>1, <2>2 DEF RequestRefers
    <3>2. /\ "protocol_compile" \in Operators[sessions'[s].kind]
          /\ Needs["protocol_compile"] \subseteq sessions'[s].made
      BY <3>1 DEF Operators, Needs, Progress!Promised
    <3>3. QED
      BY <2>5, <2>7, <3>2 DEF NewJobsReady
  <2>9. WorkersSound'
    <3>1. \A v \in Workers : worker[v].pc # "idle" =>
              jobs'[worker[v].job].status = jobs[worker[v].job].status
      BY <1>0, <2>7, Busy DEF Inv
    <3>2. QED
      BY <1>0, <2>7, <3>1, SameWorkers
  <2>10. FailureHasCulprit'
    <3>1. \A t \in SessionIds, j \in JobIds : Culprit(t, j) => Culprit(t, j)'
      BY <1>0, <2>7 DEF Culprit
    <3>2. QED
      BY <2>1, <2>4, <2>7, <3>1, CulpritsStay
  <2>11. SessionsSound'
    BY <2>1, <2>4 DEF Inv, SessionsSound, SessionSound
  <2>12. QED
    BY <1>0, <2>1, <2>4, <2>7, <2>8, <2>9, <2>10, <2>11, Assemble DEF SessionStep
<1>5. CASE CommitTransition(q.ask)
  <2>1. PICK c \in CycleIds, st \in CycleStatus : c = q.ask.cycle /\ st = q.ask.target
    BY <1>0, <1>5 DEF CommitTransition, RequestRefers
  <2>2. UNCHANGED <<sessions, jobs>>
    BY <1>5 DEF CommitTransition
  <2>3. KeepsCycles
    <3>1. CASE cycles' = [cycles EXCEPT ![c].status = st]
      BY <1>0, <3>1, SetCycleStatus
    <3>2. CASE UNCHANGED cycles
      BY <3>2, SameCycles
    <3>3. QED
      BY <1>5, <2>1, <3>1, <3>2 DEF CommitTransition
  <2>4. QED
    BY <1>0, <2>2, <2>3, CyclesOnlyPreservesInv DEF SessionStep
<1>6. QED
  BY <1>1, <1>2, <1>3, <1>4, <1>5 DEF Commit

-----------------------------------------------------------------------------
(* The theorems. *)

\* The invariant holds wherever the model starts.
LEMMA InitEstablishesInv ==
    ASSUME Init
    PROVE  Inv
<1>0. worker = [w \in Workers |-> Idle] /\ api = {}
  BY DEF Init
<1>1. /\ \A st \in {"created", "discovery_screened", "evidence_ready"} :
            /\ NewCycle(st) \in CycleType
            /\ \A f \in [Papers -> Triage] :
                  [NewCycle(st) EXCEPT !.profile = TRUE, !.papers = f] \in CycleType
      /\ \A f : [NewCycle("discovery_screened") EXCEPT !.profile = TRUE, !.papers = f].profile
      /\ \A f : [NewCycle("evidence_ready") EXCEPT !.profile = TRUE, !.papers = f].profile
  BY DEF NewCycle, CycleType, CycleStatus, Triage
<1>2. ASSUME cycles \in Seq(CycleType), sessions = <<>>, jobs = <<>>
      PROVE  Inv
  <2>1. SessionIds = {} /\ JobIds = {} /\ sessions \in Seq(SessionType) /\ jobs \in Seq(JobType)
    BY <1>2 DEF SessionIds, JobIds
  <2>2. TypeOK /\ OneHolder
    BY <1>0, <1>2, <2>1 DEF TypeOK, OneHolder, Idle, WorkerType
  <2>3. QED
    BY <1>0, <2>1, <2>2 DEF Inv, RequestsRefer, ProfileTaken, OneDiscoveryPerCycle,
           FailureHasCulprit, JobsReady, SessionsSound
<1>3. CASE start = "problem" /\ cycles \in {<<>>, <<NewCycle("created")>>}
           /\ sessions = <<>> /\ jobs = <<>>
  <2>1. PICK row \in CycleType : row = NewCycle("created")
    BY <1>1
  <2>2. <<>> \in Seq(CycleType) /\ <<row>> \in Seq(CycleType)
    OBVIOUS
  <2>3. cycles = <<>> \/ cycles = <<row>>
    BY <1>3, <2>1
  <2>4. QED
    BY <1>2, <1>3, <2>2, <2>3
<1>4. ASSUME NEW row \in CycleType, row.profile, cycles = <<row>>
      PROVE  /\ cycles \in Seq(CycleType) /\ CycleIds = {1} /\ cycles[1].profile
             /\ Discovered \in SessionType /\ Discovered.kind = "discovery"
             /\ Discovered.cycle = 1 /\ Discovered.status = "completed"
             /\ Discovered.made = {"cards", "report"} /\ Discovered.card = "none"
  <2>1. cycles \in Seq(CycleType) /\ CycleIds = {1} /\ cycles[1].profile
    BY <1>4 DEF CycleIds
  <2>2. QED
    BY <2>1 DEF Discovered, NewSession, SessionType, SessionStatus, Kinds, Products, CardStatus
<1>5. ASSUME start = "screened", NEW row \in CycleType, row.profile, cycles = <<row>>,
             sessions = <<Discovered>>, jobs = <<>>
      PROVE  Inv
  <2>1. /\ cycles \in Seq(CycleType) /\ CycleIds = {1} /\ cycles[1].profile
        /\ Discovered \in SessionType /\ Discovered.kind = "discovery"
        /\ Discovered.cycle = 1 /\ Discovered.status = "completed"
        /\ Discovered.made = {"cards", "report"} /\ Discovered.card = "none"
    BY <1>4, <1>5
  <2>2. /\ SessionIds = {1} /\ JobIds = {} /\ sessions[1] = Discovered
        /\ sessions \in Seq(SessionType) /\ jobs \in Seq(JobType)
    BY <1>5, <2>1 DEF SessionIds, JobIds
  <2>3. TypeOK /\ OneHolder
    BY <1>0, <2>1, <2>2, <1>5 DEF TypeOK, OneHolder, Idle, WorkerType
  <2>4. SessionsSound
    BY <2>1, <2>2 DEF SessionsSound, SessionSound, Progress!MadeFrom, Progress!Promised
  <2>5. QED
    BY <1>0, <2>1, <2>2, <2>3, <2>4 DEF Inv, RequestsRefer, ProfileTaken, OneDiscoveryPerCycle,
           FailureHasCulprit, JobsReady
<1>6. ASSUME NEW row \in CycleType, row.profile, cycles = <<row>>,
             NEW found \in {{}, {"evidence"}},
             sessions = <<Discovered, [Analysed EXCEPT !.made = @ \cup found], Generated>>,
             jobs = <<NewJob("hypothesis_critique", 3)>>
      PROVE  Inv
  <2> DEFINE read == [Analysed EXCEPT !.made = @ \cup found]
             job == NewJob("hypothesis_critique", 3)
  <2>1. /\ cycles \in Seq(CycleType) /\ CycleIds = {1} /\ cycles[1].profile
        /\ Discovered \in SessionType /\ Discovered.kind = "discovery"
        /\ Discovered.cycle = 1 /\ Discovered.status = "completed"
        /\ Discovered.made = {"cards", "report"} /\ Discovered.card = "none"
    BY <1>4, <1>6
  <2>2. /\ read \in SessionType /\ read.kind = "analysis" /\ read.status = "completed"
        /\ read.made = {"document", "chunks", "coverage", "packet", "review"} \cup found
        /\ read.card = "none"
    BY <2>1 DEF Analysed, NewSession, SessionType, SessionStatus, Kinds, Products, CardStatus
  <2>3. /\ Generated \in SessionType /\ Generated.kind = "ideation"
        /\ Generated.status = "generating" /\ Generated.made = {"candidates"}
    BY <2>1 DEF Generated, NewSession, SessionType, SessionStatus, Kinds, Products, CardStatus
  <2>4. sessions = <<Discovered, read, Generated>> /\ jobs = <<job>>
    BY <1>6
  <2> HIDE DEF read
  <2>5. /\ SessionIds = {1, 2, 3} /\ sessions[1] = Discovered /\ sessions[2] = read
        /\ sessions[3] = Generated /\ sessions \in Seq(SessionType)
    BY <2>1, <2>2, <2>3, <2>4 DEF SessionIds
  <2>6. job \in JobType /\ job.op = "hypothesis_critique" /\ job.session = 3
    <3>1. "hypothesis_critique" \in UNION {Operators[k] : k \in Kinds} /\ MaxReclaims \in Nat
      BY ChainsAssumption DEF Operators, Kinds
    <3>2. QED
      BY <2>5, <3>1 DEF NewJob, JobType, JobStatus
  <2> HIDE DEF job
  <2>7. JobIds = {1} /\ jobs[1] = job /\ jobs \in Seq(JobType)
    BY <2>4, <2>6 DEF JobIds
  <2>8. TypeOK /\ OneHolder
    <3>1. \A j \in JobIds : jobs[j].op \in Operators[sessions[jobs[j].session].kind]
      BY <2>3, <2>5, <2>6, <2>7 DEF Operators
    <3>2. Len(jobs) \in Nat
      BY <2>7
    <3>3. QED
      BY <1>0, <2>1, <2>5, <2>7, <3>1, <3>2 DEF TypeOK, OneHolder, Idle, WorkerType
  <2>9. SessionsSound
    <3>1. SessionSound(1)
      BY <2>1, <2>5 DEF SessionSound, Progress!MadeFrom, Progress!Promised
    <3>2. SessionSound(2)
      BY <2>2, <2>5 DEF SessionSound, Progress!MadeFrom, Progress!Promised
    <3>3. SessionSound(3)
      BY <2>3, <2>5 DEF SessionSound, Progress!MadeFrom, Progress!Promised
    <3>4. QED
      BY <2>5, <3>1, <3>2, <3>3 DEF SessionsSound
  <2>10. JobsReady
    BY <2>6, <2>7 DEF JobsReady, Needs
  <2>11. ProfileTaken /\ OneDiscoveryPerCycle /\ FailureHasCulprit
    BY <2>1, <2>2, <2>3, <2>5 DEF ProfileTaken, OneDiscoveryPerCycle, FailureHasCulprit
  <2>12. QED
    BY <1>0, <2>8, <2>9, <2>10, <2>11 DEF Inv, RequestsRefer
<1>7. CASE start = "screened"
  <2>1. PICK p \in Papers : cycles =
            <<[NewCycle("discovery_screened") EXCEPT !.profile = TRUE,
                  !.papers = [q \in Papers |-> IF q = p THEN "shortlisted" ELSE "discovered"]]>>
    BY <1>7 DEF Init
  <2> DEFINE f == [q \in Papers |-> IF q = p THEN "shortlisted" ELSE "discovered"]
             row == [NewCycle("discovery_screened") EXCEPT !.profile = TRUE, !.papers = f]
  <2>2. f \in [Papers -> Triage]
    BY DEF Triage
  <2>3. row \in CycleType /\ row.profile /\ cycles = <<row>>
    BY <1>1, <2>1, <2>2
  <2> HIDE DEF row
  <2>4. sessions = <<Discovered>> /\ jobs = <<>>
    BY <1>7 DEF Init
  <2>5. QED
    BY <1>5, <1>7, <2>3, <2>4
<1>8. CASE start = "evidence"
  <2> DEFINE f == [p \in Papers |-> "shortlisted"]
             row == [NewCycle("evidence_ready") EXCEPT !.profile = TRUE, !.papers = f]
  <2>1. f \in [Papers -> Triage]
    BY DEF Triage
  <2>2. row \in CycleType /\ row.profile /\ cycles = <<row>>
    BY <1>1, <1>8, <2>1 DEF Init
  <2> HIDE DEF row
  <2>3. PICK found \in {{}, {"evidence"}} :
            sessions = <<Discovered, [Analysed EXCEPT !.made = @ \cup found], Generated>>
    BY <1>8 DEF Init
  <2>4. jobs = <<NewJob("hypothesis_critique", 3)>>
    BY <1>8 DEF Init
  <2>5. QED
    BY <1>6, <2>2, <2>3, <2>4
<1>9. QED
  BY <1>3, <1>7, <1>8 DEF Init

\* Every step keeps the invariant, and does to the sessions what SessionStep says.
LEMMA NextPreservesInv ==
    ASSUME Inv, Next
    PROVE  Inv' /\ SessionStep
<1>1. ASSUME NEW w \in Workers, Advance(w)
      PROVE  Inv' /\ SessionStep
  <2>1. S(w) \in SessionIds
    BY <1>1, Busy DEF Inv, Advance
  <2>2. QED
    BY <1>1, <2>1, AdvancePreservesInv DEF SessionStep, OneSession
<1>2. ASSUME NEW w \in Workers, WorkerStep(w) \/ Crash(w)
      PROVE  Inv' /\ SessionStep
  <2>1. CASE ClaimJob(w)
    BY <2>1, ClaimPreservesInv DEF SessionStep
  <2>2. CASE Discovery(w)
    BY <1>1, <2>2, DiscoveryAdvances
  <2>3. CASE Analysis(w)
    BY <1>1, <2>3, AnalysisAdvances
  <2>4. CASE HypothesisGenerate(w) \/ HypothesisCritique(w) \/ HypothesisRank(w)
    BY <1>1, <2>4, IdeationAdvances
  <2>5. CASE ProtocolCompile(w)
    BY <2>5, CompilePreservesInv
  <2>6. CASE OperatorRaises(w) \/ RejectedPatch(w) \/ Crash(w)
    BY <2>6, WorkerOnlyPreservesInv DEF SessionStep
  <2>7. CASE SettleSuccess(w)
    BY <2>7, SettleSuccessPreservesInv DEF SessionStep
  <2>8. CASE SettleFailure(w)
    BY <2>8, SettleFailurePreservesInv
  <2>9. QED
    BY <1>2, <2>1, <2>2, <2>3, <2>4, <2>5, <2>6, <2>7, <2>8 DEF WorkerStep, Ideation
<1>3. CASE ReclaimStale
  BY <1>3, ReclaimPreservesInv DEF SessionStep
<1>4. CASE User
  BY <1>4, UserPreservesInv
<1>5. ASSUME NEW q \in api, Commit(q)
      PROVE  Inv' /\ SessionStep
  BY <1>5, CommitPreservesInv
<1>6. QED
  BY <1>2, <1>3, <1>4, <1>5 DEF Next

\* Nothing changes, nothing breaks.
LEMMA StutterPreservesInv ==
    ASSUME Inv, UNCHANGED vars
    PROVE  Inv' /\ UNCHANGED sessions
<1>1. UNCHANGED <<cycles, sessions, jobs, worker, api>>
  BY DEF vars, tables, env
<1>2. QED
  BY <1>1, SameCycles, CyclesOnlyPreservesInv

\* The inductive invariant of the session chains holds in every reachable state.
THEOREM ChainsInvariant == Spec => []Inv
<1>1. Init => Inv
  BY InitEstablishesInv
<1>2. Inv /\ [Next]_vars => Inv'
  BY NextPreservesInv, StutterPreservesInv
<1>3. QED
  BY <1>1, <1>2, PTL DEF Spec

\* The tables keep their types, every job is of its session's chain, and the
\* job a worker is on is running, whatever crashes and is reclaimed.
THEOREM ChainsTypeOK == Spec => []TypeOK
<1>1. Inv => TypeOK
  BY DEF Inv
<1>2. QED
  BY <1>1, ChainsInvariant, PTL

\* _start_discovery_session_on_cycle: a cycle has at most one discovery session,
\* however many requests found it free.
THEOREM ChainsOneDiscovery == Spec => []OneDiscoveryPerCycle
<1>1. Inv => OneDiscoveryPerCycle
  BY DEF Inv
<1>2. QED
  BY <1>1, ChainsInvariant, PTL

\* mark_failed and the handlers of a failed job: a failed session always has a
\* job that is not completed, the one that says why.
THEOREM ChainsFailureExplained == Spec => []FailureExplained
<1>1. Inv => FailureExplained
  BY DEF Inv, FailureHasCulprit, Culprit, FailureExplained
<1>2. QED
  BY <1>1, ChainsInvariant, PTL

-----------------------------------------------------------------------------
(* The sessions implement SessionProgress. *)

\* A session as its readers see it, and all of them.
Seen(row) == [kind |-> row.kind, products |-> row.made, outcome |-> Outcome(row.status)]
View == [s \in SessionIds |-> [kind |-> sessions[s].kind, products |-> sessions[s].made,
                               outcome |-> Outcome(sessions[s].status)]]

\* The abstract rows.
ProgressType == [kind : Kinds, products : SUBSET Products,
                 outcome : {"open", "completed", "failed"}]

\* The view is a sequence of as many sound rows as there are sessions.
ViewSound ==
    /\ Len(sessions) \in Nat /\ SessionIds = 1..Len(sessions)
    /\ View \in Seq(ProgressType) /\ Len(View) = Len(sessions)
    /\ \A s \in SessionIds : View[s] = Seen(sessions[s]) /\ Progress!Sound(View[s])

\* It is one in every state of the invariant ...
LEMMA ViewIsSound == Inv => ViewSound
<1> SUFFICES ASSUME Inv PROVE ViewSound
  OBVIOUS
<1>0. TypeOK
  BY DEF Inv
<1>1. Len(sessions) \in Nat /\ SessionIds = 1..Len(sessions)
  BY <1>0, Rows DEF SessionIds
<1>2. \A s \in SessionIds : Seen(sessions[s]) \in ProgressType
  BY <1>0, SessionColumns DEF Seen, ProgressType, Outcome
<1>3. View = [s \in 1..Len(sessions) |-> Seen(sessions[s])]
  BY <1>1 DEF View, Seen
<1>4. View \in Seq(ProgressType) /\ Len(View) = Len(sessions)
  BY <1>1, <1>2, <1>3
<1>5. \A s \in SessionIds : View[s] = Seen(sessions[s])
  BY <1>1, <1>3
<1>6. \A s \in SessionIds : Progress!Sound(Seen(sessions[s]))
  BY DEF Inv, SessionsSound, SessionSound, Progress!Sound, Seen, Outcome
<1>7. QED
  BY <1>1, <1>4, <1>5, <1>6 DEF ViewSound

\* ... after a step too.
LEMMA ViewStaysSound == Inv' => ViewSound'
BY ViewIsSound, PTL

\* Every step of the chains is a step of SessionProgress, or none.
LEMMA StepsImplementProgress ==
    ASSUME Inv, Inv', SessionStep
    PROVE  Progress!Next \/ UNCHANGED View
<1>1. /\ View \in Seq(ProgressType) /\ Len(View) = Len(sessions)
      /\ \A s \in SessionIds : View[s] = Seen(sessions[s])
      /\ Len(sessions) \in Nat /\ SessionIds = 1..Len(sessions)
  BY ViewIsSound DEF ViewSound
<1>2. /\ View' \in Seq(ProgressType) /\ Len(View') = Len(sessions')
      /\ \A s \in SessionIds' : View'[s] = Seen(sessions'[s]) /\ Progress!Sound(View'[s])
      /\ Len(sessions') \in Nat /\ SessionIds' = 1..Len(sessions')
  BY ViewStaysSound DEF ViewSound
<1>3. CASE UNCHANGED sessions
  BY <1>3 DEF View, SessionIds
<1>4. CASE OneSession
  <2>1. PICK s \in SessionIds : \A t \in SessionIds \ {s} : sessions'[t] = sessions[t]
    BY <1>4 DEF OneSession
  <2>2. /\ SessionIds' = SessionIds /\ sessions'[s].kind = sessions[s].kind
        /\ sessions[s].made \subseteq sessions'[s].made
    BY <1>4 DEF OneSession, KeepsSessions, SessionIds
  <2>3. /\ View'[s].kind = View[s].kind /\ View[s].products \subseteq View'[s].products
        /\ View'[s].outcome \in {"open", "completed", "failed"}
        /\ \A t \in SessionIds \ {s} : View'[t] = View[t]
        /\ View[s] \in ProgressType /\ View'[s] \in ProgressType
    <3>1. View[s] = Seen(sessions[s]) /\ View'[s] = Seen(sessions'[s])
      BY <1>1, <1>2, <2>2
    <3>2. View[s] \in ProgressType /\ View'[s] \in ProgressType
      BY <1>1, <1>2, <2>2
    <3>3. \A t \in SessionIds \ {s} : View'[t] = View[t]
      BY <1>1, <1>2, <2>1, <2>2
    <3>4. View'[s].outcome \in {"open", "completed", "failed"}
      BY <3>2 DEF ProgressType
    <3>5. View'[s].kind = View[s].kind /\ View[s].products \subseteq View'[s].products
      BY <2>2, <3>1 DEF Seen
    <3>6. QED
      BY <3>2, <3>3, <3>4, <3>5
  <2>4. View' = [View EXCEPT ![s].products = View'[s].products, ![s].outcome = View'[s].outcome]
    <3> DEFINE row == [View[s] EXCEPT !.products = View'[s].products, !.outcome = View'[s].outcome]
               written == [View EXCEPT ![s] = row]
    <3>1. row = View'[s]
      BY <2>3 DEF ProgressType
    <3> HIDE DEF row
    <3>2. /\ written \in Seq(ProgressType) /\ Len(written) = Len(View)
          /\ \A t \in 1..Len(View) : written[t] = IF t = s THEN row ELSE View[t]
      BY <1>1, <2>3, <3>1, ExceptSeq
    <3>3. View' = written
      BY <1>1, <1>2, <2>2, <2>3, <3>1, <3>2, SeqEqual
    <3>4. QED
      BY <3>3 DEF row
  <2>5. Progress!Sound(View'[s]) /\ s \in 1..Len(View)
    BY <1>1, <1>2, <2>2
  <2>6. Progress!Work(s)
    BY <2>3, <2>4, <2>5 DEF Progress!Work, Progress!Outcomes, View
  <2>7. QED
    BY <2>5, <2>6 DEF Progress!Next, View
<1>5. ASSUME NEW kind \in Kinds, NEW c, sessions' = Append(sessions, NewSession(kind, c))
      PROVE  Progress!Next
  <2> DEFINE new == [kind |-> kind, products |-> {}, outcome |-> "open"]
             extended == Append(View, new)
  <2>1. new \in ProgressType
    BY DEF ProgressType
  <2>2. Seen(NewSession(kind, c)) = new
    BY DEF Seen, NewSession, Outcome
  <2>3. /\ Len(sessions') = Len(sessions) + 1
        /\ \A s \in SessionIds : sessions'[s] = sessions[s]
        /\ sessions'[Len(sessions) + 1] = NewSession(kind, c)
    BY <1>1, <1>5
  <2> HIDE DEF new
  <2>4. /\ extended \in Seq(ProgressType) /\ Len(extended) = Len(View) + 1
        /\ \A s \in 1..Len(View) : extended[s] = View[s]
        /\ extended[Len(View) + 1] = new
    BY <1>1, <2>1, AppendProperties
  <2>5. View' = extended
    <3>1. View' \in Seq(ProgressType) /\ Len(View') = Len(extended)
      BY <1>1, <1>2, <2>3, <2>4
    <3>2. \A s \in 1..Len(View) : View'[s] = extended[s]
      BY <1>1, <1>2, <2>3, <2>4
    <3>3. View'[Len(View) + 1] = extended[Len(View) + 1]
      BY <1>1, <1>2, <2>2, <2>3, <2>4
    <3>4. \A s \in 1..Len(extended) : View'[s] = extended[s]
      BY <1>1, <2>4, <3>2, <3>3
    <3>5. QED
      BY <2>4, <3>1, <3>4, SeqEqual
  <2>6. Progress!Start
    BY <2>5, Zenon DEF Progress!Start, Progress!Kinds, Kinds, View, new
  <2>7. QED
    BY <2>6 DEF Progress!Next
<1>6. QED
  BY <1>3, <1>4, <1>5 DEF SessionStep

\* The steps of every chain: no product is taken back, each is made from stored
\* ones, and a completed session has all its chain promises, however often steps
\* are executed again.
THEOREM ChainsImplementProgress == Spec => ImplementsProgress
<1>1. Inv => Progress!Init
  <2> SUFFICES ASSUME Inv PROVE Progress!Init
    OBVIOUS
  <2>1. \A s \in 1..Len(View) : Progress!Sound(View[s])
    BY ViewIsSound DEF ViewSound
  <2>2. QED
    BY <2>1 DEF Progress!Init, View
<1>2. Inv /\ Inv' /\ [Next]_vars => [Progress!Next]_View
  <2> SUFFICES ASSUME Inv, Inv', [Next]_vars PROVE Progress!Next \/ UNCHANGED View
    OBVIOUS
  <2>1. SessionStep
    BY NextPreservesInv, StutterPreservesInv DEF SessionStep
  <2>2. QED
    BY <2>1, StepsImplementProgress
<1>3. Spec => Progress!Init /\ [][Progress!Next]_View
  BY <1>1, <1>2, ChainsInvariant, PTL DEF Spec
<1>4. QED
  BY <1>3, PTL DEF ImplementsProgress, Progress!Spec, View
=============================================================================
