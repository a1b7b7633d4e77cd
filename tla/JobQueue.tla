------------------------------ MODULE JobQueue ------------------------------
(***************************************************************************)
(* The durable job queue of Synthetos: the jobs table, the worker          *)
(* processes that claim, start, heartbeat, execute and settle its rows     *)
(* (apps/worker), the stale-job reclaim every worker runs at startup and   *)
(* between claims (job_service.reclaim_stale_jobs), and the user's cancel, *)
(* pause and resume requests (apps/api/routers/jobs.py).                   *)
(*                                                                         *)
(* One step is one committed database transaction, or the read of one that *)
(* writes later: the reclaim scan, the outcome persistence and the API     *)
(* handlers all read a row, decide, and write it by primary key without a  *)
(* row lock, so each is a read step followed by a write step.  A row's     *)
(* status, claimed_at, heartbeat_at and reclaim_count keep the columns'    *)
(* names.  What an operator does inside its own transactions is abstracted *)
(* to what reaches this table: the follow-up job it enqueues and, for the  *)
(* autonomy loop's gate, the pause of its own row.                         *)
(***************************************************************************)
EXTENDS Integers, FiniteSets

CONSTANTS
    Workers,       \* worker process slots; a slot is reused after a crash or a stop
    MaxJobs,       \* bound: rows ever created; ids follow created_at
    Priority,      \* the priority each row is created with
    SelfPausing,   \* rows whose operator may pause its own row (loop_decide)
    MaxReclaims,   \* settings.job_max_reclaims
    Stalls,        \* may a live worker fall silent past job_heartbeat_timeout_s?
    MaxFaults,     \* bound: crashes, shutdowns and failed maintenance transactions
    ApiOps,        \* the control requests the user may send
    MaxRequests    \* bound: control requests accepted

Jobs == 1..MaxJobs

ASSUME QueueAssumption ==
    /\ MaxJobs \in Nat
    /\ Priority \in [1..MaxJobs -> Nat]
    /\ SelfPausing \subseteq 1..MaxJobs
    /\ MaxReclaims \in Nat
    /\ Stalls \in BOOLEAN
    /\ MaxFaults \in Nat
    /\ ApiOps \subseteq {"cancel", "pause", "resume"}
    /\ MaxRequests \in Nat

VARIABLES
    \* The jobs table.
    created,       \* rows 1..created exist
    status,        \* Job.status
    claimed_at,    \* Job.claimed_at:   NULL, within the timeout, or older
    heartbeat_at,  \* Job.heartbeat_at: NULL, within the timeout, or older
    reclaim_count, \* Job.reclaim_count
    \* Each worker process: volatile, lost in a crash.
    pc,            \* where run() stands
    job,           \* the row it claimed, 0 for none
    outcome,       \* what the operator returned
    seen,          \* current_job.status as get_job read it
    stale,         \* rows its reclaim scan selected
    stale_count,   \* the reclaim_count the scan read for them
    stale_beat,    \* those of them whose heartbeat_at the scan read as set
    \* The API process: at most one control request between read and commit.
    api,
    \* Bounded environment counters.
    faults,        \* faults so far
    requests,      \* control requests so far
    \* History, read by properties only.
    opened,        \* times the row entered the queue: became pending
    claims         \* times the row was claimed

table   == <<created, status, claimed_at, heartbeat_at, reclaim_count>>
process == <<pc, job, outcome, seen>>
scans   == <<stale, stale_count, stale_beat>>
history == <<opened, claims>>
vars    == <<table, process, scans, api, faults, requests, history>>

JobStatus == {"pending", "claimed", "running", "paused",
              "completed", "failed", "cancelled"}
InFlight  == {"claimed", "running"}
Terminal  == {"completed", "failed", "cancelled"}
Stamp     == {"null", "fresh", "old"}
Phase     == {"down", "idle", "boot", "scanned", "claimed", "executing",
              "finished", "persisting"}
Outcome   == {"none", "success", "failure", "rejected"}
NoRequest == [op |-> "none", job |-> 0, beat |-> FALSE]

Live(w)    == pc[w] # "down"
Holders(j) == {w \in Workers : job[w] = j}
Exists(j)  == j <= created

-----------------------------------------------------------------------------
(* The table starts empty and no worker runs. *)

Init ==
    /\ created = 0
    /\ status = [j \in Jobs |-> "pending"]
    /\ claimed_at = [j \in Jobs |-> "null"]
    /\ heartbeat_at = [j \in Jobs |-> "null"]
    /\ reclaim_count = [j \in Jobs |-> 0]
    /\ pc = [w \in Workers |-> "down"]
    /\ job = [w \in Workers |-> 0]
    /\ outcome = [w \in Workers |-> "none"]
    /\ seen = [w \in Workers |-> "pending"]
    /\ stale = [w \in Workers |-> {}]
    /\ stale_count = [w \in Workers |-> [j \in Jobs |-> 0]]
    /\ stale_beat = [w \in Workers |-> {}]
    /\ api = NoRequest
    /\ faults = 0
    /\ requests = 0
    /\ opened = [j \in Jobs |-> 0]
    /\ claims = [j \in Jobs |-> 0]

-----------------------------------------------------------------------------
(* Row operations of job_service. *)

\* create_job inserts the next row as pending.
InsertRow ==
    /\ created < MaxJobs
    /\ created' = created + 1
    /\ opened' = [opened EXCEPT ![created + 1] = @ + 1]

\* A service (the API or the CLI) enqueues the first job of a pipeline.
CreateJob ==
    /\ InsertRow
    /\ UNCHANGED <<status, claimed_at, heartbeat_at, reclaim_count, process,
                   scans, api, faults, requests, claims>>

\* Rows another transaction has updated but not committed: the claim's
\* SKIP LOCKED passes over them.
MayBeLocked == {j \in Jobs : api.job = j}

\* Mutant: the claim also takes rows another worker has claimed.
PendingOrClaimed == {j \in Jobs : Exists(j) /\ status[j] \in {"pending", "claimed"}}

Pending == {j \in Jobs : Exists(j) /\ status[j] = "pending"}

\* ORDER BY priority DESC, created_at LIMIT 1 over the rows not locked.
NextInQueue(j, skipped) ==
    /\ j \in Pending \ skipped
    /\ \A k \in Pending \ skipped :
          \/ Priority[k] < Priority[j]
          \/ Priority[k] = Priority[j] /\ j <= k

\* Mutant: only a heartbeat makes a row stale, so a row whose worker died
\* before the first one is not.
IsStaleByHeartbeat(j) ==
    /\ Exists(j)
    /\ status[j] \in InFlight
    /\ heartbeat_at[j] = "old"

\* Staleness as the reclaim query tests it.  SQL compares NULL with the
\* cutoff as unknown, so a row with neither stamp is never selected.
IsStale(j) ==
    /\ Exists(j)
    /\ status[j] \in InFlight
    /\ \/ heartbeat_at[j] = "null" /\ claimed_at[j] = "old"
       \/ heartbeat_at[j] = "old"

StaleJobs == {j \in Jobs : IsStale(j)}

-----------------------------------------------------------------------------
(* The worker loop. *)

\* A worker process starts and is about to run its startup maintenance.
StartWorker(w) ==
    /\ pc[w] = "down"
    /\ pc' = [pc EXCEPT ![w] = "boot"]
    /\ UNCHANGED <<table, job, outcome, seen, scans, api, faults, requests, history>>

\* A requested shutdown is honoured at the top of the loop.
StopWorker(w) ==
    /\ pc[w] = "idle"
    /\ faults < MaxFaults
    /\ faults' = faults + 1
    /\ pc' = [pc EXCEPT ![w] = "down"]
    /\ UNCHANGED <<table, job, outcome, seen, scans, api, requests, history>>

\* reclaim_stale_jobs, first half: SELECT the stale rows, without a lock.
ReclaimScan(w) ==
    /\ pc[w] = "boot" \/ (pc[w] = "idle" /\ StaleJobs # {})
    /\ pc' = [pc EXCEPT ![w] = IF StaleJobs = {} THEN "idle" ELSE "scanned"]
    /\ stale' = [stale EXCEPT ![w] = StaleJobs]
    /\ stale_count' = [stale_count EXCEPT ![w] =
          [j \in Jobs |-> IF j \in StaleJobs THEN reclaim_count[j] ELSE 0]]
    /\ stale_beat' = [stale_beat EXCEPT ![w] =
          {j \in StaleJobs : heartbeat_at[j] # "null"}]
    /\ UNCHANGED <<table, job, outcome, seen, api, faults, requests, history>>

ForgetScan(w) ==
    /\ stale' = [stale EXCEPT ![w] = {}]
    /\ stale_count' = [stale_count EXCEPT ![w] = [j \in Jobs |-> 0]]
    /\ stale_beat' = [stale_beat EXCEPT ![w] = {}]

\* Mutant: the limit is tested before the count is raised.
RequeuedOnceMore(w) == {j \in stale[w] : stale_count[w][j] <= MaxReclaims}

\* The rows of a scan that have reclaims left, and those that do not.
Requeued(w)  == {j \in stale[w] : stale_count[w][j] + 1 <= MaxReclaims}
Exhausted(w) == stale[w] \ Requeued(w)

\* reclaim_stale_jobs, second half: write every selected row by primary key,
\* whatever has happened to it since.  The ORM writes only the attributes
\* that changed, so a heartbeat_at the scan read as NULL is left alone.
ReclaimCommit(w) ==
    /\ pc[w] = "scanned"
    /\ pc' = [pc EXCEPT ![w] = "idle"]
    /\ status' = [j \in Jobs |-> IF j \in Requeued(w) THEN "pending"
                                 ELSE IF j \in Exhausted(w) THEN "failed"
                                 ELSE status[j]]
    /\ claimed_at' = [j \in Jobs |-> IF j \in Requeued(w) THEN "null"
                                     ELSE claimed_at[j]]
    /\ heartbeat_at' = [j \in Jobs |-> IF j \in Requeued(w) \cap stale_beat[w]
                                       THEN "null" ELSE heartbeat_at[j]]
    /\ reclaim_count' = [j \in Jobs |-> IF j \in Requeued(w)
                                        THEN stale_count[w][j] + 1
                                        ELSE reclaim_count[j]]
    /\ opened' = [j \in Jobs |-> IF j \in Requeued(w) /\ status[j] # "pending"
                                 THEN opened[j] + 1 ELSE opened[j]]
    /\ ForgetScan(w)
    /\ UNCHANGED <<created, job, outcome, seen, api, faults, requests, claims>>

\* The maintenance transaction fails; run_periodic_tasks logs and goes on.
ReclaimFails(w) ==
    /\ pc[w] = "scanned"
    /\ faults < MaxFaults
    /\ faults' = faults + 1
    /\ pc' = [pc EXCEPT ![w] = "idle"]
    /\ ForgetScan(w)
    /\ UNCHANGED <<table, job, outcome, seen, api, requests, history>>

\* claim_job: one UPDATE with a locked subselect, committed at once.  It does
\* not touch heartbeat_at.
ClaimJob(w) ==
    /\ pc[w] = "idle"
    /\ \E j \in Jobs, skipped \in SUBSET MayBeLocked :
          /\ NextInQueue(j, skipped)
          /\ status' = [status EXCEPT ![j] = "claimed"]
          /\ claimed_at' = [claimed_at EXCEPT ![j] = "fresh"]
          /\ claims' = [claims EXCEPT ![j] = @ + 1]
          /\ job' = [job EXCEPT ![w] = j]
    /\ pc' = [pc EXCEPT ![w] = "claimed"]
    /\ UNCHANGED <<created, heartbeat_at, reclaim_count, outcome, seen, scans,
                   api, faults, requests, opened>>

\* start_job: mark the row running by id, whatever its status is by now, and
\* start the heartbeat thread.
StartJob(w) ==
    /\ pc[w] = "claimed"
    /\ status' = [status EXCEPT ![job[w]] = "running"]
    /\ pc' = [pc EXCEPT ![w] = "executing"]
    /\ UNCHANGED <<created, claimed_at, heartbeat_at, reclaim_count, job,
                   outcome, seen, scans, api, faults, requests, history>>

\* The heartbeat thread stamps the row by id.  stop() joins with a timeout,
\* so a last heartbeat may land after the operator returned.
Heartbeat(w) ==
    /\ pc[w] \in {"executing", "finished"}
    /\ heartbeat_at' = [heartbeat_at EXCEPT ![job[w]] = "fresh"]
    /\ UNCHANGED <<created, status, claimed_at, reclaim_count, process, scans,
                   api, faults, requests, history>>

\* The operator returns: an error, or a result whose state patch the cycle
\* state machine will accept or reject.  Its own transactions have committed,
\* with the follow-up job it may have enqueued.
OperatorReturns(w) ==
    /\ pc[w] = "executing"
    /\ \E r \in Outcome \ {"none"} : outcome' = [outcome EXCEPT ![w] = r]
    /\ pc' = [pc EXCEPT ![w] = "finished"]
    /\ InsertRow \/ UNCHANGED <<created, opened>>
    /\ UNCHANGED <<status, claimed_at, heartbeat_at, reclaim_count, job, seen,
                   scans, api, faults, requests, claims>>

\* loop_decide stops at a gate: it pauses its own row by id and reports
\* success.
OperatorPausesItself(w) ==
    /\ pc[w] = "executing"
    /\ job[w] \in SelfPausing
    /\ status' = [status EXCEPT ![job[w]] = "paused"]
    /\ outcome' = [outcome EXCEPT ![w] = "success"]
    /\ pc' = [pc EXCEPT ![w] = "finished"]
    /\ UNCHANGED <<created, claimed_at, heartbeat_at, reclaim_count, job, seen,
                   scans, api, faults, requests, history>>

Release(w) ==
    /\ job' = [job EXCEPT ![w] = 0]
    /\ outcome' = [outcome EXCEPT ![w] = "none"]
    /\ seen' = [seen EXCEPT ![w] = "pending"]

\* Mutant: the outcome is persisted without looking for a cancellation.
ReadOutcomeRowBlindly(w) ==
    /\ pc[w] = "finished"
    /\ pc' = [pc EXCEPT ![w] = "persisting"]
    /\ seen' = [seen EXCEPT ![w] = status[job[w]]]
    /\ UNCHANGED <<job, outcome, table, scans, api, faults, requests, history>>

\* Persist outcome, first half: read the row.  A cancelled row is
\* acknowledged and the result dropped.
ReadOutcomeRow(w) ==
    /\ pc[w] = "finished"
    /\ IF status[job[w]] = "cancelled"
       THEN pc' = [pc EXCEPT ![w] = "idle"] /\ Release(w)
       ELSE /\ pc' = [pc EXCEPT ![w] = "persisting"]
            /\ seen' = [seen EXCEPT ![w] = status[job[w]]]
            /\ UNCHANGED <<job, outcome>>
    /\ UNCHANGED <<table, scans, api, faults, requests, history>>

\* Mutant: the operator's outcome is written as the row's status.
SettlementAsReturned(w) == IF seen[w] = "paused" THEN "paused" ELSE outcome[w]

\* The status the outcome settles the row to.
Settlement(w) ==
    CASE outcome[w] = "failure" -> "failed"
      [] outcome[w] = "success" /\ seen[w] = "paused" -> "paused"
      [] OTHER -> "completed"

\* Persist outcome, second half: complete_job, pause_job or fail_job by id.
SettleJob(w) ==
    /\ pc[w] = "persisting"
    /\ outcome[w] # "rejected"
    /\ status' = [status EXCEPT ![job[w]] = Settlement(w)]
    /\ pc' = [pc EXCEPT ![w] = "idle"]
    /\ Release(w)
    /\ UNCHANGED <<created, claimed_at, heartbeat_at, reclaim_count, scans,
                   api, faults, requests, history>>

Die(w) ==
    /\ pc' = [pc EXCEPT ![w] = "down"]
    /\ Release(w)
    /\ ForgetScan(w)
    /\ UNCHANGED <<table, api, requests, history>>

\* validate_transition raises inside _apply_state_patch; nothing catches it,
\* the transaction rolls back and the worker process ends.
RejectedPatch(w) ==
    /\ pc[w] = "persisting"
    /\ outcome[w] = "rejected"
    /\ Die(w)
    /\ UNCHANGED faults

\* The process dies, or a database error ends run().
Crash(w) ==
    /\ Live(w)
    /\ faults < MaxFaults
    /\ faults' = faults + 1
    /\ Die(w)

-----------------------------------------------------------------------------
(* Time.  job_heartbeat_timeout_s is 120 s and the heartbeat interval 5 s, so *)
(* the stamps of a row age only once no live worker holds it, unless workers  *)
(* stall or cannot reach the database (Stalls).                               *)

Age(j) ==
    /\ Stalls \/ \A w \in Holders(j) : ~Live(w)
    /\ "fresh" \in {claimed_at[j], heartbeat_at[j]}
    /\ claimed_at' = [claimed_at EXCEPT ![j] = IF @ = "fresh" THEN "old" ELSE @]
    /\ heartbeat_at' = [heartbeat_at EXCEPT ![j] = IF @ = "fresh" THEN "old" ELSE @]
    /\ UNCHANGED <<created, status, reclaim_count, process, scans, api, faults,
                   requests, history>>

-----------------------------------------------------------------------------
(* The control endpoints of apps/api/routers/jobs.py: read the row, answer    *)
(* 409 unless its status allows the request, write it when the session        *)
(* commits.                                                                    *)

AllowedFrom(op) ==
    CASE op = "cancel" -> {"pending", "claimed", "running", "paused"}
      [] op = "pause"  -> {"pending", "claimed", "running"}
      [] op = "resume" -> {"paused"}

RequestAccepted(op, j) ==
    /\ api = NoRequest
    /\ requests < MaxRequests
    /\ Exists(j)
    /\ status[j] \in AllowedFrom(op)
    /\ requests' = requests + 1
    /\ api' = [op |-> op, job |-> j, beat |-> heartbeat_at[j] # "null"]
    /\ UNCHANGED <<table, process, scans, faults, history>>

RequestCommits ==
    /\ api # NoRequest
    /\ LET j == api.job
           resume == api.op = "resume" IN
       /\ status' = [status EXCEPT ![j] =
             CASE api.op = "cancel" -> "cancelled"
               [] api.op = "pause"  -> "paused"
               [] api.op = "resume" -> "pending"]
       /\ claimed_at' = [claimed_at EXCEPT ![j] = IF resume THEN "null" ELSE @]
       /\ heartbeat_at' = [heartbeat_at EXCEPT ![j] =
             IF resume /\ api.beat THEN "null" ELSE @]
       /\ opened' = [opened EXCEPT ![j] =
             IF resume /\ status[j] # "pending" THEN @ + 1 ELSE @]
    /\ api' = NoRequest
    /\ UNCHANGED <<created, reclaim_count, process, scans, faults, requests, claims>>

\* The request fails and get_db rolls the session back.
RequestRollsBack ==
    /\ api # NoRequest
    /\ api' = NoRequest
    /\ UNCHANGED <<table, process, scans, faults, requests, history>>

-----------------------------------------------------------------------------

WorkerStep(w) ==
    \/ ReclaimCommit(w) \/ StartJob(w) \/ Heartbeat(w)
    \/ OperatorReturns(w) \/ OperatorPausesItself(w)
    \/ ReadOutcomeRow(w) \/ SettleJob(w) \/ RejectedPatch(w)

Next ==
    \/ CreateJob
    \/ \E w \in Workers :
          \/ StartWorker(w) \/ StopWorker(w) \/ ReclaimScan(w) \/ ReclaimFails(w)
          \/ ClaimJob(w) \/ WorkerStep(w) \/ Crash(w)
    \/ \E j \in Jobs : Age(j)
    \/ \E op \in ApiOps, j \in Jobs : RequestAccepted(op, j)
    \/ RequestCommits
    \/ RequestRollsBack

Spec == Init /\ [][Next]_vars

\* What the code's scheduling gives: a worker process that died or stopped is
\* started again, an operator returns, the loop goes on, the maintenance tick
\* recurs, a request that was read commits or rolls back, and time passes.
\* Crashes, shutdowns and requests are nobody's obligation.
Fairness ==
    /\ \A w \in Workers :
          /\ WF_vars(StartWorker(w))
          /\ WF_vars(ReclaimScan(w))
          /\ WF_vars(ReclaimCommit(w))
          /\ WF_vars(ClaimJob(w))
          /\ WF_vars(StartJob(w))
          /\ WF_vars(OperatorReturns(w) \/ OperatorPausesItself(w))
          /\ WF_vars(ReadOutcomeRow(w))
          /\ WF_vars(SettleJob(w) \/ RejectedPatch(w))
    /\ \A j \in Jobs : WF_vars(Age(j))
    /\ WF_vars(RequestCommits \/ RequestRollsBack)

FairSpec == Spec /\ Fairness

-----------------------------------------------------------------------------
(* Properties. *)

TableTypeOK ==
    /\ created \in 0..MaxJobs
    /\ status \in [Jobs -> JobStatus]
    /\ claimed_at \in [Jobs -> Stamp]
    /\ heartbeat_at \in [Jobs -> Stamp]
    /\ reclaim_count \in [Jobs -> Nat]

ProcessTypeOK ==
    /\ pc \in [Workers -> Phase]
    /\ job \in [Workers -> 0..MaxJobs]
    /\ outcome \in [Workers -> Outcome]
    /\ seen \in [Workers -> JobStatus]

ScanTypeOK ==
    /\ stale \in [Workers -> SUBSET Jobs]
    /\ stale_count \in [Workers -> [Jobs -> Nat]]
    /\ stale_beat \in [Workers -> SUBSET Jobs]

RequestTypeOK ==
    api \in {NoRequest} \cup [op : ApiOps, job : Jobs, beat : BOOLEAN]

CounterTypeOK ==
    /\ faults \in Nat
    /\ requests \in Nat
    /\ opened \in [Jobs -> Nat]
    /\ claims \in [Jobs -> Nat]

\* Every variable has its type: the table's columns, the workers' volatile
\* state, their scans, the request in progress and the counters.
TypeOK ==
    TableTypeOK /\ ProcessTypeOK /\ ScanTypeOK /\ RequestTypeOK /\ CounterTypeOK

\* Once it has claimed, and until it has settled the outcome, a worker holds
\* a row.
Busy == {"claimed", "executing", "finished", "persisting"}
BusyHoldsRow == \A w \in Workers : pc[w] \in Busy <=> job[w] \in Jobs

\* Every execution is paid for: a row is claimed at most once for each time
\* it entered the queue (creation, reclaim, resume), even when several
\* workers run claim_job at once and stale writers reopen rows under them.
ClaimsPaidFor == \A j \in Jobs : claims[j] <= opened[j]

\* A writer that may still change row j: it holds the row at a point of run()
\* that writes it without looking at it again, or scanned it, or is an API
\* request on it.  A worker whose operator is still executing is harmless to
\* a cancelled row, because it reads the row before it writes the outcome -
\* unless the operator may pause the row itself.
HasWriter(j) ==
    \/ api.job = j
    \/ \E w \in Workers : j \in stale[w]
    \/ \E w \in Holders(j) :
          ~ /\ status[j] = "cancelled"
            /\ pc[w] \in {"executing", "finished"}
            /\ j \notin SelfPausing

Settled(j) == Exists(j) /\ status[j] \in Terminal /\ ~HasWriter(j)

\* A settled row is final: once a row is completed, failed or cancelled and
\* no transaction that read it earlier is still to write, no worker, reclaim
\* or control request ever changes it again.  In particular a cancel that
\* lands while the operator is executing is final: the outcome of that
\* execution is dropped.
SettledIsFinal ==
    [][\A j \in Jobs : Settled(j) => Settled(j)' /\ status'[j] = status[j]]_vars

\* A row in flight that no live worker holds and that carries neither stamp:
\* start_job marked it running after a reclaim or a resume had cleared its
\* claim, and the worker died before its first heartbeat.
Unreclaimable(j) ==
    /\ status[j] \in InFlight
    /\ claimed_at[j] = "null" /\ heartbeat_at[j] = "null"
    /\ \A w \in Holders(j) : ~Live(w)

\* No row is lost: whatever crashes, stalls and rejected patches happen, a row
\* waiting or in flight is eventually completed, failed, cancelled or paused,
\* except one that became Unreclaimable.
EventuallySettles ==
    \A j \in Jobs :
        (Exists(j) /\ status[j] \in {"pending", "claimed", "running"})
            ~> (status[j] \in Terminal \cup {"paused"} \/ Unreclaimable(j))

\* reclaim_stale_jobs: "Commits the session before returning so the worker
\* never double-claims": at most one live worker works on a row.
SingleExecutor == \A j \in Jobs : Cardinality(Holders(j)) <= 1

\* README.md, LAB_JOB_MAX_RECLAIMS: "Reclaims before a job is force-failed".
\* A job that kills every worker that runs it is run at most 1 + MaxReclaims
\* times; each control request may add one run (a resume).  Holds for one
\* worker process; overlapping scans of several lose counts.
ReclaimsBeforeForceFail ==
    \A j \in Jobs : claims[j] <= 1 + MaxReclaims + requests

=============================================================================
