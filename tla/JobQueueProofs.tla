--------------------------- MODULE JobQueueProofs ---------------------------
(***************************************************************************)
(* Theorems about the job queue, for any number of workers and rows, any   *)
(* reclaim limit, with or without stalls: its type invariant, that every   *)
(* execution is paid for by an entry into the queue, that a settled row is *)
(* final, and how often one worker process executes a row.                 *)
(***************************************************************************)
EXTENDS JobQueue, TLAPS

\* The rows are the positive integers up to MaxJobs, so 0 is none of them.
LEMMA RowIds ==
    /\ Jobs \subseteq 0..MaxJobs
    /\ 0 \in 0..MaxJobs
    /\ 0 \notin Jobs
BY QueueAssumption DEF Jobs

\* The literals the actions write are statuses, stamps, phases and outcomes.
LEMMA Literals ==
    /\ {"pending", "claimed", "running", "paused", "failed", "completed",
        "cancelled"} \subseteq JobStatus
    /\ {"null", "fresh", "old"} \subseteq Stamp
    /\ {"down", "idle", "boot", "scanned", "claimed", "executing", "finished",
        "persisting"} \subseteq Phase
    /\ {"none", "success"} \subseteq Outcome
BY DEF JobStatus, Stamp, Phase, Outcome

\* Leaving a group of variables alone keeps its type.
LEMMA UnchangedTypes ==
    /\ TableTypeOK /\ UNCHANGED table => TableTypeOK'
    /\ ProcessTypeOK /\ UNCHANGED process => ProcessTypeOK'
    /\ ScanTypeOK /\ UNCHANGED scans => ScanTypeOK'
    /\ RequestTypeOK /\ UNCHANGED api => RequestTypeOK'
    /\ CounterTypeOK /\ UNCHANGED <<faults, requests, history>> => CounterTypeOK'
BY DEF TableTypeOK, ProcessTypeOK, ScanTypeOK, RequestTypeOK, CounterTypeOK,
       table, process, scans, history

\* Inserting a row keeps the types of the table's size and of the history.
LEMMA InsertRowType ==
    ASSUME TypeOK, InsertRow
    PROVE  created' \in 0..MaxJobs /\ opened' \in [Jobs -> Nat]
BY QueueAssumption
   DEF TypeOK, TableTypeOK, CounterTypeOK, InsertRow, Jobs

\* Dropping what a worker held and scanned keeps the types.
LEMMA ReleaseType ==
    ASSUME TypeOK, NEW w \in Workers
    PROVE  /\ Release(w) => /\ job' \in [Workers -> 0..MaxJobs]
                            /\ outcome' \in [Workers -> Outcome]
                            /\ seen' \in [Workers -> JobStatus]
           /\ ForgetScan(w) => ScanTypeOK'
<1>1. Release(w) => /\ job' \in [Workers -> 0..MaxJobs]
                    /\ outcome' \in [Workers -> Outcome]
                    /\ seen' \in [Workers -> JobStatus]
  BY RowIds, Literals DEF TypeOK, ProcessTypeOK, Release
<1>2. [j \in Jobs |-> 0] \in [Jobs -> Nat]
  OBVIOUS
<1>3. ForgetScan(w) => ScanTypeOK'
  BY <1>2 DEF TypeOK, ScanTypeOK, ForgetScan
<1>4. QED
  BY <1>1, <1>3

\* Every step keeps the types; reading the outcome row needs that the worker
\* holds one.
LEMMA TypeStep ==
    ASSUME TypeOK, BusyHoldsRow, [Next]_vars
    PROVE  TypeOK'
<1> USE DEF TypeOK
<1>a. TableTypeOK /\ ProcessTypeOK /\ ScanTypeOK /\ RequestTypeOK /\ CounterTypeOK
  OBVIOUS
<1>1. CASE CreateJob
  BY <1>1, <1>a, UnchangedTypes, InsertRowType
     DEF CreateJob, TableTypeOK, CounterTypeOK
<1>2. ASSUME NEW w \in Workers, StartWorker(w) PROVE TypeOK'
  BY <1>2, <1>a, UnchangedTypes, Literals DEF StartWorker, ProcessTypeOK
<1>3. ASSUME NEW w \in Workers, StopWorker(w) PROVE TypeOK'
  BY <1>3, <1>a, UnchangedTypes, Literals
     DEF StopWorker, ProcessTypeOK, CounterTypeOK, history
<1>4. ASSUME NEW w \in Workers, ReclaimScan(w) PROVE TypeOK'
  <2>1. ProcessTypeOK'
    BY <1>4, <1>a, Literals DEF ReclaimScan, ProcessTypeOK
  <2>2. ScanTypeOK'
    BY <1>4, <1>a DEF ReclaimScan, ScanTypeOK, StaleJobs, TableTypeOK
  <2>3. QED
    BY <1>4, <1>a, <2>1, <2>2, UnchangedTypes DEF ReclaimScan
<1>5. ASSUME NEW w \in Workers, ReclaimFails(w) PROVE TypeOK'
  BY <1>5, <1>a, UnchangedTypes, ReleaseType, Literals
     DEF ReclaimFails, ProcessTypeOK, CounterTypeOK, history
<1>6. ASSUME NEW w \in Workers, ClaimJob(w) PROVE TypeOK'
  <2>1. PICK j \in Jobs :
           /\ status' = [status EXCEPT ![j] = "claimed"]
           /\ claimed_at' = [claimed_at EXCEPT ![j] = "fresh"]
           /\ claims' = [claims EXCEPT ![j] = @ + 1]
           /\ job' = [job EXCEPT ![w] = j]
    BY <1>6 DEF ClaimJob
  <2>2. TableTypeOK'
    BY <1>6, <1>a, <2>1, Literals DEF ClaimJob, TableTypeOK
  <2>3. ProcessTypeOK'
    BY <1>6, <1>a, <2>1, Literals, RowIds DEF ClaimJob, ProcessTypeOK
  <2>4. CounterTypeOK'
    BY <1>6, <1>a, <2>1 DEF ClaimJob, CounterTypeOK
  <2>5. QED
    BY <1>6, <1>a, <2>2, <2>3, <2>4, UnchangedTypes DEF ClaimJob
<1>7. ASSUME NEW w \in Workers, ReclaimCommit(w) PROVE TypeOK'
  <2>1. TableTypeOK'
    BY <1>7, <1>a, Literals DEF ReclaimCommit, TableTypeOK, ScanTypeOK
  <2>2. ProcessTypeOK' /\ CounterTypeOK'
    BY <1>7, <1>a, Literals DEF ReclaimCommit, ProcessTypeOK, CounterTypeOK
  <2>3. QED
    BY <1>7, <1>a, <2>1, <2>2, UnchangedTypes, ReleaseType DEF ReclaimCommit
<1>8. ASSUME NEW w \in Workers, StartJob(w) PROVE TypeOK'
  BY <1>8, <1>a, UnchangedTypes, Literals
     DEF StartJob, TableTypeOK, ProcessTypeOK
<1>9. ASSUME NEW w \in Workers, Heartbeat(w) PROVE TypeOK'
  BY <1>9, <1>a, UnchangedTypes, Literals DEF Heartbeat, TableTypeOK
<1>10. ASSUME NEW w \in Workers, OperatorReturns(w) PROVE TypeOK'
  <2>1. TableTypeOK' /\ CounterTypeOK'
    BY <1>10, <1>a, InsertRowType DEF OperatorReturns, TableTypeOK, CounterTypeOK
  <2>2. ProcessTypeOK'
    BY <1>10, <1>a, Literals DEF OperatorReturns, ProcessTypeOK
  <2>3. QED
    BY <1>10, <1>a, <2>1, <2>2, UnchangedTypes DEF OperatorReturns
<1>11. ASSUME NEW w \in Workers, OperatorPausesItself(w) PROVE TypeOK'
  BY <1>11, <1>a, UnchangedTypes, Literals
     DEF OperatorPausesItself, TableTypeOK, ProcessTypeOK
<1>12. ASSUME NEW w \in Workers, ReadOutcomeRow(w) PROVE TypeOK'
  <2>1. CASE status[job[w]] = "cancelled"
    BY <1>12, <1>a, <2>1, UnchangedTypes, ReleaseType, Literals
       DEF ReadOutcomeRow, ProcessTypeOK
  <2>2. CASE status[job[w]] # "cancelled"
    <3>1. status[job[w]] \in JobStatus
      BY <1>12, <1>a DEF ReadOutcomeRow, BusyHoldsRow, Busy, TableTypeOK
    <3>2. QED
      BY <1>12, <1>a, <2>2, <3>1, UnchangedTypes, Literals
         DEF ReadOutcomeRow, ProcessTypeOK
  <2>3. QED
    BY <2>1, <2>2
<1>13. ASSUME NEW w \in Workers, SettleJob(w) PROVE TypeOK'
  <2>1. Settlement(w) \in JobStatus
    BY Literals DEF Settlement
  <2>2. QED
    BY <1>13, <1>a, <2>1, UnchangedTypes, ReleaseType, Literals
       DEF SettleJob, TableTypeOK, ProcessTypeOK
<1>14. ASSUME NEW w \in Workers, RejectedPatch(w) PROVE TypeOK'
  BY <1>14, <1>a, UnchangedTypes, ReleaseType, Literals
     DEF RejectedPatch, Die, ProcessTypeOK
<1>15. ASSUME NEW w \in Workers, Crash(w) PROVE TypeOK'
  BY <1>15, <1>a, UnchangedTypes, ReleaseType, Literals
     DEF Crash, Die, ProcessTypeOK, CounterTypeOK, history
<1>16. ASSUME NEW j \in Jobs, Age(j) PROVE TypeOK'
  BY <1>16, <1>a, UnchangedTypes, Literals DEF Age, TableTypeOK
<1>17. ASSUME NEW op \in ApiOps, NEW j \in Jobs, RequestAccepted(op, j)
       PROVE TypeOK'
  BY <1>17, <1>a, UnchangedTypes, RowIds, QueueAssumption
     DEF RequestAccepted, RequestTypeOK, CounterTypeOK, history
<1>18. CASE RequestCommits
  <2>a. api.job \in Jobs /\ api.op \in {"cancel", "pause", "resume"}
    BY <1>18, <1>a, QueueAssumption DEF RequestCommits, RequestTypeOK
  <2>1. TableTypeOK'
    BY <1>18, <1>a, <2>a, Literals DEF RequestCommits, TableTypeOK
  <2>2. CounterTypeOK' /\ RequestTypeOK'
    BY <1>18, <1>a, <2>a DEF RequestCommits, CounterTypeOK, RequestTypeOK
  <2>3. QED
    BY <1>18, <1>a, <2>1, <2>2, UnchangedTypes DEF RequestCommits
<1>19. CASE RequestRollsBack
  BY <1>19, <1>a, UnchangedTypes, RowIds
     DEF RequestRollsBack, RequestTypeOK, NoRequest
<1>20. CASE UNCHANGED vars
  BY <1>20, <1>a, UnchangedTypes DEF vars
<1>21. QED
  BY <1>1, <1>2, <1>3, <1>4, <1>5, <1>6, <1>7, <1>8, <1>9, <1>10, <1>11,
     <1>12, <1>13, <1>14, <1>15, <1>16, <1>17, <1>18, <1>19, <1>20
     DEF Next, WorkerStep

\* Every step keeps the correspondence between a worker's phase and the row
\* it holds.
LEMMA BusyStep ==
    ASSUME TypeOK, BusyHoldsRow, [Next]_vars
    PROVE  BusyHoldsRow'
<1> USE DEF BusyHoldsRow, Busy
<1>a. /\ pc \in [Workers -> Phase]
      /\ job \in [Workers -> 0..MaxJobs]
  BY DEF TypeOK, ProcessTypeOK
<1>1. ASSUME NEW w \in Workers,
             \/ StartWorker(w) \/ StopWorker(w) \/ ReclaimScan(w)
             \/ ReclaimFails(w) \/ ReclaimCommit(w)
      PROVE  BusyHoldsRow'
  BY <1>1, <1>a DEF StartWorker, StopWorker, ReclaimScan, ReclaimFails, ReclaimCommit
<1>2. ASSUME NEW w \in Workers, ClaimJob(w) PROVE BusyHoldsRow'
  BY <1>2, <1>a DEF ClaimJob
<1>3. ASSUME NEW w \in Workers,
             \/ StartJob(w) \/ Heartbeat(w)
             \/ OperatorReturns(w) \/ OperatorPausesItself(w)
      PROVE  BusyHoldsRow'
  BY <1>3, <1>a
     DEF StartJob, Heartbeat, OperatorReturns, OperatorPausesItself, process
<1>4. ASSUME NEW w \in Workers, ReadOutcomeRow(w) PROVE BusyHoldsRow'
  BY <1>4, <1>a, RowIds DEF ReadOutcomeRow, Release
<1>5. ASSUME NEW w \in Workers, SettleJob(w) \/ RejectedPatch(w) \/ Crash(w)
      PROVE  BusyHoldsRow'
  BY <1>5, <1>a, RowIds DEF SettleJob, RejectedPatch, Crash, Die, Release
<1>6. CASE \/ CreateJob \/ \E j \in Jobs : Age(j)
           \/ \E op \in ApiOps, j \in Jobs : RequestAccepted(op, j)
           \/ RequestCommits \/ RequestRollsBack \/ UNCHANGED vars
  BY <1>6 DEF CreateJob, Age, RequestAccepted, RequestCommits, RequestRollsBack,
              vars, process
<1>7. QED
  BY <1>1, <1>2, <1>3, <1>4, <1>5, <1>6 DEF Next, WorkerStep

\* Type correctness of the queue: no worker, reclaim or control request step
\* takes a column or a process variable out of its domain.
THEOREM QueueTypeOK == Spec => [](TypeOK /\ BusyHoldsRow)
<1>1. Init => TypeOK /\ BusyHoldsRow
  <2>1. Init => TypeOK
    BY RowIds, Literals, QueueAssumption
       DEF Init, TypeOK, TableTypeOK, ProcessTypeOK, ScanTypeOK,
           RequestTypeOK, CounterTypeOK
  <2>2. Init => BusyHoldsRow
    BY RowIds DEF Init, BusyHoldsRow, Busy
  <2>3. QED
    BY <2>1, <2>2
<1>2. TypeOK /\ BusyHoldsRow /\ [Next]_vars => (TypeOK /\ BusyHoldsRow)'
  BY TypeStep, BusyStep
<1>3. QED
  BY <1>1, <1>2, PTL DEF Spec

-----------------------------------------------------------------------------
(* A settled row is final. *)

\* What Settled says of the request in progress, of each worker's scan and of
\* each worker that holds the row.
LEMMA SettledMeans ==
    ASSUME NEW j \in Jobs
    PROVE  Settled(j) <=> /\ j <= created
                          /\ status[j] \in Terminal
                          /\ api.job # j
                          /\ \A w \in Workers : j \notin stale[w]
                          /\ \A w \in Workers : job[w] = j =>
                                /\ status[j] = "cancelled"
                                /\ pc[w] \in {"executing", "finished"}
                                /\ j \notin SelfPausing
BY DEF Settled, HasWriter, Exists, Holders

\* No step changes a settled row or gives it a writer.
LEMMA SettledStep ==
    ASSUME TypeOK, [Next]_vars, NEW j \in Jobs, Settled(j)
    PROVE  Settled(j)' /\ status'[j] = status[j]
<1>a. /\ j <= created
      /\ status[j] \in Terminal
      /\ api.job # j
      /\ \A w \in Workers : j \notin stale[w]
      /\ \A w \in Workers : job[w] = j =>
            /\ status[j] = "cancelled"
            /\ pc[w] \in {"executing", "finished"}
            /\ j \notin SelfPausing
  BY SettledMeans
<1> DEFINE Keeps == /\ j <= created'
                    /\ status'[j] = status[j]
                    /\ api'.job # j
                    /\ \A w \in Workers : j \notin stale'[w]
                    /\ \A w \in Workers : job'[w] = j =>
                          /\ status[j] = "cancelled"
                          /\ pc'[w] \in {"executing", "finished"}
                          /\ j \notin SelfPausing
<1>b. Keeps => Settled(j)' /\ status'[j] = status[j]
  <2> SUFFICES ASSUME Keeps PROVE Settled(j)'
    OBVIOUS
  <2>1. ~HasWriter(j)'
    BY <1>a DEF HasWriter, Holders
  <2>2. Exists(j)' /\ status'[j] \in Terminal
    BY <1>a DEF Exists
  <2>3. QED
    BY <2>1, <2>2 DEF Settled
<1>c. /\ created \in 0..MaxJobs
      /\ status \in [Jobs -> JobStatus]
      /\ pc \in [Workers -> Phase]
      /\ job \in [Workers -> 0..MaxJobs]
      /\ stale \in [Workers -> SUBSET Jobs]
      /\ j \in Nat /\ j # 0
  BY QueueAssumption
     DEF TypeOK, TableTypeOK, ProcessTypeOK, ScanTypeOK, Jobs
<1> USE DEF table, process, scans, history
<1>1. ASSUME CreateJob PROVE Keeps
  BY <1>1, <1>a, <1>c DEF CreateJob, InsertRow
<1>2. ASSUME NEW w \in Workers, StartWorker(w) \/ StopWorker(w)
      PROVE  Keeps
  BY <1>2, <1>a, <1>c DEF StartWorker, StopWorker
<1>3. ASSUME NEW w \in Workers, ReclaimScan(w) PROVE Keeps
  <2>1. j \notin StaleJobs
    BY <1>a DEF StaleJobs, IsStale, InFlight, Terminal
  <2>2. QED
    BY <1>3, <2>1, <1>a, <1>c DEF ReclaimScan
<1>4. ASSUME NEW w \in Workers, ReclaimFails(w) PROVE Keeps
  BY <1>4, <1>a, <1>c DEF ReclaimFails, ForgetScan
<1>5. ASSUME NEW w \in Workers, ReclaimCommit(w) PROVE Keeps
  <2>1. j \notin Requeued(w) /\ j \notin Exhausted(w)
    BY <1>a DEF Requeued, Exhausted
  <2>2. QED
    BY <1>5, <2>1, <1>a, <1>c DEF ReclaimCommit, ForgetScan
<1>6. ASSUME NEW w \in Workers, ClaimJob(w) PROVE Keeps
  <2>1. PICK k \in Jobs :
           /\ k \in Pending
           /\ status' = [status EXCEPT ![k] = "claimed"]
           /\ job' = [job EXCEPT ![w] = k]
    BY <1>6 DEF ClaimJob, NextInQueue
  <2>2. k # j
    BY <2>1, <1>a DEF Pending, Terminal
  <2>3. QED
    BY <1>6, <2>1, <2>2, <1>a, <1>c DEF ClaimJob
<1>7. ASSUME NEW w \in Workers, StartJob(w) PROVE Keeps
  BY <1>7, <1>a, <1>c DEF StartJob
<1>8. ASSUME NEW w \in Workers, Heartbeat(w) PROVE Keeps
  BY <1>8, <1>a, <1>c DEF Heartbeat
<1>9. ASSUME NEW w \in Workers, OperatorReturns(w) PROVE Keeps
  BY <1>9, <1>a, <1>c DEF OperatorReturns, InsertRow
<1>10. ASSUME NEW w \in Workers, OperatorPausesItself(w) PROVE Keeps
  BY <1>10, <1>a, <1>c DEF OperatorPausesItself
<1>11. ASSUME NEW w \in Workers, ReadOutcomeRow(w) PROVE Keeps
  BY <1>11, <1>a, <1>c DEF ReadOutcomeRow, Release
<1>12. ASSUME NEW w \in Workers, SettleJob(w) PROVE Keeps
  BY <1>12, <1>a, <1>c DEF SettleJob, Release
<1>13. ASSUME NEW w \in Workers, RejectedPatch(w) \/ Crash(w) PROVE Keeps
  BY <1>13, <1>a, <1>c DEF RejectedPatch, Crash, Die, Release, ForgetScan
<1>14. ASSUME NEW k \in Jobs, Age(k) PROVE Keeps
  BY <1>14, <1>a, <1>c DEF Age
<1>15. ASSUME NEW op \in ApiOps, NEW k \in Jobs, RequestAccepted(op, k)
       PROVE  Keeps
  <2>1. k # j
    BY <1>15, <1>a, QueueAssumption DEF RequestAccepted, AllowedFrom, Terminal
  <2>2. QED
    BY <1>15, <2>1, <1>a, <1>c DEF RequestAccepted
<1>16. ASSUME RequestCommits \/ RequestRollsBack PROVE Keeps
  BY <1>16, <1>a, <1>c DEF RequestCommits, RequestRollsBack, NoRequest
<1>17. ASSUME UNCHANGED vars PROVE Keeps
  BY <1>17, <1>a, <1>c DEF vars
<1>18. QED
  BY <1>1, <1>2, <1>3, <1>4, <1>5, <1>6, <1>7, <1>8, <1>9, <1>10, <1>11,
     <1>12, <1>13, <1>14, <1>15, <1>16, <1>17, <1>b DEF Next, WorkerStep

\* Once a row is completed, failed or cancelled and no transaction that read
\* it earlier is still to write, it never changes again.
THEOREM QueueSettledIsFinal == Spec => SettledIsFinal
<1>1. TypeOK /\ [Next]_vars =>
        [\A j \in Jobs : Settled(j) => Settled(j)' /\ status'[j] = status[j]]_vars
  BY SettledStep
<1>2. Spec => []TypeOK
  BY QueueTypeOK, PTL
<1>3. QED
  BY <1>1, <1>2, PTL DEF Spec, SettledIsFinal

-----------------------------------------------------------------------------
(* Every execution is paid for. *)

\* No worker, scan or request refers to a row that was never created, and
\* such a row is as its future insertion will find it.
WithinTable ==
    /\ \A j \in Jobs : j > created => status[j] = "pending" /\ claims[j] = 0
    /\ \A w \in Workers : job[w] <= created /\ \A j \in stale[w] : j <= created
    /\ api.job <= created

\* ClaimsPaidFor strengthened: a row that is waiting has an entry into the
\* queue that no claim has used yet.
WaitingIsUnused ==
    \A j \in Jobs : j <= created /\ status[j] = "pending" => claims[j] < opened[j]

PaidInv == WithinTable /\ WaitingIsUnused /\ ClaimsPaidFor

\* A step whose writes to a row that exists keep it out of the queue, or enter
\* it there and count the entry, and that makes no claim, keeps the balance.
LEMMA NoClaimKeepsBalance ==
    ASSUME TypeOK, PaidInv, TypeOK', created' = created, claims' = claims,
           \A j \in Jobs : opened'[j] >= opened[j],
           \A j \in Jobs : status'[j] = "pending" /\ status[j] # "pending"
                               => opened'[j] > opened[j]
    PROVE  WaitingIsUnused' /\ ClaimsPaidFor'
BY DEF TypeOK, CounterTypeOK, PaidInv, WaitingIsUnused, ClaimsPaidFor

\* Inserting a row keeps the balance and opens the new row once.
LEMMA InsertRowKeepsBalance ==
    ASSUME TypeOK, PaidInv, InsertRow, claims' = claims, status' = status
    PROVE  WaitingIsUnused' /\ ClaimsPaidFor'
<1>1. created + 1 \in Jobs
  BY QueueAssumption DEF TypeOK, TableTypeOK, InsertRow, Jobs
<1>2. claims[created + 1] = 0
  BY <1>1, QueueAssumption
     DEF PaidInv, WithinTable, TypeOK, TableTypeOK, Jobs
<1>3. \A j \in Jobs : j # created + 1 => opened'[j] = opened[j]
  BY DEF InsertRow, TypeOK, CounterTypeOK
<1>4. opened'[created + 1] > 0
  BY <1>1 DEF InsertRow, TypeOK, CounterTypeOK
<1>5. created \in Int /\ \A j \in Jobs : j \in Int
  BY QueueAssumption DEF TypeOK, TableTypeOK, Jobs
<1>6. QED
  BY <1>1, <1>2, <1>3, <1>4, <1>5
     DEF PaidInv, WaitingIsUnused, ClaimsPaidFor, InsertRow, TypeOK, CounterTypeOK

\* Every step keeps the balance of entries and claims.
LEMMA PaidStep ==
    ASSUME TypeOK, BusyHoldsRow, TypeOK', PaidInv, [Next]_vars
    PROVE  PaidInv'
<1> USE DEF table, process, scans, history
<1>a. /\ created \in 0..MaxJobs
      /\ status \in [Jobs -> JobStatus]
      /\ pc \in [Workers -> Phase]
      /\ job \in [Workers -> 0..MaxJobs]
      /\ stale \in [Workers -> SUBSET Jobs]
      /\ opened \in [Jobs -> Nat]
      /\ claims \in [Jobs -> Nat]
  BY DEF TypeOK, TableTypeOK, ProcessTypeOK, ScanTypeOK, CounterTypeOK
<1>c. /\ MaxJobs \in Nat
      /\ created \in Nat
      /\ \A j \in Jobs : j \in Nat
      /\ \A w \in Workers : job[w] \in Nat
      /\ \A w \in Workers : \A j \in stale[w] : j \in Jobs
  BY <1>a, QueueAssumption DEF Jobs
<1>d. api.job \in Nat
  BY <1>c DEF TypeOK, RequestTypeOK, NoRequest
<1>b. WithinTable /\ WaitingIsUnused /\ ClaimsPaidFor
  BY DEF PaidInv
<1>1. ASSUME CreateJob PROVE PaidInv'
  <2>1. WithinTable'
    BY <1>1, <1>b, <1>c, <1>d DEF CreateJob, InsertRow, WithinTable
  <2>2. QED
    BY <1>1, <2>1, InsertRowKeepsBalance DEF CreateJob, PaidInv
<1>2. ASSUME NEW w \in Workers,
             \/ StartWorker(w) \/ StopWorker(w) \/ Heartbeat(w)
      PROVE  PaidInv'
  BY <1>2, <1>a, <1>b
     DEF StartWorker, StopWorker, Heartbeat, PaidInv, WithinTable,
         WaitingIsUnused, ClaimsPaidFor
<1>3. ASSUME NEW w \in Workers, ReclaimScan(w) PROVE PaidInv'
  <2>1. \A j \in StaleJobs : j <= created
    BY DEF StaleJobs, IsStale, Exists
  <2>2. WithinTable'
    BY <1>3, <1>a, <1>b, <2>1 DEF ReclaimScan, WithinTable
  <2>3. WaitingIsUnused' /\ ClaimsPaidFor'
    BY <1>3, <1>a, <1>b DEF ReclaimScan, WaitingIsUnused, ClaimsPaidFor
  <2>4. QED
    BY <2>2, <2>3 DEF PaidInv
<1>4. ASSUME NEW w \in Workers, ReclaimFails(w) PROVE PaidInv'
  BY <1>4, <1>a, <1>b
     DEF ReclaimFails, ForgetScan, PaidInv, WithinTable, WaitingIsUnused,
         ClaimsPaidFor
<1>5. ASSUME NEW w \in Workers, ReclaimCommit(w) PROVE PaidInv'
  <2>1. \A j \in Jobs : j > created => j \notin Requeued(w) /\ j \notin Exhausted(w)
    BY <1>b, <1>c DEF Requeued, Exhausted, WithinTable
  <2>2. WithinTable'
    <3>1. \A j \in Jobs : j > created => status'[j] = "pending" /\ claims'[j] = 0
      BY <1>5, <1>b, <2>1 DEF ReclaimCommit, WithinTable
    <3>2. \A v \in Workers : \A j \in stale'[v] : j <= created
      BY <1>5, <1>a, <1>b DEF ReclaimCommit, ForgetScan, WithinTable
    <3>3. QED
      BY <1>5, <1>b, <3>1, <3>2 DEF ReclaimCommit, WithinTable
  <2>3. \A j \in Jobs :
          /\ opened'[j] >= opened[j]
          /\ status'[j] = "pending" /\ status[j] # "pending"
                => opened'[j] > opened[j]
    <3> TAKE j \in Jobs
    <3>1. CASE j \in Requeued(w) /\ status[j] # "pending"
      BY <1>5, <1>a, <3>1 DEF ReclaimCommit
    <3>2. CASE j \in Requeued(w) /\ status[j] = "pending"
      BY <1>5, <1>a, <3>2 DEF ReclaimCommit
    <3>3. CASE j \notin Requeued(w)
      BY <1>5, <1>a, <3>3 DEF ReclaimCommit
    <3>4. QED
      BY <3>1, <3>2, <3>3
  <2>4. QED
    BY <1>5, <2>2, <2>3, NoClaimKeepsBalance DEF ReclaimCommit, PaidInv
<1>6. ASSUME NEW w \in Workers, ClaimJob(w) PROVE PaidInv'
  <2>1. PICK k \in Jobs :
           /\ k <= created /\ status[k] = "pending"
           /\ status' = [status EXCEPT ![k] = "claimed"]
           /\ claims' = [claims EXCEPT ![k] = @ + 1]
           /\ job' = [job EXCEPT ![w] = k]
    BY <1>6 DEF ClaimJob, NextInQueue, Pending, Exists
  <2>2. claims[k] < opened[k]
    BY <2>1, <1>b DEF WaitingIsUnused
  <2>3. WithinTable'
    <3>1. \A j \in Jobs : j > created => j # k
      BY <2>1, <1>c
    <3>2. \A j \in Jobs : j > created => status'[j] = "pending" /\ claims'[j] = 0
      BY <1>a, <1>b, <2>1, <3>1 DEF WithinTable
    <3>3. \A v \in Workers : job'[v] <= created
      BY <1>a, <1>b, <2>1 DEF WithinTable
    <3>4. QED
      BY <1>6, <1>b, <3>2, <3>3 DEF ClaimJob, WithinTable
  <2>4. WaitingIsUnused' /\ ClaimsPaidFor'
    BY <1>6, <1>a, <1>b, <2>1, <2>2
       DEF ClaimJob, WaitingIsUnused, ClaimsPaidFor
  <2>5. QED
    BY <2>3, <2>4 DEF PaidInv
<1>7. ASSUME NEW w \in Workers, StartJob(w) \/ OperatorPausesItself(w)
      PROVE  PaidInv'
  <2>1. \A j \in Jobs : j > created => j # job[w]
    BY <1>b, <1>c DEF WithinTable
  <2>2. WithinTable'
    BY <1>7, <1>a, <1>b, <2>1 DEF StartJob, OperatorPausesItself, WithinTable
  <2>3. WaitingIsUnused' /\ ClaimsPaidFor'
    BY <1>7, <1>a, <1>b
       DEF StartJob, OperatorPausesItself, WaitingIsUnused, ClaimsPaidFor
  <2>4. QED
    BY <2>2, <2>3 DEF PaidInv
<1>8. ASSUME NEW w \in Workers, OperatorReturns(w) PROVE PaidInv'
  <2>1. CASE InsertRow
    <3>1. WithinTable'
      BY <1>8, <1>b, <1>c, <1>d, <2>1 DEF OperatorReturns, InsertRow, WithinTable
    <3>2. QED
      BY <1>8, <2>1, <3>1, InsertRowKeepsBalance DEF OperatorReturns, PaidInv
  <2>2. CASE UNCHANGED <<created, opened>>
    BY <1>8, <2>2, <1>a, <1>b
       DEF OperatorReturns, PaidInv, WithinTable, WaitingIsUnused, ClaimsPaidFor
  <2>3. QED
    BY <1>8, <2>1, <2>2 DEF OperatorReturns
<1>9. ASSUME NEW w \in Workers,
             ReadOutcomeRow(w) \/ RejectedPatch(w) \/ Crash(w)
      PROVE  PaidInv'
  <2>1. WithinTable'
    BY <1>9, <1>a, <1>b, <1>c
       DEF ReadOutcomeRow, RejectedPatch, Crash, Die, Release, ForgetScan,
           WithinTable
  <2>2. WaitingIsUnused' /\ ClaimsPaidFor'
    BY <1>9, <1>a, <1>b
       DEF ReadOutcomeRow, RejectedPatch, Crash, Die, WaitingIsUnused,
           ClaimsPaidFor
  <2>3. QED
    BY <2>1, <2>2 DEF PaidInv
<1>10. ASSUME NEW w \in Workers, SettleJob(w) PROVE PaidInv'
  <2>1. job[w] <= created /\ Settlement(w) # "pending"
    BY <1>b DEF WithinTable, Settlement
  <2>2. WithinTable'
    BY <1>10, <1>a, <1>b, <2>1 DEF SettleJob, Release, WithinTable
  <2>3. WaitingIsUnused' /\ ClaimsPaidFor'
    BY <1>10, <1>a, <1>b, <2>1 DEF SettleJob, WaitingIsUnused, ClaimsPaidFor
  <2>4. QED
    BY <2>2, <2>3 DEF PaidInv
<1>11. ASSUME NEW j \in Jobs, Age(j) PROVE PaidInv'
  BY <1>11, <1>a, <1>b
     DEF Age, PaidInv, WithinTable, WaitingIsUnused, ClaimsPaidFor
<1>12. ASSUME NEW op \in ApiOps, NEW j \in Jobs, RequestAccepted(op, j)
       PROVE  PaidInv'
  BY <1>12, <1>a, <1>b
     DEF RequestAccepted, Exists, PaidInv, WithinTable, WaitingIsUnused,
         ClaimsPaidFor
<1>13. ASSUME RequestCommits PROVE PaidInv'
  <2>1. api.job \in Jobs /\ api.op \in {"cancel", "pause", "resume"}
    BY <1>13, QueueAssumption DEF RequestCommits, TypeOK, RequestTypeOK
  <2>2. api.job <= created
    BY <1>b DEF WithinTable
  <2>3. WithinTable'
    <3>1. \A j \in Jobs : j > created => j # api.job
      BY <2>1, <2>2, <1>c
    <3>2. \A j \in Jobs : j > created => status'[j] = "pending" /\ claims'[j] = 0
      BY <1>13, <1>a, <1>b, <3>1 DEF RequestCommits, WithinTable
    <3>3. api'.job <= created
      BY <1>13, <1>c DEF RequestCommits, NoRequest
    <3>4. QED
      BY <1>13, <1>b, <3>2, <3>3 DEF RequestCommits, WithinTable
  <2>4. \A j \in Jobs :
          /\ opened'[j] >= opened[j]
          /\ status'[j] = "pending" /\ status[j] # "pending"
                => opened'[j] > opened[j]
    BY <1>13, <1>a, <2>1 DEF RequestCommits
  <2>5. QED
    BY <1>13, <2>3, <2>4, NoClaimKeepsBalance DEF RequestCommits, PaidInv
<1>14. ASSUME RequestRollsBack PROVE PaidInv'
  BY <1>14, <1>a, <1>b
     DEF RequestRollsBack, NoRequest, PaidInv, WithinTable, WaitingIsUnused,
         ClaimsPaidFor
<1>15. ASSUME UNCHANGED vars PROVE PaidInv'
  BY <1>15, <1>b DEF vars, PaidInv, WithinTable, WaitingIsUnused, ClaimsPaidFor
<1>16. QED
  BY <1>1, <1>2, <1>3, <1>4, <1>5, <1>6, <1>7, <1>8, <1>9, <1>10, <1>11,
     <1>12, <1>13, <1>14, <1>15 DEF Next, WorkerStep

\* A row is claimed at most once for each time it entered the queue, for any
\* number of workers claiming, stalling, crashing and reclaiming at once.
THEOREM QueueClaimsPaidFor == Spec => []ClaimsPaidFor
<1>1. Init => PaidInv
  BY QueueAssumption
     DEF Init, NoRequest, Jobs, PaidInv, WithinTable, WaitingIsUnused, ClaimsPaidFor
<1>2. TypeOK /\ BusyHoldsRow /\ TypeOK' /\ PaidInv /\ [Next]_vars => PaidInv'
  BY PaidStep
<1>3. PaidInv => ClaimsPaidFor
  BY DEF PaidInv
<1>4. QED
  BY <1>1, <1>2, <1>3, QueueTypeOK, PTL DEF Spec

-----------------------------------------------------------------------------
(* A job that keeps killing its worker is force-failed. *)

\* The deployment the documented limit is about: one worker process.
OneWorker == \A v, w \in Workers : v = w

\* What the one worker's scan read of a row is still what the row holds.
ScanIsCurrent ==
    \A w \in Workers : \A j \in stale[w] : stale_count[w][j] = reclaim_count[j]

\* An entry of row j into the queue that an accepted request may still make.
Owed(j) == IF api.job = j THEN 1 ELSE 0

\* Every entry into the queue is the creation's, a counted reclaim's or an
\* accepted request's.
EntriesCounted ==
    \A j \in Jobs :
        /\ reclaim_count[j] <= MaxReclaims
        /\ j > created => opened[j] = 0
        /\ opened[j] + Owed(j) <= 1 + reclaim_count[j] + requests

CountedInv == ScanIsCurrent /\ EntriesCounted

\* A step that leaves the counters of the rows and of the requests alone keeps
\* the account, if every scan is kept or forgotten and no request is added.
LEMMA IdleKeepsAccount ==
    ASSUME TypeOK, CountedInv, UNCHANGED <<created, reclaim_count, opened, requests>>,
           \A w \in Workers : \/ stale'[w] = {}
                              \/ stale'[w] = stale[w] /\ stale_count'[w] = stale_count[w],
           api' \in {api, NoRequest}
    PROVE  CountedInv'
<1>1. opened \in [Jobs -> Nat] /\ reclaim_count \in [Jobs -> Nat] /\ requests \in Nat
  BY DEF TypeOK, TableTypeOK, CounterTypeOK
<1>2. ScanIsCurrent'
  BY DEF CountedInv, ScanIsCurrent
<1>3. \A j \in Jobs : Owed(j) \in {0, 1} /\ Owed(j)' \in {0, 1} /\ Owed(j)' <= Owed(j)
  BY RowIds DEF Owed, NoRequest
<1>4. EntriesCounted'
  BY <1>1, <1>3 DEF CountedInv, EntriesCounted
<1>5. QED
  BY <1>2, <1>4 DEF CountedInv

\* Inserting a row opens it for the first time.
LEMMA InsertRowKeepsAccount ==
    ASSUME TypeOK, CountedInv, WithinTable, InsertRow, UNCHANGED <<reclaim_count, requests, scans, api>>
    PROVE  CountedInv'
<1>1. /\ opened \in [Jobs -> Nat] /\ reclaim_count \in [Jobs -> Nat] /\ requests \in Nat
      /\ created \in Nat /\ created + 1 \in Jobs /\ MaxJobs \in Nat
  BY QueueAssumption DEF TypeOK, TableTypeOK, CounterTypeOK, InsertRow, Jobs
<1>2. api.job \in Nat
  BY QueueAssumption DEF TypeOK, RequestTypeOK, NoRequest, Jobs
<1>3. api.job # created + 1
  BY <1>1, <1>2 DEF WithinTable
<1>4. opened' = [opened EXCEPT ![created + 1] = opened[created + 1] + 1] /\ opened[created + 1] = 0
  BY <1>1 DEF InsertRow, CountedInv, EntriesCounted
<1>5. ScanIsCurrent'
  BY DEF CountedInv, ScanIsCurrent, scans
<1>6. EntriesCounted'
  <2> SUFFICES ASSUME NEW j \in Jobs
               PROVE  /\ reclaim_count[j] <= MaxReclaims
                      /\ j > created + 1 => opened'[j] = 0
                      /\ opened'[j] + Owed(j) <= 1 + reclaim_count[j] + requests
    BY DEF EntriesCounted, Owed, InsertRow
  <2>1. /\ reclaim_count[j] <= MaxReclaims /\ j \in Nat
        /\ j > created => opened[j] = 0
        /\ opened[j] + Owed(j) <= 1 + reclaim_count[j] + requests
    BY QueueAssumption DEF CountedInv, EntriesCounted, Jobs
  <2>2. CASE j = created + 1
    <3>1. opened'[j] = 1 /\ Owed(j) = 0 /\ reclaim_count[j] \in Nat
      BY <1>1, <1>3, <1>4, <2>2 DEF Owed
    <3>2. QED
      BY <1>1, <2>1, <2>2, <3>1
  <2>3. CASE j # created + 1
    <3>1. opened'[j] = opened[j]
      BY <1>1, <1>4, <2>3
    <3>2. QED
      BY <1>1, <2>1, <2>3, <3>1
  <2>4. QED
    BY <2>2, <2>3
<1>7. QED
  BY <1>5, <1>6 DEF CountedInv

\* Every step of a queue with one worker keeps the account of entries.
LEMMA CountedStep ==
    ASSUME OneWorker, TypeOK, BusyHoldsRow, WithinTable, CountedInv, [Next]_vars
    PROVE  CountedInv'
<1> USE DEF table, process, scans, history
<1>a. /\ stale \in [Workers -> SUBSET Jobs]
      /\ stale_count \in [Workers -> [Jobs -> Nat]]
      /\ opened \in [Jobs -> Nat] /\ reclaim_count \in [Jobs -> Nat]
      /\ requests \in Nat /\ MaxReclaims \in Nat
  BY QueueAssumption DEF TypeOK, TableTypeOK, ScanTypeOK, CounterTypeOK
<1>b. \A j \in Jobs : /\ reclaim_count[j] <= MaxReclaims /\ Owed(j) \in {0, 1}
                      /\ j > created => opened[j] = 0
                      /\ opened[j] + Owed(j) <= 1 + reclaim_count[j] + requests
  BY DEF CountedInv, EntriesCounted, Owed
<1>1. ASSUME CreateJob PROVE CountedInv'
  BY <1>1, InsertRowKeepsAccount DEF CreateJob
<1>2. ASSUME NEW w \in Workers, OperatorReturns(w) PROVE CountedInv'
  <2>1. CASE InsertRow
    BY <1>2, <2>1, InsertRowKeepsAccount DEF OperatorReturns
  <2>2. CASE UNCHANGED <<created, opened>>
    BY <1>2, <2>2, IdleKeepsAccount DEF OperatorReturns
  <2>3. QED
    BY <1>2, <2>1, <2>2 DEF OperatorReturns
<1>3. ASSUME NEW w \in Workers,
             \/ StartWorker(w) \/ StopWorker(w) \/ Heartbeat(w) \/ ClaimJob(w) \/ StartJob(w)
             \/ OperatorPausesItself(w) \/ ReadOutcomeRow(w) \/ SettleJob(w)
      PROVE  CountedInv'
  <2>1. UNCHANGED <<created, reclaim_count, opened, requests, stale, stale_count, api>>
    BY <1>3 DEF StartWorker, StopWorker, Heartbeat, ClaimJob, StartJob, OperatorPausesItself,
                ReadOutcomeRow, SettleJob
  <2>2. QED
    BY <2>1, IdleKeepsAccount
<1>4. ASSUME NEW w \in Workers, ReclaimFails(w) \/ RejectedPatch(w) \/ Crash(w)
      PROVE  CountedInv'
  <2>1. UNCHANGED <<created, reclaim_count, opened, requests, api>> /\ ForgetScan(w)
    BY <1>4 DEF ReclaimFails, RejectedPatch, Crash, Die
  <2>2. \A v \in Workers : \/ stale'[v] = {}
                           \/ stale'[v] = stale[v] /\ stale_count'[v] = stale_count[v]
    BY <1>a, <2>1 DEF ForgetScan
  <2>3. QED
    BY <2>1, <2>2, IdleKeepsAccount
<1>5. ASSUME NEW w \in Workers, ReclaimScan(w) PROVE CountedInv'
  <2>1. ScanIsCurrent'
    <3>1. \A v \in Workers : v = w
      BY DEF OneWorker
    <3>2. /\ stale'[w] = StaleJobs /\ \A j \in StaleJobs : stale_count'[w][j] = reclaim_count[j]
          /\ reclaim_count' = reclaim_count
      BY <1>5, <1>a DEF ReclaimScan, StaleJobs
    <3>3. QED
      BY <3>1, <3>2 DEF ScanIsCurrent
  <2>2. EntriesCounted'
    BY <1>5 DEF ReclaimScan, CountedInv, EntriesCounted, Owed
  <2>3. QED
    BY <2>1, <2>2 DEF CountedInv
<1>6. ASSUME NEW w \in Workers, ReclaimCommit(w) PROVE CountedInv'
  <2>1. ScanIsCurrent'
    <3>1. \A v \in Workers : stale'[v] = {}
      BY <1>6, <1>a DEF ReclaimCommit, ForgetScan, OneWorker
    <3>2. QED
      BY <3>1 DEF ScanIsCurrent
  <2>2. EntriesCounted'
    <3> SUFFICES ASSUME NEW j \in Jobs
                 PROVE  /\ reclaim_count'[j] <= MaxReclaims
                        /\ j > created => opened'[j] = 0
                        /\ opened'[j] + Owed(j) <= 1 + reclaim_count'[j] + requests
      BY <1>6 DEF ReclaimCommit, EntriesCounted, Owed
    <3>1. CASE j \in Requeued(w)
      <4>1. /\ stale_count[w][j] = reclaim_count[j] /\ reclaim_count[j] + 1 <= MaxReclaims
            /\ j <= created
        BY <3>1 DEF Requeued, CountedInv, ScanIsCurrent, WithinTable
      <4>2. /\ reclaim_count'[j] = reclaim_count[j] + 1
            /\ opened'[j] \in {opened[j], opened[j] + 1}
        BY <1>6, <3>1, <4>1 DEF ReclaimCommit
      <4>3. j \in Nat /\ created \in Nat
        BY QueueAssumption DEF Jobs, TypeOK, TableTypeOK
      <4>4. QED
        BY <1>a, <1>b, <4>1, <4>2, <4>3
    <3>2. CASE j \notin Requeued(w)
      BY <1>6, <1>b, <3>2 DEF ReclaimCommit
    <3>3. QED
      BY <3>1, <3>2
  <2>3. QED
    BY <2>1, <2>2 DEF CountedInv
<1>7. ASSUME NEW j \in Jobs, Age(j) PROVE CountedInv'
  BY <1>7, IdleKeepsAccount DEF Age
<1>8. ASSUME NEW op \in ApiOps, NEW j \in Jobs, RequestAccepted(op, j) PROVE CountedInv'
  <2>1. requests' = requests + 1 /\ UNCHANGED <<table, scans, opened>> /\ api = NoRequest
    BY <1>8 DEF RequestAccepted
  <2>2. \A k \in Jobs : Owed(k) = 0 /\ Owed(k)' \in {0, 1}
    BY <2>1, RowIds DEF Owed, NoRequest
  <2>3. EntriesCounted'
    BY <1>a, <1>b, <2>1, <2>2 DEF EntriesCounted
  <2>4. QED
    BY <2>1, <2>3 DEF CountedInv, ScanIsCurrent
<1>9. ASSUME RequestCommits PROVE CountedInv'
  <2>1. api.job \in Jobs /\ api.job <= created
    BY <1>9 DEF RequestCommits, TypeOK, RequestTypeOK, WithinTable
  <2>2. \A j \in Jobs : /\ j # api.job => opened'[j] = opened[j]
                        /\ opened'[j] \in {opened[j], opened[j] + 1}
    BY <1>9, <1>a, <2>1 DEF RequestCommits
  <2>3. \A j \in Jobs : Owed(j)' = 0
    BY <1>9, RowIds DEF RequestCommits, Owed, NoRequest
  <2>4. created \in Nat /\ \A j \in Jobs : j \in Nat
    BY QueueAssumption DEF Jobs, TypeOK, TableTypeOK
  <2>5. EntriesCounted'
    <3> SUFFICES ASSUME NEW j \in Jobs
                 PROVE  /\ j > created => opened'[j] = 0
                        /\ opened'[j] <= 1 + reclaim_count[j] + requests
      BY <1>9, <1>a, <1>b, <2>2, <2>3 DEF RequestCommits, EntriesCounted
    <3>1. CASE j = api.job
      <4>1. Owed(j) = 1
        BY <3>1 DEF Owed
      <4>2. QED
        BY <1>a, <1>b, <2>1, <2>2, <2>4, <3>1, <4>1
    <3>2. CASE j # api.job
      <4>1. Owed(j) = 0
        BY <3>2 DEF Owed
      <4>2. QED
        BY <1>a, <1>b, <2>2, <3>2, <4>1
    <3>3. QED
      BY <3>1, <3>2
  <2>6. QED
    BY <1>9, <2>5 DEF RequestCommits, CountedInv, ScanIsCurrent
<1>10. ASSUME RequestRollsBack PROVE CountedInv'
  BY <1>10, IdleKeepsAccount DEF RequestRollsBack
<1>11. ASSUME UNCHANGED vars PROVE CountedInv'
  BY <1>11, IdleKeepsAccount DEF vars
<1>12. QED
  BY <1>1, <1>2, <1>3, <1>4, <1>5, <1>6, <1>7, <1>8, <1>9, <1>10, <1>11 DEF Next, WorkerStep

\* With one worker process, a job that kills every worker that runs it is
\* executed at most 1 + job_max_reclaims times, and once more for each accepted
\* control request, for any table, any stalls and any number of crashes.
THEOREM QueueReclaimsBeforeForceFail ==
    ASSUME OneWorker
    PROVE  Spec => []ReclaimsBeforeForceFail
<1>1. Init => PaidInv /\ CountedInv
  <2>1. Init => PaidInv
    BY QueueAssumption
       DEF Init, NoRequest, Jobs, PaidInv, WithinTable, WaitingIsUnused, ClaimsPaidFor
  <2>2. Init => CountedInv
    BY QueueAssumption
       DEF Init, NoRequest, Jobs, CountedInv, ScanIsCurrent, EntriesCounted, Owed
  <2>3. QED
    BY <2>1, <2>2
<1>2. TypeOK /\ BusyHoldsRow /\ TypeOK' /\ PaidInv /\ [Next]_vars => PaidInv'
  BY PaidStep
<1>3. TypeOK /\ BusyHoldsRow /\ PaidInv /\ CountedInv /\ [Next]_vars => CountedInv'
  BY CountedStep DEF PaidInv
<1>4. TypeOK /\ PaidInv /\ CountedInv => ReclaimsBeforeForceFail
  <2> SUFFICES ASSUME TypeOK, PaidInv, CountedInv, NEW j \in Jobs
               PROVE  claims[j] <= 1 + MaxReclaims + requests
    BY DEF ReclaimsBeforeForceFail
  <2>1. /\ opened[j] \in Nat /\ claims[j] \in Nat /\ reclaim_count[j] \in Nat
        /\ requests \in Nat /\ MaxReclaims \in Nat /\ Owed(j) \in {0, 1}
    BY QueueAssumption DEF TypeOK, TableTypeOK, CounterTypeOK, Owed
  <2>2. /\ claims[j] <= opened[j] /\ reclaim_count[j] <= MaxReclaims
        /\ opened[j] + Owed(j) <= 1 + reclaim_count[j] + requests
    BY DEF PaidInv, ClaimsPaidFor, CountedInv, EntriesCounted
  <2>3. QED
    BY <2>1, <2>2
<1>5. QED
  BY <1>1, <1>2, <1>3, <1>4, QueueTypeOK, PTL DEF Spec

=============================================================================
