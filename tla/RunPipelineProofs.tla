------------------------- MODULE RunPipelineProofs -------------------------
(***************************************************************************)
(* Theorems about RunPipeline, for every number of workers, specs,         *)
(* requests, reclaims, attempts and faults.  They rest on Inv, the         *)
(* conjunction of the types, of who holds which job (Held), and of one     *)
(* invariant for each question:                                            *)
(*   OneStrand   the execution of a run that was not put back into the     *)
(*               queue is one strand of jobs: at most one of them waits or *)
(*               is worked on;                                             *)
(*   Recounted   the frontier, and what each classification under way has  *)
(*               read of it, counts every run classified apart, and what   *)
(*               may be counted once too often is paid for by faults;      *)
(*   InTurn      with one worker and one experiment, the strand of jobs    *)
(*               and the cycle's status move together.                     *)
(***************************************************************************)
EXTENDS RunPipeline, FiniteSetTheorems, SequenceTheorems, TLAPS

Ends == {"exit0", "exit1", "raised", "paused", "cancelled"}

\* What a worker is in the middle of, for the job it holds.
HeldBy(w) ==
    /\ pc[w] = "idle" <=> job[w] = 0
    /\ job[w] # 0 => w \in scenario.crew /\ jobs[job[w]].status # "pending"
    /\ pc[w] = "building" => jobs[job[w]].op = "execution_setup"
    /\ pc[w] \in {"container", "stopped"} => jobs[job[w]].op = "execution_run"
    /\ pc[w] = "stopped" => result[w] \in Ends
    /\ pc[w] = "classifying" => jobs[job[w]].op = "signal_classify"
    /\ patch[w] # "none" => /\ pc[w] = "finished"
                            /\ result[w] = "success"
                            /\ jobs[job[w]].op # "signal_classify"

\* A job has one holder.
OneHolder == \A v, w \in Workers : job[v] = job[w] /\ job[v] # 0 => v = w

Held == (\A w \in Workers : HeldBy(w)) /\ OneHolder

\* The job waits in the queue, or a worker has yet to do its work.
Token(j) ==
    \/ jobs[j].status = "pending"
    \/ \E w \in Workers : job[w] = j /\ pc[w] # "finished"

ExecutionOf(j, r) == jobs[j].run = r /\ jobs[j].op \in ExecutionOps

OneStrand ==
    \A r \in RunIds : ~Revived(r) =>
        /\ \A j, k \in JobIds :
              ExecutionOf(j, r) /\ ExecutionOf(k, r) /\ Token(j) /\ Token(k) => j = k
        /\ \A j \in JobIds :
              ExecutionOf(j, r) /\ jobs[j].status = "pending"
                  => runs[r].status # "cancelled"

\* The job may still be executed (again).
Live(j) ==
    /\ \/ jobs[j].status \in {"pending", "claimed", "running"}
       \/ \E w \in Workers : job[w] = j
    /\ \A w \in Workers : job[w] = j => pc[w] # "finished"

SignalJob(j) == jobs[j].op = "signal_classify"

\* A worker is between the read of the frontier and the commit.
Classifying == {w \in Workers : pc[w] = "classifying"}
UnderWay(j) == \E w \in Classifying : job[w] = j

\* The classification of a run that is counted already, about to be executed.
Again == {j \in JobIds : /\ SignalJob(j) /\ Live(j)
                         /\ runs[jobs[j].run].signal
                         /\ runs[jobs[j].run].reports <= 1 \/ UnderWay(j)}

Classified == {r \in RunIds : runs[r].signal}
Apart      == {r \in RunIds : runs[r].signal /\ ~runs[r].overlapped}

\* Who is to be classified was verified, once for each of its jobs.
Reported ==
    /\ \A j \in JobIds : SignalJob(j) => runs[jobs[j].run].reports >= 1
    /\ \A r \in RunIds : runs[r].signal => runs[r].reports >= 1
    /\ \A j, k \in JobIds :
          SignalJob(j) /\ SignalJob(k) /\ jobs[j].run = jobs[k].run /\ j # k
              => runs[jobs[j].run].reports >= 2

\* A run is classified by one worker at a time.
OneClassifier ==
    \A v, w \in Classifying : RunOf(v) = RunOf(w) => v = w

\* The frontier's total, and what the workers have read of it.
Totals == {frontier} \cup {seen[w] : w \in Classifying}

Recounted ==
    /\ Reported
    /\ OneClassifier
    /\ \A n \in Totals :
          /\ n >= Cardinality(Apart)
          /\ n + Cardinality(Again) <= Cardinality(Classified) + faults

\* The status the cycle has once the worker's outcome is settled.
Ahead(s) ==
    IF \E w \in Workers : patch[w] # "none"
    THEN \A w \in Workers : patch[w] # "none" => patch[w] = s
    ELSE cycle = s

\* Nothing was started yet, but perhaps asked for.
NotStarted ==
    /\ runs = <<>> /\ jobs = <<>> /\ cycle = "protocol_ready"
    /\ \A q \in api : q.op = "start" /\ "protocol_ready" \in q.saw
    /\ \A p, q \in api : p = q
    /\ requests = 0 => api = {}

Started ==
    /\ requests = 1
    /\ api = {}
    /\ \A j, k \in JobIds : Token(j) /\ Token(k) => j = k
    /\ \A j \in JobIds :
          /\ jobs[j].status \notin {"paused", "cancelled"}
          /\ jobs[j].status \in {"claimed", "running"}
                => \E w \in Workers : job[w] = j
          /\ Token(j) =>
                /\ jobs[j].op \in ExecutionOps => Ahead("running")
                /\ jobs[j].op \notin ExecutionOps => Ahead("verifying")
                /\ jobs[j].op \in ExecutionOps \cup {"verification_check"}
                      => runs[jobs[j].run].reports = 0
    /\ \A r \in RunIds : runs[r].reports <= 1
    /\ \A w \in Workers : PatchAllowed(w)

InTurn == Undisturbed => NotStarted \/ Started

Inv == TypeOK /\ Held /\ OneStrand /\ Recounted /\ InTurn

-----------------------------------------------------------------------------
(* What the actions do to the rows, pointwise. *)

\* Only run r's row changes, and new runs are pending; a parent is not changed,
\* a report and a signal are not taken back.
Touched(r) ==
    /\ runs' \in Seq(RunType) /\ Len(runs') >= Len(runs)
    /\ \A k \in RunIds : k # r => runs'[k] = runs[k]
    /\ r \in RunIds => /\ runs'[r].parent = runs[r].parent
                       /\ runs'[r].reports >= runs[r].reports
                       /\ runs[r].signal => runs'[r].signal
                       /\ runs[r].overlapped => runs'[r].overlapped
    /\ \A k \in RunIds' : k \notin RunIds => /\ runs'[k].parent < k
                                             /\ runs'[k].status = "pending"
                                             /\ runs'[k].reports = 0
                                             /\ ~runs'[k].signal

\* One job is added.
Added(op, r, flag) ==
    /\ jobs' \in Seq(JobType) /\ Len(jobs') = Len(jobs) + 1
    /\ \A k \in JobIds : jobs'[k] = jobs[k]
    /\ jobs'[Len(jobs) + 1] = NewJob(op, r, flag)

\* Jobs keep what they are about; their statuses change.
Restatus ==
    /\ jobs' \in Seq(JobType) /\ Len(jobs') = Len(jobs)
    /\ \A k \in JobIds : /\ jobs'[k].op = jobs[k].op
                         /\ jobs'[k].run = jobs[k].run
                         /\ jobs'[k].flag = jobs[k].flag
                         /\ jobs'[k].reclaims >= jobs[k].reclaims

\* The status of one job changes.
StatusSet(j, s) ==
    /\ Restatus
    /\ \A k \in JobIds : k # j => jobs'[k] = jobs[k]
    /\ \A k \in JobIds : jobs'[k].reclaims = jobs[k].reclaims
    /\ jobs'[j].status = s

\* Every run row has its type.
LEMMA RunRow ==
    ASSUME runs \in Seq(RunType), NEW k \in RunIds
    PROVE  /\ runs[k] \in RunType
           /\ runs[k].reports \in Nat /\ runs[k].parent \in Nat
           /\ runs[k].actions \in Nat /\ runs[k].postmortems \in Nat
           /\ runs[k].status \in RunStatus /\ runs[k].signal \in BOOLEAN
           /\ runs[k].overlapped \in BOOLEAN
<1>1. runs[k] \in RunType
  BY DEF RunIds
<1> QED
  BY <1>1 DEF RunType

\* Every job row has its type.
LEMMA JobRow ==
    ASSUME jobs \in Seq(JobType), NEW k \in JobIds
    PROVE  /\ jobs[k] \in JobType
           /\ jobs[k].op \in Operators /\ jobs[k].run \in Nat
           /\ jobs[k].flag \in BOOLEAN /\ jobs[k].status \in JobStatus
           /\ jobs[k].reclaims \in Nat
<1>1. jobs[k] \in JobType
  BY DEF JobIds
<1> QED
  BY <1>1 DEF JobType

\* A job appended to the table (Enqueue).
LEMMA EnqueueAdds ==
    ASSUME jobs \in Seq(JobType), NEW op \in Operators, NEW r \in Nat,
           NEW flag \in BOOLEAN, Enqueue(op, r, flag)
    PROVE  Added(op, r, flag)
<1>1. NewJob(op, r, flag) \in JobType
  BY DEF NewJob, JobType, JobStatus
<1>2. jobs' = Append(jobs, NewJob(op, r, flag))
  BY DEF Enqueue
<1> QED
  BY <1>1, <1>2 DEF Added, JobIds

\* A write of one job's status (SetJob).
LEMMA SetJobSets ==
    ASSUME jobs \in Seq(JobType), NEW j \in JobIds, NEW s \in JobStatus,
           jobs' = SetJob(j, s)
    PROVE  StatusSet(j, s)
<1>1. jobs' = [jobs EXCEPT ![j] = [jobs[j] EXCEPT !.status = s]]
  BY DEF SetJob
<1>2. \A k \in JobIds : jobs[k] \in JobType
  BY DEF JobIds
<1>3. [jobs[j] EXCEPT !.status = s] \in JobType
  BY <1>2 DEF JobType
<1>4. jobs' \in Seq(JobType) /\ Len(jobs') = Len(jobs)
  BY <1>1, <1>3 DEF JobIds
<1>5. \A k \in JobIds : k # j => jobs'[k] = jobs[k]
  BY <1>1 DEF JobIds
<1>6. jobs'[j] = [jobs[j] EXCEPT !.status = s]
  BY <1>1 DEF JobIds
<1>7. \A k \in JobIds : jobs[k].reclaims \in Nat
  BY <1>2 DEF JobType
<1>8. /\ jobs'[j].op = jobs[j].op /\ jobs'[j].run = jobs[j].run
      /\ jobs'[j].flag = jobs[j].flag /\ jobs'[j].reclaims = jobs[j].reclaims
      /\ jobs'[j].status = s
  BY <1>2, <1>6 DEF JobType
<1>9. \A k \in JobIds : /\ jobs'[k].op = jobs[k].op /\ jobs'[k].run = jobs[k].run
                        /\ jobs'[k].flag = jobs[k].flag
                        /\ jobs'[k].reclaims = jobs[k].reclaims
  BY <1>5, <1>8
<1> QED
  BY <1>4, <1>5, <1>7, <1>8, <1>9 DEF StatusSet, Restatus

\* A write of columns of one run that keeps its parent, reports and signal.
LEMMA WriteTouches ==
    ASSUME runs \in Seq(RunType), NEW r \in RunIds, NEW x \in RunType,
           x.parent = runs[r].parent, x.reports >= runs[r].reports,
           runs[r].signal => x.signal, runs[r].overlapped => x.overlapped,
           runs' = [runs EXCEPT ![r] = x]
    PROVE  Touched(r) /\ Len(runs') = Len(runs) /\ runs'[r] = x
<1>1. runs' \in Seq(RunType) /\ Len(runs') = Len(runs) /\ runs'[r] = x
  BY DEF RunIds
<1>2. \A k \in RunIds : k # r => runs'[k] = runs[k]
  BY DEF RunIds
<1>3. RunIds' = RunIds
  BY <1>1 DEF RunIds
<1> QED
  BY <1>1, <1>2, <1>3 DEF Touched

\* No run changes.
LEMMA SameTouches ==
    ASSUME runs \in Seq(RunType), runs' = runs, NEW r
    PROVE  Touched(r) /\ Len(runs') = Len(runs)
<1>1. RunIds' = RunIds
  BY DEF RunIds
<1>2. \A k \in RunIds : runs[k].reports \in Nat
  BY RunRow
<1> QED
  BY <1>1, <1>2 DEF Touched

\* The table of runs with the row of run r rewritten.
Rewritten(table, r) ==
    /\ table \in Seq(RunType) /\ Len(table) = Len(runs)
    /\ \A k \in RunIds : k # r => table[k] = runs[k]
    /\ r \in RunIds => /\ table[r].parent = runs[r].parent
                       /\ table[r].reports >= runs[r].reports
                       /\ runs[r].signal => table[r].signal
                       /\ runs[r].overlapped => table[r].overlapped

\* A new run, and perhaps a write of one run.
LEMMA NewRunTouches ==
    ASSUME runs \in Seq(RunType), NEW p \in Nat, p <= Len(runs), NEW r,
           NEW table, Rewritten(table, r),
           runs' = Append(table, NewRun(p))
    PROVE  /\ Touched(r) /\ Len(runs') = Len(runs) + 1
           /\ runs'[Len(runs) + 1] = NewRun(p)
           /\ \A k \in RunIds : runs'[k] = table[k]
<1>0. /\ table \in Seq(RunType) /\ Len(table) = Len(runs)
      /\ \A k \in RunIds : k # r => table[k] = runs[k]
      /\ r \in RunIds => /\ table[r].parent = runs[r].parent
                         /\ table[r].reports >= runs[r].reports
                         /\ runs[r].signal => table[r].signal
                         /\ runs[r].overlapped => table[r].overlapped
  BY DEF Rewritten
<1>1. NewRun(p) \in RunType
  BY DEF NewRun, RunType, RunStatus
<1>2. /\ runs' \in Seq(RunType) /\ Len(runs') = Len(runs) + 1
      /\ runs'[Len(runs) + 1] = NewRun(p)
  BY <1>0, <1>1
<1>3. \A k \in RunIds : runs'[k] = table[k]
  BY <1>0 DEF RunIds
<1>4. \A k \in RunIds' : k \notin RunIds => k = Len(runs) + 1
  BY <1>2 DEF RunIds
<1>6. /\ NewRun(p).parent < Len(runs) + 1 /\ NewRun(p).status = "pending"
      /\ NewRun(p).reports = 0 /\ ~NewRun(p).signal
  BY DEF NewRun
<1>7. Len(runs) \in Nat /\ Len(runs') \in Nat
  BY <1>2
<1>8. \A k \in RunIds' : k \notin RunIds => /\ runs'[k].parent < k
                                            /\ runs'[k].status = "pending"
                                            /\ runs'[k].reports = 0
                                            /\ ~runs'[k].signal
  BY <1>2, <1>4, <1>6
<1>9. r \in RunIds => /\ runs'[r].parent = runs[r].parent
                      /\ runs'[r].reports >= runs[r].reports
                      /\ runs[r].signal => runs'[r].signal
                      /\ runs[r].overlapped => runs'[r].overlapped
  <2>1. CASE r \in RunIds
    <3>1. runs'[r] = table[r]
      BY <1>3, <2>1
    <3> QED
      BY <1>0, <2>1, <3>1
  <2> QED
    BY <2>1
<1>10. \A k \in RunIds : k # r => runs'[k] = runs[k]
  BY <1>0, <1>3
<1>11. Len(runs') >= Len(runs)
  BY <1>2, <1>7
<1> QED
  BY <1>2, <1>3, <1>8, <1>9, <1>10, <1>11 DEF Touched

-----------------------------------------------------------------------------
(* The effects of a worker's steps. *)

\* What an operator returns, and the job it hands over to.
Hands(op, rs, pt, nxt) ==
    \/ rs = "failure" /\ pt = "none" /\ nxt = "none"
    \/ /\ rs = "success"
       /\ \/ op = "execution_setup" /\ pt = "none" /\ nxt = "execution_run"
          \/ op = "execution_run" /\ pt = "none" /\ nxt \in {"none", "execution_capture"}
          \/ /\ op \in {"execution_run", "execution_capture"}
             /\ pt = "verifying" /\ nxt = "verification_check"
          \/ /\ op = "verification_check"
             /\ pt = "none" /\ nxt \in {"auto_remediate", "signal_classify"}
          \/ op = "auto_remediate" /\ pt = "none" /\ nxt = "verification_postmortem"
          \/ op = "auto_remediate" /\ pt = "running" /\ nxt = "execution_setup"
          \/ /\ op \in {"verification_postmortem", "signal_classify"}
             /\ pt = "none" /\ nxt = "recommend"
          \/ op = "recommend" /\ pt = "reporting" /\ nxt = "none"

\* The operator of w's job commits and returns.
Returns(w, rs, pt, nxt, x, flag) ==
    /\ pc[w] \in {"executing", "building", "stopped", "classifying"}
    /\ pc' = [pc EXCEPT ![w] = "finished"]
    /\ job' = job
    /\ result' = [result EXCEPT ![w] = rs]
    /\ patch' = [patch EXCEPT ![w] = pt]
    /\ seen' = [seen EXCEPT ![w] = 0]
    /\ Hands(jobs[job[w]].op, rs, pt, nxt)
    /\ IF nxt = "none" THEN jobs' = jobs ELSE Added(nxt, x, flag)
    /\ x = IF pt = "running" THEN Len(runs) + 1 ELSE RunOf(w)
    /\ Len(runs') = IF pt = "running" THEN Len(runs) + 1 ELSE Len(runs)
    /\ nxt \in ExecutionOps => ~flag
    /\ Touched(RunOf(w))
    /\ runs'[RunOf(w)].reports =
          IF jobs[job[w]].op = "verification_check" /\ rs = "success"
          THEN runs[RunOf(w)].reports + 1 ELSE runs[RunOf(w)].reports
    /\ nxt \in ExecutionOps => runs'[x].status # "cancelled"
    /\ runs'[RunOf(w)].status = "cancelled" =>
          \/ runs[RunOf(w)].status = "cancelled" /\ nxt \notin ExecutionOps \ {"execution_setup"}
          \/ pc[w] = "stopped" /\ nxt = "none"
    /\ \/ runs'[RunOf(w)].signal = runs[RunOf(w)].signal /\ frontier' = frontier
       \/ /\ pc[w] = "classifying"
          /\ runs'[RunOf(w)].signal
          /\ Classifying # {w} => runs'[RunOf(w)].overlapped
          /\ frontier' = seen[w] + 1
    /\ worktrees' \subseteq worktrees
    /\ UNCHANGED <<cycle, spec_status>>

ReturnsSome(w) ==
    \E rs \in {"success", "failure"}, pt \in CycleStatus \cup {"none"},
       nxt \in Operators \cup {"none"}, x \in Nat, flag \in BOOLEAN :
          Returns(w, rs, pt, nxt, x, flag)

\* The operator of w's job reaches its next commit or external effect.
Proceeds(w, p) ==
    /\ pc[w] \in {"executing", "container"}
    /\ p \in {"building", "container", "stopped", "classifying"}
    /\ pc' = [pc EXCEPT ![w] = p]
    /\ p = "building" => jobs[job[w]].op = "execution_setup"
    /\ p \in {"container", "stopped"} => jobs[job[w]].op = "execution_run"
    /\ result' \in [Workers -> Result]
    /\ \A v \in Workers : v # w => result'[v] = result[v]
    /\ p = "stopped" => result'[w] \in Ends
    /\ p = "classifying" => /\ jobs[job[w]].op = "signal_classify"
                            /\ runs[RunOf(w)].reports <= 1
    /\ IF p = "classifying" THEN seen' = [seen EXCEPT ![w] = frontier] ELSE seen' = seen
    /\ UNCHANGED <<job, patch, jobs, frontier, cycle, spec_status, env>>
    /\ worktrees' \subseteq RunIds
    /\ Touched(RunOf(w)) /\ Len(runs') = Len(runs)
    /\ runs'[RunOf(w)].reports = runs[RunOf(w)].reports
    /\ runs'[RunOf(w)].signal = runs[RunOf(w)].signal
    /\ runs'[RunOf(w)].status \in {runs[RunOf(w)].status, "running"}

\* A worker in the middle of a job holds one, of a run that exists.
LEMMA BusyHolds ==
    ASSUME TypeOK, Held, NEW w \in Workers, pc[w] # "idle"
    PROVE  job[w] \in JobIds /\ RunOf(w) \in RunIds
<1>1. job[w] # 0 /\ job[w] \in 0..Len(jobs)
  BY DEF TypeOK, Held, HeldBy
<1>2. Len(jobs) \in Nat
  BY DEF TypeOK
<1>3. job[w] \in JobIds
  BY <1>1, <1>2 DEF JobIds
<1> QED
  BY <1>3 DEF TypeOK, RunOf

\* execution_setup's first half goes on, or fails the run.
LEMMA SetupWorktreeEffect ==
    ASSUME TypeOK, Held, NEW w \in Workers, SetupWorktree(w)
    PROVE  Proceeds(w, "building") \/ (ReturnsSome(w) /\ UNCHANGED env)
<1> DEFINE r == RunOf(w)
           row == [runs[r] EXCEPT !.status = "failed", !.failure = "mechanical"]
<1>1. /\ pc[w] = "executing" /\ jobs[job[w]].op = "execution_setup"
      /\ job[w] \in JobIds /\ r \in RunIds
  BY BusyHolds DEF SetupWorktree, Executing
<1>2. /\ runs \in Seq(RunType) /\ worktrees \subseteq RunIds
      /\ result \in [Workers -> Result]
  BY DEF TypeOK
<1>5. r \in Nat
  BY <1>1 DEF RunIds
<1>3. CASE /\ worktrees' = worktrees \cup {r}
           /\ pc' = [pc EXCEPT ![w] = "building"]
           /\ UNCHANGED <<cycle, spec_status, runs, jobs, frontier, job, result, patch, seen, env>>
  <2>1. Touched(r) /\ Len(runs') = Len(runs)
    BY <1>2, <1>3, SameTouches
  <2>2. worktrees' \subseteq RunIds
    BY <1>1, <1>2, <1>3
  <2> QED
    BY <1>1, <1>2, <1>3, <2>1, <2>2 DEF Proceeds
<1>4. CASE /\ FailRun(r, "mechanical")
           /\ Return(w, "failure", "none")
           /\ UNCHANGED <<jobs, worktrees, frontier>>
  <2>1. row \in RunType /\ row.parent = runs[r].parent /\ row.reports = runs[r].reports
        /\ row.overlapped = runs[r].overlapped
        /\ row.signal = runs[r].signal /\ row.status = "failed"
    BY <1>1, <1>2, RunRow, ZenonT(40) DEF RunType, RunStatus
  <2>2. runs' = [runs EXCEPT ![r] = row]
    BY <1>4 DEF FailRun
  <2>3. row.reports >= runs[r].reports
    BY <1>1, <1>2, <2>1, RunRow
  <2> HIDE DEF row
  <2>4. Touched(r) /\ Len(runs') = Len(runs) /\ runs'[r] = row
    BY <1>1, <1>2, <2>1, <2>2, <2>3, WriteTouches, ZenonT(40)
  <2>5. Hands(jobs[job[w]].op, "failure", "none", "none")
    BY DEF Hands
  <2>6. Returns(w, "failure", "none", "none", r, FALSE)
    BY <1>1, <1>4, <2>1, <2>4, <2>5 DEF Returns, Return, ExecutionOps
  <2>7. ReturnsSome(w)
    BY <1>5, <2>6 DEF ReturnsSome
  <2> QED
    BY <1>4, <2>7 DEF Return
<1> QED
  BY <1>3, <1>4 DEF SetupWorktree

\* execution_setup's second half hands over to execution_run, or fails the run.
LEMMA SetupCommitEffect ==
    ASSUME TypeOK, Held, NEW w \in Workers, SetupCommit(w)
    PROVE  ReturnsSome(w) /\ UNCHANGED env
<1> DEFINE r == RunOf(w)
<1>1. /\ pc[w] = "building" /\ jobs[job[w]].op = "execution_setup"
      /\ job[w] \in JobIds /\ r \in RunIds
  BY BusyHolds DEF SetupCommit, Held, HeldBy
<1>2. /\ runs \in Seq(RunType) /\ jobs \in Seq(JobType)
      /\ worktrees \subseteq RunIds /\ result \in [Workers -> Result]
  BY DEF TypeOK
<1>5. r \in Nat
  BY <1>1 DEF RunIds
<1>3. CASE /\ runs' = [runs EXCEPT ![r].status = "building", ![r].workspace = TRUE]
           /\ Enqueue("execution_run", r, FALSE)
           /\ Return(w, "success", "none")
           /\ UNCHANGED <<worktrees, frontier>>
  <2> DEFINE row == [runs[r] EXCEPT !.status = "building", !.workspace = TRUE]
  <2>1. /\ row \in RunType /\ row.parent = runs[r].parent
        /\ row.reports = runs[r].reports
        /\ row.overlapped = runs[r].overlapped
        /\ row.signal = runs[r].signal
        /\ row.status = "building"
    BY <1>1, <1>2, RunRow, ZenonT(40) DEF RunType, RunStatus
  <2>2. runs' = [runs EXCEPT ![r] = row]
    BY <1>3
  <2>3. row.reports >= runs[r].reports
    BY <1>1, <1>2, <2>1, RunRow
  <2> HIDE DEF row
  <2>4. Touched(r) /\ Len(runs') = Len(runs) /\ runs'[r] = row
    BY <1>1, <1>2, <2>1, <2>2, <2>3, WriteTouches, ZenonT(40)
  <2>5. Hands(jobs[job[w]].op, "success", "none", "execution_run")
    BY <1>1 DEF Hands
  <2>6. Added("execution_run", r, FALSE)
    BY <1>2, <1>5, <1>3, EnqueueAdds DEF Operators
  <2>7. Returns(w, "success", "none", "execution_run", r, FALSE)
    BY <1>1, <1>3, <2>1, <2>4, <2>6, <2>5 DEF Returns, Return, ExecutionOps
  <2>8. ReturnsSome(w)
    BY <1>5, <2>7 DEF ReturnsSome, Operators, CycleStatus
  <2> QED
    BY <1>3, <2>8 DEF Return
<1>4. CASE /\ runs' = [runs EXCEPT ![r].status = "failed", ![r].failure = "mechanical",
                                    ![r].workspace = TRUE]
           /\ Return(w, "failure", "none")
           /\ UNCHANGED <<jobs, worktrees, frontier>>
  <2> DEFINE row == [runs[r] EXCEPT !.status = "failed", !.failure = "mechanical",
                                       !.workspace = TRUE]
  <2>1. /\ row \in RunType /\ row.parent = runs[r].parent
        /\ row.reports = runs[r].reports
        /\ row.overlapped = runs[r].overlapped
        /\ row.signal = runs[r].signal
        /\ row.status = "failed"
    BY <1>1, <1>2, RunRow, ZenonT(40) DEF RunType, RunStatus
  <2>2. runs' = [runs EXCEPT ![r] = row]
    BY <1>4
  <2>3. row.reports >= runs[r].reports
    BY <1>1, <1>2, <2>1, RunRow
  <2> HIDE DEF row
  <2>4. Touched(r) /\ Len(runs') = Len(runs) /\ runs'[r] = row
    BY <1>1, <1>2, <2>1, <2>2, <2>3, WriteTouches, ZenonT(40)
  <2>5. Hands(jobs[job[w]].op, "failure", "none", "none")
    BY <1>1 DEF Hands
  <2>7. Returns(w, "failure", "none", "none", r, FALSE)
    BY <1>1, <1>4, <2>1, <2>4, <2>5 DEF Returns, Return, ExecutionOps
  <2>8. ReturnsSome(w)
    BY <1>5, <2>7 DEF ReturnsSome, Operators, CycleStatus
  <2> QED
    BY <1>4, <2>8 DEF Return
<1> QED
  BY <1>3, <1>4 DEF SetupCommit

\* execution_run starts its container, or fails the run.
LEMMA RunContainerEffect ==
    ASSUME TypeOK, Held, NEW w \in Workers, RunContainer(w)
    PROVE  Proceeds(w, "container") \/ (ReturnsSome(w) /\ UNCHANGED env)
<1> DEFINE r == RunOf(w)
<1>1. /\ pc[w] = "executing" /\ jobs[job[w]].op = "execution_run"
      /\ job[w] \in JobIds /\ r \in RunIds
  BY BusyHolds DEF RunContainer, Executing
<1>2. /\ runs \in Seq(RunType) /\ jobs \in Seq(JobType)
      /\ worktrees \subseteq RunIds /\ result \in [Workers -> Result]
  BY DEF TypeOK
<1>5. r \in Nat
  BY <1>1 DEF RunIds
<1>3. CASE /\ runs' = [runs EXCEPT ![r].status = "running"]
           /\ pc' = [pc EXCEPT ![w] = "container"]
           /\ UNCHANGED <<cycle, spec_status, job, result, patch, seen, env>>
           /\ UNCHANGED <<jobs, worktrees, frontier>>
  <2> DEFINE row == [runs[r] EXCEPT !.status = "running"]
  <2>1. /\ row \in RunType /\ row.parent = runs[r].parent
        /\ row.overlapped = runs[r].overlapped
        /\ row.reports = runs[r].reports /\ row.signal = runs[r].signal
        /\ row.status = "running"
    BY <1>1, <1>2, RunRow, ZenonT(40) DEF RunType, RunStatus
  <2>2. runs' = [runs EXCEPT ![r] = row]
    BY <1>3
  <2>3. row.reports >= runs[r].reports
    BY <1>1, <1>2, <2>1, RunRow
  <2> HIDE DEF row
  <2>4. Touched(r) /\ Len(runs') = Len(runs) /\ runs'[r] = row
    BY <1>1, <1>2, <2>1, <2>2, <2>3, WriteTouches, ZenonT(40)
  <2> QED
    BY <1>1, <1>2, <1>3, <2>1, <2>4 DEF Proceeds
<1>4. CASE /\ FailRun(r, "mechanical")
           /\ Return(w, "failure", "none")
           /\ UNCHANGED <<jobs, worktrees, frontier>>
  <2> DEFINE row == [runs[r] EXCEPT !.status = "failed", !.failure = "mechanical"]
  <2>1. /\ row \in RunType /\ row.parent = runs[r].parent
        /\ row.reports = runs[r].reports
        /\ row.overlapped = runs[r].overlapped
        /\ row.signal = runs[r].signal
        /\ row.status = "failed"
    BY <1>1, <1>2, RunRow, ZenonT(40) DEF RunType, RunStatus
  <2>2. runs' = [runs EXCEPT ![r] = row]
    BY <1>4 DEF FailRun
  <2>3. row.reports >= runs[r].reports
    BY <1>1, <1>2, <2>1, RunRow
  <2> HIDE DEF row
  <2>4. Touched(r) /\ Len(runs') = Len(runs) /\ runs'[r] = row
    BY <1>1, <1>2, <2>1, <2>2, <2>3, WriteTouches, ZenonT(40)
  <2>5. Hands(jobs[job[w]].op, "failure", "none", "none")
    BY <1>1 DEF Hands
  <2>7. Returns(w, "failure", "none", "none", r, FALSE)
    BY <1>1, <1>4, <2>1, <2>4, <2>5 DEF Returns, Return, ExecutionOps
  <2>8. ReturnsSome(w)
    BY <1>5, <2>7 DEF ReturnsSome, Operators, CycleStatus
  <2> QED
    BY <1>4, <2>8 DEF Return
<1> QED
  BY <1>3, <1>4 DEF RunContainer

\* The container of execution_run stops.
LEMMA ContainerStopsEffect ==
    ASSUME TypeOK, Held, NEW w \in Workers, ContainerStops(w)
    PROVE  Proceeds(w, "stopped")
<1> DEFINE r == RunOf(w)
<1>1. /\ pc[w] = "container" /\ jobs[job[w]].op = "execution_run"
      /\ job[w] \in JobIds /\ r \in RunIds
  BY BusyHolds DEF ContainerStops, Held, HeldBy
<1>2. /\ runs \in Seq(RunType) /\ jobs \in Seq(JobType)
      /\ worktrees \subseteq RunIds /\ result \in [Workers -> Result]
  BY DEF TypeOK
<1>5. r \in Nat
  BY <1>1 DEF RunIds
<1>3. PICK end \in Ends : result' = [result EXCEPT ![w] = end]
  BY DEF ContainerStops, Ends
<1>4. /\ pc' = [pc EXCEPT ![w] = "stopped"]
      /\ UNCHANGED <<tables, job, patch, seen, env>>
  BY DEF ContainerStops
<1>6. Touched(r) /\ Len(runs') = Len(runs)
  BY <1>2, <1>4, SameTouches DEF tables
<1>7. /\ result' \in [Workers -> Result] /\ result'[w] \in Ends
      /\ \A v \in Workers : v # w => result'[v] = result[v]
  BY <1>2, <1>3 DEF Result, Ends
<1> QED
  BY <1>1, <1>2, <1>4, <1>6, <1>7 DEF Proceeds, tables

\* execution_run's last commit: one case for each way the container ended.
LEMMA RunCommitEffect ==
    ASSUME TypeOK, Held, NEW w \in Workers, RunCommit(w)
    PROVE  ReturnsSome(w) /\ UNCHANGED env
<1> DEFINE r == RunOf(w)
<1>1. /\ pc[w] = "stopped" /\ jobs[job[w]].op = "execution_run" /\ result[w] \in Ends
      /\ job[w] \in JobIds /\ r \in RunIds
  BY BusyHolds DEF RunCommit, Held, HeldBy
<1>2. /\ runs \in Seq(RunType) /\ jobs \in Seq(JobType)
      /\ worktrees \subseteq RunIds /\ result \in [Workers -> Result]
  BY DEF TypeOK
<1>5. r \in Nat
  BY <1>1 DEF RunIds
<1>3. CASE result[w] = "exit1"
  <2>0. /\ runs' = [runs EXCEPT ![r].status = "failed", ![r].failure = "mechanical",
                                ![r].container = "gone"]
        /\ Enqueue("verification_check", r, FALSE)
        /\ Return(w, "success", "verifying")
        /\ worktrees' \subseteq worktrees /\ UNCHANGED frontier
    BY <1>3 DEF RunCommit, StatusAfter
  <2> DEFINE row == [runs[r] EXCEPT !.status = "failed", !.failure = "mechanical",
                                       !.container = "gone"]
  <2>1. /\ row \in RunType /\ row.parent = runs[r].parent
        /\ row.reports = runs[r].reports
        /\ row.overlapped = runs[r].overlapped
        /\ row.signal = runs[r].signal
        /\ row.status = "failed"
    BY <1>1, <1>2, RunRow, ZenonT(40) DEF RunType, RunStatus
  <2>2. runs' = [runs EXCEPT ![r] = row]
    BY <2>0
  <2>3. row.reports >= runs[r].reports
    BY <1>1, <1>2, <2>1, RunRow
  <2> HIDE DEF row
  <2>4. Touched(r) /\ Len(runs') = Len(runs) /\ runs'[r] = row
    BY <1>1, <1>2, <2>1, <2>2, <2>3, WriteTouches, ZenonT(40)
  <2>5. Hands(jobs[job[w]].op, "success", "verifying", "verification_check")
    BY <1>1 DEF Hands
  <2>6. Added("verification_check", r, FALSE)
    BY <1>2, <1>5, <2>0, EnqueueAdds DEF Operators
  <2>7. Returns(w, "success", "verifying", "verification_check", r, FALSE)
    BY <1>1, <2>0, <2>1, <2>4, <2>6, <2>5 DEF Returns, Return, ExecutionOps
  <2>8. ReturnsSome(w)
    BY <1>5, <2>7 DEF ReturnsSome, Operators, CycleStatus
  <2> QED
    BY <2>0, <2>8 DEF Return
<1>4. CASE result[w] = "exit0"
  <2>0. /\ runs' = [runs EXCEPT ![r].status = "capturing", ![r].failure = @,
                                ![r].container = "gone"]
        /\ Enqueue("execution_capture", r, FALSE)
        /\ Return(w, "success", "none")
        /\ worktrees' \subseteq worktrees /\ UNCHANGED frontier
    BY <1>4 DEF RunCommit, StatusAfter
  <2> DEFINE row == [runs[r] EXCEPT !.status = "capturing", !.failure = @,
                                       !.container = "gone"]
  <2>1. /\ row \in RunType /\ row.parent = runs[r].parent
        /\ row.reports = runs[r].reports
        /\ row.overlapped = runs[r].overlapped
        /\ row.signal = runs[r].signal
        /\ row.status = "capturing"
    BY <1>1, <1>2, RunRow, ZenonT(40) DEF RunType, RunStatus
  <2>2. runs' = [runs EXCEPT ![r] = row]
    BY <2>0
  <2>3. row.reports >= runs[r].reports
    BY <1>1, <1>2, <2>1, RunRow
  <2> HIDE DEF row
  <2>4. Touched(r) /\ Len(runs') = Len(runs) /\ runs'[r] = row
    BY <1>1, <1>2, <2>1, <2>2, <2>3, WriteTouches, ZenonT(40)
  <2>5. Hands(jobs[job[w]].op, "success", "none", "execution_capture")
    BY <1>1 DEF Hands
  <2>6. Added("execution_capture", r, FALSE)
    BY <1>2, <1>5, <2>0, EnqueueAdds DEF Operators
  <2>7. Returns(w, "success", "none", "execution_capture", r, FALSE)
    BY <1>1, <2>0, <2>1, <2>4, <2>6, <2>5 DEF Returns, Return, ExecutionOps
  <2>8. ReturnsSome(w)
    BY <1>5, <2>7 DEF ReturnsSome, Operators, CycleStatus
  <2> QED
    BY <2>0, <2>8 DEF Return
<1>6. CASE result[w] = "raised"
  <2>0. /\ runs' = [runs EXCEPT ![r].status = "failed", ![r].failure = "mechanical",
                                ![r].container = @]
        /\ UNCHANGED jobs
        /\ Return(w, "failure", "none")
        /\ worktrees' \subseteq worktrees /\ UNCHANGED frontier
    BY <1>6 DEF RunCommit, StatusAfter
  <2> DEFINE row == [runs[r] EXCEPT !.status = "failed", !.failure = "mechanical",
                                       !.container = @]
  <2>1. /\ row \in RunType /\ row.parent = runs[r].parent
        /\ row.reports = runs[r].reports
        /\ row.overlapped = runs[r].overlapped
        /\ row.signal = runs[r].signal
        /\ row.status = "failed"
    BY <1>1, <1>2, RunRow, ZenonT(40) DEF RunType, RunStatus
  <2>2. runs' = [runs EXCEPT ![r] = row]
    BY <2>0
  <2>3. row.reports >= runs[r].reports
    BY <1>1, <1>2, <2>1, RunRow
  <2> HIDE DEF row
  <2>4. Touched(r) /\ Len(runs') = Len(runs) /\ runs'[r] = row
    BY <1>1, <1>2, <2>1, <2>2, <2>3, WriteTouches, ZenonT(40)
  <2>5. Hands(jobs[job[w]].op, "failure", "none", "none")
    BY <1>1 DEF Hands
  <2>7. Returns(w, "failure", "none", "none", r, FALSE)
    BY <1>1, <2>0, <2>1, <2>4, <2>5 DEF Returns, Return, ExecutionOps
  <2>8. ReturnsSome(w)
    BY <1>5, <2>7 DEF ReturnsSome, Operators, CycleStatus
  <2> QED
    BY <2>0, <2>8 DEF Return
<1>7. CASE result[w] = "paused"
  <2>0. /\ runs' = [runs EXCEPT ![r].status = "paused", ![r].failure = @,
                                ![r].container = "paused"]
        /\ UNCHANGED jobs
        /\ Return(w, "success", "none")
        /\ worktrees' \subseteq worktrees /\ UNCHANGED frontier
    BY <1>7 DEF RunCommit, StatusAfter
  <2> DEFINE row == [runs[r] EXCEPT !.status = "paused", !.failure = @,
                                       !.container = "paused"]
  <2>1. /\ row \in RunType /\ row.parent = runs[r].parent
        /\ row.reports = runs[r].reports
        /\ row.overlapped = runs[r].overlapped
        /\ row.signal = runs[r].signal
        /\ row.status = "paused"
    BY <1>1, <1>2, RunRow, ZenonT(40) DEF RunType, RunStatus
  <2>2. runs' = [runs EXCEPT ![r] = row]
    BY <2>0
  <2>3. row.reports >= runs[r].reports
    BY <1>1, <1>2, <2>1, RunRow
  <2> HIDE DEF row
  <2>4. Touched(r) /\ Len(runs') = Len(runs) /\ runs'[r] = row
    BY <1>1, <1>2, <2>1, <2>2, <2>3, WriteTouches, ZenonT(40)
  <2>5. Hands(jobs[job[w]].op, "success", "none", "none")
    BY <1>1 DEF Hands
  <2>7. Returns(w, "success", "none", "none", r, FALSE)
    BY <1>1, <2>0, <2>1, <2>4, <2>5 DEF Returns, Return, ExecutionOps
  <2>8. ReturnsSome(w)
    BY <1>5, <2>7 DEF ReturnsSome, Operators, CycleStatus
  <2> QED
    BY <2>0, <2>8 DEF Return
<1>8. CASE result[w] = "cancelled"
  <2>0. /\ runs' = [runs EXCEPT ![r].status = "cancelled", ![r].failure = @,
                                ![r].container = "gone"]
        /\ UNCHANGED jobs
        /\ Return(w, "success", "none")
        /\ worktrees' \subseteq worktrees /\ UNCHANGED frontier
    BY <1>8 DEF RunCommit, StatusAfter
  <2> DEFINE row == [runs[r] EXCEPT !.status = "cancelled", !.failure = @,
                                       !.container = "gone"]
  <2>1. /\ row \in RunType /\ row.parent = runs[r].parent
        /\ row.reports = runs[r].reports
        /\ row.overlapped = runs[r].overlapped
        /\ row.signal = runs[r].signal
        /\ row.status = "cancelled"
    BY <1>1, <1>2, RunRow, ZenonT(40) DEF RunType, RunStatus
  <2>2. runs' = [runs EXCEPT ![r] = row]
    BY <2>0
  <2>3. row.reports >= runs[r].reports
    BY <1>1, <1>2, <2>1, RunRow
  <2> HIDE DEF row
  <2>4. Touched(r) /\ Len(runs') = Len(runs) /\ runs'[r] = row
    BY <1>1, <1>2, <2>1, <2>2, <2>3, WriteTouches, ZenonT(40)
  <2>5. Hands(jobs[job[w]].op, "success", "none", "none")
    BY <1>1 DEF Hands
  <2>7. Returns(w, "success", "none", "none", r, FALSE)
    BY <1>1, <2>0, <2>1, <2>4, <2>5 DEF Returns, Return, ExecutionOps
  <2>8. ReturnsSome(w)
    BY <1>5, <2>7 DEF ReturnsSome, Operators, CycleStatus
  <2> QED
    BY <2>0, <2>8 DEF Return
<1> QED
  BY <1>1, <1>3, <1>4, <1>6, <1>7, <1>8 DEF Ends

\* execution_capture hands over to verification_check.
LEMMA CaptureEffect ==
    ASSUME TypeOK, Held, NEW w \in Workers, CaptureArtifacts(w)
    PROVE  ReturnsSome(w) /\ UNCHANGED env
<1> DEFINE r == RunOf(w)
<1>1. /\ pc[w] = "executing" /\ jobs[job[w]].op = "execution_capture"
      /\ job[w] \in JobIds /\ r \in RunIds
  BY BusyHolds DEF CaptureArtifacts, Executing
<1>2. /\ runs \in Seq(RunType) /\ jobs \in Seq(JobType)
      /\ worktrees \subseteq RunIds /\ result \in [Workers -> Result]
  BY DEF TypeOK
<1>5. r \in Nat
  BY <1>1 DEF RunIds
<1>3. CASE /\ runs' = [runs EXCEPT ![r].status = "completed"]
           /\ Enqueue("verification_check", r, FALSE)
           /\ Return(w, "success", "verifying")
           /\ UNCHANGED <<worktrees, frontier>>
  <2> DEFINE row == [runs[r] EXCEPT !.status = "completed"]
  <2>1. /\ row \in RunType /\ row.parent = runs[r].parent
        /\ row.reports = runs[r].reports
        /\ row.overlapped = runs[r].overlapped
        /\ row.signal = runs[r].signal
        /\ row.status = "completed"
    BY <1>1, <1>2, RunRow, ZenonT(40) DEF RunType, RunStatus
  <2>2. runs' = [runs EXCEPT ![r] = row]
    BY <1>3
  <2>3. row.reports >= runs[r].reports
    BY <1>1, <1>2, <2>1, RunRow
  <2> HIDE DEF row
  <2>4. Touched(r) /\ Len(runs') = Len(runs) /\ runs'[r] = row
    BY <1>1, <1>2, <2>1, <2>2, <2>3, WriteTouches, ZenonT(40)
  <2>5. Hands(jobs[job[w]].op, "success", "verifying", "verification_check")
    BY <1>1 DEF Hands
  <2>6. Added("verification_check", r, FALSE)
    BY <1>2, <1>5, <1>3, EnqueueAdds DEF Operators
  <2>7. Returns(w, "success", "verifying", "verification_check", r, FALSE)
    BY <1>1, <1>3, <2>1, <2>4, <2>6, <2>5 DEF Returns, Return, ExecutionOps
  <2>8. ReturnsSome(w)
    BY <1>5, <2>7 DEF ReturnsSome, Operators, CycleStatus
  <2> QED
    BY <1>3, <2>8 DEF Return
<1>4. CASE /\ FailRun(r, "metric_parse")
           /\ Enqueue("verification_check", r, FALSE)
           /\ Return(w, "success", "verifying")
           /\ UNCHANGED <<worktrees, frontier>>
  <2> DEFINE row == [runs[r] EXCEPT !.status = "failed", !.failure = "metric_parse"]
  <2>1. /\ row \in RunType /\ row.parent = runs[r].parent
        /\ row.reports = runs[r].reports
        /\ row.overlapped = runs[r].overlapped
        /\ row.signal = runs[r].signal
        /\ row.status = "failed"
    BY <1>1, <1>2, RunRow, ZenonT(40) DEF RunType, RunStatus
  <2>2. runs' = [runs EXCEPT ![r] = row]
    BY <1>4 DEF FailRun
  <2>3. row.reports >= runs[r].reports
    BY <1>1, <1>2, <2>1, RunRow
  <2> HIDE DEF row
  <2>4. Touched(r) /\ Len(runs') = Len(runs) /\ runs'[r] = row
    BY <1>1, <1>2, <2>1, <2>2, <2>3, WriteTouches, ZenonT(40)
  <2>5. Hands(jobs[job[w]].op, "success", "verifying", "verification_check")
    BY <1>1 DEF Hands
  <2>6. Added("verification_check", r, FALSE)
    BY <1>2, <1>5, <1>4, EnqueueAdds DEF Operators
  <2>7. Returns(w, "success", "verifying", "verification_check", r, FALSE)
    BY <1>1, <1>4, <2>1, <2>4, <2>6, <2>5 DEF Returns, Return, ExecutionOps
  <2>8. ReturnsSome(w)
    BY <1>5, <2>7 DEF ReturnsSome, Operators, CycleStatus
  <2> QED
    BY <1>4, <2>8 DEF Return
<1> QED
  BY <1>3, <1>4 DEF CaptureArtifacts

\* verification_check adds a report and hands over.
LEMMA CheckEffect ==
    ASSUME TypeOK, Held, NEW w \in Workers, VerificationCheck(w)
    PROVE  ReturnsSome(w) /\ UNCHANGED env
<1> DEFINE r == RunOf(w)
<1>1. /\ pc[w] = "executing" /\ jobs[job[w]].op = "verification_check"
      /\ job[w] \in JobIds /\ r \in RunIds
  BY BusyHolds DEF VerificationCheck, Executing
<1>2. /\ runs \in Seq(RunType) /\ jobs \in Seq(JobType)
      /\ worktrees \subseteq RunIds /\ result \in [Workers -> Result]
  BY DEF TypeOK
<1>5. r \in Nat
  BY <1>1 DEF RunIds
<1>3. CASE /\ runs' = [runs EXCEPT ![r].reports = @ + 1]
           /\ Enqueue("auto_remediate", r, FALSE)
           /\ Return(w, "success", "none")
           /\ UNCHANGED <<worktrees, frontier>>
  <2> DEFINE row == [runs[r] EXCEPT !.reports = @ + 1]
  <2>10. runs[r] \in RunType /\ runs[r].reports + 1 \in Nat
    BY <1>1, <1>2, RunRow
  <2>1. /\ row \in RunType /\ row.parent = runs[r].parent
        /\ row.reports = runs[r].reports + 1
        /\ row.overlapped = runs[r].overlapped
        /\ row.signal = runs[r].signal /\ row.status = runs[r].status
    BY <2>10 DEF RunType
  <2>2. runs' = [runs EXCEPT ![r] = row]
    BY <1>3
  <2>3. row.reports >= runs[r].reports
    BY <1>1, <1>2, <2>1, RunRow
  <2> HIDE DEF row
  <2>4. Touched(r) /\ Len(runs') = Len(runs) /\ runs'[r] = row
    BY <1>1, <1>2, <2>1, <2>2, <2>3, WriteTouches, ZenonT(40)
  <2>5. Hands(jobs[job[w]].op, "success", "none", "auto_remediate")
    BY <1>1 DEF Hands
  <2>6. Added("auto_remediate", r, FALSE)
    BY <1>2, <1>5, <1>3, EnqueueAdds DEF Operators
  <2>7. Returns(w, "success", "none", "auto_remediate", r, FALSE)
    BY <1>1, <1>3, <2>1, <2>4, <2>6, <2>5 DEF Returns, Return, ExecutionOps
  <2>8. ReturnsSome(w)
    BY <1>5, <2>7 DEF ReturnsSome, Operators, CycleStatus
  <2> QED
    BY <1>3, <2>8 DEF Return
<1>4. CASE /\ runs' = [runs EXCEPT ![r].reports = @ + 1]
           /\ Enqueue("signal_classify", r, FALSE)
           /\ Return(w, "success", "none")
           /\ UNCHANGED <<worktrees, frontier>>
  <2> DEFINE row == [runs[r] EXCEPT !.reports = @ + 1]
  <2>10. runs[r] \in RunType /\ runs[r].reports + 1 \in Nat
    BY <1>1, <1>2, RunRow
  <2>1. /\ row \in RunType /\ row.parent = runs[r].parent
        /\ row.reports = runs[r].reports + 1
        /\ row.overlapped = runs[r].overlapped
        /\ row.signal = runs[r].signal /\ row.status = runs[r].status
    BY <2>10 DEF RunType
  <2>2. runs' = [runs EXCEPT ![r] = row]
    BY <1>4
  <2>3. row.reports >= runs[r].reports
    BY <1>1, <1>2, <2>1, RunRow
  <2> HIDE DEF row
  <2>4. Touched(r) /\ Len(runs') = Len(runs) /\ runs'[r] = row
    BY <1>1, <1>2, <2>1, <2>2, <2>3, WriteTouches, ZenonT(40)
  <2>5. Hands(jobs[job[w]].op, "success", "none", "signal_classify")
    BY <1>1 DEF Hands
  <2>6. Added("signal_classify", r, FALSE)
    BY <1>2, <1>5, <1>4, EnqueueAdds DEF Operators
  <2>7. Returns(w, "success", "none", "signal_classify", r, FALSE)
    BY <1>1, <1>4, <2>1, <2>4, <2>6, <2>5 DEF Returns, Return, ExecutionOps
  <2>8. ReturnsSome(w)
    BY <1>5, <2>7 DEF ReturnsSome, Operators, CycleStatus
  <2> QED
    BY <1>4, <2>8 DEF Return
<1> QED
  BY <1>3, <1>4 DEF VerificationCheck

\* auto_remediate gives up and hands over to the postmortem.
LEMMA GiveUpEffect ==
    ASSUME TypeOK, Held, NEW w \in Workers, GiveUp(w)
    PROVE  ReturnsSome(w) /\ UNCHANGED env
<1> DEFINE r == RunOf(w)
<1>1. /\ pc[w] = "executing" /\ jobs[job[w]].op = "auto_remediate"
      /\ job[w] \in JobIds /\ r \in RunIds
  BY BusyHolds DEF GiveUp, Executing
<1>2. /\ runs \in Seq(RunType) /\ jobs \in Seq(JobType)
      /\ worktrees \subseteq RunIds /\ result \in [Workers -> Result]
  BY DEF TypeOK
<1>5. r \in Nat
  BY <1>1 DEF RunIds
<1>3. CASE /\ runs' = [runs EXCEPT ![r].actions = @ + 1,
                   ![r].exhausted = @ \/ LineageAttempts(r) >= scenario.attempts]
           /\ Enqueue("verification_postmortem", r, FALSE)
           /\ Return(w, "success", "none")
           /\ UNCHANGED <<worktrees, frontier>>
  <2> DEFINE row == [runs[r] EXCEPT !.actions = @ + 1,
                   !.exhausted = @ \/ LineageAttempts(r) >= scenario.attempts]
  <2>10. runs[r] \in RunType /\ runs[r].actions + 1 \in Nat
    BY <1>1, <1>2, RunRow
  <2>1. /\ row \in RunType /\ row.parent = runs[r].parent
        /\ row.reports = runs[r].reports
        /\ row.overlapped = runs[r].overlapped
        /\ row.signal = runs[r].signal
        /\ row.status = runs[r].status
    BY <2>10 DEF RunType
  <2>2. runs' = [runs EXCEPT ![r] = row]
    BY <1>3
  <2>3. row.reports >= runs[r].reports
    BY <1>1, <1>2, <2>1, RunRow
  <2> HIDE DEF row
  <2>4. Touched(r) /\ Len(runs') = Len(runs) /\ runs'[r] = row
    BY <1>1, <1>2, <2>1, <2>2, <2>3, WriteTouches, ZenonT(40)
  <2>5. Hands(jobs[job[w]].op, "success", "none", "verification_postmortem")
    BY <1>1 DEF Hands
  <2>6. Added("verification_postmortem", r, FALSE)
    BY <1>2, <1>5, <1>3, EnqueueAdds DEF Operators
  <2>7. Returns(w, "success", "none", "verification_postmortem", r, FALSE)
    BY <1>1, <1>3, <2>1, <2>4, <2>6, <2>5 DEF Returns, Return, ExecutionOps
  <2>8. ReturnsSome(w)
    BY <1>5, <2>7 DEF ReturnsSome, Operators, CycleStatus
  <2> QED
    BY <1>3, <2>8 DEF Return
<1> QED
  BY <1>3 DEF GiveUp

\* auto_remediate creates a retry run and hands over to its setup.
LEMMA CreateRetryEffect ==
    ASSUME TypeOK, Held, NEW w \in Workers, CreateRetry(w)
    PROVE  ReturnsSome(w) /\ UNCHANGED env
<1> DEFINE r == RunOf(w)
<1>1. /\ pc[w] = "executing" /\ jobs[job[w]].op = "auto_remediate"
      /\ job[w] \in JobIds /\ r \in RunIds
  BY BusyHolds DEF CreateRetry, Executing
<1>2. /\ runs \in Seq(RunType) /\ jobs \in Seq(JobType)
      /\ worktrees \subseteq RunIds /\ result \in [Workers -> Result]
  BY DEF TypeOK
<1>5. r \in Nat
  BY <1>1 DEF RunIds
<1> DEFINE row == [runs[r] EXCEPT !.actions = @ + 1]
           table == [runs EXCEPT ![r] = row]
           new == Len(runs) + 1
<1>3. /\ runs' = Append(table, NewRun(r))
      /\ Enqueue("execution_setup", new, FALSE)
      /\ Return(w, "success", "running")
      /\ UNCHANGED <<worktrees, frontier>>
  BY DEF CreateRetry
<1>4. /\ row \in RunType /\ row.parent = runs[r].parent
      /\ row.reports = runs[r].reports
      /\ row.overlapped = runs[r].overlapped
      /\ row.signal = runs[r].signal
      /\ row.status = runs[r].status
  <2>1. runs[r] \in RunType /\ runs[r].actions + 1 \in Nat
    BY <1>1, <1>2, RunRow
  <2> QED
    BY <2>1 DEF RunType
<1>6. row.reports >= runs[r].reports
  BY <1>1, <1>2, <1>4, RunRow
<1> HIDE DEF row
<1>7. /\ table \in Seq(RunType) /\ Len(table) = Len(runs) /\ table[r] = row
      /\ \A k \in RunIds : k # r => table[k] = runs[k]
  BY <1>1, <1>2, <1>4 DEF RunIds
<1>8. new \in Nat /\ Len(runs) \in Nat /\ r <= Len(runs)
  BY <1>1, <1>2 DEF RunIds
<1>15. Rewritten(table, r)
  BY <1>4, <1>6, <1>7 DEF Rewritten
<1> HIDE DEF table
<1>9. /\ Touched(r) /\ Len(runs') = new /\ runs'[new] = NewRun(r)
      /\ \A k \in RunIds : runs'[k] = table[k]
  BY <1>2, <1>3, <1>5, <1>8, <1>15, NewRunTouches
<1>10. Added("execution_setup", new, FALSE)
  BY <1>2, <1>3, <1>8, EnqueueAdds DEF Operators
<1>11. Hands(jobs[job[w]].op, "success", "running", "execution_setup")
  BY <1>1 DEF Hands
<1>12. runs'[new].status # "cancelled" /\ runs'[r] = row
  BY <1>1, <1>7, <1>9 DEF NewRun
<1>13. Returns(w, "success", "running", "execution_setup", new, FALSE)
  BY <1>1, <1>3, <1>4, <1>9, <1>10, <1>11, <1>12 DEF Returns, Return, ExecutionOps
<1>14. ReturnsSome(w)
  BY <1>8, <1>13 DEF ReturnsSome, Operators, CycleStatus
<1> QED
  BY <1>3, <1>14 DEF Return

\* An operator that meets two reports fails and writes nothing.
LEMMA AmbiguousEffect ==
    ASSUME TypeOK, Held, NEW w \in Workers, AmbiguousReport(w)
    PROVE  ReturnsSome(w) /\ UNCHANGED env
<1> DEFINE r == RunOf(w)
<1>1. /\ pc[w] = "executing"
      /\ job[w] \in JobIds /\ r \in RunIds
  BY BusyHolds DEF AmbiguousReport, Executing
<1>2. /\ runs \in Seq(RunType) /\ jobs \in Seq(JobType)
      /\ worktrees \subseteq RunIds /\ result \in [Workers -> Result]
  BY DEF TypeOK
<1>5. r \in Nat
  BY <1>1 DEF RunIds
<1>3. CASE /\ Return(w, "failure", "none")
           /\ UNCHANGED <<runs, jobs, worktrees, frontier>>
  <2>4. Touched(r) /\ Len(runs') = Len(runs) /\ runs'[r] = runs[r]
    BY <1>2, <1>3, SameTouches
  <2>5. Hands(jobs[job[w]].op, "failure", "none", "none")
    BY <1>1 DEF Hands
  <2>7. Returns(w, "failure", "none", "none", r, FALSE)
    BY <1>1, <1>3, <1>2, <2>4, <2>5 DEF Returns, Return, ExecutionOps
  <2>8. ReturnsSome(w)
    BY <1>5, <2>7 DEF ReturnsSome, Operators, CycleStatus
  <2> QED
    BY <1>3, <2>8 DEF Return
<1> QED
  BY <1>3 DEF AmbiguousReport

\* verification_postmortem hands over to recommend.
LEMMA PostmortemEffect ==
    ASSUME TypeOK, Held, NEW w \in Workers, VerificationPostmortem(w)
    PROVE  ReturnsSome(w) /\ UNCHANGED env
<1> DEFINE r == RunOf(w)
<1>1. /\ pc[w] = "executing" /\ jobs[job[w]].op = "verification_postmortem"
      /\ job[w] \in JobIds /\ r \in RunIds
  BY BusyHolds DEF VerificationPostmortem, Executing
<1>2. /\ runs \in Seq(RunType) /\ jobs \in Seq(JobType)
      /\ worktrees \subseteq RunIds /\ result \in [Workers -> Result]
  BY DEF TypeOK
<1>5. r \in Nat
  BY <1>1 DEF RunIds
<1>3. CASE /\ runs' = [runs EXCEPT ![r].postmortems = @ + 1]
           /\ Enqueue("recommend", r, TRUE)
           /\ Return(w, "success", "none")
           /\ UNCHANGED <<worktrees, frontier>>
  <2> DEFINE row == [runs[r] EXCEPT !.postmortems = @ + 1]
  <2>10. runs[r] \in RunType /\ runs[r].postmortems + 1 \in Nat
    BY <1>1, <1>2, RunRow
  <2>1. /\ row \in RunType /\ row.parent = runs[r].parent
        /\ row.reports = runs[r].reports
        /\ row.overlapped = runs[r].overlapped
        /\ row.signal = runs[r].signal
        /\ row.status = runs[r].status
    BY <2>10 DEF RunType
  <2>2. runs' = [runs EXCEPT ![r] = row]
    BY <1>3
  <2>3. row.reports >= runs[r].reports
    BY <1>1, <1>2, <2>1, RunRow
  <2> HIDE DEF row
  <2>4. Touched(r) /\ Len(runs') = Len(runs) /\ runs'[r] = row
    BY <1>1, <1>2, <2>1, <2>2, <2>3, WriteTouches, ZenonT(40)
  <2>5. Hands(jobs[job[w]].op, "success", "none", "recommend")
    BY <1>1 DEF Hands
  <2>6. Added("recommend", r, TRUE)
    BY <1>2, <1>5, <1>3, EnqueueAdds DEF Operators
  <2>7. Returns(w, "success", "none", "recommend", r, TRUE)
    BY <1>1, <1>3, <2>1, <2>4, <2>6, <2>5 DEF Returns, Return, ExecutionOps
  <2>8. ReturnsSome(w)
    BY <1>5, <2>7 DEF ReturnsSome, Operators, CycleStatus
  <2> QED
    BY <1>3, <2>8 DEF Return
<1> QED
  BY <1>3 DEF VerificationPostmortem

\* signal_classify has nothing to classify and hands over to recommend.
LEMMA SkipEffect ==
    ASSUME TypeOK, Held, NEW w \in Workers, SignalSkipped(w)
    PROVE  ReturnsSome(w) /\ UNCHANGED env
<1> DEFINE r == RunOf(w)
<1>1. /\ pc[w] = "executing" /\ jobs[job[w]].op = "signal_classify"
      /\ job[w] \in JobIds /\ r \in RunIds
  BY BusyHolds DEF SignalSkipped, Executing
<1>2. /\ runs \in Seq(RunType) /\ jobs \in Seq(JobType)
      /\ worktrees \subseteq RunIds /\ result \in [Workers -> Result]
  BY DEF TypeOK
<1>3. /\ UNCHANGED <<runs, worktrees, frontier>>
      /\ Enqueue("recommend", r, FALSE)
      /\ Return(w, "success", "none")
  BY DEF SignalSkipped
<1>4. Touched(r) /\ Len(runs') = Len(runs) /\ runs'[r] = runs[r]
  BY <1>2, <1>3, SameTouches
<1>5. r \in Nat
  BY <1>1 DEF RunIds
<1>6. Hands(jobs[job[w]].op, "success", "none", "recommend")
  BY <1>1 DEF Hands
<1>7. Added("recommend", r, FALSE)
  BY <1>2, <1>5, <1>3, EnqueueAdds DEF Operators
<1>8. Returns(w, "success", "none", "recommend", r, FALSE)
  BY <1>1, <1>2, <1>3, <1>4, <1>6, <1>7 DEF Returns, Return, ExecutionOps
<1>9. ReturnsSome(w)
  BY <1>5, <1>8 DEF ReturnsSome, Operators, CycleStatus
<1> QED
  BY <1>3, <1>9 DEF Return

\* signal_classify reads the frontier.
LEMMA ReadEffect ==
    ASSUME TypeOK, Held, NEW w \in Workers, SignalClassify(w)
    PROVE  Proceeds(w, "classifying")
<1> DEFINE r == RunOf(w)
<1>1. /\ pc[w] = "executing" /\ jobs[job[w]].op = "signal_classify"
      /\ job[w] \in JobIds /\ r \in RunIds
  BY BusyHolds DEF SignalClassify, Executing
<1>2. /\ runs \in Seq(RunType) /\ worktrees \subseteq RunIds
      /\ result \in [Workers -> Result]
  BY DEF TypeOK
<1>3. /\ pc' = [pc EXCEPT ![w] = "classifying"]
      /\ seen' = [seen EXCEPT ![w] = frontier]
      /\ UNCHANGED <<tables, job, result, patch, env>>
  BY DEF SignalClassify
<1>4. Touched(r) /\ Len(runs') = Len(runs)
  BY <1>2, <1>3, SameTouches DEF tables
<1>5. runs[r].reports <= 1
  BY <1>1, <1>2, RunRow DEF SignalClassify, ReportAmbiguous
<1> QED
  BY <1>1, <1>2, <1>3, <1>4, <1>5 DEF Proceeds, tables

\* signal_classify counts its run and hands over to recommend, or is refused.
LEMMA SignalEffect ==
    ASSUME TypeOK, Held, NEW w \in Workers, SignalCommit(w)
    PROVE  ReturnsSome(w) /\ UNCHANGED env
<1> DEFINE r == RunOf(w)
           crowded == \E v \in Workers \ {w} : pc[v] = "classifying"
<1>1. /\ pc[w] = "classifying" /\ jobs[job[w]].op = "signal_classify"
      /\ job[w] \in JobIds /\ r \in RunIds
  BY BusyHolds DEF SignalCommit, Held, HeldBy
<1>2. /\ runs \in Seq(RunType) /\ jobs \in Seq(JobType)
      /\ worktrees \subseteq RunIds /\ result \in [Workers -> Result]
  BY DEF TypeOK
<1>5. r \in Nat
  BY <1>1 DEF RunIds
<1>3. CASE /\ frontier' = seen[w] + 1
           /\ runs' = [runs EXCEPT ![r].signal = TRUE, ![r].overlapped = @ \/ crowded]
           /\ Enqueue("recommend", r, FALSE)
           /\ Return(w, "success", "none")
           /\ UNCHANGED worktrees
  <2> DEFINE row == [runs[r] EXCEPT !.signal = TRUE, !.overlapped = @ \/ crowded]
  <2>10. runs[r] \in RunType /\ (runs[r].overlapped \/ crowded) \in BOOLEAN
    BY <1>1, <1>2, RunRow
  <2>11. Classifying # {w} => crowded
    BY <1>1 DEF Classifying
  <2> HIDE DEF crowded
  <2>1. /\ row \in RunType /\ row.parent = runs[r].parent
        /\ row.reports = runs[r].reports
        /\ row.overlapped = (runs[r].overlapped \/ crowded)
        /\ row.signal = TRUE /\ row.status = runs[r].status
    BY <2>10 DEF RunType
  <2>2. runs' = [runs EXCEPT ![r] = row]
    BY <1>3
  <2>3. row.reports >= runs[r].reports
    BY <1>1, <1>2, <2>1, RunRow
  <2> HIDE DEF row
  <2>12. /\ row.signal /\ runs[r].overlapped => row.overlapped
         /\ Classifying # {w} => row.overlapped
    BY <2>1, <2>11, Zenon
  <2>4. Touched(r) /\ Len(runs') = Len(runs) /\ runs'[r] = row
    BY <1>1, <1>2, <2>1, <2>2, <2>3, <2>12, WriteTouches, ZenonT(40)
  <2>5. Hands(jobs[job[w]].op, "success", "none", "recommend")
    BY <1>1 DEF Hands
  <2>6. Added("recommend", r, FALSE)
    BY <1>2, <1>5, <1>3, EnqueueAdds DEF Operators
  <2>7. Returns(w, "success", "none", "recommend", r, FALSE)
    BY <1>1, <1>3, <2>1, <2>4, <2>6, <2>12, <2>5 DEF Returns, Return, ExecutionOps
  <2>8. ReturnsSome(w)
    BY <1>5, <2>7 DEF ReturnsSome, Operators, CycleStatus
  <2> QED
    BY <1>3, <2>8 DEF Return
<1>4. CASE /\ Return(w, "failure", "none")
           /\ UNCHANGED <<runs, jobs, frontier, worktrees>>
  <2>4. Touched(r) /\ Len(runs') = Len(runs) /\ runs'[r] = runs[r]
    BY <1>2, <1>4, SameTouches
  <2>5. Hands(jobs[job[w]].op, "failure", "none", "none")
    BY <1>1 DEF Hands
  <2>7. Returns(w, "failure", "none", "none", r, FALSE)
    BY <1>1, <1>4, <1>2, <2>4, <2>5 DEF Returns, Return, ExecutionOps
  <2>8. ReturnsSome(w)
    BY <1>5, <2>7 DEF ReturnsSome, Operators, CycleStatus
  <2> QED
    BY <1>4, <2>8 DEF Return
<1> QED
  BY <1>3, <1>4 DEF SignalCommit

\* recommend writes its recommendation and asks for reporting.
LEMMA RecommendEffect ==
    ASSUME TypeOK, Held, NEW w \in Workers, Recommend(w)
    PROVE  ReturnsSome(w) /\ UNCHANGED env
<1> DEFINE r == RunOf(w)
<1>1. /\ pc[w] = "executing" /\ jobs[job[w]].op = "recommend"
      /\ job[w] \in JobIds /\ r \in RunIds
  BY BusyHolds DEF Recommend, Executing
<1>2. /\ runs \in Seq(RunType) /\ jobs \in Seq(JobType)
      /\ worktrees \subseteq RunIds /\ result \in [Workers -> Result]
  BY DEF TypeOK
<1>5. r \in Nat
  BY <1>1 DEF RunIds
<1>4. Advice(r, jobs[job[w]].flag) \in {"exhausted", "resolved", "by_signal"}
  <2>1. jobs[job[w]].flag \in BOOLEAN
    BY <1>1, <1>2, JobRow
  <2> QED
    BY <2>1 DEF Advice
<1>3. CASE /\ runs' = [runs EXCEPT ![r].recommendation = Advice(r, jobs[job[w]].flag)]
           /\ Return(w, "success", "reporting")
           /\ UNCHANGED <<jobs, worktrees, frontier>>
  <2> DEFINE row == [runs[r] EXCEPT !.recommendation = Advice(r, jobs[job[w]].flag)]
  <2>1. /\ row \in RunType /\ row.parent = runs[r].parent
        /\ row.reports = runs[r].reports
        /\ row.overlapped = runs[r].overlapped
        /\ row.signal = runs[r].signal
        /\ row.status = runs[r].status
    BY <1>1, <1>2, <1>4, RunRow, ZenonT(40) DEF RunType, RunStatus
  <2>2. runs' = [runs EXCEPT ![r] = row]
    BY <1>3
  <2>3. row.reports >= runs[r].reports
    BY <1>1, <1>2, <2>1, RunRow
  <2> HIDE DEF row
  <2>4. Touched(r) /\ Len(runs') = Len(runs) /\ runs'[r] = row
    BY <1>1, <1>2, <2>1, <2>2, <2>3, WriteTouches, ZenonT(40)
  <2>5. Hands(jobs[job[w]].op, "success", "reporting", "none")
    BY <1>1 DEF Hands
  <2>7. Returns(w, "success", "reporting", "none", r, FALSE)
    BY <1>1, <1>3, <2>1, <2>4, <2>5 DEF Returns, Return, ExecutionOps
  <2>8. ReturnsSome(w)
    BY <1>5, <2>7 DEF ReturnsSome, Operators, CycleStatus
  <2> QED
    BY <1>3, <2>8 DEF Return
<1> QED
  BY <1>3 DEF Recommend

\* An operator raises: a failed result, and nothing is written.
LEMMA RaisesEffect ==
    ASSUME TypeOK, Held, NEW w \in Workers, OperatorRaises(w)
    PROVE  ReturnsSome(w) /\ UNCHANGED <<api, requests, scenario>> /\ faults' = faults + 1
<1> DEFINE r == RunOf(w)
<1>1. /\ pc[w] \in {"executing", "building", "stopped", "classifying"}
      /\ job[w] \in JobIds /\ r \in RunIds
  BY BusyHolds DEF OperatorRaises
<1>2. /\ runs \in Seq(RunType) /\ jobs \in Seq(JobType)
      /\ worktrees \subseteq RunIds /\ result \in [Workers -> Result]
  BY DEF TypeOK
<1>5. r \in Nat
  BY <1>1 DEF RunIds
<1>3. /\ UNCHANGED <<runs, jobs, worktrees, frontier, cycle, spec_status, job, patch>>
      /\ pc' = [pc EXCEPT ![w] = "finished"]
      /\ result' = [result EXCEPT ![w] = "failure"]
      /\ seen' = [seen EXCEPT ![w] = 0]
      /\ UNCHANGED <<api, requests, scenario>> /\ faults' = faults + 1
  BY DEF OperatorRaises, tables
<1>4. patch' = [patch EXCEPT ![w] = "none"]
  BY <1>1, <1>3 DEF Held, HeldBy, TypeOK
<1>6. Touched(r) /\ Len(runs') = Len(runs) /\ runs'[r] = runs[r]
  BY <1>2, <1>3, SameTouches
<1>7. Hands(jobs[job[w]].op, "failure", "none", "none")
  BY DEF Hands
<1>8. Returns(w, "failure", "none", "none", r, FALSE)
  BY <1>1, <1>3, <1>4, <1>6, <1>7 DEF Returns, ExecutionOps
<1>9. ReturnsSome(w)
  BY <1>5, <1>8 DEF ReturnsSome
<1> QED
  BY <1>3, <1>9

\* Every operator step goes on within its job or returns.
LEMMA OperatorStepEffect ==
    ASSUME TypeOK, Held, NEW w \in Workers, OperatorStep(w)
    PROVE  \/ \E p \in {"building", "container", "stopped", "classifying"} : Proceeds(w, p)
           \/ ReturnsSome(w) /\ UNCHANGED env
BY SetupWorktreeEffect, SetupCommitEffect, RunContainerEffect, ContainerStopsEffect,
   RunCommitEffect, CaptureEffect, CheckEffect, GiveUpEffect, CreateRetryEffect,
   AmbiguousEffect, PostmortemEffect, SkipEffect, ReadEffect, SignalEffect,
   RecommendEffect, Zenon
DEF OperatorStep

\* A waiting job is claimed.
Claims(w, j) ==
    /\ pc[w] = "idle" /\ jobs[j].status = "pending"
    /\ StatusSet(j, "claimed")
    /\ pc' = [pc EXCEPT ![w] = "claimed"]
    /\ job' = [job EXCEPT ![w] = j]
    /\ UNCHANGED <<cycle, spec_status, runs, worktrees, frontier, result, patch, seen, env>>

\* claim_job takes one waiting job.
LEMMA ClaimEffect ==
    ASSUME TypeOK, NEW w \in Workers, ClaimJob(w)
    PROVE  \E j \in JobIds : Claims(w, j)
<1>1. PICK j \in JobIds : /\ jobs[j].status = "pending"
                          /\ jobs' = SetJob(j, "claimed")
                          /\ job' = [job EXCEPT ![w] = j]
  BY DEF ClaimJob
<1>2. StatusSet(j, "claimed")
  BY <1>1, SetJobSets DEF TypeOK, JobStatus
<1> QED
  BY <1>1, <1>2 DEF Claims, ClaimJob

\* A claimed job is started.
Starts(w) ==
    /\ pc[w] = "claimed"
    /\ StatusSet(job[w], "running")
    /\ pc' = [pc EXCEPT ![w] = "executing"]
    /\ UNCHANGED <<cycle, spec_status, runs, worktrees, frontier, job, result, patch, seen, env>>

\* start_job starts the job the worker holds.
LEMMA StartEffect ==
    ASSUME TypeOK, Held, NEW w \in Workers, StartJob(w)
    PROVE  Starts(w)
<1>1. job[w] \in JobIds
  BY BusyHolds DEF StartJob
<1>2. StatusSet(job[w], "running")
  BY <1>1, SetJobSets DEF TypeOK, JobStatus, StartJob
<1> QED
  BY <1>2 DEF Starts, StartJob

\* The outcome of w's job is persisted, dropped with a cancelled job, or refused.
Settles(w) ==
    /\ pc[w] = "finished"
    /\ Release(w)
    /\ Touched(RunOf(w)) /\ Len(runs') = Len(runs)
    /\ runs'[RunOf(w)].reports = runs[RunOf(w)].reports
    /\ runs'[RunOf(w)].signal = runs[RunOf(w)].signal
    /\ runs'[RunOf(w)].status \in {runs[RunOf(w)].status, "failed"}
    /\ UNCHANGED <<spec_status, worktrees, frontier, env>>
    /\ \/ /\ \E s \in {"paused", "completed", "failed"} :
                /\ StatusSet(job[w], s)
                /\ s = "paused" => jobs[job[w]].status = "paused"
          /\ PatchAllowed(w)
          /\ cycle' = IF patch[w] = "none" THEN cycle ELSE patch[w]
       \/ /\ jobs' = jobs /\ cycle' = cycle
          /\ jobs[job[w]].status = "cancelled" \/ ~PatchAllowed(w)

\* Each way of settling a job settles it.
LEMMA SettleEffect ==
    ASSUME TypeOK, Held, NEW w \in Workers, SettleStep(w)
    PROVE  Settles(w)
<1> DEFINE r == RunOf(w)
<1>1. pc[w] = "finished" /\ Release(w) /\ job[w] \in JobIds /\ r \in RunIds
  BY BusyHolds DEF SettleStep, AcknowledgeCancel, SettleSuccess, RejectedPatch, SettleFailure
<1>2. runs \in Seq(RunType) /\ jobs \in Seq(JobType)
  BY DEF TypeOK
<1>3. CASE AcknowledgeCancel(w) \/ RejectedPatch(w)
  <2>1. UNCHANGED <<tables, env>>
    BY <1>3 DEF AcknowledgeCancel, RejectedPatch
  <2>2. Touched(r) /\ Len(runs') = Len(runs) /\ runs'[r] = runs[r]
    BY <1>2, <2>1, SameTouches DEF tables
  <2>3. jobs[job[w]].status = "cancelled" \/ ~PatchAllowed(w)
    BY <1>3 DEF AcknowledgeCancel, RejectedPatch
  <2> QED
    BY <1>1, <2>1, <2>2, <2>3 DEF Settles, tables
<1>4. CASE SettleSuccess(w)
  <2> DEFINE s == IF jobs[job[w]].status = "paused" THEN "paused" ELSE "completed"
  <2>1. /\ runs' = runs /\ jobs' = SetJob(job[w], s) /\ result[w] = "success"
        /\ PatchAllowed(w)
        /\ cycle' = IF patch[w] = "none" THEN cycle ELSE patch[w]
        /\ UNCHANGED <<spec_status, worktrees, frontier, env>>
    BY <1>4 DEF SettleSuccess
  <2>2. Touched(r) /\ Len(runs') = Len(runs) /\ runs'[r] = runs[r]
    BY <1>2, <2>1, SameTouches
  <2>3. s \in JobStatus
    BY DEF JobStatus
  <2>4. StatusSet(job[w], s)
    BY <1>1, <1>2, <2>1, <2>3, SetJobSets
  <2>5. s \in {"paused", "completed", "failed"}
        /\ (s = "paused" => jobs[job[w]].status = "paused")
    OBVIOUS
  <2> HIDE DEF s
  <2> QED
    BY <1>1, <2>1, <2>2, <2>4, <2>5 DEF Settles
<1>5. CASE SettleFailure(w)
  <2> DEFINE st == IF MarksRun(jobs[job[w]].op) /\ runs[r].status \notin {"failed", "cancelled"}
                   THEN "failed" ELSE runs[r].status
             row == [runs[r] EXCEPT !.status = st]
  <2>1. /\ runs' = [runs EXCEPT ![r] = row] /\ jobs' = SetJob(job[w], "failed")
        /\ result[w] = "failure"
        /\ UNCHANGED <<cycle, spec_status, worktrees, frontier, env>>
    BY <1>5 DEF SettleFailure
  <2>2. patch[w] = "none"
    BY <2>1 DEF Held, HeldBy
  <2>3. runs[r] \in RunType /\ st \in RunStatus /\ runs[r].reports \in Nat
    BY <1>1, <1>2, RunRow DEF RunStatus
  <2>4. st \in {runs[r].status, "failed"}
    OBVIOUS
  <2> HIDE DEF st
  <2>5. /\ row \in RunType /\ row.parent = runs[r].parent
        /\ row.reports = runs[r].reports /\ row.reports >= runs[r].reports
        /\ row.overlapped = runs[r].overlapped
        /\ row.signal = runs[r].signal /\ row.status = st
    BY <2>3 DEF RunType
  <2> HIDE DEF row
  <2>6. Touched(r) /\ Len(runs') = Len(runs) /\ runs'[r] = row
    BY <1>1, <1>2, <2>1, <2>5, WriteTouches, ZenonT(40)
  <2>7. StatusSet(job[w], "failed")
    BY <1>1, <1>2, <2>1, SetJobSets DEF JobStatus
  <2>8. PatchAllowed(w)
    BY <2>2 DEF PatchAllowed
  <2>9. cycle' = IF patch[w] = "none" THEN cycle ELSE patch[w]
    BY <2>1, <2>2
  <2> QED
    BY <1>1, <2>1, <2>4, <2>5, <2>6, <2>7, <2>8, <2>9 DEF Settles
<1> QED
  BY <1>3, <1>4, <1>5 DEF SettleStep

\* A job of a dead worker goes back to the queue, or fails.
Reclaims(j) ==
    /\ jobs[j].status \in {"claimed", "running"} /\ Holder(j) = {}
    /\ Restatus
    /\ \A k \in JobIds : k # j => jobs'[k] = jobs[k]
    /\ jobs'[j].status \in {"pending", "failed"}
    /\ jobs'[j].status = "pending" => jobs'[j].reclaims > 0
    /\ UNCHANGED <<cycle, spec_status, runs, worktrees, frontier, worker, env>>

\* reclaim_stale_jobs counts what it puts back.
LEMMA ReclaimEffect ==
    ASSUME TypeOK, NEW j \in JobIds, Reclaim(j)
    PROVE  Reclaims(j)
<1>1. jobs \in Seq(JobType) /\ jobs[j] \in JobType /\ jobs[j].reclaims \in Nat
  BY JobRow DEF TypeOK
<1>2. CASE jobs' = SetJob(j, "failed")
  <2>1. StatusSet(j, "failed")
    BY <1>1, <1>2, SetJobSets DEF JobStatus
  <2> QED
    BY <2>1 DEF Reclaims, StatusSet, Reclaim
<1>3. CASE jobs' = [jobs EXCEPT ![j].status = "pending", ![j].reclaims = @ + 1]
  <2> DEFINE row == [jobs[j] EXCEPT !.status = "pending", !.reclaims = @ + 1]
  <2>1. jobs' = [jobs EXCEPT ![j] = row]
    BY <1>3
  <2>2. jobs[j].reclaims + 1 \in Nat
    BY <1>1
  <2>3. /\ row \in JobType /\ row.op = jobs[j].op /\ row.run = jobs[j].run
        /\ row.flag = jobs[j].flag /\ row.reclaims = jobs[j].reclaims + 1
        /\ row.status = "pending"
    BY <1>1, <2>2 DEF JobType, JobStatus
  <2> HIDE DEF row
  <2>4. jobs' \in Seq(JobType) /\ Len(jobs') = Len(jobs) /\ jobs'[j] = row
    BY <1>1, <2>1, <2>3 DEF JobIds
  <2>5. \A k \in JobIds : k # j => jobs'[k] = jobs[k]
    BY <1>1, <2>1 DEF JobIds
  <2>6. \A k \in JobIds : jobs[k].reclaims \in Nat
    BY <1>1, JobRow
  <2>7. Restatus
    BY <1>1, <2>3, <2>4, <2>5, <2>6 DEF Restatus
  <2>8. jobs'[j].status = "pending" /\ jobs'[j].reclaims > 0
    BY <1>1, <2>3, <2>4
  <2>9. /\ jobs[j].status \in {"claimed", "running"} /\ Holder(j) = {}
        /\ UNCHANGED <<cycle, spec_status, runs, worktrees, frontier, worker, env>>
    BY DEF Reclaim
  <2> QED
    BY <2>5, <2>7, <2>8, <2>9 DEF Reclaims
<1> QED
  BY <1>2, <1>3 DEF Reclaim

-----------------------------------------------------------------------------
(* The effects of the requests. *)

\* A request is read.
Asks(q) ==
    /\ q \in RequestType
    /\ api' = api \cup {q}
    /\ requests < MaxRequests /\ requests' = requests + 1
    /\ UNCHANGED <<tables, worker, faults, scenario>>
    /\ q.op = "start" => q.saw = {cycle}
    /\ q.op # "start" => q.target \in RunIds

\* What a user asks for is a request of its type.
LEMMA RequestEffect ==
    ASSUME TypeOK,
           \/ \E s \in Specs : StartRequested(s)
           \/ \E op \in ControlOps, r \in RunIds : ControlRequested(op, r)
    PROVE  \E q : Asks(q)
<1>1. requests \in Nat /\ cycle \in CycleStatus
  BY PipelineAssumption DEF TypeOK
<1>2. ASSUME NEW s \in Specs, StartRequested(s)
      PROVE  \E q : Asks(q)
  <2> DEFINE q == [id |-> requests, op |-> "start", target |-> s, saw |-> {cycle}]
  <2>1. q \in RequestType
    BY <1>1 DEF RequestType
  <2>2. Asks(q)
    BY <1>2, <2>1 DEF Asks, StartRequested, Request
  <2> QED
    BY <2>2
<1>3. ASSUME NEW op \in ControlOps, NEW r \in RunIds, ControlRequested(op, r)
      PROVE  \E q : Asks(q)
  <2> DEFINE saw == {t \in {"workspace", "container"} :
                            \/ t = "workspace" /\ runs[r].workspace
                            \/ t = "container" /\ runs[r].container # "none"}
             q == [id |-> requests, op |-> op, target |-> r, saw |-> saw]
  <2>1. saw \in SUBSET {"workspace", "container"}
    OBVIOUS
  <2>2. Request(op, r, saw)
    BY <1>3 DEF ControlRequested
  <2> HIDE DEF saw
  <2>3. q \in RequestType
    BY <1>1, <2>1 DEF RequestType
  <2>4. op # "start"
    BY PipelineAssumption
  <2>5. Asks(q)
    BY <2>2, <2>3, <2>4 DEF Asks, Request
  <2> QED
    BY <2>5
<1> QED
  BY <1>2, <1>3

\* A run is created, with its setup in the queue.
Creates(q) ==
    /\ q.op \in {"start", "retry"}
    /\ api' = api \ {q}
    /\ cycle' \in CycleStatus
    /\ q.op = "start" /\ "protocol_ready" \in q.saw => cycle' = "running"
    /\ spec_status' \in [Specs -> {"validated", "executing"}]
    /\ Touched(0) /\ Len(runs') = Len(runs) + 1
    /\ Added("execution_setup", Len(runs) + 1, FALSE)
    /\ UNCHANGED <<requests, faults, scenario, worker, frontier, worktrees>>

\* start_run and the retry of control_run create a run.
LEMMA CreateEffect ==
    ASSUME TypeOK, NEW q \in api, StartCommits(q) \/ RetryCommits(q)
    PROVE  Creates(q)
<1>1. /\ runs \in Seq(RunType) /\ jobs \in Seq(JobType) /\ cycle \in CycleStatus
      /\ spec_status \in [Specs -> {"validated", "executing"}] /\ q \in RequestType
  BY DEF TypeOK
<1>2. Len(runs) \in Nat /\ Len(runs) + 1 \in Nat
  BY <1>1
<1>3. /\ runs' = Append(runs, NewRun(0))
      /\ Enqueue("execution_setup", Len(runs) + 1, FALSE)
      /\ Commit(q) /\ UNCHANGED worktrees
  BY DEF StartCommits, RetryCommits
<1>4. Rewritten(runs, 0)
  BY <1>1 DEF Rewritten, RunIds
<1>5. Touched(0) /\ Len(runs') = Len(runs) + 1
  BY <1>1, <1>2, <1>3, <1>4, NewRunTouches
<1>6. Added("execution_setup", Len(runs) + 1, FALSE)
  BY <1>1, <1>2, <1>3, EnqueueAdds, Zenon DEF Operators
<1>7. CASE StartCommits(q)
  <2>1. q.op = "start" /\ cycle' = IF "protocol_ready" \in q.saw THEN "running" ELSE cycle
    BY <1>7 DEF StartCommits
  <2>3. spec_status' = [spec_status EXCEPT ![q.target] = "executing"]
    BY <1>7 DEF StartCommits
  <2>4. spec_status' \in [Specs -> {"validated", "executing"}]
    BY <1>1, <2>3
  <2> QED
    BY <1>1, <1>3, <1>5, <1>6, <2>1, <2>4 DEF Creates, Commit, CycleStatus
<1>8. CASE RetryCommits(q)
  <2>1. q.op = "retry" /\ cycle' = "running" /\ spec_status' = spec_status
    BY <1>8 DEF RetryCommits
  <2> QED
    BY <1>1, <1>3, <1>5, <1>6, <2>1 DEF Creates, Commit, CycleStatus
<1> QED
  BY <1>7, <1>8

\* A run and its jobs are cancelled or paused.
Withdraws(q, from, s) ==
    /\ q.target \in RunIds /\ api' = api \ {q}
    /\ Touched(q.target) /\ Len(runs') = Len(runs)
    /\ runs'[q.target].status = s
    /\ runs'[q.target].reports = runs[q.target].reports
    /\ runs'[q.target].signal = runs[q.target].signal
    /\ Restatus
    /\ \A k \in JobIds :
          /\ jobs'[k].reclaims = jobs[k].reclaims
          /\ jobs'[k].status = IF jobs[k].run = q.target /\ jobs[k].status \in from
                               THEN s ELSE jobs[k].status
    /\ worktrees' \subseteq worktrees
    /\ UNCHANGED <<cycle, spec_status, requests, faults, scenario, worker, frontier>>

\* The target of a control request is a run.
LEMMA ControlTarget ==
    ASSUME TypeOK, NEW q \in api, q.op # "start"
    PROVE  q.target \in RunIds
<1>1. q \in RequestType
  BY DEF TypeOK
<1> QED
  BY <1>1 DEF RequestType

\* A control action on a run's jobs.
LEMMA SetJobsOfSets ==
    ASSUME jobs \in Seq(JobType), NEW r, NEW from, NEW s \in JobStatus,
           SetJobsOf(r, from, s)
    PROVE  /\ Restatus
           /\ \A k \in JobIds :
                /\ jobs'[k].reclaims = jobs[k].reclaims
                /\ jobs'[k].status = IF jobs[k].run = r /\ jobs[k].status \in from
                                     THEN s ELSE jobs[k].status
<1> DEFINE row(j) == IF jobs[j].run = r /\ jobs[j].status \in from
                     THEN [jobs[j] EXCEPT !.status = s] ELSE jobs[j]
<1>1. jobs' = [j \in 1..Len(jobs) |-> row(j)]
  BY DEF SetJobsOf, JobIds
<1>2. \A j \in JobIds : /\ row(j) \in JobType
                        /\ row(j).op = jobs[j].op /\ row(j).run = jobs[j].run
                        /\ row(j).flag = jobs[j].flag
                        /\ row(j).reclaims = jobs[j].reclaims
                        /\ jobs[j].reclaims \in Nat
                        /\ row(j).status =
                              IF jobs[j].run = r /\ jobs[j].status \in from
                              THEN s ELSE jobs[j].status
  <2> TAKE j \in JobIds
  <2>1. jobs[j] \in JobType
    BY JobRow
  <2> QED
    BY <2>1 DEF JobType
<1> HIDE DEF row
<1>3. Len(jobs) \in Nat
  OBVIOUS
<1>4. jobs' \in Seq(JobType) /\ Len(jobs') = Len(jobs)
  BY <1>1, <1>2, <1>3 DEF JobIds
<1>5. \A k \in JobIds : jobs'[k] = row(k)
  BY <1>1 DEF JobIds
<1> QED
  BY <1>2, <1>4, <1>5 DEF Restatus

\* control_run's cancel.
LEMMA CancelEffect ==
    ASSUME TypeOK, NEW q \in api, CancelCommits(q)
    PROVE  Withdraws(q, {"pending", "claimed", "running", "paused"}, "cancelled")
<1> DEFINE r == q.target
           row == [runs[r] EXCEPT !.status = "cancelled",
                      !.container = IF "container" \in q.saw THEN "gone" ELSE @]
<1>1. r \in RunIds /\ runs \in Seq(RunType) /\ jobs \in Seq(JobType)
  BY ControlTarget DEF CancelCommits, TypeOK
<1>2. /\ row \in RunType /\ row.parent = runs[r].parent
      /\ row.overlapped = runs[r].overlapped
      /\ row.reports = runs[r].reports /\ row.signal = runs[r].signal
      /\ row.status = "cancelled"
  <2>1. runs[r] \in RunType
    BY <1>1, RunRow
  <2> QED
    BY <2>1 DEF RunType, RunStatus
<1>3. runs' = [runs EXCEPT ![r] = row]
  BY DEF CancelCommits
<1>4. row.reports >= runs[r].reports
  BY <1>1, <1>2, RunRow
<1> HIDE DEF row
<1>5. Touched(r) /\ Len(runs') = Len(runs) /\ runs'[r] = row
  BY <1>1, <1>2, <1>3, <1>4, WriteTouches, ZenonT(40)
<1>6. SetJobsOf(r, {"pending", "claimed", "running", "paused"}, "cancelled")
  BY DEF CancelCommits
<1>7. /\ Restatus
      /\ \A k \in JobIds :
           /\ jobs'[k].reclaims = jobs[k].reclaims
           /\ jobs'[k].status =
                IF jobs[k].run = r /\ jobs[k].status \in {"pending", "claimed", "running", "paused"}
                THEN "cancelled" ELSE jobs[k].status
  BY <1>1, <1>6, SetJobsOfSets DEF JobStatus
<1> QED
  BY <1>1, <1>2, <1>5, <1>7 DEF Withdraws, CancelCommits, Commit

\* control_run's pause.
LEMMA PauseEffect ==
    ASSUME TypeOK, NEW q \in api, PauseCommits(q)
    PROVE  Withdraws(q, {"claimed", "running"}, "paused")
<1> DEFINE r == q.target
           row == [runs[r] EXCEPT !.status = "paused"]
<1>1. r \in RunIds /\ runs \in Seq(RunType) /\ jobs \in Seq(JobType)
  BY ControlTarget DEF PauseCommits, TypeOK
<1>2. /\ row \in RunType /\ row.parent = runs[r].parent
      /\ row.overlapped = runs[r].overlapped
      /\ row.reports = runs[r].reports /\ row.signal = runs[r].signal
      /\ row.status = "paused"
  <2>1. runs[r] \in RunType
    BY <1>1, RunRow
  <2> QED
    BY <2>1 DEF RunType, RunStatus
<1>3. runs' = [runs EXCEPT ![r] = row]
  BY DEF PauseCommits
<1>4. row.reports >= runs[r].reports
  BY <1>1, <1>2, RunRow
<1> HIDE DEF row
<1>5. Touched(r) /\ Len(runs') = Len(runs) /\ runs'[r] = row
  BY <1>1, <1>2, <1>3, <1>4, WriteTouches, ZenonT(40)
<1>6. SetJobsOf(r, {"claimed", "running"}, "paused")
  BY DEF PauseCommits
<1>7. /\ Restatus
      /\ \A k \in JobIds :
           /\ jobs'[k].reclaims = jobs[k].reclaims
           /\ jobs'[k].status =
                IF jobs[k].run = r /\ jobs[k].status \in {"claimed", "running"}
                THEN "paused" ELSE jobs[k].status
  BY <1>1, <1>6, SetJobsOfSets DEF JobStatus
<1> QED
  BY <1>1, <1>2, <1>5, <1>7 DEF Withdraws, PauseCommits, Commit

\* A run is resumed, by a second execution job.
Resumes(q) ==
    /\ q.op = "resume" /\ q.target \in RunIds /\ api' = api \ {q}
    /\ Touched(q.target) /\ Len(runs') = Len(runs)
    /\ runs'[q.target].status = "running"
    /\ runs'[q.target].reports = runs[q.target].reports
    /\ runs'[q.target].signal = runs[q.target].signal
    /\ Added("execution_run", q.target, TRUE)
    /\ cycle' = "running"
    /\ UNCHANGED <<spec_status, worktrees, requests, faults, scenario, worker, frontier>>

\* control_run's resume.
LEMMA ResumeEffect ==
    ASSUME TypeOK, NEW q \in api, ResumeCommits(q)
    PROVE  Resumes(q)
<1> DEFINE r == q.target
           row == [runs[r] EXCEPT !.status = "running"]
<1>1. r \in RunIds /\ runs \in Seq(RunType) /\ jobs \in Seq(JobType) /\ r \in Nat
  BY ControlTarget DEF ResumeCommits, TypeOK, RunIds
<1>2. /\ row \in RunType /\ row.parent = runs[r].parent
      /\ row.overlapped = runs[r].overlapped
      /\ row.reports = runs[r].reports /\ row.signal = runs[r].signal
      /\ row.status = "running"
  <2>1. runs[r] \in RunType
    BY <1>1, RunRow
  <2> QED
    BY <2>1 DEF RunType, RunStatus
<1>3. runs' = [runs EXCEPT ![r] = row]
  BY DEF ResumeCommits
<1>4. row.reports >= runs[r].reports
  BY <1>1, <1>2, RunRow
<1> HIDE DEF row
<1>5. Touched(r) /\ Len(runs') = Len(runs) /\ runs'[r] = row
  BY <1>1, <1>2, <1>3, <1>4, WriteTouches, ZenonT(40)
<1>6. Enqueue("execution_run", r, TRUE)
  BY DEF ResumeCommits
<1>7. Added("execution_run", r, TRUE)
  BY <1>1, <1>6, EnqueueAdds DEF Operators
<1> QED
  BY <1>1, <1>2, <1>5, <1>7 DEF Resumes, ResumeCommits, Commit

-----------------------------------------------------------------------------
(* Types, and who holds which job. *)

\* What no step does to a job: forget what it is about, or put it back into the
\* queue while a worker holds it.
JobsMove ==
    /\ jobs' \in Seq(JobType) /\ Len(jobs') >= Len(jobs)
    /\ \A k \in JobIds : /\ jobs'[k].op = jobs[k].op /\ jobs'[k].run = jobs[k].run
                         /\ jobs'[k].flag = jobs[k].flag
                         /\ jobs'[k].reclaims >= jobs[k].reclaims
    /\ \A k \in JobIds' : k \notin JobIds => jobs'[k].run \in RunIds'
    /\ \A k \in JobIds : jobs'[k].status = "pending" =>
          jobs[k].status = "pending" \/ Holder(k) = {}

\* An added job.
LEMMA AddedMoves ==
    ASSUME jobs \in Seq(JobType), NEW op, NEW r \in RunIds', NEW flag, Added(op, r, flag)
    PROVE  JobsMove
<1>1. /\ jobs' \in Seq(JobType) /\ Len(jobs') = Len(jobs) + 1 /\ Len(jobs) \in Nat
      /\ \A k \in JobIds : jobs'[k] = jobs[k]
      /\ jobs'[Len(jobs) + 1].run = r
  BY DEF Added, NewJob
<1>2. \A k \in JobIds' : k \notin JobIds => k = Len(jobs) + 1
  BY <1>1 DEF JobIds
<1>3. \A k \in JobIds : jobs[k].reclaims \in Nat
  BY JobRow
<1> QED
  BY <1>1, <1>2, <1>3 DEF JobsMove

\* Jobs whose status changes.
LEMMA RestatusMoves ==
    ASSUME jobs \in Seq(JobType), Restatus,
           \A k \in JobIds : jobs'[k].status = "pending" =>
                jobs[k].status = "pending" \/ Holder(k) = {}
    PROVE  JobsMove
<1>1. JobIds' = JobIds
  BY DEF Restatus, JobIds
<1>2. Len(jobs) \in Nat
  OBVIOUS
<1> QED
  BY <1>1, <1>2 DEF Restatus, JobsMove

\* Jobs that are left alone.
LEMMA SameMoves ==
    ASSUME jobs \in Seq(JobType), jobs' = jobs
    PROVE  JobsMove
<1>1. JobIds' = JobIds
  BY DEF JobIds
<1>2. Len(jobs) \in Nat
  OBVIOUS
<1>3. \A k \in JobIds : jobs[k].reclaims \in Nat
  BY JobRow
<1> QED
  BY <1>1, <1>2, <1>3 DEF JobsMove

\* The rows keep their types, and so do the requests under way.
LEMMA RowsStay ==
    ASSUME TypeOK, NEW r, Touched(r), JobsMove
    PROVE  /\ runs' \in Seq(RunType) /\ \A k \in RunIds' : runs'[k].parent < k
           /\ jobs' \in Seq(JobType) /\ \A k \in JobIds' : jobs'[k].run \in RunIds'
           /\ RunIds \subseteq RunIds' /\ JobIds \subseteq JobIds'
           /\ RequestType \subseteq RequestType'
<1>1. /\ runs \in Seq(RunType) /\ \A k \in RunIds : runs[k].parent < k
      /\ jobs \in Seq(JobType) /\ \A k \in JobIds : jobs[k].run \in RunIds
  BY DEF TypeOK
<1>2. runs' \in Seq(RunType) /\ jobs' \in Seq(JobType)
  BY DEF Touched, JobsMove
<1>3. /\ Len(runs) \in Nat /\ Len(runs') \in Nat /\ Len(runs') >= Len(runs)
      /\ Len(jobs) \in Nat /\ Len(jobs') \in Nat /\ Len(jobs') >= Len(jobs)
  BY <1>1, <1>2 DEF Touched, JobsMove
<1>4. RunIds \subseteq RunIds' /\ JobIds \subseteq JobIds'
  BY <1>3 DEF RunIds, JobIds
<1>5. \A k \in RunIds' : runs'[k].parent < k
  <2> TAKE k \in RunIds'
  <2>1. CASE k \in RunIds
    <3>1. runs'[k].parent = runs[k].parent
      BY <2>1 DEF Touched
    <3> QED
      BY <1>1, <2>1, <3>1
  <2>2. CASE k \notin RunIds
    BY <2>2 DEF Touched
  <2> QED
    BY <2>1, <2>2
<1>6. \A k \in JobIds' : jobs'[k].run \in RunIds'
  <2> TAKE k \in JobIds'
  <2>1. CASE k \in JobIds
    <3>1. jobs'[k].run = jobs[k].run
      BY <2>1 DEF JobsMove
    <3> QED
      BY <1>1, <1>4, <2>1, <3>1
  <2>2. CASE k \notin JobIds
    BY <2>2 DEF JobsMove
  <2> QED
    BY <2>1, <2>2
<1>7. RequestType \subseteq RequestType'
  BY <1>4 DEF RequestType
<1> QED
  BY <1>2, <1>4, <1>5, <1>6, <1>7

\* Only worker w moves.
Moves(w) ==
    /\ pc' \in [Workers -> Phase]
    /\ job' \in [Workers -> 0..Len(jobs')]
    /\ result' \in [Workers -> Result]
    /\ patch' \in [Workers -> CycleStatus \cup {"none"}]
    /\ seen' \in [Workers -> Nat]
    /\ \A v \in Workers : v # w =>
          /\ pc'[v] = pc[v] /\ job'[v] = job[v]
          /\ result'[v] = result[v] /\ patch'[v] = patch[v]
          /\ seen'[v] = seen[v]

\* When one worker moves, the others still hold what they held.
LEMMA HeldStays ==
    ASSUME TypeOK, Held, NEW w \in Workers, Moves(w), JobsMove, scenario' = scenario,
           HeldBy(w)', job'[w] \in {0, job[w]} \/ Holder(job'[w]) = {}
    PROVE  Held'
<1>1. \A v \in Workers : job[v] # 0 => job[v] \in JobIds
  BY DEF TypeOK, JobIds
<1>2. ASSUME NEW v \in Workers, v # w
      PROVE  HeldBy(v)'
  <2>1. /\ pc'[v] = pc[v] /\ job'[v] = job[v]
        /\ result'[v] = result[v] /\ patch'[v] = patch[v]
    BY <1>2 DEF Moves
  <2>2. HeldBy(v)
    BY DEF Held
  <2>3. CASE job[v] = 0
    <3>1. pc[v] = "idle" /\ patch[v] = "none"
      BY <2>2, <2>3 DEF HeldBy
    <3> QED
      BY <2>1, <2>3, <3>1 DEF HeldBy
  <2>4. CASE job[v] # 0
    <3>1. jobs'[job[v]].op = jobs[job[v]].op
      BY <1>1, <2>4 DEF JobsMove
    <3>2. v \in Holder(job[v])
      BY DEF Holder
    <3>3. jobs'[job[v]].status # "pending"
      BY <1>1, <2>2, <2>4, <3>2 DEF JobsMove, HeldBy
    <3> QED
      BY <2>1, <2>2, <2>4, <3>1, <3>3 DEF HeldBy
  <2> QED
    BY <2>3, <2>4
<1>3. OneHolder'
  <2> SUFFICES ASSUME NEW u \in Workers, NEW v \in Workers,
                      job'[u] = job'[v], job'[u] # 0
               PROVE  u = v
    BY DEF OneHolder
  <2>1. \A x \in Workers : x # w => job'[x] = job[x]
    BY DEF Moves
  <2>2. \A x, y \in Workers : job[x] = job[y] /\ job[x] # 0 => x = y
    BY DEF Held, OneHolder
  <2>3. \A x \in Workers : x # w /\ job'[x] = job'[w] => x \in Holder(job'[w])
    BY <2>1 DEF Holder
  <2> QED
    BY <2>1, <2>2, <2>3
<1> QED
  BY <1>2, <1>3 DEF Held

\* When no worker moves, all hold what they held.
LEMMA HeldStill ==
    ASSUME TypeOK, Held, UNCHANGED worker, JobsMove, scenario' = scenario
    PROVE  Held'
<1>1. \A v \in Workers : job[v] # 0 => job[v] \in JobIds
  BY DEF TypeOK, JobIds
<1>2. ASSUME NEW v \in Workers
      PROVE  HeldBy(v)'
  <2>1. /\ pc'[v] = pc[v] /\ job'[v] = job[v]
        /\ result'[v] = result[v] /\ patch'[v] = patch[v]
    BY DEF worker
  <2>2. HeldBy(v)
    BY DEF Held
  <2>3. CASE job[v] = 0
    <3>1. pc[v] = "idle" /\ patch[v] = "none"
      BY <2>2, <2>3 DEF HeldBy
    <3> QED
      BY <2>1, <2>3, <3>1 DEF HeldBy
  <2>4. CASE job[v] # 0
    <3>1. jobs'[job[v]].op = jobs[job[v]].op
      BY <1>1, <2>4 DEF JobsMove
    <3>2. v \in Holder(job[v])
      BY DEF Holder
    <3>3. jobs'[job[v]].status # "pending"
      BY <1>1, <2>2, <2>4, <3>2 DEF JobsMove, HeldBy
    <3> QED
      BY <2>1, <2>2, <2>4, <3>1, <3>3 DEF HeldBy
  <2> QED
    BY <2>3, <2>4
<1>3. OneHolder'
  BY DEF OneHolder, Held, worker
<1> QED
  BY <1>2, <1>3 DEF Held

\* A claim keeps types and holders.
LEMMA ClaimTyped ==
    ASSUME TypeOK, Held, NEW w \in Workers, w \in scenario.crew,
           NEW j \in JobIds, Claims(w, j)
    PROVE  TypeOK' /\ Held' /\ JobsMove
<1>1. /\ jobs \in Seq(JobType) /\ runs \in Seq(RunType)
      /\ pc[w] = "idle" /\ jobs[j].status = "pending" /\ StatusSet(j, "claimed")
      /\ pc' = [pc EXCEPT ![w] = "claimed"] /\ job' = [job EXCEPT ![w] = j]
      /\ UNCHANGED <<cycle, spec_status, runs, worktrees, frontier, result, patch, seen, env>>
  BY DEF Claims, TypeOK
<1>2. JobsMove
  <2>1. \A k \in JobIds : jobs'[k].status = "pending" => jobs[k].status = "pending"
    BY <1>1 DEF StatusSet
  <2> QED
    BY <1>1, <2>1, RestatusMoves DEF StatusSet
<1>3. Touched(0)
  BY <1>1, SameTouches
<1>4. Moves(w)
  <2>1. Len(jobs') = Len(jobs) /\ j \in 0..Len(jobs)
    BY <1>1 DEF StatusSet, Restatus, JobIds
  <2> QED
    BY <1>1, <2>1 DEF Moves, TypeOK, Phase
<1>5. Holder(j) = {}
  BY <1>1 DEF Held, HeldBy, Holder, JobIds
<1>6. HeldBy(w)'
  <2>1. patch'[w] = "none" /\ pc'[w] = "claimed" /\ job'[w] = j
    BY <1>1 DEF Held, HeldBy, TypeOK
  <2>2. jobs'[j].status = "claimed" /\ j # 0
    BY <1>1 DEF StatusSet, JobIds
  <2> QED
    BY <1>1, <2>1, <2>2 DEF HeldBy, env
<1>7. Held'
  <2>1. job'[w] = j
    BY <1>1 DEF TypeOK
  <2> QED
    BY <1>1, <1>2, <1>4, <1>5, <1>6, <2>1, HeldStays DEF env
<1>8. TypeOK'
  <2>1. RunIds' = RunIds /\ RequestType' = RequestType
    BY <1>1 DEF RunIds, RequestType
  <2> QED
    BY <1>1, <1>2, <1>3, <1>4, <2>1, RowsStay DEF TypeOK, Moves, env
<1> QED
  BY <1>2, <1>7, <1>8

\* A start keeps types and holders.
LEMMA StartTyped ==
    ASSUME TypeOK, Held, NEW w \in Workers, Starts(w)
    PROVE  TypeOK' /\ Held' /\ JobsMove
<1>1. /\ jobs \in Seq(JobType) /\ runs \in Seq(RunType)
      /\ pc[w] = "claimed" /\ StatusSet(job[w], "running")
      /\ pc' = [pc EXCEPT ![w] = "executing"] /\ job' = job
      /\ UNCHANGED <<cycle, spec_status, runs, worktrees, frontier, result, patch, seen, env>>
  BY DEF Starts, TypeOK
<1>0. job[w] \in JobIds
  BY <1>1, BusyHolds
<1>2. JobsMove
  <2>1. \A k \in JobIds : jobs'[k].status = "pending" => jobs[k].status = "pending"
    BY <1>1 DEF StatusSet
  <2> QED
    BY <1>1, <2>1, RestatusMoves DEF StatusSet
<1>3. Touched(0)
  BY <1>1, SameTouches
<1>4. Moves(w)
  <2>1. Len(jobs') = Len(jobs)
    BY <1>1 DEF StatusSet, Restatus
  <2> QED
    BY <1>1, <2>1 DEF Moves, TypeOK, Phase
<1>6. HeldBy(w)'
  <2>1. patch'[w] = "none" /\ pc'[w] = "executing" /\ job'[w] = job[w] /\ job[w] # 0
        /\ w \in scenario.crew
    BY <1>1 DEF Held, HeldBy, TypeOK
  <2>2. jobs'[job[w]].status = "running"
    BY <1>1 DEF StatusSet
  <2> QED
    BY <1>1, <2>1, <2>2 DEF HeldBy, env
<1>7. Held'
  BY <1>1, <1>2, <1>4, <1>6, HeldStays DEF env
<1>8. TypeOK'
  <2>1. RunIds' = RunIds /\ RequestType' = RequestType
    BY <1>1 DEF RunIds, RequestType
  <2> QED
    BY <1>1, <1>2, <1>3, <1>4, <2>1, RowsStay DEF TypeOK, Moves, env
<1> QED
  BY <1>2, <1>7, <1>8

\* An operator that goes on keeps types and holders.
LEMMA ProceedTyped ==
    ASSUME TypeOK, Held, NEW w \in Workers, NEW p, Proceeds(w, p)
    PROVE  TypeOK' /\ Held' /\ JobsMove
<1>1. /\ jobs \in Seq(JobType) /\ jobs' = jobs /\ job' = job /\ patch' = patch
      /\ pc' = [pc EXCEPT ![w] = p] /\ p \in {"building", "container", "stopped", "classifying"}
      /\ UNCHANGED <<cycle, spec_status, frontier, env>>
      /\ result' \in [Workers -> Result]
      /\ \A v \in Workers : v # w => result'[v] = result[v]
      /\ pc[w] \in {"executing", "container"} /\ worktrees' \subseteq RunIds
      /\ IF p = "classifying" THEN seen' = [seen EXCEPT ![w] = frontier] ELSE seen' = seen
  BY DEF Proceeds, TypeOK
<1>2. JobsMove
  BY <1>1, SameMoves
<1>3. Touched(RunOf(w)) /\ Len(runs') = Len(runs)
  BY DEF Proceeds
<1>4. Moves(w)
  BY <1>1 DEF Moves, TypeOK, Phase
<1>6. HeldBy(w)'
  <2>1. /\ patch'[w] = "none" /\ pc'[w] = p /\ job'[w] = job[w] /\ job[w] # 0
        /\ w \in scenario.crew /\ jobs[job[w]].status # "pending"
    BY <1>1 DEF Held, HeldBy, TypeOK
  <2>2. /\ p = "building" => jobs[job[w]].op = "execution_setup"
        /\ p \in {"container", "stopped"} => jobs[job[w]].op = "execution_run"
        /\ p = "stopped" => result'[w] \in Ends
        /\ p = "classifying" => jobs[job[w]].op = "signal_classify"
    BY DEF Proceeds
  <2> QED
    BY <1>1, <2>1, <2>2 DEF HeldBy, env
<1>7. Held'
  BY <1>1, <1>2, <1>4, <1>6, HeldStays DEF env
<1>8. TypeOK'
  <2>1. RunIds' = RunIds /\ RequestType' = RequestType
    BY <1>3 DEF RunIds, RequestType
  <2> QED
    BY <1>1, <1>2, <1>3, <1>4, <2>1, RowsStay DEF TypeOK, Moves, env
<1> QED
  BY <1>2, <1>7, <1>8

\* A return keeps types and holders.
LEMMA ReturnTyped ==
    ASSUME TypeOK, Held, NEW w \in Workers, ReturnsSome(w),
           UNCHANGED <<api, requests, scenario>>, faults' \in 0..scenario.faults
    PROVE  TypeOK' /\ Held' /\ JobsMove
<1>1. PICK rs \in {"success", "failure"}, pt \in CycleStatus \cup {"none"},
           nxt \in Operators \cup {"none"}, x \in Nat, flag \in BOOLEAN :
           Returns(w, rs, pt, nxt, x, flag)
  BY DEF ReturnsSome
<1>2. /\ pc[w] \in {"executing", "building", "stopped", "classifying"}
      /\ pc' = [pc EXCEPT ![w] = "finished"] /\ job' = job
      /\ result' = [result EXCEPT ![w] = rs] /\ patch' = [patch EXCEPT ![w] = pt]
      /\ Touched(RunOf(w)) /\ worktrees' \subseteq worktrees
      /\ UNCHANGED <<cycle, spec_status>>
      /\ frontier' \in {frontier, seen[w] + 1} /\ seen' = [seen EXCEPT ![w] = 0]
      /\ jobs \in Seq(JobType) /\ runs \in Seq(RunType)
  BY <1>1 DEF Returns, TypeOK
<1>3. job[w] \in JobIds /\ RunOf(w) \in RunIds
  BY <1>2, BusyHolds
<1>4. nxt # "none" => x \in RunIds'
  <2>1. x = IF pt = "running" THEN Len(runs) + 1 ELSE RunOf(w)
    BY <1>1 DEF Returns
  <2>2. Len(runs') = IF pt = "running" THEN Len(runs) + 1 ELSE Len(runs)
    BY <1>1 DEF Returns
  <2>3. Len(runs) \in Nat
    BY <1>2
  <2> QED
    BY <1>3, <2>1, <2>2, <2>3 DEF RunIds
<1>5. JobsMove
  <2>1. CASE nxt = "none"
    BY <1>1, <1>2, <2>1, SameMoves DEF Returns
  <2>2. CASE nxt # "none"
    <3>1. Added(nxt, x, flag)
      BY <1>1, <2>2 DEF Returns
    <3> QED
      BY <1>2, <1>4, <2>2, <3>1, AddedMoves
  <2> QED
    BY <2>1, <2>2
<1>6. Moves(w)
  <2>1. Len(jobs) \in Nat /\ Len(jobs') \in Nat /\ Len(jobs') >= Len(jobs)
    BY <1>2, <1>5 DEF JobsMove
  <2>2. job' \in [Workers -> 0..Len(jobs')]
    BY <1>2, <2>1 DEF TypeOK
  <2> QED
    BY <1>2, <2>2 DEF Moves, TypeOK, Phase, Result
<1>7. HeldBy(w)'
  <2>1. /\ pc'[w] = "finished" /\ job'[w] = job[w] /\ job[w] # 0
        /\ result'[w] = rs /\ patch'[w] = pt
        /\ w \in scenario.crew /\ jobs[job[w]].status # "pending"
    BY <1>2 DEF Held, HeldBy, TypeOK
  <2>2. pt # "none" => rs = "success" /\ jobs[job[w]].op # "signal_classify"
    BY <1>1 DEF Returns, Hands
  <2>3. jobs'[job[w]].op = jobs[job[w]].op
    BY <1>3, <1>5 DEF JobsMove
  <2>4. w \in Holder(job[w])
    BY DEF Holder
  <2>5. jobs'[job[w]].status # "pending"
    BY <1>3, <1>5, <2>1, <2>4 DEF JobsMove
  <2> QED
    BY <2>1, <2>2, <2>3, <2>5 DEF HeldBy
<1>8. Held'
  BY <1>2, <1>5, <1>6, <1>7, HeldStays
<1>9. TypeOK'
  <2>1. /\ runs' \in Seq(RunType) /\ \A k \in RunIds' : runs'[k].parent < k
        /\ jobs' \in Seq(JobType) /\ \A k \in JobIds' : jobs'[k].run \in RunIds'
        /\ RunIds \subseteq RunIds' /\ RequestType \subseteq RequestType'
    BY <1>2, <1>5, RowsStay
  <2>2. worktrees' \subseteq RunIds' /\ api' \subseteq RequestType'
    BY <1>2, <2>1 DEF TypeOK
  <2>3. frontier' \in Nat
    BY <1>2 DEF TypeOK
  <2> QED
    BY <1>2, <1>6, <2>1, <2>2, <2>3 DEF TypeOK, Moves
<1> QED
  BY <1>5, <1>8, <1>9

\* Letting go of a job keeps the worker's types and holders.
LEMMA ReleaseHeld ==
    ASSUME TypeOK, Held, NEW w \in Workers, Release(w), JobsMove, scenario' = scenario
    PROVE  Moves(w) /\ Held'
<1>1. /\ pc' = [pc EXCEPT ![w] = "idle"] /\ job' = [job EXCEPT ![w] = 0]
      /\ result' = [result EXCEPT ![w] = "none"] /\ patch' = [patch EXCEPT ![w] = "none"]
      /\ seen' = [seen EXCEPT ![w] = 0]
  BY DEF Release
<1>2. Moves(w)
  <2>1. Len(jobs) \in Nat /\ Len(jobs') \in Nat /\ Len(jobs') >= Len(jobs)
    BY DEF JobsMove, TypeOK
  <2>2. job' \in [Workers -> 0..Len(jobs')]
    BY <1>1, <2>1 DEF TypeOK
  <2> QED
    BY <1>1, <2>2 DEF Moves, TypeOK, Phase, Result
<1>3. HeldBy(w)' /\ job'[w] = 0
  BY <1>1 DEF HeldBy, TypeOK
<1> QED
  BY <1>2, <1>3, HeldStays

\* A settlement keeps types and holders.
LEMMA SettleTyped ==
    ASSUME TypeOK, Held, NEW w \in Workers, Settles(w)
    PROVE  TypeOK' /\ Held' /\ JobsMove
<1>1. /\ pc[w] = "finished" /\ Release(w) /\ Touched(RunOf(w)) /\ Len(runs') = Len(runs)
      /\ UNCHANGED <<spec_status, worktrees, frontier, env>>
      /\ jobs \in Seq(JobType)
  BY DEF Settles, TypeOK
<1>2. JobsMove
  <2>1. CASE jobs' = jobs
    BY <1>1, <2>1, SameMoves
  <2>2. CASE jobs' # jobs
    <3>1. PICK s : StatusSet(job[w], s)
      BY <2>2 DEF Settles
    <3>2. jobs'[job[w]].status \in {"paused", "completed", "failed"}
      BY <2>2 DEF Settles, StatusSet
    <3>3. \A k \in JobIds : jobs'[k].status = "pending" => jobs[k].status = "pending"
      BY <3>1, <3>2 DEF StatusSet
    <3> QED
      BY <1>1, <3>1, <3>3, RestatusMoves DEF StatusSet
  <2> QED
    BY <2>1, <2>2
<1>3. Moves(w) /\ Held'
  BY <1>1, <1>2, ReleaseHeld DEF env
<1>4. cycle' \in CycleStatus
  <2>1. cycle' \in {cycle, patch[w]} /\ (patch[w] = "none" => cycle' = cycle)
    BY DEF Settles
  <2> QED
    BY <2>1 DEF TypeOK
<1>5. RunIds' = RunIds /\ RequestType' = RequestType
  BY <1>1 DEF RunIds, RequestType
<1>6. TypeOK'
  BY <1>1, <1>2, <1>3, <1>4, <1>5, RowsStay DEF TypeOK, Moves, env
<1> QED
  BY <1>2, <1>3, <1>6

\* A crash keeps types and holders.
LEMMA CrashTyped ==
    ASSUME TypeOK, Held, NEW w \in Workers, Crash(w)
    PROVE  TypeOK' /\ Held' /\ JobsMove
<1>1. /\ Release(w) /\ UNCHANGED <<cycle, spec_status, runs, jobs, worktrees, frontier>>
      /\ UNCHANGED <<api, requests, scenario>>
      /\ faults < scenario.faults /\ faults' = faults + 1
      /\ jobs \in Seq(JobType) /\ runs \in Seq(RunType)
  BY DEF Crash, tables, TypeOK
<1>2. JobsMove
  BY <1>1, SameMoves
<1>3. Moves(w) /\ Held'
  BY <1>1, <1>2, ReleaseHeld
<1>4. Touched(0)
  BY <1>1, SameTouches
<1>5. RunIds' = RunIds /\ RequestType' = RequestType
  BY <1>1 DEF RunIds, RequestType
<1>6. faults' \in 0..scenario'.faults
  <2>1. scenario.faults \in Nat
    BY PipelineAssumption DEF TypeOK
  <2> QED
    BY <1>1, <2>1 DEF TypeOK
<1>7. TypeOK'
  BY <1>1, <1>2, <1>3, <1>4, <1>5, <1>6, RowsStay DEF TypeOK, Moves
<1> QED
  BY <1>2, <1>3, <1>7

\* A step of no worker, with the types of what it writes.
LEMMA StillTyped ==
    ASSUME TypeOK, Held, UNCHANGED worker, NEW r, Touched(r), JobsMove,
           cycle' \in CycleStatus, spec_status' \in [Specs -> {"validated", "executing"}],
           worktrees' \subseteq worktrees, frontier' = frontier,
           api' \subseteq RequestType', requests' \in 0..MaxRequests,
           scenario' = scenario, faults' = faults
    PROVE  TypeOK' /\ Held'
<1>1. Held'
  BY HeldStill
<1>2. /\ runs' \in Seq(RunType) /\ \A k \in RunIds' : runs'[k].parent < k
      /\ jobs' \in Seq(JobType) /\ \A k \in JobIds' : jobs'[k].run \in RunIds'
      /\ RunIds \subseteq RunIds'
  BY RowsStay
<1>3. worktrees' \subseteq RunIds'
  BY <1>2 DEF TypeOK
<1>4. job' \in [Workers -> 0..Len(jobs')]
  <2>1. Len(jobs) \in Nat /\ Len(jobs') \in Nat /\ Len(jobs') >= Len(jobs)
    BY DEF JobsMove, TypeOK
  <2> QED
    BY <2>1 DEF TypeOK, worker
<1> QED
  BY <1>1, <1>2, <1>3, <1>4 DEF TypeOK, worker

\* A reclaim keeps types and holders.
LEMMA ReclaimTyped ==
    ASSUME TypeOK, Held, NEW j \in JobIds, Reclaims(j)
    PROVE  TypeOK' /\ Held' /\ JobsMove
<1>1. /\ UNCHANGED <<cycle, spec_status, runs, worktrees, frontier, worker, env>>
      /\ jobs \in Seq(JobType) /\ runs \in Seq(RunType)
  BY DEF Reclaims, TypeOK
<1>2. JobsMove
  <2>1. \A k \in JobIds : jobs'[k].status = "pending" =>
              jobs[k].status = "pending" \/ Holder(k) = {}
    BY DEF Reclaims
  <2> QED
    BY <1>1, <2>1, RestatusMoves DEF Reclaims
<1>3. Touched(0)
  BY <1>1, SameTouches
<1>4. RequestType' = RequestType
  BY <1>1 DEF RequestType, RunIds
<1> QED
  BY <1>1, <1>2, <1>3, <1>4, StillTyped DEF TypeOK, env

\* A request that is read keeps types and holders.
LEMMA AskTyped ==
    ASSUME TypeOK, Held, NEW q, Asks(q)
    PROVE  TypeOK' /\ Held' /\ JobsMove
<1>1. /\ UNCHANGED <<cycle, spec_status, runs, jobs, worktrees, frontier>>
      /\ UNCHANGED <<worker, faults, scenario>>
      /\ q \in RequestType /\ api' = api \cup {q}
      /\ requests < MaxRequests /\ requests' = requests + 1
      /\ jobs \in Seq(JobType) /\ runs \in Seq(RunType)
  BY DEF Asks, TypeOK, tables
<1>2. JobsMove
  BY <1>1, SameMoves
<1>3. Touched(0)
  BY <1>1, SameTouches
<1>4. RequestType' = RequestType
  BY <1>1 DEF RequestType, RunIds
<1>5. api' \subseteq RequestType'
  BY <1>1, <1>4 DEF TypeOK
<1>6. requests' \in 0..MaxRequests
  BY <1>1, PipelineAssumption DEF TypeOK
<1> QED
  BY <1>1, <1>2, <1>3, <1>5, <1>6, StillTyped DEF TypeOK

\* A new run keeps types and holders.
LEMMA CreateTyped ==
    ASSUME TypeOK, Held, NEW q \in api, Creates(q)
    PROVE  TypeOK' /\ Held' /\ JobsMove
<1>1. /\ UNCHANGED <<requests, faults, scenario, worker, frontier, worktrees>>
      /\ api' = api \ {q} /\ cycle' \in CycleStatus
      /\ spec_status' \in [Specs -> {"validated", "executing"}]
      /\ Touched(0) /\ Len(runs') = Len(runs) + 1
      /\ Added("execution_setup", Len(runs) + 1, FALSE)
      /\ jobs \in Seq(JobType) /\ runs \in Seq(RunType)
  BY DEF Creates, TypeOK
<1>2. Len(runs) + 1 \in RunIds'
  BY <1>1 DEF RunIds
<1>3. JobsMove
  BY <1>1, <1>2, AddedMoves
<1>4. api' \subseteq RequestType'
  BY <1>1, <1>3, RowsStay DEF TypeOK
<1> QED
  BY <1>1, <1>3, <1>4, StillTyped DEF TypeOK

\* Cancel and pause keep types and holders.
LEMMA WithdrawTyped ==
    ASSUME TypeOK, Held, NEW q \in api, NEW from, NEW s \in {"cancelled", "paused"},
           Withdraws(q, from, s)
    PROVE  TypeOK' /\ Held' /\ JobsMove
<1>1. /\ UNCHANGED <<cycle, spec_status, requests, faults, scenario, worker, frontier>>
      /\ api' = api \ {q} /\ Touched(q.target) /\ worktrees' \subseteq worktrees
      /\ jobs \in Seq(JobType) /\ runs \in Seq(RunType)
  BY DEF Withdraws, TypeOK
<1>2. JobsMove
  <2>1. \A k \in JobIds : jobs'[k].status = "pending" => jobs[k].status = "pending"
    BY DEF Withdraws
  <2> QED
    BY <1>1, <2>1, RestatusMoves DEF Withdraws
<1>3. api' \subseteq RequestType'
  BY <1>1, <1>2, RowsStay DEF TypeOK
<1> QED
  BY <1>1, <1>2, <1>3, StillTyped DEF TypeOK

\* A resume keeps types and holders.
LEMMA ResumeTyped ==
    ASSUME TypeOK, Held, NEW q \in api, Resumes(q)
    PROVE  TypeOK' /\ Held' /\ JobsMove
<1>1. /\ UNCHANGED <<spec_status, worktrees, requests, faults, scenario, worker, frontier>>
      /\ api' = api \ {q} /\ cycle' = "running"
      /\ Touched(q.target) /\ Len(runs') = Len(runs) /\ q.target \in RunIds
      /\ Added("execution_run", q.target, TRUE)
      /\ jobs \in Seq(JobType) /\ runs \in Seq(RunType)
  BY DEF Resumes, TypeOK
<1>2. q.target \in RunIds'
  BY <1>1 DEF RunIds
<1>3. JobsMove
  BY <1>1, <1>2, AddedMoves
<1>4. api' \subseteq RequestType'
  BY <1>1, <1>3, RowsStay DEF TypeOK
<1> QED
  BY <1>1, <1>3, <1>4, StillTyped DEF TypeOK, CycleStatus

Cancelling == {"pending", "claimed", "running", "paused"}
Pausing    == {"claimed", "running"}

\* The effects of a worker's step.
WorkerEffect(w) ==
    \/ \E j \in JobIds : Claims(w, j)
    \/ Starts(w)
    \/ \E p \in {"building", "container", "stopped", "classifying"} : Proceeds(w, p)
    \/ ReturnsSome(w) /\ UNCHANGED env
    \/ ReturnsSome(w) /\ UNCHANGED <<api, requests, scenario>> /\ faults' = faults + 1
                      /\ faults < scenario.faults
    \/ Settles(w)
    \/ Crash(w)

\* The effects of every step.
Effect ==
    \/ \E w \in Workers : w \in scenario.crew /\ WorkerEffect(w)
    \/ \E j \in JobIds : Reclaims(j)
    \/ \E q : Asks(q)
    \/ \E q \in api : \/ Creates(q) \/ Resumes(q)
                      \/ Withdraws(q, Cancelling, "cancelled")
                      \/ Withdraws(q, Pausing, "paused")

\* The crew are workers.
LEMMA CrewWorks ==
    ASSUME TypeOK
    PROVE  /\ scenario.crew \subseteq Workers /\ IsFiniteSet(scenario.crew)
           /\ scenario.faults \in Nat
<1>1. scenario.crew \subseteq Workers /\ scenario.faults \in Nat
  BY PipelineAssumption DEF TypeOK
<1> QED
  BY <1>1, PipelineAssumption, FS_Subset

\* Every step has one of the effects.
LEMMA StepHasEffect ==
    ASSUME TypeOK, Held, Next
    PROVE  Effect
<1>1. ASSUME NEW w \in scenario.crew,
             \/ ClaimJob(w) \/ StartJob(w) \/ OperatorStep(w) \/ SettleStep(w)
             \/ Crash(w) \/ OperatorRaises(w)
      PROVE  Effect
  <2>1. w \in Workers
    BY CrewWorks
  <2>2. CASE ClaimJob(w)
    BY <2>1, <2>2, ClaimEffect DEF Effect, WorkerEffect
  <2>3. CASE StartJob(w)
    BY <2>1, <2>3, StartEffect DEF Effect, WorkerEffect
  <2>4. CASE OperatorStep(w)
    BY <2>1, <2>4, OperatorStepEffect DEF Effect, WorkerEffect
  <2>5. CASE SettleStep(w)
    BY <2>1, <2>5, SettleEffect DEF Effect, WorkerEffect
  <2>6. CASE Crash(w)
    BY <2>1, <2>6 DEF Effect, WorkerEffect
  <2>7. CASE OperatorRaises(w)
    <3>1. faults < scenario.faults
      BY <2>7 DEF OperatorRaises
    <3> QED
      BY <2>1, <2>7, <3>1, RaisesEffect DEF Effect, WorkerEffect
  <2> QED
    BY <1>1, <2>2, <2>3, <2>4, <2>5, <2>6, <2>7
<1>2. ASSUME NEW j \in JobIds, Reclaim(j)
      PROVE  Effect
  BY <1>2, ReclaimEffect DEF Effect
<1>3. ASSUME \/ \E s \in Specs : StartRequested(s)
             \/ \E op \in ControlOps, r \in RunIds : ControlRequested(op, r)
      PROVE  Effect
  BY <1>3, RequestEffect DEF Effect
<1>4. ASSUME NEW q \in api, ApiStep(q)
      PROVE  Effect
  BY <1>4, CreateEffect, CancelEffect, PauseEffect, ResumeEffect
  DEF ApiStep, Effect, Cancelling, Pausing
<1> QED
  BY <1>1, <1>2, <1>3, <1>4 DEF Next

\* Every effect keeps types and holders.
LEMMA EffectTyped ==
    ASSUME TypeOK, Held, Effect
    PROVE  TypeOK' /\ Held' /\ JobsMove
<1>1. ASSUME NEW w \in Workers, w \in scenario.crew, WorkerEffect(w)
      PROVE  TypeOK' /\ Held' /\ JobsMove
  <2>1. CASE ReturnsSome(w) /\ UNCHANGED env
    <3>1. UNCHANGED <<api, requests, scenario, faults>>
      BY <2>1 DEF env
    <3> QED
      BY <2>1, <3>1, ReturnTyped DEF TypeOK
  <2>2. CASE ReturnsSome(w) /\ UNCHANGED <<api, requests, scenario>>
             /\ faults' = faults + 1 /\ faults < scenario.faults
    <3>1. faults' \in 0..scenario.faults
      BY <2>2, CrewWorks DEF TypeOK
    <3> QED
      BY <2>2, <3>1, ReturnTyped
  <2> QED
    BY <1>1, <2>1, <2>2, ClaimTyped, StartTyped, ProceedTyped, SettleTyped, CrashTyped
    DEF WorkerEffect
<1>2. ASSUME NEW q \in api, \/ Creates(q) \/ Resumes(q)
                            \/ Withdraws(q, Cancelling, "cancelled")
                            \/ Withdraws(q, Pausing, "paused")
      PROVE  TypeOK' /\ Held' /\ JobsMove
  BY <1>2, CreateTyped, ResumeTyped, WithdrawTyped
<1> QED
  BY <1>1, <1>2, ReclaimTyped, AskTyped DEF Effect

\* Doing nothing keeps types and holders.
LEMMA StutterTyped ==
    ASSUME TypeOK, Held, UNCHANGED vars
    PROVE  TypeOK' /\ Held'
BY DEF TypeOK, Held, HeldBy, OneHolder, vars, tables, worker, env, RunIds, JobIds,
       RequestType, RunOf

\* The empty tables are typed.
LEMMA InitTyped ==
    ASSUME Init
    PROVE  TypeOK /\ Held
<1>1. runs = <<>> /\ jobs = <<>> /\ Len(runs) = 0 /\ Len(jobs) = 0
  BY DEF Init
<1>2. RunIds = {} /\ JobIds = {}
  BY <1>1 DEF RunIds, JobIds
<1>3. scenario.faults \in Nat
  BY PipelineAssumption DEF Init
<1> QED
  BY <1>1, <1>2, <1>3, PipelineAssumption
  DEF Init, TypeOK, Held, HeldBy, OneHolder, CycleStatus, Phase, Result

-----------------------------------------------------------------------------
(* The execution of a run is one strand of jobs. *)

\* A job of a run's execution that waits or is worked on is an old one, or the
\* one its predecessor hands over to, or the first of a new run.
TokensFollow ==
    \A k \in JobIds', r \in RunIds' :
        ExecutionOf(k, r)' /\ Token(k)' /\ ~Revived(r)'
        => \/ k \in JobIds /\ Token(k)
           \/ /\ k = Len(jobs) + 1
              /\ \/ r \notin RunIds
                 \/ \E i \in JobIds : ExecutionOf(i, r) /\ Token(i) /\ ~Token(i)'

\* A waiting job of a run's execution means that the run is not cancelled.
StatusFollows ==
    \A k \in JobIds', r \in RunIds' :
        ExecutionOf(k, r)' /\ jobs'[k].status = "pending" /\ ~Revived(r)'
        => runs'[r].status # "cancelled"

\* What was revived stays revived.
LEMMA RevivedStays ==
    ASSUME TypeOK, TypeOK', JobsMove, NEW r, Revived(r)
    PROVE  Revived(r)'
<1>1. PICK j \in JobIds : /\ jobs[j].run = r /\ jobs[j].op \in ExecutionOps
                          /\ jobs[j].flag \/ jobs[j].reclaims > 0
  BY DEF Revived
<1>2. j \in JobIds'
  <2>1. Len(jobs) \in Nat /\ Len(jobs') \in Nat /\ Len(jobs') >= Len(jobs)
    BY DEF TypeOK, JobsMove
  <2> QED
    BY <2>1 DEF JobIds
<1>3. /\ jobs'[j].run = r /\ jobs'[j].op = jobs[j].op
      /\ jobs'[j].flag = jobs[j].flag /\ jobs'[j].reclaims >= jobs[j].reclaims
  BY <1>1 DEF JobsMove
<1>4. jobs[j].reclaims \in Nat /\ jobs'[j].reclaims \in Nat
  <2>1. jobs[j] \in JobType /\ jobs'[j] \in JobType
    BY <1>2 DEF TypeOK, JobIds
  <2> QED
    BY <2>1 DEF JobType
<1>5. jobs'[j].flag \/ jobs'[j].reclaims > 0
  BY <1>1, <1>3, <1>4
<1> QED
  BY <1>1, <1>2, <1>3, <1>5 DEF Revived

\* One strand stays one strand when tokens and statuses follow.
LEMMA StrandLasts ==
    ASSUME TypeOK, TypeOK', JobsMove, OneStrand, TokensFollow, StatusFollows
    PROVE  OneStrand'
<1>1. ASSUME NEW r \in RunIds', ~Revived(r)', NEW j \in JobIds', NEW k \in JobIds',
             ExecutionOf(j, r)', ExecutionOf(k, r)', Token(j)', Token(k)'
      PROVE  j = k
  <2>1. /\ jobs'[j].run = r /\ jobs'[j].op \in ExecutionOps
        /\ jobs'[k].run = r /\ jobs'[k].op \in ExecutionOps
    BY <1>1 DEF ExecutionOf
  <2>2. ~Revived(r)
    BY <1>1, RevivedStays
  <2>3. \A i \in JobIds : jobs'[i].run = jobs[i].run /\ jobs'[i].op = jobs[i].op
    BY DEF JobsMove
  <2>4. \A i \in JobIds : jobs[i].run \in RunIds
    BY DEF TypeOK
  <2>5. ASSUME NEW i \in JobIds, NEW l \in JobIds, ExecutionOf(i, r), ExecutionOf(l, r),
               Token(i), Token(l)
        PROVE  i = l
    <3>1. r \in RunIds
      BY <2>4, <2>5 DEF ExecutionOf
    <3> QED
      BY <2>2, <2>5, <3>1 DEF OneStrand
  <2>6. \/ j \in JobIds /\ Token(j)
        \/ /\ j = Len(jobs) + 1
           /\ \/ r \notin RunIds
              \/ \E i \in JobIds : ExecutionOf(i, r) /\ Token(i) /\ ~Token(i)'
    BY <1>1 DEF TokensFollow
  <2>7. \/ k \in JobIds /\ Token(k)
        \/ /\ k = Len(jobs) + 1
           /\ \/ r \notin RunIds
              \/ \E i \in JobIds : ExecutionOf(i, r) /\ Token(i) /\ ~Token(i)'
    BY <1>1 DEF TokensFollow
  <2>8. \A i \in {j, k} : i \in JobIds => ExecutionOf(i, r) /\ r \in RunIds
    BY <2>1, <2>3, <2>4 DEF ExecutionOf
  <2> QED
    BY <1>1, <2>5, <2>6, <2>7, <2>8
<1>2. ASSUME NEW r \in RunIds', ~Revived(r)', NEW j \in JobIds',
             ExecutionOf(j, r)', jobs'[j].status = "pending"
      PROVE  runs'[r].status # "cancelled"
  BY <1>2 DEF StatusFollows
<1> QED
  BY <1>1, <1>2 DEF OneStrand

\* Steps that add no job and put none back: tokens and statuses follow when no
\* job becomes a token.
LEMMA OldTokens ==
    ASSUME TypeOK, TypeOK', OneStrand, JobsMove, Len(jobs') = Len(jobs),
           \A k \in JobIds : Token(k)' => Token(k),
           \A k \in JobIds : jobs'[k].status = "pending" =>
                /\ jobs[k].status = "pending"
                /\ \/ runs'[jobs[k].run].status = runs[jobs[k].run].status
                   \/ runs'[jobs[k].run].status # "cancelled"
    PROVE  OneStrand'
<1>1. JobIds' = JobIds
  BY DEF JobIds
<1>2. TokensFollow
  BY <1>1 DEF TokensFollow
<1>3. StatusFollows
  <2> SUFFICES ASSUME NEW k \in JobIds, NEW r \in RunIds', ExecutionOf(k, r)',
                      jobs'[k].status = "pending", ~Revived(r)'
               PROVE  runs'[r].status # "cancelled"
    BY <1>1 DEF StatusFollows
  <2>1. jobs'[k].run = r /\ jobs[k].run = r /\ ExecutionOf(k, r)
    BY DEF JobsMove, ExecutionOf
  <2>2. r \in RunIds /\ ~Revived(r)
    BY <2>1, RevivedStays DEF TypeOK
  <2>3. runs[r].status # "cancelled"
    BY <2>1, <2>2 DEF OneStrand
  <2> QED
    BY <2>1, <2>3
<1> QED
  BY <1>2, <1>3, StrandLasts

\* A claim, a start, a settlement and a crash make no token.
LEMMA SameRunsStrand ==
    ASSUME TypeOK, Held, TypeOK', JobsMove, OneStrand, NEW w \in Workers,
           \/ \E j \in JobIds : Claims(w, j)
           \/ Starts(w) \/ Settles(w) \/ Crash(w)
    PROVE  OneStrand'
<1>1. ASSUME NEW j \in JobIds, Claims(w, j)
      PROVE  OneStrand'
  <2>1. /\ StatusSet(j, "claimed") /\ runs' = runs /\ jobs[j].status = "pending"
        /\ pc' = [pc EXCEPT ![w] = "claimed"] /\ job' = [job EXCEPT ![w] = j]
    BY <1>1 DEF Claims
  <2>2. \A v \in Workers : /\ v # w => pc'[v] = pc[v] /\ job'[v] = job[v]
                           /\ v = w => job'[v] = j
    BY <2>1 DEF TypeOK
  <2>3. \A k \in JobIds : Token(k)' => Token(k)
    BY <2>1, <2>2 DEF Token, StatusSet
  <2>4. \A k \in JobIds : jobs'[k].status = "pending" => jobs[k].status = "pending"
    BY <2>1 DEF StatusSet
  <2>5. Len(jobs') = Len(jobs)
    BY <2>1 DEF StatusSet, Restatus
  <2> QED
    BY <2>1, <2>3, <2>4, <2>5, OldTokens
<1>2. CASE Starts(w)
  <2>1. /\ StatusSet(job[w], "running") /\ runs' = runs /\ job' = job
        /\ pc[w] = "claimed" /\ pc' = [pc EXCEPT ![w] = "executing"]
    BY <1>2 DEF Starts
  <2>2. \A v \in Workers : pc'[v] # "finished" => pc[v] # "finished"
    BY <2>1 DEF TypeOK
  <2>3. \A k \in JobIds : Token(k)' => Token(k)
    BY <2>1, <2>2 DEF Token, StatusSet
  <2>4. \A k \in JobIds : jobs'[k].status = "pending" => jobs[k].status = "pending"
    BY <2>1 DEF StatusSet
  <2>5. Len(jobs') = Len(jobs)
    BY <2>1 DEF StatusSet, Restatus
  <2> QED
    BY <2>1, <2>3, <2>4, <2>5, OldTokens
<1>3. ASSUME Release(w), Len(jobs') = Len(jobs),
             \A k \in JobIds : jobs'[k].status = "pending" => jobs[k].status = "pending",
             \A k \in RunIds : runs'[k].status \in {runs[k].status, "failed"}
      PROVE  OneStrand'
  <2>1. \A v \in Workers : /\ v # w => pc'[v] = pc[v] /\ job'[v] = job[v]
                           /\ v = w => job'[v] = 0
    BY <1>3 DEF Release, TypeOK
  <2>2. \A k \in JobIds : k # 0
    BY DEF JobIds
  <2>3. \A k \in JobIds : Token(k)' => Token(k)
    BY <1>3, <2>1, <2>2 DEF Token
  <2>4. \A k \in JobIds : \/ runs'[jobs[k].run].status = runs[jobs[k].run].status
                          \/ runs'[jobs[k].run].status # "cancelled"
    BY <1>3 DEF TypeOK
  <2> QED
    BY <1>3, <2>3, <2>4, OldTokens
<1>4. CASE Settles(w)
  <2>1. Release(w) /\ Touched(RunOf(w))
        /\ runs'[RunOf(w)].status \in {runs[RunOf(w)].status, "failed"}
    BY <1>4 DEF Settles
  <2>2. \A k \in RunIds : runs'[k].status \in {runs[k].status, "failed"}
    BY <2>1 DEF Touched
  <2>3. Len(jobs') = Len(jobs)
        /\ \A k \in JobIds : jobs'[k].status = "pending" => jobs[k].status = "pending"
    <3>1. CASE jobs' = jobs
      BY <3>1
    <3>2. CASE jobs' # jobs
      <4>1. PICK s : StatusSet(job[w], s)
        BY <1>4, <3>2 DEF Settles
      <4>2. jobs'[job[w]].status \in {"paused", "completed", "failed"}
        BY <1>4, <3>2 DEF Settles, StatusSet
      <4> QED
        BY <4>1, <4>2 DEF StatusSet, Restatus
    <3> QED
      BY <3>1, <3>2
  <2> QED
    BY <1>3, <2>1, <2>2, <2>3
<1>5. CASE Crash(w)
  <2>1. Release(w) /\ runs' = runs /\ jobs' = jobs
    BY <1>5 DEF Crash, tables
  <2> QED
    BY <1>3, <2>1
<1> QED
  BY <1>1, <1>2, <1>4, <1>5

\* An operator that goes on keeps the strand.
LEMMA ProceedStrand ==
    ASSUME TypeOK, Held, TypeOK', JobsMove, OneStrand, NEW w \in Workers,
           NEW p \in {"building", "container", "stopped", "classifying"}, Proceeds(w, p)
    PROVE  OneStrand'
<1>1. /\ jobs' = jobs /\ job' = job /\ pc' = [pc EXCEPT ![w] = p]
      /\ pc[w] \in {"executing", "container"} /\ Touched(RunOf(w))
      /\ runs'[RunOf(w)].status \in {runs[RunOf(w)].status, "running"}
  BY DEF Proceeds
<1>2. \A v \in Workers : pc'[v] # "finished" => pc[v] # "finished"
  BY <1>1 DEF TypeOK
<1>3. \A k \in JobIds : Token(k)' => Token(k)
  BY <1>1, <1>2 DEF Token
<1>4. \A k \in RunIds : runs'[k].status \in {runs[k].status, "running"}
  BY <1>1 DEF Touched
<1>5. \A k \in JobIds : \/ runs'[jobs[k].run].status = runs[jobs[k].run].status
                        \/ runs'[jobs[k].run].status # "cancelled"
  BY <1>4 DEF TypeOK
<1> QED
  BY <1>1, <1>3, <1>5, OldTokens

\* An operator that returns hands its token on, if any.
LEMMA ReturnStrand ==
    ASSUME TypeOK, Held, TypeOK', JobsMove, OneStrand, NEW w \in Workers, ReturnsSome(w)
    PROVE  OneStrand'
<1>1. PICK rs \in {"success", "failure"}, pt \in CycleStatus \cup {"none"},
           nxt \in Operators \cup {"none"}, x \in Nat, flag \in BOOLEAN :
           Returns(w, rs, pt, nxt, x, flag)
  BY DEF ReturnsSome
<1>0. PICK i \in JobIds : i = job[w] /\ RunOf(w) \in RunIds
  <2>1. pc[w] # "idle"
    BY <1>1 DEF Returns
  <2> QED
    BY <2>1, BusyHolds
<1> DEFINE op == jobs[i].op
<1>2. /\ pc[w] \in {"executing", "building", "stopped", "classifying"} /\ job' = job
      /\ pc' = [pc EXCEPT ![w] = "finished"] /\ Touched(RunOf(w))
      /\ Hands(op, rs, pt, nxt)
      /\ x = IF pt = "running" THEN Len(runs) + 1 ELSE RunOf(w)
      /\ nxt \in ExecutionOps => runs'[x].status # "cancelled"
  BY <1>0, <1>1 DEF Returns
<1>3. RunOf(w) \in RunIds /\ jobs[i].run = RunOf(w)
  BY <1>0 DEF RunOf
<1>4. pc'[w] = "finished" /\ \A v \in Workers : v # w => pc'[v] = pc[v]
  BY <1>2 DEF TypeOK
<1>5. jobs[i].status # "pending" /\ i # 0 /\ \A v \in Workers : job[v] = i => v = w
  BY <1>0 DEF Held, HeldBy, OneHolder, JobIds
<1>6. Token(i)
  BY <1>0, <1>2 DEF Token
<1>7. \A k \in JobIds : jobs'[k].status = jobs[k].status
  <2>1. CASE nxt = "none"
    BY <1>1, <2>1 DEF Returns
  <2>2. CASE nxt # "none"
    BY <1>1, <2>2 DEF Returns, Added
  <2> QED
    BY <2>1, <2>2
<1>8. \A k \in JobIds : Token(k)' => Token(k)
  BY <1>2, <1>4, <1>7 DEF Token
<1>9. ~Token(i)'
  BY <1>2, <1>4, <1>5, <1>7 DEF Token
<1>10. \A k \in JobIds' : k \notin JobIds =>
             /\ k = Len(jobs) + 1 /\ nxt # "none"
             /\ jobs'[k].op = nxt /\ jobs'[k].run = x
  <2>1. CASE nxt = "none"
    BY <1>1, <2>1 DEF Returns, JobIds
  <2>2. CASE nxt # "none"
    <3>1. Added(nxt, x, flag)
      BY <1>1, <2>2 DEF Returns
    <3>2. Len(jobs) \in Nat /\ Len(jobs') = Len(jobs) + 1
      BY <3>1 DEF Added, TypeOK
    <3>3. \A k \in JobIds' : k \notin JobIds => k = Len(jobs) + 1
      BY <3>2 DEF JobIds
    <3> QED
      BY <2>2, <3>1, <3>3 DEF Added, NewJob
  <2> QED
    BY <2>1, <2>2
<1>11. nxt \in ExecutionOps => pt = "running" \/ (op \in ExecutionOps /\ x = RunOf(w))
  BY <1>2 DEF Hands, ExecutionOps
<1>12. pt = "running" => x \notin RunIds
  <2>1. Len(runs) \in Nat
    BY DEF TypeOK
  <2> QED
    BY <1>2, <2>1 DEF RunIds
<1>13. TokensFollow
  <2> SUFFICES ASSUME NEW k \in JobIds', NEW r \in RunIds', ExecutionOf(k, r)',
                      Token(k)', ~Revived(r)'
               PROVE  \/ k \in JobIds /\ Token(k)
                      \/ /\ k = Len(jobs) + 1
                         /\ \/ r \notin RunIds
                            \/ \E l \in JobIds : ExecutionOf(l, r) /\ Token(l) /\ ~Token(l)'
    BY DEF TokensFollow
  <2>1. CASE k \in JobIds
    BY <1>8, <2>1
  <2>2. CASE k \notin JobIds
    <3>1. k = Len(jobs) + 1 /\ nxt \in ExecutionOps /\ r = x
      BY <1>10, <2>2 DEF ExecutionOf
    <3>2. pt # "running" => ExecutionOf(i, r)
      BY <1>3, <1>11, <3>1 DEF ExecutionOf
    <3> QED
      BY <1>3, <1>6, <1>9, <1>12, <3>1, <3>2
  <2> QED
    BY <2>1, <2>2
<1>14. StatusFollows
  <2> SUFFICES ASSUME NEW k \in JobIds', NEW r \in RunIds', ExecutionOf(k, r)',
                      jobs'[k].status = "pending", ~Revived(r)'
               PROVE  runs'[r].status # "cancelled"
    BY DEF StatusFollows
  <2>1. CASE k \in JobIds
    <3>1. ExecutionOf(k, r) /\ r \in RunIds
      BY <2>1 DEF JobsMove, ExecutionOf, TypeOK
    <3>2. ~Revived(r) /\ jobs[k].status = "pending"
      BY <1>7, <2>1, RevivedStays
    <3>3. runs[r].status # "cancelled"
      BY <2>1, <3>1, <3>2 DEF OneStrand
    <3>4. CASE r # RunOf(w)
      BY <1>2, <3>1, <3>3, <3>4 DEF Touched
    <3>5. CASE r = RunOf(w)
      <4>1. ASSUME runs'[r].status = "cancelled"
            PROVE  FALSE
        <5>1. pc[w] = "stopped"
          BY <1>1, <3>3, <3>5, <4>1 DEF Returns
        <5>2. ExecutionOf(i, r)
          BY <1>0, <1>3, <3>5, <5>1 DEF Held, HeldBy, ExecutionOf, ExecutionOps
        <5>3. Token(k)
          BY <3>2 DEF Token
        <5>4. i = k
          BY <1>3, <1>6, <2>1, <3>1, <3>2, <5>2, <5>3 DEF OneStrand
        <5> QED
          BY <1>5, <3>2, <5>4
      <4> QED
        BY <4>1
    <3> QED
      BY <3>4, <3>5
  <2>2. CASE k \notin JobIds
    <3>1. nxt \in ExecutionOps /\ r = x
      BY <1>10, <2>2 DEF ExecutionOf
    <3> QED
      BY <1>2, <3>1
  <2> QED
    BY <2>1, <2>2
<1> QED
  BY <1>13, <1>14, StrandLasts

\* A job put back into the queue revives its run.
LEMMA ReclaimStrand ==
    ASSUME TypeOK, TypeOK', JobsMove, OneStrand, NEW j \in JobIds, Reclaims(j)
    PROVE  OneStrand'
<1>1. /\ runs' = runs /\ job' = job /\ pc' = pc
      /\ Restatus /\ \A k \in JobIds : k # j => jobs'[k] = jobs[k]
      /\ jobs'[j].status = "pending" => jobs'[j].reclaims > 0
  BY DEF Reclaims, worker
<1>2. JobIds' = JobIds /\ RunIds' = RunIds
  BY <1>1 DEF Restatus, JobIds, RunIds
<1>3. \A k \in JobIds, r \in RunIds : ExecutionOf(k, r)' /\ ~Revived(r)'
          /\ jobs'[k].status = "pending" => k # j
  BY <1>1, <1>2 DEF ExecutionOf, Revived
<1>4. TokensFollow
  <2> SUFFICES ASSUME NEW k \in JobIds, NEW r \in RunIds, ExecutionOf(k, r)',
                      Token(k)', ~Revived(r)'
               PROVE  Token(k)
    BY <1>2 DEF TokensFollow
  <2> QED
    BY <1>1, <1>3 DEF Token
<1>5. StatusFollows
  <2> SUFFICES ASSUME NEW k \in JobIds, NEW r \in RunIds, ExecutionOf(k, r)',
                      jobs'[k].status = "pending", ~Revived(r)'
               PROVE  runs'[r].status # "cancelled"
    BY <1>2 DEF StatusFollows
  <2>1. k # j
    BY <1>3
  <2>2. jobs'[k] = jobs[k] /\ ~Revived(r)
    BY <1>1, <2>1, RevivedStays
  <2>3. ExecutionOf(k, r) /\ jobs[k].status = "pending"
    BY <2>2 DEF ExecutionOf
  <2> QED
    BY <1>1, <2>2, <2>3 DEF OneStrand
<1> QED
  BY <1>4, <1>5, StrandLasts

\* Reading a request changes no table.
LEMMA AskStrand ==
    ASSUME TypeOK, TypeOK', JobsMove, OneStrand, NEW q, Asks(q)
    PROVE  OneStrand'
<1>1. runs' = runs /\ jobs' = jobs /\ job' = job /\ pc' = pc
  BY DEF Asks, worker, tables
<1>2. \A k \in JobIds : Token(k)' => Token(k)
  BY <1>1 DEF Token
<1> QED
  BY <1>1, <1>2, OldTokens

\* Cancel and pause take tokens away.
LEMMA WithdrawStrand ==
    ASSUME TypeOK, TypeOK', JobsMove, OneStrand, NEW q \in api,
           \/ Withdraws(q, Cancelling, "cancelled")
           \/ Withdraws(q, Pausing, "paused")
    PROVE  OneStrand'
<1>1. /\ job' = job /\ pc' = pc /\ Touched(q.target) /\ Restatus
  BY DEF Withdraws, worker
<1>2. \A k \in JobIds : jobs'[k].status = "pending" => jobs[k].status = "pending"
  BY DEF Withdraws
<1>3. \A k \in JobIds : Token(k)' => Token(k)
  BY <1>1, <1>2 DEF Token
<1>4. ASSUME NEW k \in JobIds, jobs'[k].status = "pending"
      PROVE  \/ runs'[jobs[k].run].status = runs[jobs[k].run].status
             \/ runs'[jobs[k].run].status # "cancelled"
  <2>1. CASE jobs[k].run # q.target
    BY <1>1, <2>1 DEF Touched, TypeOK
  <2>2. CASE jobs[k].run = q.target /\ Withdraws(q, Cancelling, "cancelled")
    <3>1. jobs[k].status = "pending"
      BY <1>2, <1>4
    <3> QED
      BY <1>4, <2>2, <3>1 DEF Withdraws, Cancelling
  <2>3. CASE jobs[k].run = q.target /\ Withdraws(q, Pausing, "paused")
    BY <2>3 DEF Withdraws
  <2> QED
    BY <2>1, <2>2, <2>3
<1>5. Len(jobs') = Len(jobs)
  BY <1>1 DEF Restatus
<1> QED
  BY <1>2, <1>3, <1>4, <1>5, OldTokens

\* A request adds the setup of a new run, or revives a run.
LEMMA AddStrand ==
    ASSUME TypeOK, TypeOK', JobsMove, OneStrand, NEW q \in api,
           Creates(q) \/ Resumes(q)
    PROVE  OneStrand'
<1>1. job' = job /\ pc' = pc /\ Len(jobs) \in Nat /\ Len(runs) \in Nat
  <2>1. job' = job /\ pc' = pc
    BY DEF Creates, Resumes, worker
  <2>2. Len(jobs) \in Nat /\ Len(runs) \in Nat
    BY DEF TypeOK
  <2> QED
    BY <2>1, <2>2
<1>0. PICK new \in Nat : new = Len(jobs) + 1
  BY <1>1
<1>2. /\ Len(jobs') = new /\ \A k \in JobIds : jobs'[k] = jobs[k]
      /\ jobs'[new].op \in ExecutionOps /\ jobs'[new].status = "pending"
  BY <1>0 DEF Creates, Resumes, Added, NewJob, ExecutionOps
<1>3. new \in JobIds' /\ \A k \in JobIds' : k \notin JobIds => k = new
  BY <1>0, <1>1, <1>2 DEF JobIds
<1>4. \A k \in JobIds : Token(k)' => Token(k)
  BY <1>1, <1>2 DEF Token
<1>5. ASSUME NEW r \in RunIds', ~Revived(r)', ExecutionOf(new, r)'
      PROVE  r \notin RunIds
  <2>1. CASE Creates(q)
    <3>1. jobs'[new].run = Len(runs) + 1
      BY <1>0, <2>1 DEF Creates, Added, NewJob
    <3> QED
      BY <1>1, <1>5, <3>1 DEF ExecutionOf, RunIds
  <2>2. CASE Resumes(q)
    <3>1. jobs'[new].flag
      BY <1>0, <2>2 DEF Resumes, Added, NewJob
    <3> QED
      BY <1>2, <1>3, <1>5, <3>1 DEF ExecutionOf, Revived
  <2> QED
    BY <2>1, <2>2
<1>6. TokensFollow
  BY <1>0, <1>3, <1>4, <1>5 DEF TokensFollow
<1>7. StatusFollows
  <2> SUFFICES ASSUME NEW k \in JobIds', NEW r \in RunIds', ExecutionOf(k, r)',
                      jobs'[k].status = "pending", ~Revived(r)'
               PROVE  runs'[r].status # "cancelled"
    BY DEF StatusFollows
  <2>1. CASE k \notin JobIds
    <3>1. r \notin RunIds
      BY <1>3, <1>5, <2>1
    <3>2. \E t : Touched(t)
      BY DEF Creates, Resumes
    <3> QED
      BY <3>1, <3>2 DEF Touched
  <2>2. CASE k \in JobIds
    <3>1. ExecutionOf(k, r) /\ jobs[k].status = "pending" /\ r \in RunIds /\ ~Revived(r)
      BY <1>2, <2>2, RevivedStays DEF ExecutionOf, TypeOK
    <3>2. runs[r].status # "cancelled"
      BY <2>2, <3>1 DEF OneStrand
    <3>3. runs'[r].status \in {runs[r].status, "running"}
      <4>1. CASE Creates(q)
        <5>1. r # 0
          BY <3>1 DEF RunIds
        <5> QED
          BY <3>1, <4>1, <5>1 DEF Creates, Touched
      <4>2. CASE Resumes(q)
        BY <3>1, <4>2 DEF Resumes, Touched
      <4> QED
        BY <4>1, <4>2
    <3> QED
      BY <3>2, <3>3
  <2> QED
    BY <2>1, <2>2
<1> QED
  BY <1>6, <1>7, StrandLasts

\* Every step keeps the strand.
LEMMA EffectStrand ==
    ASSUME TypeOK, Held, TypeOK', JobsMove, OneStrand, Effect
    PROVE  OneStrand'
<1>1. ASSUME NEW w \in Workers, WorkerEffect(w)
      PROVE  OneStrand'
  BY <1>1, SameRunsStrand, ProceedStrand, ReturnStrand DEF WorkerEffect
<1> QED
  BY <1>1, ReclaimStrand, AskStrand, WithdrawStrand, AddStrand DEF Effect

\* A cancelled run that is left alone stays as it is (CancelIsFinal's step).
LEMMA CancelledStep ==
    ASSUME TypeOK, Held, OneStrand, Effect, NEW r \in RunIds, CancelledIsLeftAlone(r)
    PROVE  /\ runs'[r].status = "cancelled"
           /\ \A j \in JobIds :
                jobs[j].run = r /\ jobs[j].op \in ExecutionOps
                    /\ jobs'[j].status = "claimed" => Revived(r)
<1>1. /\ runs[r].status = "cancelled"
      /\ \A j \in JobIds : jobs[j].run = r => jobs[j].status \notin {"claimed", "running"}
      /\ \A w \in Workers : job[w] # 0 => RunOf(w) # r
      /\ \A q \in api : q.target # r
  BY DEF CancelledIsLeftAlone
<1>2. \A w \in Workers : pc[w] # "idle" => RunOf(w) # r /\ job[w] \in JobIds
  BY <1>1, BusyHolds DEF Held, HeldBy
<1>3. \A j \in JobIds : jobs[j].run = r /\ jobs[j].op \in ExecutionOps
          /\ jobs[j].status = "pending" => Revived(r)
  BY <1>1 DEF OneStrand, ExecutionOf
<1>4. ASSUME NEW t, t # r, Touched(t)
      PROVE  runs'[r] = runs[r]
  BY <1>4 DEF Touched
<1>5. ASSUME \A j \in JobIds : jobs[j].run = r =>
               (jobs'[j].status = "claimed" => jobs[j].status \in {"claimed", "running", "pending"})
      PROVE  \A j \in JobIds : jobs[j].run = r /\ jobs[j].op \in ExecutionOps
                    /\ jobs'[j].status = "claimed" => Revived(r)
  BY <1>1, <1>3, <1>5
<1>6. ASSUME NEW w \in Workers, WorkerEffect(w)
      PROVE  /\ runs'[r] = runs[r]
             /\ \A j \in JobIds : jobs[j].run = r =>
               (jobs'[j].status = "claimed" => jobs[j].status \in {"claimed", "running", "pending"})
  <2>1. ASSUME NEW i \in JobIds, Claims(w, i)
        PROVE  /\ runs'[r] = runs[r]
               /\ \A j \in JobIds : jobs'[j].status = "claimed" =>
                     jobs[j].status \in {"claimed", "running", "pending"}
    BY <2>1 DEF Claims, StatusSet
  <2>2. CASE Starts(w)
    BY <2>2 DEF Starts, StatusSet
  <2>3. ASSUME NEW p, Proceeds(w, p)
        PROVE  runs'[r] = runs[r] /\ jobs' = jobs
    BY <1>2, <1>4, <2>3 DEF Proceeds
  <2>4. CASE ReturnsSome(w)
    <3>1. PICK rs \in {"success", "failure"}, pt \in CycleStatus \cup {"none"},
               nxt \in Operators \cup {"none"}, x \in Nat, flag \in BOOLEAN :
               Returns(w, rs, pt, nxt, x, flag)
      BY <2>4 DEF ReturnsSome
    <3>2. runs'[r] = runs[r]
      BY <1>2, <1>4, <3>1 DEF Returns
    <3>3. \A j \in JobIds : jobs'[j] = jobs[j]
      <4>1. CASE nxt = "none"
        BY <3>1, <4>1 DEF Returns
      <4>2. CASE nxt # "none"
        BY <3>1, <4>2 DEF Returns, Added
      <4> QED
        BY <4>1, <4>2
    <3> QED
      BY <3>2, <3>3
  <2>5. CASE Settles(w)
    <3>1. runs'[r] = runs[r]
      BY <1>2, <1>4, <2>5 DEF Settles
    <3>2. CASE jobs' = jobs
      BY <3>1, <3>2
    <3>3. CASE jobs' # jobs
      <4>1. PICK s : StatusSet(job[w], s)
        BY <2>5, <3>3 DEF Settles
      <4>2. jobs'[job[w]].status \in {"paused", "completed", "failed"}
        BY <2>5, <3>3 DEF Settles, StatusSet
      <4> QED
        BY <3>1, <4>1, <4>2 DEF StatusSet
    <3> QED
      BY <3>2, <3>3
  <2>6. CASE Crash(w)
    BY <2>6 DEF Crash, tables
  <2> QED
    BY <1>6, <2>1, <2>2, <2>3, <2>4, <2>5, <2>6 DEF WorkerEffect
<1>7. ASSUME NEW i \in JobIds, Reclaims(i)
      PROVE  /\ runs'[r] = runs[r]
             /\ \A j \in JobIds : jobs'[j].status = "claimed" => jobs[j].status = "claimed"
  BY <1>7 DEF Reclaims
<1>8. ASSUME NEW q, Asks(q)
      PROVE  runs'[r] = runs[r] /\ jobs' = jobs
  BY <1>8 DEF Asks, tables
<1>9. ASSUME NEW q \in api, \/ Creates(q) \/ Resumes(q)
                            \/ Withdraws(q, Cancelling, "cancelled")
                            \/ Withdraws(q, Pausing, "paused")
      PROVE  /\ runs'[r] = runs[r]
             /\ \A j \in JobIds : jobs'[j].status = "claimed" => jobs[j].status = "claimed"
  <2>1. q.target # r /\ r # 0
    BY <1>1 DEF RunIds
  <2>2. runs'[r] = runs[r]
    BY <1>4, <1>9, <2>1 DEF Creates, Resumes, Withdraws
  <2>3. CASE Creates(q) \/ Resumes(q)
    BY <2>2, <2>3 DEF Creates, Resumes, Added
  <2>4. CASE Withdraws(q, Cancelling, "cancelled") \/ Withdraws(q, Pausing, "paused")
    BY <2>2, <2>4 DEF Withdraws
  <2> QED
    BY <1>9, <2>3, <2>4
<1>10. /\ runs'[r] = runs[r]
       /\ \A j \in JobIds : jobs[j].run = r =>
             (jobs'[j].status = "claimed" => jobs[j].status \in {"claimed", "running", "pending"})
  BY <1>6, <1>7, <1>8, <1>9 DEF Effect
<1> QED
  BY <1>1, <1>5, <1>10

-----------------------------------------------------------------------------
(* What the frontier counts. *)

\* The sets are finite, and the totals are numbers.
LEMMA CountsFinite ==
    ASSUME TypeOK
    PROVE  /\ IsFiniteSet(Classified) /\ Cardinality(Classified) \in Nat
           /\ IsFiniteSet(Apart) /\ Cardinality(Apart) \in Nat
           /\ IsFiniteSet(Again) /\ Cardinality(Again) \in Nat
           /\ Totals \subseteq Nat /\ faults \in Nat
<1>1. Len(runs) \in Nat /\ Len(jobs) \in Nat
  BY DEF TypeOK
<1>2. IsFiniteSet(RunIds) /\ IsFiniteSet(JobIds)
  BY <1>1, FS_Interval DEF RunIds, JobIds
<1>3. Classified \in SUBSET RunIds /\ Apart \in SUBSET RunIds /\ Again \in SUBSET JobIds
  BY DEF Classified, Apart, Again
<1>4. IsFiniteSet(Classified) /\ IsFiniteSet(Apart) /\ IsFiniteSet(Again)
  BY <1>2, <1>3, FS_Subset
<1>5. Totals \subseteq Nat /\ faults \in Nat
  BY CrewWorks DEF TypeOK, Totals, Classifying
<1> QED
  BY <1>4, <1>5, FS_CardinalityType

\* Nothing is counted and nothing more may be counted again; or a crash lets one
\* more job be executed again.
LEMMA NothingCounted ==
    ASSUME TypeOK, TypeOK', Recounted, Reported', OneClassifier', NEW x,
           Classified' = Classified, Apart' \subseteq Apart, Totals' \subseteq Totals,
           \/ Again' \subseteq Again /\ faults' \in {faults, faults + 1}
           \/ Again' \subseteq Again \cup {x} /\ faults' = faults + 1
    PROVE  Recounted'
<1>1. /\ IsFiniteSet(Again) /\ Cardinality(Again) \in Nat /\ Totals \subseteq Nat
      /\ faults \in Nat /\ Cardinality(Classified) \in Nat
      /\ IsFiniteSet(Apart) /\ Cardinality(Apart) \in Nat
  BY CountsFinite
<1>2. /\ IsFiniteSet(Again \cup {x})
      /\ Cardinality(Again \cup {x}) \in Nat
      /\ Cardinality(Again \cup {x}) <= Cardinality(Again) + 1
  <2>1. IsFiniteSet(Again) /\ Cardinality(Again) \in Nat
    BY <1>1
  <2>2. /\ IsFiniteSet(Again \cup {x})
        /\ Cardinality(Again \cup {x}) =
              IF x \in Again THEN Cardinality(Again) ELSE Cardinality(Again) + 1
    BY <2>1, FS_AddElement
  <2> QED
    BY <2>1, <2>2
<1>5. Cardinality(Apart') <= Cardinality(Apart) /\ Cardinality(Apart') \in Nat
  BY <1>1, FS_Subset, FS_CardinalityType
<1>6. \A n \in Totals : /\ n >= Cardinality(Apart)
                        /\ n + Cardinality(Again) <= Cardinality(Classified) + faults
  BY DEF Recounted
<1>3. CASE Again' \subseteq Again /\ faults' \in {faults, faults + 1}
  <2>1. Cardinality(Again') <= Cardinality(Again) /\ Cardinality(Again') \in Nat
    BY <1>1, <1>3, FS_Subset, FS_CardinalityType
  <2> QED
    BY <1>1, <1>3, <1>5, <1>6, <2>1 DEF Recounted
<1>4. CASE Again' \subseteq Again \cup {x} /\ faults' = faults + 1
  <2>1. Cardinality(Again') <= Cardinality(Again \cup {x}) /\ Cardinality(Again') \in Nat
    BY <1>2, <1>4, FS_Subset, FS_CardinalityType
  <2> QED
    BY <1>1, <1>2, <1>4, <1>5, <1>6, <2>1 DEF Recounted
<1> QED
  BY <1>3, <1>4

\* A run is counted on top of what was read, s: for the first time, or again by a
\* job that could.  While other classifications are under way it does not count as
\* classified apart.
LEMMA OneCounted ==
    ASSUME TypeOK, TypeOK', Recounted, Reported', OneClassifier', NEW s \in Totals,
           faults' \in {faults, faults + 1}, NEW r, NEW j, Apart' \subseteq Apart \cup {r},
           \/ Totals' = {s + 1}
           \/ Totals' \subseteq Totals \cup {s + 1} /\ Apart' \subseteq Apart,
           \/ Classified' = Classified \cup {r} /\ r \notin Classified /\ Again' \subseteq Again
           \/ Classified' = Classified /\ j \in Again /\ Again' \subseteq Again \ {j}
    PROVE  Recounted'
<1>1. /\ IsFiniteSet(Again) /\ Cardinality(Again) \in Nat /\ Totals \subseteq Nat
      /\ faults \in Nat /\ Cardinality(Classified) \in Nat /\ IsFiniteSet(Classified)
      /\ IsFiniteSet(Apart) /\ Cardinality(Apart) \in Nat /\ s \in Nat
  BY CountsFinite
<1>2. \A n \in Totals : /\ n >= Cardinality(Apart)
                        /\ n + Cardinality(Again) <= Cardinality(Classified) + faults
  BY DEF Recounted
<1>3. \A n \in Totals' : n >= Cardinality(Apart')
  <2>1. /\ IsFiniteSet(Apart \cup {r}) /\ Cardinality(Apart \cup {r}) \in Nat
        /\ Cardinality(Apart \cup {r}) <= Cardinality(Apart) + 1
    <3>1. IsFiniteSet(Apart) /\ Cardinality(Apart) \in Nat
      BY <1>1
    <3>2. /\ IsFiniteSet(Apart \cup {r})
          /\ Cardinality(Apart \cup {r}) =
                IF r \in Apart THEN Cardinality(Apart) ELSE Cardinality(Apart) + 1
      BY <3>1, FS_AddElement
    <3> QED
      BY <3>1, <3>2
  <2>2. Cardinality(Apart') <= Cardinality(Apart \cup {r}) /\ Cardinality(Apart') \in Nat
    BY <2>1, FS_Subset, FS_CardinalityType
  <2>3. Apart' \subseteq Apart => Cardinality(Apart') <= Cardinality(Apart)
    BY <1>1, FS_Subset
  <2>4. s + 1 >= Cardinality(Apart')
    BY <1>1, <1>2, <2>1, <2>2
  <2>5. ASSUME NEW n \in Totals, Apart' \subseteq Apart
        PROVE  n >= Cardinality(Apart')
    BY <1>1, <1>2, <2>2, <2>3, <2>5
  <2> QED
    BY <2>4, <2>5
<1>4. /\ \A n \in Totals : n + Cardinality(Again') <= Cardinality(Classified') + faults'
      /\ (s + 1) + Cardinality(Again') <= Cardinality(Classified') + faults'
  <2>2. CASE Classified' = Classified \cup {r} /\ r \notin Classified /\ Again' \subseteq Again
    <3>1. Cardinality(Again') <= Cardinality(Again) /\ Cardinality(Again') \in Nat
      BY <1>1, <2>2, FS_Subset, FS_CardinalityType
    <3>2. Cardinality(Classified') = Cardinality(Classified) + 1
      BY <1>1, <2>2, FS_AddElement
    <3> QED
      BY <1>1, <1>2, <3>1, <3>2
  <2>3. CASE Classified' = Classified /\ j \in Again /\ Again' \subseteq Again \ {j}
    <3>1. /\ IsFiniteSet(Again \ {j})
          /\ Cardinality(Again \ {j}) = Cardinality(Again) - 1
      BY <1>1, <2>3, FS_RemoveElement
    <3>2. Cardinality(Again') <= Cardinality(Again \ {j}) /\ Cardinality(Again') \in Nat
      BY <2>3, <3>1, FS_Subset, FS_CardinalityType
    <3> QED
      BY <1>1, <1>2, <2>3, <3>1, <3>2
  <2> QED
    BY <2>2, <2>3
<1>5. \A n \in Totals' : n + Cardinality(Again') <= Cardinality(Classified') + faults'
  BY <1>4
<1> QED
  BY <1>3, <1>5 DEF Recounted

\* The runs' reports, before and after.
LEMMA ReportsGrow ==
    ASSUME TypeOK, TypeOK', NEW t, Touched(t), NEW r \in RunIds
    PROVE  /\ r \in RunIds' /\ runs[r].reports \in Nat /\ runs'[r].reports \in Nat
           /\ runs'[r].reports >= runs[r].reports
           /\ runs[r].signal \in BOOLEAN /\ runs'[r].signal \in BOOLEAN
           /\ runs[r].signal => runs'[r].signal
<1>1. Len(runs) \in Nat /\ Len(runs') \in Nat /\ Len(runs') >= Len(runs)
  BY DEF TypeOK, Touched
<1>2. r \in RunIds'
  BY <1>1 DEF RunIds
<1>3. runs[r] \in RunType /\ runs'[r] \in RunType
  BY <1>2 DEF TypeOK, RunIds
<1>4. /\ runs[r].reports \in Nat /\ runs'[r].reports \in Nat
      /\ runs[r].signal \in BOOLEAN /\ runs'[r].signal \in BOOLEAN
  BY <1>3 DEF RunType
<1>5. runs'[r].reports >= runs[r].reports /\ (runs[r].signal => runs'[r].signal)
  BY <1>4 DEF Touched
<1> QED
  BY <1>2, <1>4, <1>5

\* A new classification job comes with a new report.
NewSignals ==
    \A k \in JobIds' : k \notin JobIds /\ SignalJob(k)' =>
        /\ k = Len(jobs) + 1
        /\ jobs'[k].run \in RunIds
        /\ runs'[jobs'[k].run].reports > runs[jobs'[k].run].reports

\* Verification stays ahead of classification.
LEMMA ReportedStays ==
    ASSUME TypeOK, TypeOK', Reported, JobsMove, NEW t, Touched(t), NewSignals,
           \A r \in RunIds : runs'[r].signal => runs[r].signal \/ runs[r].reports >= 1
    PROVE  Reported'
<1>1. \A r \in RunIds : /\ runs[r].reports \in Nat /\ runs'[r].reports \in Nat
                        /\ runs'[r].reports >= runs[r].reports
  BY ReportsGrow
<1>2. \A j \in JobIds : /\ jobs'[j].run = jobs[j].run /\ (SignalJob(j)' => SignalJob(j))
                        /\ jobs[j].run \in RunIds
  BY DEF JobsMove, SignalJob, TypeOK
<1>3. \A j \in JobIds' : SignalJob(j)' => runs'[jobs'[j].run].reports >= 1
  <2> SUFFICES ASSUME NEW j \in JobIds', SignalJob(j)'
               PROVE  runs'[jobs'[j].run].reports >= 1
    OBVIOUS
  <2>1. CASE j \in JobIds
    <3>1. runs[jobs[j].run].reports >= 1 /\ jobs'[j].run = jobs[j].run
      BY <1>2, <2>1 DEF Reported
    <3> QED
      BY <1>1, <1>2, <2>1, <3>1
  <2>2. CASE j \notin JobIds
    BY <1>1, <2>2 DEF NewSignals
  <2> QED
    BY <2>1, <2>2
<1>4. \A r \in RunIds' : runs'[r].signal => runs'[r].reports >= 1
  <2> SUFFICES ASSUME NEW r \in RunIds', runs'[r].signal
               PROVE  runs'[r].reports >= 1
    OBVIOUS
  <2>1. CASE r \in RunIds
    <3>1. runs[r].reports >= 1
      BY <2>1 DEF Reported
    <3> QED
      BY <1>1, <2>1, <3>1
  <2>2. CASE r \notin RunIds
    BY <2>2 DEF Touched
  <2> QED
    BY <2>1, <2>2
<1>5. \A j, k \in JobIds' :
          SignalJob(j)' /\ SignalJob(k)' /\ jobs'[j].run = jobs'[k].run /\ j # k
              => runs'[jobs'[j].run].reports >= 2
  <2>1. ASSUME NEW j \in JobIds, NEW k \in JobIds', SignalJob(j)', SignalJob(k)',
               jobs'[j].run = jobs'[k].run, j # k
        PROVE  runs'[jobs'[j].run].reports >= 2
    <3>1. CASE k \in JobIds
      <4>1. runs[jobs[j].run].reports >= 2
        BY <1>2, <2>1, <3>1 DEF Reported
      <4> QED
        BY <1>1, <1>2, <4>1
    <3>2. CASE k \notin JobIds
      <4>1. runs[jobs[j].run].reports >= 1 /\ jobs'[k].run = jobs[j].run
        BY <1>2, <2>1 DEF Reported
      <4>2. runs'[jobs[j].run].reports > runs[jobs[j].run].reports
        BY <2>1, <3>2, <4>1 DEF NewSignals
      <4> QED
        BY <1>1, <1>2, <2>1, <4>1, <4>2
    <3> QED
      BY <3>1, <3>2
  <2>2. \A j, k \in JobIds' : j \notin JobIds /\ k \notin JobIds
            /\ SignalJob(j)' /\ SignalJob(k)' => j = k
    BY DEF NewSignals
  <2> QED
    BY <2>1, <2>2
<1> QED
  BY <1>3, <1>4, <1>5 DEF Reported

\* No worker reads the frontier to classify.
NoRead == \A v \in Workers : pc'[v] = "classifying" =>
              pc[v] = "classifying" /\ job'[v] = job[v] /\ seen'[v] = seen[v]

\* A classification under way has been under way before.
LEMMA ClassifiersStay ==
    ASSUME TypeOK, Held, JobsMove, OneClassifier, NoRead
    PROVE  /\ OneClassifier'
           /\ \A k : UnderWay(k)' => k \in JobIds /\ UnderWay(k)
           /\ Totals' \subseteq Totals \cup {frontier'}
<1>1. \A v \in Classifying' : /\ v \in Classifying /\ v \in Workers
                              /\ job'[v] = job[v] /\ seen'[v] = seen[v]
  BY DEF Classifying, NoRead
<1>2. \A v \in Classifying' : job[v] \in JobIds /\ RunOf(v)' = RunOf(v)
  <2> TAKE v \in Classifying'
  <2>1. v \in Workers /\ pc[v] # "idle"
    BY <1>1 DEF Classifying
  <2>2. job[v] \in JobIds
    BY <2>1, BusyHolds
  <2> QED
    BY <1>1, <2>2 DEF JobsMove, RunOf
<1>3. OneClassifier'
  BY <1>1, <1>2 DEF OneClassifier
<1>4. \A k : UnderWay(k)' => k \in JobIds /\ UnderWay(k)
  BY <1>1, <1>2 DEF UnderWay
<1>5. Totals' \subseteq Totals \cup {frontier'}
  BY <1>1 DEF Totals
<1> QED
  BY <1>3, <1>4, <1>5

\* No run is counted: what may be counted again could be before, except for x.
LEMMA AgainShrinks ==
    ASSUME TypeOK, TypeOK', Reported, JobsMove, NEW t, Touched(t), NewSignals, NEW x,
           \A r \in RunIds : runs'[r].signal = runs[r].signal,
           \A k \in JobIds : SignalJob(k) /\ Live(k)' => Live(k) \/ k = x,
           \A k \in JobIds' : UnderWay(k)' =>
                k \in JobIds /\ (UnderWay(k) \/ runs[jobs[k].run].reports <= 1)
    PROVE  /\ Classified' = Classified /\ Apart' \subseteq Apart
           /\ Again' \subseteq Again \cup {x}
<1>1. \A r \in RunIds : /\ r \in RunIds'
                        /\ runs[r].reports \in Nat /\ runs'[r].reports \in Nat
                        /\ runs'[r].reports >= runs[r].reports
  BY ReportsGrow
<1>2. \A j \in JobIds : /\ jobs'[j].run = jobs[j].run /\ (SignalJob(j)' => SignalJob(j))
                        /\ jobs[j].run \in RunIds
  BY DEF JobsMove, SignalJob, TypeOK
<1>3. Classified' = Classified /\ Apart' \subseteq Apart
  <2>1. \A r \in RunIds' : r \notin RunIds => ~runs'[r].signal
    BY DEF Touched
  <2>2. \A r \in RunIds : runs[r].overlapped => runs'[r].overlapped
    BY DEF Touched
  <2> QED
    BY <1>1, <2>1, <2>2 DEF Classified, Apart
<1>4. ASSUME NEW k \in Again'
      PROVE  k \in Again \cup {x}
  <2>1. /\ k \in JobIds' /\ SignalJob(k)' /\ Live(k)'
        /\ runs'[jobs'[k].run].signal
        /\ runs'[jobs'[k].run].reports <= 1 \/ UnderWay(k)'
    BY <1>4 DEF Again
  <2>2. CASE k \in JobIds
    <3>1. (SignalJob(k) /\ Live(k)) \/ k = x
      BY <1>2, <2>1, <2>2
    <3>2. runs[jobs[k].run].signal /\ (runs[jobs[k].run].reports <= 1 \/ UnderWay(k))
      BY <1>1, <1>2, <2>1, <2>2
    <3> QED
      BY <1>2, <2>1, <2>2, <3>1, <3>2 DEF Again
  <2>3. CASE k \notin JobIds
    <3>1. /\ jobs'[k].run \in RunIds
          /\ runs'[jobs'[k].run].reports > runs[jobs'[k].run].reports
      BY <2>1, <2>3 DEF NewSignals
    <3>2. runs[jobs'[k].run].signal
      BY <2>1, <3>1
    <3>3. runs[jobs'[k].run].reports >= 1
      BY <3>1, <3>2 DEF Reported
    <3>4. runs'[jobs'[k].run].reports <= 1
      BY <2>1, <2>3
    <3> QED
      BY <1>1, <3>1, <3>3, <3>4
  <2> QED
    BY <2>2, <2>3
<1> QED
  BY <1>3, <1>4

\* A step that counts no run, reads no total, and lets at most one job be executed
\* again for a fault.
LEMMA CountsNothing ==
    ASSUME TypeOK, Held, TypeOK', Recounted, JobsMove, NEW t, Touched(t), NewSignals,
           NoRead, \A r \in RunIds : runs'[r].signal = runs[r].signal, frontier' = frontier,
           NEW x, \A k \in JobIds : SignalJob(k) /\ Live(k)' => Live(k) \/ k = x,
           \/ x = 0 /\ faults' \in {faults, faults + 1}
           \/ faults' = faults + 1
    PROVE  Recounted'
<1>1. Reported'
  BY ReportedStays DEF Recounted
<1>5. /\ OneClassifier' /\ Totals' \subseteq Totals \cup {frontier}
      /\ \A k : UnderWay(k)' => k \in JobIds /\ UnderWay(k)
  BY ClassifiersStay DEF Recounted
<1>6. Totals' \subseteq Totals
  BY <1>5 DEF Totals
<1>2. /\ Classified' = Classified /\ Apart' \subseteq Apart
      /\ Again' \subseteq Again \cup {x}
  BY <1>5, AgainShrinks DEF Recounted
<1>3. 0 \notin Again'
  <2>1. Len(jobs') \in Nat
    BY DEF TypeOK
  <2>2. 0 \notin JobIds'
    BY <2>1 DEF JobIds
  <2> QED
    BY <2>2 DEF Again
<1>4. \/ Again' \subseteq Again /\ faults' \in {faults, faults + 1}
      \/ Again' \subseteq Again \cup {x} /\ faults' = faults + 1
  BY <1>2, <1>3
<1> QED
  BY <1>1, <1>2, <1>4, <1>5, <1>6, NothingCounted

\* No job is added, or one that classifies nothing.
LEMMA NoNewSignal ==
    ASSUME jobs \in Seq(JobType),
           \/ jobs' \in Seq(JobType) /\ Len(jobs') = Len(jobs)
           \/ /\ jobs' \in Seq(JobType) /\ Len(jobs') = Len(jobs) + 1
              /\ jobs'[Len(jobs) + 1].op # "signal_classify"
    PROVE  NewSignals
<1>1. CASE Len(jobs') = Len(jobs)
  BY <1>1 DEF NewSignals, JobIds
<1>2. CASE Len(jobs') = Len(jobs) + 1 /\ jobs'[Len(jobs) + 1].op # "signal_classify"
  <2>1. /\ Len(jobs') = Len(jobs) + 1 /\ Len(jobs) \in Nat
        /\ jobs'[Len(jobs) + 1].op # "signal_classify"
    BY <1>2
  <2>2. \A k \in JobIds' : k \notin JobIds => k = Len(jobs) + 1
    BY <2>1 DEF JobIds
  <2>3. \A k \in JobIds' : k \notin JobIds => ~SignalJob(k)'
    BY <2>1, <2>2 DEF SignalJob
  <2> QED
    BY <2>3 DEF NewSignals
<1> QED
  BY <1>1, <1>2

\* A claim and a start make no job live.
LEMMA PickupRecounted ==
    ASSUME TypeOK, Held, TypeOK', JobsMove, Recounted, NEW w \in Workers,
           (\E j \in JobIds : Claims(w, j)) \/ Starts(w)
    PROVE  Recounted'
<1>1. runs' = runs /\ frontier' = frontier /\ faults' = faults
  BY DEF Claims, Starts, env
<1>2. Len(jobs') = Len(jobs) /\ jobs' \in Seq(JobType)
  BY DEF Claims, Starts, StatusSet, Restatus
<1>3. Touched(0) /\ NewSignals
  BY <1>1, <1>2, SameTouches, NoNewSignal DEF TypeOK
<1>4. ASSUME NEW j \in JobIds, Claims(w, j)
      PROVE  \A k \in JobIds : Live(k)' => Live(k)
  <2>1. /\ pc' = [pc EXCEPT ![w] = "claimed"] /\ job' = [job EXCEPT ![w] = j]
        /\ pc \in [Workers -> Phase] /\ job \in [Workers -> 0..Len(jobs)]
        /\ \A k \in JobIds : k # j => jobs'[k] = jobs[k]
        /\ jobs[j].status = "pending"
    BY <1>4 DEF Claims, StatusSet, TypeOK
  <2>2. job[w] = 0
    BY <1>4 DEF Claims, Held, HeldBy
  <2>3. Live(j)
    BY <2>1 DEF Live, Held, HeldBy, JobIds
  <2>4. ASSUME NEW k \in JobIds, k # j, Live(k)'
        PROVE  Live(k)
    <3>1. jobs'[k] = jobs[k] /\ k # 0
      BY <2>1, <2>4 DEF JobIds
    <3>2. \A v \in Workers : job'[v] = k <=> job[v] = k
      BY <2>1, <2>2, <2>4, <3>1
    <3>3. \A v \in Workers : job[v] = k => pc'[v] = pc[v]
      BY <2>1, <2>2, <3>1
    <3> QED
      BY <2>4, <3>1, <3>2, <3>3 DEF Live
  <2> QED
    BY <2>3, <2>4
<1>5. ASSUME Starts(w)
      PROVE  \A k \in JobIds : Live(k)' => Live(k)
  <2>1. /\ pc' = [pc EXCEPT ![w] = "executing"] /\ job' = job /\ pc[w] = "claimed"
        /\ pc \in [Workers -> Phase] /\ job \in [Workers -> 0..Len(jobs)]
        /\ \A k \in JobIds : k # job[w] => jobs'[k] = jobs[k]
    BY <1>5 DEF Starts, StatusSet, TypeOK
  <2>2. ASSUME NEW k \in JobIds, Live(k)'
        PROVE  Live(k)
    <3>1. CASE k = job[w]
      <4>1. \A v \in Workers : job[v] = k => v = w
        BY <3>1 DEF Held, OneHolder, JobIds
      <4> QED
        BY <2>1, <3>1, <4>1 DEF Live
    <3>2. CASE k # job[w]
      BY <2>1, <2>2, <3>2 DEF Live
    <3> QED
      BY <3>1, <3>2
  <2> QED
    BY <2>2
<1>6. \A k \in JobIds : Live(k)' => Live(k)
  BY <1>4, <1>5
<1>7. NoRead
  BY DEF NoRead, Claims, Starts, TypeOK, Held, HeldBy
<1> QED
  BY <1>1, <1>3, <1>6, <1>7, CountsNothing

\* An operator that goes on leaves its job live; signal_classify's read of the
\* frontier is a total like the others, and it meets no other worker at its run.
LEMMA ProceedRecounted ==
    ASSUME TypeOK, Held, TypeOK', JobsMove, Recounted, NEW w \in Workers,
           NEW p \in {"building", "container", "stopped", "classifying"}, Proceeds(w, p)
    PROVE  Recounted'
<1>1. /\ jobs' = jobs /\ job' = job /\ frontier' = frontier /\ faults' = faults
      /\ pc[w] \in {"executing", "container"} /\ pc' = [pc EXCEPT ![w] = p]
      /\ Touched(RunOf(w)) /\ runs'[RunOf(w)].signal = runs[RunOf(w)].signal
      /\ IF p = "classifying" THEN seen' = [seen EXCEPT ![w] = frontier] ELSE seen' = seen
  BY DEF Proceeds, env
<1>2. NewSignals
  BY <1>1, NoNewSignal DEF TypeOK
<1>3. \A r \in RunIds : runs'[r].signal = runs[r].signal
  BY <1>1 DEF Touched
<1>4. \A v \in Workers : pc'[v] # "finished" => pc[v] # "finished"
  BY <1>1 DEF TypeOK
<1>5. \A k \in JobIds : Live(k)' => Live(k)
  BY <1>1, <1>4 DEF Live
<1>6. CASE p # "classifying"
  <2>1. NoRead
    BY <1>1, <1>6 DEF NoRead, TypeOK
  <2> QED
    BY <1>1, <1>2, <1>3, <1>5, <2>1, CountsNothing
<1>7. CASE p = "classifying"
  <2>1. /\ jobs[job[w]].op = "signal_classify" /\ runs[RunOf(w)].reports <= 1
        /\ seen' = [seen EXCEPT ![w] = frontier]
    BY <1>1, <1>7 DEF Proceeds
  <2>2. job[w] \in JobIds /\ RunOf(w) \in RunIds
    BY <1>1, BusyHolds
  <2>3. \A v \in Classifying' : v # w => v \in Classifying /\ seen'[v] = seen[v]
    BY <1>1, <2>1 DEF Classifying, TypeOK
  <2>4. Totals' \subseteq Totals
    <3>1. seen'[w] = frontier
      BY <2>1 DEF TypeOK
    <3> QED
      BY <1>1, <2>3, <3>1 DEF Totals
  <2>5. ASSUME NEW v \in Classifying, RunOf(v) = RunOf(w)
        PROVE  FALSE
    <3>1. v \in Workers /\ pc[v] = "classifying" /\ v # w
      BY <1>1 DEF Classifying
    <3>2. jobs[job[v]].op = "signal_classify"
      BY <3>1 DEF Held, HeldBy
    <3>3. job[v] \in JobIds
      BY <3>1, BusyHolds
    <3>4. job[v] # job[w]
      BY <2>2, <3>1 DEF Held, OneHolder, JobIds
    <3>5. runs[RunOf(w)].reports >= 2
      BY <2>1, <2>2, <2>5, <3>2, <3>3, <3>4 DEF Recounted, Reported, SignalJob, RunOf
    <3>6. runs[RunOf(w)].reports \in Nat
      BY <2>2, RunRow DEF TypeOK
    <3> QED
      BY <2>1, <3>5, <3>6
  <2>6. OneClassifier'
    <3>1. \A v \in Workers : RunOf(v)' = RunOf(v)
      BY <1>1 DEF RunOf
    <3>2. \A u, v \in Classifying : RunOf(u) = RunOf(v) => u = v
      BY DEF Recounted, OneClassifier
    <3>3. Classifying' \subseteq Workers
      BY DEF Classifying
    <3> QED
      BY <2>3, <2>5, <3>1, <3>2, <3>3 DEF OneClassifier
  <2>7. \A k \in JobIds' : UnderWay(k)' =>
            k \in JobIds /\ (UnderWay(k) \/ runs[jobs[k].run].reports <= 1)
    <3>1. JobIds' = JobIds
      BY <1>1 DEF JobIds
    <3>2. \A k \in JobIds : UnderWay(k)' => UnderWay(k) \/ k = job[w]
      BY <1>1, <2>3 DEF UnderWay
    <3> QED
      BY <2>1, <3>1, <3>2 DEF RunOf
  <2>8. Reported'
    BY <1>1, <1>2, <1>3, ReportedStays DEF Recounted
  <2>9. /\ Classified' = Classified /\ Apart' \subseteq Apart
        /\ Again' \subseteq Again \cup {0}
    BY <1>1, <1>2, <1>3, <1>5, <2>7, AgainShrinks DEF Recounted
  <2>10. 0 \notin Again'
    <3>1. 0 \notin JobIds'
      BY DEF JobIds, TypeOK
    <3> QED
      BY <3>1 DEF Again
  <2> QED
    BY <1>1, <2>4, <2>6, <2>8, <2>9, <2>10, NothingCounted
<1> QED
  BY <1>6, <1>7

\* A settled job is not executed again, and a refused patch is not signal_classify's.
LEMMA SettleRecounted ==
    ASSUME TypeOK, Held, TypeOK', JobsMove, Recounted, NEW w \in Workers, Settles(w)
    PROVE  Recounted'
<1>1. /\ frontier' = frontier /\ faults' = faults /\ pc[w] = "finished"
      /\ Touched(RunOf(w)) /\ runs'[RunOf(w)].signal = runs[RunOf(w)].signal
  BY DEF Settles, env
<1>2. \A r \in RunIds : runs'[r].signal = runs[r].signal
  BY <1>1 DEF Touched
<1>3. Len(jobs') = Len(jobs) /\ jobs' \in Seq(JobType)
      /\ \A k \in JobIds : k # job[w] => jobs'[k] = jobs[k]
  <2>1. CASE jobs' = jobs
    BY <2>1 DEF TypeOK
  <2>2. CASE jobs' # jobs
    <3>1. PICK s : StatusSet(job[w], s)
      BY <2>2 DEF Settles
    <3> QED
      BY <3>1 DEF StatusSet, Restatus
  <2> QED
    BY <2>1, <2>2
<1>4. NewSignals
  BY <1>3, NoNewSignal DEF TypeOK
<1>5. job[w] \in JobIds
  BY <1>1, BusyHolds
<1>6. \A v \in Workers : /\ v # w => pc'[v] = pc[v] /\ job'[v] = job[v]
                         /\ job'[w] = 0
  BY DEF Settles, Release, TypeOK
<1>7. PICK i \in JobIds : i = job[w] /\ i # 0
  BY <1>5 DEF JobIds
<1>8. \A v \in Workers : job'[v] # i
  BY <1>6, <1>7 DEF Held, OneHolder
<1>9. ASSUME SignalJob(i)
      PROVE  jobs'[i].status \notin {"pending", "claimed", "running"}
  <2>1. jobs'[i].status \in {"paused", "completed", "failed"}
        \/ jobs'[i].status = "cancelled" \/ ~PatchAllowed(w)
    BY <1>7 DEF Settles, StatusSet
  <2>2. PatchAllowed(w)
    BY <1>7, <1>9 DEF Held, HeldBy, SignalJob, PatchAllowed
  <2> QED
    BY <2>1, <2>2
<1>10. ASSUME NEW k \in JobIds, SignalJob(k), Live(k)'
       PROVE  Live(k)
  <2>1. CASE k = i
    BY <1>8, <1>9, <1>10, <2>1 DEF Live
  <2>2. CASE k # i
    <3>1. jobs'[k] = jobs[k] /\ k # 0
      BY <1>3, <1>7, <2>2 DEF JobIds
    <3> QED
      BY <1>6, <1>7, <1>10, <2>2, <3>1 DEF Live
  <2> QED
    BY <2>1, <2>2
<1>11. NoRead
  <2>1. pc'[w] = "idle"
    BY DEF Settles, Release, TypeOK
  <2>2. \A v \in Workers : v # w => seen'[v] = seen[v]
    BY DEF Settles, Release, TypeOK
  <2> QED
    BY <1>6, <2>1, <2>2 DEF NoRead
<1> QED
  BY <1>1, <1>2, <1>4, <1>10, <1>11, CountsNothing

\* A crash lets the job of the dead worker be executed again, at the price of a
\* fault.
LEMMA CrashRecounted ==
    ASSUME TypeOK, Held, TypeOK', JobsMove, Recounted, NEW w \in Workers, Crash(w)
    PROVE  Recounted'
<1>1. /\ jobs' = jobs /\ runs' = runs /\ frontier' = frontier /\ faults' = faults + 1
      /\ job[w] # 0
  BY DEF Crash, tables
<1>2. Touched(0) /\ NewSignals
  BY <1>1, SameTouches, NoNewSignal DEF TypeOK
<1>3. \A v \in Workers : /\ v # w => pc'[v] = pc[v] /\ job'[v] = job[v]
                         /\ job'[w] = 0
  BY DEF Crash, Release, TypeOK
<1>4. PICK i : i = job[w]
  OBVIOUS
<1>5. ASSUME NEW k \in JobIds, k # i, Live(k)'
      PROVE  Live(k)
  <2>1. k # 0
    BY DEF JobIds
  <2> QED
    BY <1>1, <1>3, <1>4, <1>5, <2>1 DEF Live
<1>6. \A k \in JobIds : SignalJob(k) /\ Live(k)' => Live(k) \/ k = i
  BY <1>5
<1>7. NoRead
  <2>1. pc'[w] = "idle"
    BY DEF Crash, Release, TypeOK
  <2>2. \A v \in Workers : v # w => seen'[v] = seen[v]
    BY DEF Crash, Release, TypeOK
  <2> QED
    BY <1>3, <2>1, <2>2 DEF NoRead
<1> QED
  BY <1>1, <1>2, <1>6, <1>7, CountsNothing

\* A reclaimed job was live before; a request counts nothing.
LEMMA OutsideRecounted ==
    ASSUME TypeOK, Held, TypeOK', JobsMove, Recounted,
           \/ \E j \in JobIds : Reclaims(j)
           \/ \E q : Asks(q)
           \/ \E q \in api : \/ Creates(q) \/ Resumes(q)
                             \/ Withdraws(q, Cancelling, "cancelled")
                             \/ Withdraws(q, Pausing, "paused")
    PROVE  Recounted'
<1>1. job' = job /\ pc' = pc /\ frontier' = frontier /\ faults' = faults /\ seen' = seen
  BY DEF Reclaims, Asks, Creates, Resumes, Withdraws, worker, env, tables
<1>6. NoRead
  BY <1>1 DEF NoRead
<1>2. ASSUME NEW j \in JobIds, Reclaims(j)
      PROVE  Recounted'
  <2>1. runs' = runs /\ Len(jobs') = Len(jobs) /\ jobs' \in Seq(JobType)
    BY <1>2 DEF Reclaims, Restatus
  <2>2. Touched(0) /\ NewSignals
    BY <2>1, SameTouches, NoNewSignal DEF TypeOK
  <2>3. Live(j)
    BY <1>2 DEF Reclaims, Live, Holder
  <2>4. \A k \in JobIds : Live(k)' => Live(k)
    BY <1>1, <1>2, <2>3 DEF Reclaims, Live
  <2> QED
    BY <1>1, <2>1, <2>2, <2>4, <1>6, CountsNothing
<1>3. ASSUME NEW q, Asks(q)
      PROVE  Recounted'
  <2>1. runs' = runs /\ jobs' = jobs
    BY <1>3 DEF Asks, tables
  <2>2. Touched(0) /\ NewSignals
    BY <2>1, SameTouches, NoNewSignal DEF TypeOK
  <2>3. \A k \in JobIds : Live(k)' => Live(k)
    BY <1>1, <2>1 DEF Live
  <2> QED
    BY <1>1, <2>1, <2>2, <2>3, <1>6, CountsNothing
<1>4. ASSUME NEW q \in api, Creates(q) \/ Resumes(q)
      PROVE  Recounted'
  <2>1. PICK t : Touched(t) /\ (t \in RunIds => runs'[t].signal = runs[t].signal)
    <3>1. CASE Creates(q)
      BY <3>1 DEF Creates, RunIds
    <3>2. CASE Resumes(q)
      BY <3>2 DEF Resumes
    <3> QED
      BY <1>4, <3>1, <3>2
  <2>2. NewSignals
    <3>1. /\ jobs' \in Seq(JobType) /\ Len(jobs') = Len(jobs) + 1
          /\ jobs'[Len(jobs) + 1].op # "signal_classify"
      BY <1>4 DEF Creates, Resumes, Added, NewJob
    <3> QED
      BY <3>1, NoNewSignal DEF TypeOK
  <2>3. \A r \in RunIds : runs'[r].signal = runs[r].signal
    BY <2>1 DEF Touched
  <2>4. \A k \in JobIds : jobs'[k] = jobs[k]
    BY <1>4 DEF Creates, Resumes, Added
  <2>5. \A k \in JobIds : Live(k)' => Live(k)
    BY <1>1, <2>4 DEF Live
  <2> QED
    BY <1>1, <2>1, <2>2, <2>3, <2>5, <1>6, CountsNothing
<1>5. ASSUME NEW q \in api, NEW from, NEW s \in {"cancelled", "paused"},
             Withdraws(q, from, s)
      PROVE  Recounted'
  <2>1. /\ Touched(q.target) /\ runs'[q.target].signal = runs[q.target].signal
        /\ Len(jobs') = Len(jobs) /\ jobs' \in Seq(JobType)
    BY <1>5 DEF Withdraws, Restatus
  <2>2. NewSignals
    BY <2>1, NoNewSignal DEF TypeOK
  <2>3. \A r \in RunIds : runs'[r].signal = runs[r].signal
    BY <2>1 DEF Touched
  <2>4. \A k \in JobIds : jobs'[k].status \in {"pending", "claimed", "running"} =>
                             jobs'[k].status = jobs[k].status
    BY <1>5 DEF Withdraws
  <2>5. \A k \in JobIds : Live(k)' => Live(k)
    BY <1>1, <2>4 DEF Live
  <2> QED
    BY <1>1, <2>1, <2>2, <2>3, <2>5, <1>6, CountsNothing
<1> QED
  BY <1>2, <1>3, <1>4, <1>5

\* An operator that returns: verification hands over with a new report, and
\* signal_classify counts its run, for the first time or again.
LEMMA ReturnRecounted ==
    ASSUME TypeOK, Held, TypeOK', JobsMove, Recounted, NEW w \in Workers,
           ReturnsSome(w), faults' \in {faults, faults + 1}
    PROVE  Recounted'
<1>1. PICK rs \in {"success", "failure"}, pt \in CycleStatus \cup {"none"},
           nxt \in Operators \cup {"none"}, x \in Nat, flag \in BOOLEAN :
           Returns(w, rs, pt, nxt, x, flag)
  BY DEF ReturnsSome
<1>2. pc[w] \in {"executing", "building", "stopped", "classifying"}
  BY <1>1 DEF Returns
<1>3. job[w] \in JobIds /\ RunOf(w) \in RunIds
  BY <1>2, BusyHolds
<1>4. PICK i \in JobIds : i = job[w]
  BY <1>3
<1>5. PICK r \in RunIds : r = RunOf(w) /\ jobs[i].run = r
  BY <1>3, <1>4 DEF RunOf
<1>6. /\ pc' = [pc EXCEPT ![w] = "finished"] /\ job' = job
      /\ Hands(jobs[i].op, rs, pt, nxt) /\ Touched(r)
      /\ IF nxt = "none" THEN jobs' = jobs ELSE Added(nxt, x, flag)
      /\ x = IF pt = "running" THEN Len(runs) + 1 ELSE r
      /\ runs'[r].reports = IF jobs[i].op = "verification_check" /\ rs = "success"
                            THEN runs[r].reports + 1 ELSE runs[r].reports
  BY <1>1, <1>4, <1>5 DEF Returns
<1>7. \/ runs'[r].signal = runs[r].signal /\ frontier' = frontier
      \/ /\ pc[w] = "classifying" /\ runs'[r].signal
         /\ Classifying # {w} => runs'[r].overlapped
         /\ frontier' = seen[w] + 1
  BY <1>1, <1>4, <1>5 DEF Returns
<1>8. \A k \in JobIds : jobs'[k] = jobs[k]
  <2>1. CASE nxt = "none"
    BY <1>6, <2>1
  <2>2. CASE nxt # "none"
    BY <1>6, <2>2 DEF Added
  <2> QED
    BY <2>1, <2>2
<1>9. NewSignals
  <2>1. CASE nxt = "none"
    BY <1>6, <2>1, NoNewSignal DEF TypeOK
  <2>2. CASE nxt # "none" /\ nxt # "signal_classify"
    <3>1. /\ jobs' \in Seq(JobType) /\ Len(jobs') = Len(jobs) + 1
          /\ jobs'[Len(jobs) + 1].op # "signal_classify"
      BY <1>6, <2>2 DEF Added, NewJob
    <3> QED
      BY <3>1, NoNewSignal DEF TypeOK
  <2>3. CASE nxt = "signal_classify"
    <3>1. pt = "none" /\ jobs[i].op = "verification_check" /\ rs = "success"
      BY <1>6, <2>3 DEF Hands
    <3>2. Added(nxt, r, flag)
      BY <1>6, <2>3, <3>1
    <3>3. /\ Len(jobs') = Len(jobs) + 1 /\ Len(jobs) \in Nat
          /\ jobs'[Len(jobs) + 1].run = r
      BY <3>2 DEF Added, NewJob, TypeOK
    <3>4. \A k \in JobIds' : k \notin JobIds => k = Len(jobs) + 1
      BY <3>3 DEF JobIds
    <3>5. runs[r].reports \in Nat /\ runs'[r].reports = runs[r].reports + 1
      BY <1>6, <3>1, RunRow DEF TypeOK
    <3>6. runs'[r].reports > runs[r].reports
      BY <3>5
    <3> QED
      BY <3>3, <3>4, <3>6 DEF NewSignals
  <2> QED
    BY <2>1, <2>2, <2>3
<1>10. \A v \in Workers : /\ v # w => pc'[v] = pc[v]
                          /\ v = w => pc'[v] = "finished"
  BY <1>6 DEF TypeOK
<1>15. NoRead
  <2>1. \A v \in Workers : v # w => seen'[v] = seen[v]
    BY <1>1 DEF Returns, TypeOK
  <2> QED
    BY <1>6, <1>10, <2>1 DEF NoRead
<1>11. ~Live(i)'
  BY <1>4, <1>6, <1>10 DEF Live
<1>12. ASSUME NEW k \in JobIds, Live(k)'
       PROVE  Live(k)
  <2>1. k # i
    BY <1>11, <1>12
  <2> QED
    BY <1>4, <1>6, <1>8, <1>10, <1>12, <2>1 DEF Live
<1>13. CASE runs'[r].signal = runs[r].signal /\ frontier' = frontier
  <2>1. \A k \in RunIds : runs'[k].signal = runs[k].signal
    BY <1>6, <1>13 DEF Touched
  <2> QED
    BY <1>6, <1>9, <1>12, <1>13, <1>15, <2>1, CountsNothing
<1>14. CASE /\ pc[w] = "classifying" /\ runs'[r].signal
            /\ Classifying # {w} => runs'[r].overlapped
            /\ frontier' = seen[w] + 1
  <2>0. jobs[i].op = "signal_classify"
    BY <1>4, <1>14 DEF Held, HeldBy
  <2>1. SignalJob(i)
    BY <2>0 DEF SignalJob
  <2>10. w \in Classifying /\ UnderWay(i) /\ RunOf(w) = r
    BY <1>4, <1>5, <1>14 DEF Classifying, UnderWay
  <2>11. /\ OneClassifier' /\ Totals' \subseteq Totals \cup {frontier'}
         /\ \A k : UnderWay(k)' => k \in JobIds /\ UnderWay(k)
    BY <1>15, ClassifiersStay DEF Recounted
  <2>2. runs[r].reports >= 1 /\ runs'[r].reports = runs[r].reports
    BY <1>5, <1>6, <2>0, <2>1 DEF Recounted, Reported
  <2>3. \A k \in RunIds : k # r => runs'[k] = runs[k]
    BY <1>6 DEF Touched
  <2>4. Reported'
    <3>1. \A k \in RunIds : runs'[k].signal => runs[k].signal \/ runs[k].reports >= 1
      BY <2>2, <2>3
    <3> QED
      BY <1>6, <1>9, <3>1, ReportedStays DEF Recounted
  <2>5. Len(runs) \in Nat /\ Len(runs') \in Nat /\ Len(runs') >= Len(runs)
    BY <1>6, SMTT(30) DEF Touched, TypeOK
  <2>6. Classified' = Classified \cup {r}
    <3>1. \A k \in RunIds' : k \notin RunIds => ~runs'[k].signal
      BY <1>6 DEF Touched
    <3>2. \A k \in RunIds : k \in RunIds'
      BY <2>5 DEF RunIds
    <3> QED
      BY <1>14, <2>3, <3>1, <3>2 DEF Classified
  <2>7. ASSUME NEW k \in Again'
        PROVE  k \in Again /\ k # i
    <3>1. /\ k \in JobIds' /\ SignalJob(k)' /\ Live(k)'
          /\ runs'[jobs'[k].run].signal
          /\ runs'[jobs'[k].run].reports <= 1 \/ UnderWay(k)
      BY <2>7, <2>11 DEF Again
    <3>2. k \in JobIds
      <4> SUFFICES ASSUME k \notin JobIds PROVE FALSE
        OBVIOUS
      <4>1. nxt = "recommend" \/ nxt = "none"
        BY <1>6, <2>0 DEF Hands
      <4>2. CASE nxt = "none"
        BY <1>6, <3>1, <4>2 DEF JobIds
      <4>3. CASE nxt = "recommend"
        <5>1. /\ Len(jobs') = Len(jobs) + 1 /\ Len(jobs) \in Nat
              /\ jobs'[Len(jobs) + 1].op = "recommend"
          BY <1>6, <4>3, SMTT(30) DEF Added, NewJob, TypeOK
        <5>2. k = Len(jobs) + 1
          BY <3>1, <5>1 DEF JobIds
        <5> QED
          BY <3>1, <5>1, <5>2 DEF SignalJob
      <4> QED
        BY <4>1, <4>2, <4>3
    <3>3. k # i
      BY <1>11, <3>1
    <3>4. SignalJob(k) /\ Live(k) /\ jobs'[k].run = jobs[k].run /\ jobs[k].run \in RunIds
      BY <1>8, <1>12, <3>1, <3>2 DEF SignalJob, TypeOK
    <3>5. jobs[k].run # r
      <4>1. jobs[k].run = r => runs[r].reports >= 2
        BY <1>5, <2>1, <3>2, <3>3, <3>4 DEF Recounted, Reported
      <4>2. runs[r].reports \in Nat
        BY RunRow DEF TypeOK
      <4>3. ASSUME UnderWay(k), jobs[k].run = r
            PROVE  FALSE
        <5>1. PICK v \in Classifying : job[v] = k
          BY <4>3 DEF UnderWay
        <5>2. v = w
          BY <2>10, <4>3, <5>1 DEF Recounted, OneClassifier, RunOf
        <5> QED
          BY <1>4, <3>3, <5>1, <5>2
      <4>4. runs'[r].reports <= 1 \/ UnderWay(k) \/ jobs[k].run # r
        BY <3>1, <3>4
      <4> QED
        BY <2>2, <4>1, <4>2, <4>3, <4>4
    <3>6. runs[jobs[k].run].signal /\ (runs[jobs[k].run].reports <= 1 \/ UnderWay(k))
      BY <2>3, <3>1, <3>4, <3>5
    <3> QED
      BY <3>2, <3>3, <3>4, <3>6 DEF Again
  <2>12. PICK s : s = seen[w]
    OBVIOUS
  <2>13. s \in Totals /\ Totals' \subseteq Totals \cup {s + 1}
    BY <1>14, <2>10, <2>11, <2>12 DEF Totals
  <2>14. Apart' \subseteq Apart \cup {r}
    <3>1. \A k \in RunIds' : k \notin RunIds => ~runs'[k].signal
      BY <1>6 DEF Touched
    <3> QED
      BY <2>3, <3>1 DEF Apart
  <2>15. Totals' = {s + 1} \/ Apart' \subseteq Apart
    <3>1. CASE Classifying = {w}
      <4>1. Classifying' = {}
        BY <1>10, <1>15, <3>1 DEF Classifying, NoRead
      <4> QED
        BY <1>14, <2>12, <4>1 DEF Totals
    <3>2. CASE Classifying # {w}
      <4>1. runs'[r].overlapped
        BY <1>14, <3>2
      <4>2. r \notin Apart'
        BY <4>1 DEF Apart
      <4> QED
        BY <2>14, <4>2
    <3> QED
      BY <3>1, <3>2
  <2>8. CASE runs[r].signal
    <3>1. pc[w] # "finished" /\ \A v \in Workers : job[v] = i => v = w
      BY <1>2, <1>4 DEF Held, OneHolder, JobIds
    <3>2. Live(i)
      BY <1>4, <3>1 DEF Live
    <3>3. i \in Again
      BY <1>5, <2>10, <2>1, <2>8, <3>2 DEF Again
    <3>4. Classified' = Classified
      BY <2>6, <2>8 DEF Classified
    <3> QED
      BY <2>4, <2>7, <2>11, <2>13, <2>14, <2>15, <3>3, <3>4, OneCounted
  <2>9. CASE ~runs[r].signal
    <3>1. r \notin Classified
      BY <2>9 DEF Classified
    <3> QED
      BY <2>4, <2>6, <2>7, <2>11, <2>13, <2>14, <2>15, <3>1, OneCounted
  <2> QED
    BY <2>8, <2>9
<1> QED
  BY <1>7, <1>13, <1>14

\* Every effect keeps the account of the frontier.
LEMMA EffectRecounted ==
    ASSUME TypeOK, Held, TypeOK', JobsMove, Recounted, Effect
    PROVE  Recounted'
<1>1. ASSUME NEW w \in Workers, WorkerEffect(w)
      PROVE  Recounted'
  <2>1. CASE ReturnsSome(w) /\ UNCHANGED env
    BY <2>1, ReturnRecounted DEF env
  <2>2. CASE ReturnsSome(w) /\ faults' = faults + 1
    BY <2>2, ReturnRecounted
  <2> QED
    BY <1>1, <2>1, <2>2, PickupRecounted, ProceedRecounted, SettleRecounted, CrashRecounted
    DEF WorkerEffect
<1> QED
  BY <1>1, OutsideRecounted DEF Effect

-----------------------------------------------------------------------------
(* One worker and one experiment. *)

\* The other workers have nothing to do.
Alone(w) == \A v \in Workers : v # w => job[v] = 0 /\ pc[v] = "idle" /\ patch[v] = "none"

\* The crew is the one worker.
LEMMA AloneAtWork ==
    ASSUME TypeOK, Held, Undisturbed, NEW w \in Workers, w \in scenario.crew
    PROVE  Alone(w)
<1>1. IsFiniteSet(scenario.crew) /\ Cardinality(scenario.crew) = 1
  BY CrewWorks DEF Undisturbed
<1>2. PICK c : scenario.crew = {c}
  BY <1>1, FS_Singleton
<1>3. \A v \in Workers : v # w => job[v] = 0
  BY <1>2 DEF Held, HeldBy
<1> QED
  BY <1>3 DEF Alone, Held, HeldBy

\* Undisturbed is lost for good.
LEMMA WasUndisturbed ==
    ASSUME TypeOK, Effect, Undisturbed'
    PROVE  /\ Undisturbed /\ scenario' = scenario
           /\ faults' = faults /\ requests' <= 1
           /\ requests' = requests \/ requests' = requests + 1
<1>1. faults \in Nat /\ requests \in Nat
  BY CrewWorks, PipelineAssumption DEF TypeOK
<1>2. /\ scenario' = scenario /\ faults' \in {faults, faults + 1}
      /\ requests' \in {requests, requests + 1}
  BY DEF Effect, WorkerEffect, Claims, Starts, Proceeds, Settles, Crash, Reclaims, Asks,
         Creates, Resumes, Withdraws, env
<1> QED
  BY <1>1, <1>2 DEF Undisturbed

\* Before the start nobody works, and only a start may be asked for.
LEMMA NotStartedStep ==
    ASSUME TypeOK, Held, TypeOK', Effect, Undisturbed', NotStarted
    PROVE  NotStarted' \/ Started'
<1>1. /\ Len(runs) = 0 /\ Len(jobs) = 0 /\ runs = <<>> /\ jobs = <<>>
      /\ cycle = "protocol_ready"
      /\ \A q \in api : q.op = "start" /\ "protocol_ready" \in q.saw
      /\ \A p, q \in api : p = q
      /\ requests = 0 => api = {}
  BY DEF NotStarted
<1>2. RunIds = {} /\ JobIds = {}
  BY <1>1 DEF RunIds, JobIds
<1>3. \A w \in Workers : pc[w] = "idle" /\ job[w] = 0 /\ patch[w] = "none"
  BY <1>2, BusyHolds DEF Held, HeldBy
<1>4. requests \in Nat /\ requests' <= 1
  BY WasUndisturbed, PipelineAssumption, SMTT(30) DEF TypeOK
<1>5. ASSUME NEW w \in Workers, WorkerEffect(w)
      PROVE  FALSE
  BY <1>2, <1>3, <1>5, ZenonT(40)
  DEF WorkerEffect, Starts, Proceeds, ReturnsSome, Returns, Settles, Crash
<1>6. ASSUME NEW q, Asks(q)
      PROVE  NotStarted'
  <2>1. /\ requests' = requests + 1 /\ api' = api \cup {q} /\ UNCHANGED tables
        /\ q \in RequestType
        /\ q.op = "start" => q.saw = {cycle}
        /\ q.op # "start" => q.target \in RunIds
    BY <1>6 DEF Asks
  <2>2. requests = 0 /\ api' = {q}
    BY <1>1, <1>4, <2>1
  <2>3. q.op = "start" /\ "protocol_ready" \in q.saw
    BY <1>1, <1>2, <2>1
  <2> QED
    BY <1>1, <2>1, <2>2, <2>3 DEF NotStarted, tables
<1>7. ASSUME NEW q \in api, Creates(q)
      PROVE  Started'
  <2>0. /\ Len(runs') = Len(runs) + 1 /\ Added("execution_setup", Len(runs) + 1, FALSE)
        /\ q.op = "start" /\ "protocol_ready" \in q.saw => cycle' = "running"
        /\ api' = api \ {q} /\ Touched(0) /\ requests' = requests /\ UNCHANGED worker
    BY <1>7 DEF Creates
  <2>1. /\ api' = api \ {q} /\ cycle' = "running" /\ Touched(0) /\ Len(runs') = 1
        /\ Len(jobs') = 1 /\ jobs'[1].status = "pending"
        /\ jobs'[1].op = "execution_setup" /\ jobs'[1].run = 1
        /\ requests' = requests /\ UNCHANGED worker
    BY <1>1, <1>7, <2>0 DEF Added, NewJob
  <2>2. requests' = 1 /\ api' = {}
    BY <1>1, <1>4, <1>7, <2>1
  <2>3. RunIds' = {1} /\ JobIds' = {1}
    BY <2>1 DEF RunIds, JobIds
  <2>4. runs'[1].reports = 0
    BY <1>2, <2>1, <2>3 DEF Touched
  <2>5. \A w \in Workers : patch'[w] = "none"
    BY <1>3, <2>1 DEF worker
  <2>6. Ahead("running")' /\ \A w \in Workers : PatchAllowed(w)'
    BY <2>1, <2>5 DEF Ahead, PatchAllowed
  <2>7. "execution_setup" \in ExecutionOps
    BY DEF ExecutionOps
  <2> QED
    BY <2>1, <2>2, <2>3, <2>4, <2>6, <2>7 DEF Started
<1> QED
  BY <1>2, <1>5, <1>6, <1>7 DEF Effect, Resumes, Withdraws

\* Steps that make no token, and report nothing.
LEMMA StartedLasts ==
    ASSUME TypeOK, JobsMove, Started, api' = api, requests' = requests,
           Len(jobs') = Len(jobs), Len(runs') = Len(runs),
           \A k \in JobIds : Token(k)' => Token(k),
           \A k \in JobIds : jobs'[k].status \notin {"paused", "cancelled"},
           \A k \in JobIds : jobs'[k].status \in {"claimed", "running"} =>
                                 \E w \in Workers : job'[w] = k,
           \A r \in RunIds : runs'[r].reports = runs[r].reports,
           Ahead("running") => Ahead("running")',
           Ahead("verifying") => Ahead("verifying")',
           \A w \in Workers : PatchAllowed(w)'
    PROVE  Started'
<1>1. JobIds' = JobIds /\ RunIds' = RunIds
  BY DEF JobIds, RunIds
<1>2. \A k \in JobIds : /\ jobs'[k].op = jobs[k].op /\ jobs'[k].run = jobs[k].run
                        /\ jobs[k].run \in RunIds
  BY DEF JobsMove, TypeOK
<1>3. \A k \in JobIds : Token(k)' =>
          /\ jobs'[k].op \in ExecutionOps => Ahead("running")'
          /\ jobs'[k].op \notin ExecutionOps => Ahead("verifying")'
          /\ jobs'[k].op \in ExecutionOps \cup {"verification_check"}
                => runs'[jobs'[k].run].reports = 0
  BY <1>2 DEF Started
<1>4. \A j, k \in JobIds : Token(j)' /\ Token(k)' => j = k
  BY DEF Started
<1>5. \A r \in RunIds : runs'[r].reports <= 1
  BY DEF Started
<1>6. requests' = 1 /\ api' = {}
  BY DEF Started
<1> QED
  BY <1>1, <1>3, <1>4, <1>5, <1>6 DEF Started

\* The one worker takes up a job, goes on with it, or settles it.
LEMMA StartedGoesOn ==
    ASSUME TypeOK, Held, TypeOK', JobsMove, Started, NEW w \in Workers, Alone(w),
           \/ \E j \in JobIds : Claims(w, j)
           \/ Starts(w)
           \/ \E p \in {"building", "container", "stopped", "classifying"} : Proceeds(w, p)
    PROVE  Started'
<1>1. /\ api' = api /\ requests' = requests /\ cycle' = cycle /\ patch' = patch
      /\ Len(jobs') = Len(jobs)
  BY DEF Claims, Starts, Proceeds, StatusSet, Restatus, env
<1>2. Len(runs') = Len(runs) /\ \A r \in RunIds : runs'[r].reports = runs[r].reports
  BY DEF Claims, Starts, Proceeds, Touched
<1>3. /\ Ahead("running") => Ahead("running")'
      /\ Ahead("verifying") => Ahead("verifying")'
      /\ \A v \in Workers : PatchAllowed(v)'
  BY <1>1 DEF Ahead, PatchAllowed, Started
<1>4. \A k \in JobIds : /\ jobs[k].status \notin {"paused", "cancelled"}
                        /\ jobs[k].status \in {"claimed", "running"}
                              => \E v \in Workers : job[v] = k
  BY DEF Started
<1>5. ASSUME NEW j \in JobIds, Claims(w, j)
      PROVE  Started'
  <2>1. /\ StatusSet(j, "claimed") /\ jobs[j].status = "pending" /\ pc[w] = "idle"
        /\ pc' = [pc EXCEPT ![w] = "claimed"] /\ job' = [job EXCEPT ![w] = j]
    BY <1>5 DEF Claims
  <2>2. \A v \in Workers : /\ v # w => pc'[v] = pc[v] /\ job'[v] = job[v]
                           /\ job'[w] = j
    BY <2>1 DEF TypeOK
  <2>3. job[w] = 0 /\ \A k \in JobIds : k # 0
    BY <2>1 DEF Held, HeldBy, JobIds
  <2>4. \A k \in JobIds : Token(k)' => Token(k)
    BY <2>1, <2>2 DEF Token, StatusSet
  <2>5. \A k \in JobIds : jobs'[k].status \notin {"paused", "cancelled"}
    BY <1>4, <2>1 DEF StatusSet
  <2>6. ASSUME NEW k \in JobIds, jobs'[k].status \in {"claimed", "running"}
        PROVE  \E v \in Workers : job'[v] = k
    <3>1. CASE k = j
      BY <2>2, <3>1
    <3>2. CASE k # j
      <4>1. PICK v \in Workers : job[v] = k
        BY <1>4, <2>1, <2>6, <3>2 DEF StatusSet
      <4>2. v # w
        BY <2>3, <4>1
      <4> QED
        BY <2>2, <4>1, <4>2
    <3> QED
      BY <3>1, <3>2
  <2> QED
    BY <1>1, <1>2, <1>3, <2>4, <2>5, <2>6, StartedLasts
<1>6. CASE Starts(w)
  <2>1. /\ StatusSet(job[w], "running") /\ job' = job
        /\ pc[w] = "claimed" /\ pc' = [pc EXCEPT ![w] = "executing"]
    BY <1>6 DEF Starts
  <2>2. \A v \in Workers : pc'[v] # "finished" => pc[v] # "finished"
    BY <2>1 DEF TypeOK
  <2>3. \A k \in JobIds : Token(k)' => Token(k)
    BY <2>1, <2>2 DEF Token, StatusSet
  <2>4. \A k \in JobIds : jobs'[k].status \notin {"paused", "cancelled"}
    BY <1>4, <2>1 DEF StatusSet
  <2>5. \A k \in JobIds : jobs'[k].status \in {"claimed", "running"} =>
            \E v \in Workers : job'[v] = k
    BY <1>4, <2>1 DEF StatusSet
  <2> QED
    BY <1>1, <1>2, <1>3, <2>3, <2>4, <2>5, StartedLasts
<1>7. ASSUME NEW p \in {"building", "container", "stopped", "classifying"}, Proceeds(w, p)
      PROVE  Started'
  <2>1. /\ jobs' = jobs /\ job' = job
        /\ pc[w] \in {"executing", "container"} /\ pc' = [pc EXCEPT ![w] = p]
    BY <1>7 DEF Proceeds
  <2>2. \A v \in Workers : pc'[v] # "finished" => pc[v] # "finished"
    BY <2>1 DEF TypeOK
  <2>3. \A k \in JobIds : Token(k)' => Token(k)
    BY <2>1, <2>2 DEF Token
  <2> QED
    BY <1>1, <1>2, <1>3, <1>4, <2>1, <2>3, StartedLasts
<1> QED
  BY <1>5, <1>6, <1>7

\* The one worker settles its job: the patch becomes the cycle's status.
LEMMA StartedSettles ==
    ASSUME TypeOK, Held, TypeOK', JobsMove, Started, NEW w \in Workers, Alone(w),
           Settles(w)
    PROVE  Started'
<1>1. /\ api' = api /\ requests' = requests /\ pc[w] = "finished" /\ Release(w)
      /\ Len(runs') = Len(runs) /\ Touched(RunOf(w))
      /\ runs'[RunOf(w)].reports = runs[RunOf(w)].reports
  BY DEF Settles, env
<1>2. \A r \in RunIds : runs'[r].reports = runs[r].reports
  BY <1>1 DEF Touched
<1>3. job[w] \in JobIds /\ job[w] # 0
  BY <1>1, BusyHolds DEF JobIds
<1>4. \A k \in JobIds : /\ jobs[k].status \notin {"paused", "cancelled"}
                        /\ jobs[k].status \in {"claimed", "running"}
                              => \E v \in Workers : job[v] = k
  BY DEF Started
<1>5. PatchAllowed(w)
  BY DEF Started
<1>6. PICK s \in {"paused", "completed", "failed"} :
          StatusSet(job[w], s) /\ (s = "paused" => jobs[job[w]].status = "paused")
  BY <1>3, <1>4, <1>5 DEF Settles
<1>7. cycle' = IF patch[w] = "none" THEN cycle ELSE patch[w]
  BY <1>3, <1>4, <1>5 DEF Settles
<1>8. \A v \in Workers : /\ v # w => pc'[v] = pc[v] /\ job'[v] = job[v]
                         /\ job'[w] = 0 /\ patch'[v] = "none"
  BY <1>1 DEF Release, TypeOK, Alone
<1>9. /\ Ahead("running") => Ahead("running")'
      /\ Ahead("verifying") => Ahead("verifying")'
  BY <1>7, <1>8 DEF Ahead, Alone
<1>10. \A v \in Workers : PatchAllowed(v)'
  BY <1>8 DEF PatchAllowed
<1>11. Len(jobs') = Len(jobs)
  BY <1>6 DEF StatusSet, Restatus
<1>12. \A k \in JobIds : jobs'[k].status \notin {"paused", "cancelled"}
  BY <1>3, <1>4, <1>6 DEF StatusSet
<1>13. \A k \in JobIds : jobs'[k].status \in {"claimed", "running"} =>
            \E v \in Workers : job'[v] = k
  <2> SUFFICES ASSUME NEW k \in JobIds, jobs'[k].status \in {"claimed", "running"}
               PROVE  \E v \in Workers : job'[v] = k
    OBVIOUS
  <2>1. k # job[w] /\ jobs'[k] = jobs[k]
    BY <1>6 DEF StatusSet
  <2>2. PICK v \in Workers : job[v] = k
    BY <1>4, <2>1
  <2> QED
    BY <1>8, <2>1, <2>2
<1>14. \A k \in JobIds : Token(k)' => Token(k)
  <2>1. \A k \in JobIds : k # 0
    BY DEF JobIds
  <2> QED
    BY <1>6, <1>8, <2>1 DEF Token, StatusSet
<1> QED
  BY <1>1, <1>2, <1>9, <1>10, <1>11, <1>12, <1>13, <1>14, StartedLasts

\* The one worker's operator returns: it hands over to a job that fits the
\* status the cycle will have, or to none.
LEMMA StartedReturns ==
    ASSUME TypeOK, Held, TypeOK', JobsMove, Started, NEW w \in Workers, Alone(w),
           ReturnsSome(w), UNCHANGED env
    PROVE  Started'
<1>1. PICK rs \in {"success", "failure"}, pt \in CycleStatus \cup {"none"},
           nxt \in Operators \cup {"none"}, x \in Nat, flag \in BOOLEAN :
           Returns(w, rs, pt, nxt, x, flag)
  BY DEF ReturnsSome
<1>2. pc[w] \in {"executing", "building", "stopped", "classifying"}
  BY <1>1 DEF Returns
<1>3. job[w] \in JobIds /\ RunOf(w) \in RunIds
  BY <1>2, BusyHolds
<1>4. PICK i \in JobIds : i = job[w] /\ i # 0
  BY <1>3 DEF JobIds
<1>5. PICK r \in RunIds : r = RunOf(w) /\ jobs[i].run = r
  BY <1>3, <1>4 DEF RunOf
<1>6. PICK op \in Operators : op = jobs[i].op
  BY <1>4, JobRow DEF TypeOK
<1>7. /\ pc' = [pc EXCEPT ![w] = "finished"] /\ job' = job
      /\ patch' = [patch EXCEPT ![w] = pt] /\ cycle' = cycle
      /\ Hands(op, rs, pt, nxt) /\ Touched(r)
      /\ IF nxt = "none" THEN jobs' = jobs ELSE Added(nxt, x, flag)
      /\ x = IF pt = "running" THEN Len(runs) + 1 ELSE r
      /\ Len(runs') = IF pt = "running" THEN Len(runs) + 1 ELSE Len(runs)
      /\ runs'[r].reports = IF op = "verification_check" /\ rs = "success"
                            THEN runs[r].reports + 1 ELSE runs[r].reports
  BY <1>1, <1>4, <1>5, <1>6 DEF Returns
<1>8. patch[w] = "none" /\ jobs[i].status # "pending"
  BY <1>2, <1>4 DEF Held, HeldBy
<1>9. \A v \in Workers : /\ patch[v] = "none"
                         /\ v # w => pc'[v] = pc[v] /\ patch'[v] = "none"
                         /\ pc'[w] = "finished" /\ patch'[w] = pt
  BY <1>7, <1>8 DEF TypeOK, Alone
<1>10. /\ op \in ExecutionOps => cycle = "running"
       /\ op \notin ExecutionOps => cycle = "verifying"
       /\ op \in ExecutionOps \cup {"verification_check"} => runs[r].reports = 0
  <2>1. Token(i)
    BY <1>2, <1>4 DEF Token
  <2>2. /\ op \in ExecutionOps => Ahead("running")
        /\ op \notin ExecutionOps => Ahead("verifying")
        /\ op \in ExecutionOps \cup {"verification_check"} => runs[r].reports = 0
    BY <1>5, <1>6, <2>1 DEF Started
  <2> QED
    BY <1>9, <2>2 DEF Ahead
<1>11. \A k \in JobIds : jobs'[k] = jobs[k]
  <2>1. CASE nxt = "none"
    BY <1>7, <2>1
  <2>2. CASE nxt # "none"
    BY <1>7, <2>2 DEF Added
  <2> QED
    BY <2>1, <2>2
<1>12. \A k \in JobIds : ~Token(k)'
  <2> SUFFICES ASSUME NEW k \in JobIds, Token(k)'
               PROVE  FALSE
    OBVIOUS
  <2>1. Token(i)
    BY <1>2, <1>4 DEF Token
  <2>2. \A v \in Workers : job[v] = k /\ k # i => pc'[v] = pc[v]
    BY <1>4, <1>9
  <2>3. k # i => Token(k)
    BY <1>7, <1>11, <2>2 DEF Token
  <2>4. k = i
    BY <2>1, <2>3 DEF Started
  <2>5. \A v \in Workers : job[v] = i => v = w
    BY <1>4 DEF Held, OneHolder
  <2> QED
    BY <1>7, <1>8, <1>9, <1>11, <2>4, <2>5 DEF Token
<1>13. \A k \in JobIds' : k \notin JobIds =>
          /\ k = Len(jobs) + 1 /\ nxt # "none"
          /\ jobs'[k].status = "pending" /\ jobs'[k].op = nxt /\ jobs'[k].run = x
  <2>1. CASE nxt = "none"
    BY <1>7, <2>1 DEF JobIds
  <2>2. CASE nxt # "none"
    <3>1. /\ Len(jobs') = Len(jobs) + 1 /\ Len(jobs) \in Nat
          /\ jobs'[Len(jobs) + 1].status = "pending" /\ jobs'[Len(jobs) + 1].op = nxt
          /\ jobs'[Len(jobs) + 1].run = x
      BY <1>7, <2>2, SMTT(30) DEF Added, NewJob, TypeOK
    <3>2. \A k \in JobIds' : k \notin JobIds => k = Len(jobs) + 1
      BY <3>1 DEF JobIds
    <3> QED
      BY <2>2, <3>1, <3>2
  <2> QED
    BY <2>1, <2>2
<1>14. \A s \in CycleStatus : pt = s \/ (pt = "none" /\ cycle = s) => Ahead(s)'
  BY <1>7, <1>9 DEF Ahead, CycleStatus
<1>15. <<cycle, pt>> \in AllowedTransitions \/ pt = "none"
  BY <1>7, <1>10 DEF Hands, AllowedTransitions, ExecutionOps
<1>16. \A v \in Workers : PatchAllowed(v)'
  BY <1>7, <1>9, <1>15 DEF PatchAllowed
<1>17. \A k \in RunIds' : runs'[k].reports <= 1
  <2>1. \A k \in RunIds' : k \notin RunIds => runs'[k].reports = 0
    BY <1>7 DEF Touched
  <2>2. \A k \in RunIds : k # r => runs'[k] = runs[k]
    BY <1>7 DEF Touched
  <2>3. \A k \in RunIds : runs[k].reports <= 1
    BY DEF Started
  <2>4. runs'[r].reports <= 1
    BY <1>7, <1>10, <2>3
  <2> QED
    BY <2>1, <2>2, <2>3, <2>4
<1>18. nxt \in ExecutionOps \cup {"verification_check"} => runs'[x].reports = 0
  <2>1. CASE pt = "running"
    <3>1. Len(runs) \in Nat /\ Len(runs') = Len(runs) + 1 /\ x = Len(runs) + 1
      BY <1>7, <2>1 DEF TypeOK
    <3>2. x \in RunIds' /\ x \notin RunIds
      BY <3>1 DEF RunIds
    <3> QED
      BY <1>7, <3>2 DEF Touched
  <2>2. CASE pt # "running"
    <3>1. nxt \in ExecutionOps \cup {"verification_check"} => op \in ExecutionOps
      BY <1>7, <2>2 DEF Hands, ExecutionOps
    <3>2. op \in ExecutionOps => op # "verification_check"
      BY DEF ExecutionOps
    <3> QED
      BY <1>7, <1>10, <2>2, <3>1, <3>2
  <2> QED
    BY <2>1, <2>2
<1>19. nxt # "none" => /\ nxt \in ExecutionOps => Ahead("running")'
                       /\ nxt \notin ExecutionOps => Ahead("verifying")'
  <2>1. nxt # "none" =>
          /\ nxt \in ExecutionOps => pt = "running" \/ (pt = "none" /\ cycle = "running")
          /\ nxt \notin ExecutionOps => pt = "verifying" \/ (pt = "none" /\ cycle = "verifying")
    BY <1>7, <1>10 DEF Hands, ExecutionOps
  <2> QED
    BY <1>14, <2>1 DEF CycleStatus
<1>20. \A k \in JobIds' :
          /\ jobs'[k].status \notin {"paused", "cancelled"}
          /\ jobs'[k].status \in {"claimed", "running"} => \E v \in Workers : job'[v] = k
          /\ Token(k)' =>
                /\ jobs'[k].op \in ExecutionOps => Ahead("running")'
                /\ jobs'[k].op \notin ExecutionOps => Ahead("verifying")'
                /\ jobs'[k].op \in ExecutionOps \cup {"verification_check"}
                      => runs'[jobs'[k].run].reports = 0
  <2> SUFFICES ASSUME NEW k \in JobIds'
               PROVE  /\ jobs'[k].status \notin {"paused", "cancelled"}
                      /\ jobs'[k].status \in {"claimed", "running"} =>
                            \E v \in Workers : job'[v] = k
                      /\ Token(k)' =>
                          /\ jobs'[k].op \in ExecutionOps => Ahead("running")'
                          /\ jobs'[k].op \notin ExecutionOps => Ahead("verifying")'
                          /\ jobs'[k].op \in ExecutionOps \cup {"verification_check"}
                                => runs'[jobs'[k].run].reports = 0
    OBVIOUS
  <2>1. CASE k \in JobIds
    BY <1>7, <1>11, <1>12, <2>1 DEF Started
  <2>2. CASE k \notin JobIds
    BY <1>13, <1>18, <1>19, <2>2
  <2> QED
    BY <2>1, <2>2
<1>21. \A j, k \in JobIds' : Token(j)' /\ Token(k)' => j = k
  BY <1>12, <1>13
<1>22. requests' = 1 /\ api' = {}
  BY DEF Started, env
<1> QED
  BY <1>16, <1>17, <1>20, <1>21, <1>22 DEF Started

\* Every effect keeps the strand and the cycle in turn.
LEMMA EffectInTurn ==
    ASSUME TypeOK, Held, TypeOK', JobsMove, InTurn, Effect
    PROVE  InTurn'
<1> SUFFICES ASSUME Undisturbed'
             PROVE  NotStarted' \/ Started'
  BY DEF InTurn
<1>1. /\ Undisturbed /\ faults' = faults /\ faults \in Nat
      /\ requests' <= 1 /\ requests \in Nat
  BY WasUndisturbed, CrewWorks, PipelineAssumption DEF TypeOK
<1>2. CASE NotStarted
  BY <1>2, NotStartedStep
<1>3. CASE Started
  <2>1. ASSUME NEW w \in Workers, w \in scenario.crew, WorkerEffect(w)
        PROVE  Started'
    <3>1. Alone(w)
      BY <1>1, <2>1, AloneAtWork
    <3>2. faults' # faults + 1
      BY <1>1
    <3>3. CASE \/ \E j \in JobIds : Claims(w, j)
               \/ Starts(w)
               \/ \E p \in {"building", "container", "stopped", "classifying"} : Proceeds(w, p)
      BY <1>3, <3>1, <3>3, StartedGoesOn
    <3>4. CASE ReturnsSome(w) /\ UNCHANGED env
      BY <1>3, <3>1, <3>4, StartedReturns
    <3>5. CASE Settles(w)
      BY <1>3, <3>1, <3>5, StartedSettles
    <3> QED
      BY <2>1, <3>2, <3>3, <3>4, <3>5 DEF WorkerEffect, Crash
  <2>2. ASSUME NEW j \in JobIds, Reclaims(j)
        PROVE  FALSE
    BY <1>3, <2>2 DEF Reclaims, Holder, Started
  <2>3. ASSUME NEW q, Asks(q)
        PROVE  FALSE
    BY <1>1, <1>3, <2>3 DEF Asks, Started
  <2>4. api = {}
    BY <1>3 DEF Started
  <2> QED
    BY <2>1, <2>2, <2>3, <2>4 DEF Effect
<1> QED
  BY <1>1, <1>2, <1>3 DEF InTurn

-----------------------------------------------------------------------------
(* The invariant, and what follows from it. *)

\* The empty tables satisfy the invariant.
LEMMA InitInv ==
    ASSUME Init
    PROVE  Inv
<1>1. TypeOK /\ Held
  BY InitTyped
<1>2. runs = <<>> /\ jobs = <<>> /\ Len(runs) = 0 /\ Len(jobs) = 0
  BY DEF Init
<1>3. RunIds = {} /\ JobIds = {}
  BY <1>2 DEF RunIds, JobIds
<1>4. OneStrand
  BY <1>3 DEF OneStrand
<1>5. Recounted
  <2>1. Classified = {} /\ Apart = {} /\ Again = {}
    BY <1>3 DEF Classified, Apart, Again
  <2>2. Cardinality(Classified) = 0 /\ Cardinality(Apart) = 0 /\ Cardinality(Again) = 0
    BY <2>1, FS_EmptySet
  <2>3. faults = 0 /\ Classifying = {}
    BY DEF Init, Classifying
  <2>4. Totals = {0} /\ OneClassifier
    BY <2>3 DEF Init, Totals, OneClassifier
  <2>5. Reported
    BY <1>3 DEF Reported
  <2> QED
    BY <2>2, <2>3, <2>4, <2>5 DEF Recounted
<1>6. InTurn
  BY <1>2 DEF Init, InTurn, NotStarted
<1> QED
  BY <1>1, <1>4, <1>5, <1>6 DEF Inv

\* Doing nothing keeps the invariant.
LEMMA StutterInv ==
    ASSUME Inv, UNCHANGED vars
    PROVE  Inv'
<1>1. TypeOK' /\ Held'
  BY StutterTyped DEF Inv
<1>2. /\ runs' = runs /\ jobs' = jobs /\ pc' = pc /\ job' = job /\ patch' = patch
      /\ cycle' = cycle /\ frontier' = frontier /\ api' = api /\ requests' = requests
      /\ faults' = faults /\ scenario' = scenario /\ seen' = seen
  BY DEF vars, tables, worker, env
<1>3. OneStrand'
  BY <1>2 DEF Inv, OneStrand, Revived, ExecutionOf, Token, RunIds, JobIds
<1>4. Recounted'
  <2>1. Classified' = Classified /\ Apart' = Apart /\ Again' = Again
    BY <1>2 DEF Classified, Apart, Again, SignalJob, Live, UnderWay, Classifying,
                RunIds, JobIds
  <2>2. Reported'
    BY <1>2 DEF Inv, Recounted, Reported, SignalJob, RunIds, JobIds
  <2>3. Totals' = Totals
    BY <1>2 DEF Totals, Classifying
  <2>4. OneClassifier'
    BY <1>2 DEF Inv, Recounted, OneClassifier, Classifying, RunOf
  <2> QED
    BY <1>2, <2>1, <2>2, <2>3, <2>4 DEF Inv, Recounted
<1>5. InTurn'
  BY <1>2 DEF Inv, InTurn, Undisturbed, NotStarted, Started, Token, Ahead, PatchAllowed,
              RunIds, JobIds
<1> QED
  BY <1>1, <1>3, <1>4, <1>5 DEF Inv

\* The invariant of the pipeline: types, holders, one strand of execution jobs
\* per run, what the frontier may count again, and the turns of one worker.
THEOREM PipelineInvariant == Spec => []Inv
<1>1. Init => Inv
  BY InitInv
<1>2. Inv /\ [Next]_vars => Inv'
  <2> SUFFICES ASSUME Inv, [Next]_vars PROVE Inv'
    OBVIOUS
  <2>1. CASE Next
    <3>1. TypeOK /\ Held /\ OneStrand /\ Recounted /\ InTurn
      BY DEF Inv
    <3>2. Effect
      BY <2>1, <3>1, StepHasEffect
    <3>3. TypeOK' /\ Held' /\ JobsMove
      BY <3>1, <3>2, EffectTyped
    <3> QED
      BY <3>1, <3>2, <3>3, EffectStrand, EffectRecounted, EffectInTurn DEF Inv
  <2>2. CASE UNCHANGED vars
    BY <2>2, StutterInv
  <2> QED
    BY <2>1, <2>2
<1> QED
  BY <1>1, <1>2, PTL DEF Spec

\* Every variable keeps its type, every job's run exists (TypeOK).
THEOREM PipelineTypeOK == Spec => []TypeOK
<1>1. Inv => TypeOK
  BY DEF Inv
<1> QED
  BY <1>1, PipelineInvariant, PTL

\* MetricFrontier.total_runs, read and written back without a lock, misses a run
\* only if that run was classified while another classification was between its
\* read and its commit, and counts one again only for a fault, however many
\* workers, requests, reclaims and crashes there are (FrontierCountsRuns).
THEOREM PipelineFrontierCounts == Spec => []FrontierCountsRuns
<1>1. Inv => FrontierCountsRuns
  <2> SUFFICES ASSUME Inv PROVE FrontierCountsRuns
    OBVIOUS
  <2>1. /\ Cardinality(Classified) \in Nat /\ Cardinality(Apart) \in Nat
        /\ Cardinality(Again) \in Nat /\ Totals \subseteq Nat /\ faults \in Nat
    BY CountsFinite DEF Inv
  <2>2. frontier \in Totals
    BY DEF Totals
  <2>3. /\ frontier >= Cardinality(Apart)
        /\ frontier + Cardinality(Again) <= Cardinality(Classified) + faults
    BY <2>2 DEF Inv, Recounted
  <2>4. frontier \in Cardinality(Apart)..(Cardinality(Classified) + faults)
    BY <2>1, <2>2, <2>3
  <2>5. {r \in Classified : ~runs[r].overlapped} = Apart
    BY DEF Classified, Apart
  <2> QED
    BY <2>4, <2>5 DEF FrontierCountsRuns, Classified
<1> QED
  BY <1>1, PipelineInvariant, PTL

\* With one worker, one experiment and no fault, every state patch an operator
\* returns is a transition of the cycle's state machine, so that the worker
\* persists the outcome (PatchesFit).
THEOREM PipelinePatchesFit == Spec => []PatchesFit
<1>1. Inv => PatchesFit
  <2> SUFFICES ASSUME Inv, Undisturbed, NEW w \in Workers, pc[w] = "finished"
               PROVE  PatchAllowed(w)
    BY DEF PatchesFit
  <2>1. NotStarted \/ Started
    BY DEF Inv, InTurn
  <2>2. JobIds # {}
    BY BusyHolds DEF Inv
  <2>3. Started
    BY <2>1, <2>2 DEF NotStarted, JobIds
  <2> QED
    BY <2>3 DEF Started
<1> QED
  BY <1>1, PipelineInvariant, PTL

\* With one worker, one experiment and no fault, a run is verified at most once,
\* so that no later operator finds two reports (OneReport).
THEOREM PipelineOneReport == Spec => []OneReport
<1>1. Inv => OneReport
  <2> SUFFICES ASSUME Inv, Undisturbed, NEW r \in RunIds
               PROVE  runs[r].reports <= 1
    BY DEF OneReport
  <2>1. NotStarted \/ Started
    BY DEF Inv, InTurn
  <2>2. Started
    BY <2>1 DEF NotStarted, RunIds
  <2> QED
    BY <2>2 DEF Started
<1> QED
  BY <1>1, PipelineInvariant, PTL

\* A cancelled run that no worker is on and no request is about stays cancelled,
\* and nothing of its execution is claimed unless it was revived
\* (CancelIsFinal).
THEOREM PipelineCancelIsFinal == Spec => CancelIsFinal
<1> DEFINE Final ==
        \A r \in RunIds : CancelledIsLeftAlone(r) =>
          /\ runs'[r].status = "cancelled"
          /\ \A j \in JobIds :
                jobs[j].run = r /\ jobs[j].op \in ExecutionOps
                    /\ jobs'[j].status = "claimed" => Revived(r)
<1>1. Inv /\ [Next]_vars => [Final]_vars
  <2> SUFFICES ASSUME Inv, Next PROVE Final
    OBVIOUS
  <2>1. TypeOK /\ Held /\ OneStrand
    BY DEF Inv
  <2>2. Effect
    BY <2>1, StepHasEffect
  <2> QED
    BY <2>1, <2>2, CancelledStep
<1> QED
  BY <1>1, PipelineInvariant, PTL DEF Spec, CancelIsFinal

=============================================================================
