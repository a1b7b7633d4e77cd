------------------------- MODULE AutonomyLoopProofs -------------------------
(***************************************************************************)
(* Theorems about the autonomous loop, for any policies with a run limit,  *)
(* any number of hypotheses, workers, crashes, resumes and stops: the loop *)
(* stays within its budget and asks before it goes on.                     *)
(*                                                                         *)
(* The loop is carried by tokens, the jobs that may still lead to a run.   *)
(* Each operator passes its token on, and only the reclaim of a dead       *)
(* worker's row makes one more.                                            *)
(***************************************************************************)
EXTENDS AutonomyLoop, FiniteSetTheorems, SequenceTheorems, WellFoundedInduction, TLAPS

RunIds == 1..Len(runs)

\* A worker whose operator has not committed yet.
Busy(w) == worker[w].pc \in {"executing", "deciding", "compiled"}
Open(j) == jobs[j].status \in {"pending", "paused"}
Held(j) == \E w \in Workers : Busy(w) /\ worker[w].job = j
Tokens == {j \in JobIds : jobs[j].op # "loop_report" /\ (Open(j) \/ Held(j))}

\* A row is executed by one worker, which has taken it out of the queue, and a
\* decision has read what the tables held.
WorkerHolds(w) ==
    /\ Busy(w) => ~Open(worker[w].job)
    /\ Busy(w) => \A v \in Workers : Busy(v) /\ worker[v].job = worker[w].job => v = w
    /\ worker[w].pc = "deciding" => /\ Job(w).op = "loop_decide" /\ Job(w).target = 0
                                    /\ worker[w].saw.gates <= runs[Job(w).run].gates
    /\ worker[w].pc = "compiled" => Job(w).op = "protocol_compile"
WorkersHold == \A w \in Workers : WorkerHolds(w)

\* The budget a decision has read is not ahead of the table.
SawBehind ==
    \A w \in Workers : worker[w].pc = "deciding" => worker[w].saw.total <= total \/ overlap

\* Nothing but the report is done for a run that was not started.
Known == Started \cup {1}
OnlyStarted ==
    /\ \A j \in JobIds : jobs[j].op # "loop_report" => jobs[j].run \in Known
    /\ \A r \in RunIds : runs[r].gates > 0 => r \in Known

\* The charges that left room for a further run.
ChargesOf(pol, n, p) ==
    IF pol.max_total_runs # None THEN {i \in 1..n : i < pol.max_total_runs}
    ELSE {ck \in Cards \X Nat : ck[2] \in 1..p[ck[1]] /\ ck[2] < pol.max_runs_per_hypothesis}
Charged == ChargesOf(policy, total, per)

\* The runs whose decision is still to come: a token of theirs has not been
\* charged for.
Undecided(j) ==
    \/ jobs[j].op \in {"execution_setup", "recommend"}
    \/ jobs[j].op = "loop_decide" /\ jobs[j].target = 0
ToCharge ==
    {r \in RunIds : /\ runs[r].gates = 0
                    /\ \A j \in JobIds : jobs[j].op = "protocol_compile" => jobs[j].run # r
                    /\ \E j \in Tokens : jobs[j].run = r /\ Undecided(j)}

\* Every run started and every token beyond those is covered by a charge or by
\* a re-execution.
Covered ==
    overlap \/ Cardinality(Started) + Cardinality(Tokens)
                 <= Cardinality(Charged) + requeued + Cardinality(ToCharge)

\* As long as no job was executed twice there is one token, and a decision
\* finds what it has read.
SingleToken ==
    requeued = 0 =>
        /\ ~overlap
        /\ \A i, j \in Tokens : i = j
        /\ \A w \in Workers : worker[w].pc = "deciding" =>
              /\ worker[w].saw.total = total /\ worker[w].saw.per = per
              /\ worker[w].saw.gates = runs[Job(w).run].gates

\* What the token means for the gate after every n runs: since is the number of
\* charges since the last gate, and the runs started are those of the approved
\* rounds and of this one.
Since == total - last_gate
Fresh(j) == Undecided(j) /\ runs[jobs[j].run].gates = 0
Phase(j) ==
    /\ jobs[j].op \in {"execution_setup", "recommend"} => Fresh(j)
    /\ jobs[j].op = "loop_decide" /\ jobs[j].target # 0 =>
           runs[jobs[j].target].gates = 0 /\ runs[jobs[j].run].gates > 0
    /\ jobs[j].status = "paused" =>
           jobs[j].op = "loop_decide" /\ runs[jobs[j].run].gates > 0 /\ Since = 0
    /\ Fresh(j) => Cardinality(Started) <= EveryNth * approvals + Since /\ Since < EveryNth
    /\ ~Fresh(j) /\ jobs[j].status # "paused" =>
           Cardinality(Started) + 1 <= EveryNth * approvals + Since /\ Since < EveryNth
InPhase == EveryNth # None /\ requeued = 0 => \A j \in Tokens : Phase(j)

\* A prepared run waits for its approval in a row no worker holds.
AwaitsApproval(j) ==
    /\ jobs[j].status \in {"paused", "cancelled"}
    /\ \A w \in Workers : worker[w].pc # "idle" => worker[w].job # j
PreparedApproved ==
    \A j \in JobIds : jobs[j].op = "loop_decide" /\ jobs[j].target # 0 =>
        runs[jobs[j].target].approved \/ AwaitsApproval(j)

Inv ==
    /\ TypeOK /\ SawBehind /\ WorkersHold /\ OnlyStarted
    /\ Covered /\ SingleToken
    /\ InPhase /\ GateHonoured
    /\ PreparedApproved /\ NetworkApproved

-----------------------------------------------------------------------------
(* Rows and their columns. *)

Statuses == {"pending", "running", "paused", "completed", "failed", "cancelled"}
Ops == {"execution_setup", "recommend", "loop_decide", "protocol_compile", "loop_report"}

\* The tables are sequences of rows of their types.
LEMMA Rows ==
    ASSUME TypeOK
    PROVE  /\ Len(jobs) \in Nat /\ JobIds = 1..Len(jobs) /\ DOMAIN jobs = JobIds
           /\ \A j \in JobIds : jobs[j] \in JobType
           /\ Len(runs) \in Nat /\ Len(runs) > 0 /\ DOMAIN runs = 1..Len(runs)
           /\ \A r \in 1..Len(runs) : runs[r] \in RunType
           /\ Len(specs) \in Nat /\ DOMAIN specs = 1..Len(specs)
           /\ \A s \in 1..Len(specs) : specs[s] \in SpecType
           /\ DOMAIN worker = Workers /\ \A w \in Workers : worker[w] \in WorkerType
BY DEF TypeOK, JobIds

\* The columns of a job.
LEMMA JobColumns ==
    ASSUME TypeOK, NEW j \in JobIds
    PROVE  /\ jobs[j].op \in Ops /\ jobs[j].status \in Statuses
           /\ jobs[j].run \in 1..Len(runs) /\ jobs[j].run \in Nat
           /\ jobs[j].target \in Nat /\ jobs[j].reclaims \in 0..MaxReclaims
<1>1. jobs[j] \in JobType /\ jobs[j].run \in 1..Len(runs)
  BY Rows DEF TypeOK
<1>2. QED
  BY <1>1 DEF JobType, Ops, Statuses

\* The columns of a run.
LEMMA RunColumns ==
    ASSUME TypeOK, NEW r \in 1..Len(runs)
    PROVE  /\ runs[r].spec \in 1..Len(specs) /\ runs[r].advice \in Advice \cup {"none"}
           /\ runs[r].gates \in Nat /\ runs[r].approved \in BOOLEAN /\ runs[r].by_loop \in BOOLEAN
<1>1. runs[r] \in RunType /\ runs[r].spec \in 1..Len(specs)
  BY Rows DEF TypeOK
<1>2. QED
  BY <1>1 DEF RunType

\* The columns of a spec.
LEMMA SpecColumns ==
    ASSUME TypeOK, NEW s \in 1..Len(specs)
    PROVE  specs[s].card \in Cards /\ specs[s].network \in BOOLEAN /\ specs[s].gpus \in {None, 0, 1}
BY Rows DEF SpecType

\* What a worker remembers.
LEMMA WorkerColumns ==
    ASSUME TypeOK, NEW w \in Workers
    PROVE  /\ worker[w].pc \in {"idle", "executing", "deciding", "compiled", "finished"}
           /\ worker[w].job \in Nat /\ worker[w].spec \in Nat
           /\ worker[w].result \in {"none", "success", "failure"}
           /\ worker[w].patch \in {"none", "running", "verifying", "loop_deciding", "reporting", "closed"}
           /\ worker[w].saw.gates \in Nat /\ worker[w].saw.advice \in Advice \cup {"none"}
           /\ worker[w].saw.total \in Nat /\ worker[w].saw.per \in [Cards -> Nat]
           /\ worker[w].saw \in [gates : Nat, advice : Advice \cup {"none"}, total : Nat,
                                 per : [Cards -> Nat]]
           /\ worker[w].pc # "idle" => worker[w].job \in JobIds
           /\ worker[w].pc = "compiled" => worker[w].spec \in 1..Len(specs)
<1>1. worker[w] \in WorkerType
  BY Rows
<1>2. QED
  BY <1>1 DEF WorkerType, TypeOK

\* The parts of the type invariant.
JobRefers(job, m) ==
    /\ job.run \in 1..m
    /\ job.op = "protocol_compile" => job.target \in Cards
    /\ job.op = "loop_decide" => job.target \in 0..m
JobsTyped == jobs \in Seq(JobType) /\ \A j \in JobIds : JobRefers(jobs[j], Len(runs))
RunsTyped ==
    /\ specs \in Seq(SpecType) /\ runs \in Seq(RunType) /\ Len(runs) > 0
    /\ \A r \in 1..Len(runs) : runs[r].spec \in 1..Len(specs)
WorkersTyped ==
    /\ worker \in [Workers -> WorkerType]
    /\ \A w \in Workers : /\ worker[w].pc # "idle" => worker[w].job \in JobIds
                          /\ worker[w].pc = "compiled" => worker[w].spec \in 1..Len(specs)
BudgetTyped ==
    /\ total \in Nat /\ per \in [Cards -> Nat] /\ last_gate \in Nat
    /\ last_gate <= total \/ overlap
    /\ overlap \in BOOLEAN
CycleTyped ==
    /\ policy \in Policies /\ cards \in [Cards -> CardStatus]
    /\ cycle \in {"running", "verifying", "loop_deciding", "reporting", "closed"}
HistoryTyped ==
    /\ crashes \in Nat /\ approvals \in Nat /\ stops \in Nat /\ requeued \in Nat
    /\ lost \in BOOLEAN

\* The type invariant is the conjunction of its parts.
LEMMA Parts ==
    TypeOK <=> /\ JobsTyped /\ RunsTyped /\ WorkersTyped
               /\ BudgetTyped /\ CycleTyped /\ HistoryTyped
BY DEF TypeOK, JobsTyped, RunsTyped, WorkersTyped, BudgetTyped, CycleTyped, HistoryTyped, JobRefers

\* The same after a step.
LEMMA PartsNext ==
    ASSUME JobsTyped', RunsTyped', WorkersTyped', BudgetTyped', CycleTyped', HistoryTyped'
    PROVE  TypeOK'
BY DEF TypeOK, JobsTyped, RunsTyped, WorkersTyped, BudgetTyped, CycleTyped, HistoryTyped, JobRefers

\* Rows are never deleted and keep what they refer to.
Grows == Len(runs) <= Len(runs') /\ Len(specs) <= Len(specs')
JobsKept ==
    /\ Len(jobs') \in Nat /\ Len(jobs) <= Len(jobs')
    /\ \A j \in JobIds : /\ jobs'[j].op = jobs[j].op /\ jobs'[j].run = jobs[j].run
                         /\ jobs'[j].target = jobs[j].target

\* A job is inserted.
Inserts(op, r, t, st) == jobs' = Append(jobs, NewJob(op, r, t, st))
LEMMA Inserted ==
    ASSUME TypeOK, NEW op, NEW r, NEW t, NEW st, Inserts(op, r, t, st)
    PROVE  /\ Len(jobs') = Len(jobs) + 1 /\ Len(jobs) + 1 \in JobIds'
           /\ jobs'[Len(jobs) + 1] = NewJob(op, r, t, st)
           /\ \A j \in JobIds : jobs'[j] = jobs[j]
           /\ JobIds \subseteq JobIds' /\ Len(jobs) + 1 \notin JobIds
           /\ \A j \in JobIds' : j \in JobIds \/ j = Len(jobs) + 1
           /\ JobsKept
<1>1. Len(jobs) \in Nat /\ JobIds = 1..Len(jobs) /\ jobs \in Seq(JobType)
  BY Rows DEF TypeOK
<1>2. /\ Len(jobs') = Len(jobs) + 1
      /\ jobs'[Len(jobs) + 1] = NewJob(op, r, t, st)
      /\ \A j \in 1..Len(jobs) : jobs'[j] = jobs[j]
  BY <1>1 DEF Inserts
<1>3. JobIds' = 1..(Len(jobs) + 1)
  BY <1>2 DEF JobIds
<1>4. QED
  BY <1>1, <1>2, <1>3 DEF JobsKept

\* The columns of a new job.
LEMMA NewJobColumns ==
    ASSUME NEW op, NEW r, NEW t, NEW st
    PROVE  LET job == NewJob(op, r, t, st) IN
           /\ job.op = op /\ job.run = r /\ job.target = t /\ job.status = st /\ job.reclaims = 0
BY DEF NewJob

\* A new job that refers to what exists.
LEMMA InsertTyped ==
    ASSUME TypeOK, Grows, NEW op \in Ops, NEW r \in 1..Len(runs'), NEW t \in Nat, NEW st \in Statuses,
           Inserts(op, r, t, st), Len(runs') \in Nat,
           op = "protocol_compile" => t \in Cards, op = "loop_decide" => t \in 0..Len(runs')
    PROVE  JobsTyped'
<1>1. NewJob(op, r, t, st) \in JobType
  BY LoopAssumption DEF NewJob, JobType, Ops, Statuses
<1>2. jobs' \in Seq(JobType)
  <2>1. jobs \in Seq(JobType)
    BY DEF TypeOK
  <2>2. QED
    BY <1>1, <2>1, AppendProperties DEF Inserts
<1>3. ASSUME NEW j \in JobIds PROVE JobRefers(jobs'[j], Len(runs'))
  <2>1. JobRefers(jobs[j], Len(runs))
    BY Parts DEF JobsTyped
  <2>2. jobs'[j] = jobs[j] /\ Len(runs) \in Nat
    BY Inserted, Rows
  <2>3. QED
    BY <2>1, <2>2 DEF JobRefers, Grows
<1>4. JobRefers(jobs'[Len(jobs) + 1], Len(runs'))
  BY Inserted, NewJobColumns DEF JobRefers
<1>5. QED
  BY <1>2, <1>3, <1>4, Inserted DEF JobsTyped

\* The status of a job is changed.
Restates(j, st) == jobs' = [jobs EXCEPT ![j].status = st]
LEMMA Restated ==
    ASSUME TypeOK, NEW j \in JobIds, NEW st, Restates(j, st)
    PROVE  /\ Len(jobs') = Len(jobs) /\ JobIds' = JobIds
           /\ jobs'[j].status = st /\ jobs'[j].reclaims = jobs[j].reclaims
           /\ \A k \in JobIds : k # j => jobs'[k] = jobs[k]
           /\ JobsKept
<1>1. Len(jobs) \in Nat /\ JobIds = 1..Len(jobs) /\ DOMAIN jobs = JobIds /\ jobs[j] \in JobType
  BY Rows
<1>2. Len(jobs') = Len(jobs)
  BY <1>1 DEF Restates, TypeOK
<1>3. jobs' = [jobs EXCEPT ![j] = [jobs[j] EXCEPT !.status = st]]
  BY DEF Restates
<1>4. \A k \in JobIds : jobs'[k] = IF k = j THEN [jobs[j] EXCEPT !.status = st] ELSE jobs[k]
  BY <1>1, <1>3
<1> DEFINE row == [jobs[j] EXCEPT !.status = st]
<1>5. /\ row.status = st /\ row.op = jobs[j].op /\ row.run = jobs[j].run
      /\ row.target = jobs[j].target /\ row.reclaims = jobs[j].reclaims
  BY <1>1 DEF JobType
<1>6. jobs'[j] = row /\ \A k \in JobIds : k # j => jobs'[k] = jobs[k]
  BY <1>4
<1> HIDE DEF row
<1>7. JobIds' = JobIds
  BY <1>2 DEF JobIds
<1>8. JobsKept
  BY <1>1, <1>2, <1>5, <1>6 DEF JobsKept
<1>9. QED
  BY <1>2, <1>5, <1>6, <1>7, <1>8

\* A job keeps its type with another status.
LEMMA RestateTyped ==
    ASSUME TypeOK, NEW j \in JobIds, NEW st \in Statuses, Restates(j, st), Grows, Len(runs') \in Nat
    PROVE  JobsTyped'
<1>1. jobs[j] \in JobType /\ jobs \in Seq(JobType)
  BY Rows DEF TypeOK
<1>2. [jobs[j] EXCEPT !.status = st] \in JobType
  BY <1>1, Zenon DEF JobType, Statuses
<1>3. jobs' = [jobs EXCEPT ![j] = [jobs[j] EXCEPT !.status = st]]
  BY DEF Restates
<1>4. jobs' \in Seq(JobType)
  BY <1>1, <1>2, <1>3, ExceptSeq DEF JobIds
<1>5. ASSUME NEW k \in JobIds PROVE JobRefers(jobs'[k], Len(runs'))
  <2>1. JobRefers(jobs[k], Len(runs)) /\ Len(runs) \in Nat
    BY Parts, Rows DEF JobsTyped
  <2>2. jobs'[k].op = jobs[k].op /\ jobs'[k].run = jobs[k].run /\ jobs'[k].target = jobs[k].target
    BY Restated DEF JobsKept
  <2>3. QED
    BY <2>1, <2>2 DEF JobRefers, Grows
<1>6. QED
  BY <1>4, <1>5, Restated DEF JobsTyped

\* An operator returns: its worker keeps job and spec, the others are where
\* they were.
LEMMA Returned ==
    ASSUME TypeOK, NEW w \in Workers, NEW res, NEW patch, Return(w, res, patch)
    PROVE  /\ DOMAIN worker' = Workers /\ \A v \in Workers : v # w => worker'[v] = worker[v]
           /\ worker'[w].pc = "finished" /\ worker'[w].job = worker[w].job
           /\ worker'[w].result = res /\ worker'[w].patch = patch
           /\ worker'[w].spec = worker[w].spec /\ worker'[w].saw = Unread
<1>1. DOMAIN worker = Workers /\ worker[w] \in WorkerType
  BY Rows
<1> DEFINE row == [[[[worker[w] EXCEPT !.pc = "finished"] EXCEPT !.result = res] EXCEPT !.patch = patch]
                       EXCEPT !.saw = Unread]
<1>2. worker' = [worker EXCEPT ![w] = row]
  BY <1>1 DEF Return
<1>3. /\ row.pc = "finished" /\ row.job = worker[w].job /\ row.result = res /\ row.patch = patch
      /\ row.spec = worker[w].spec /\ row.saw = Unread
  BY <1>1 DEF WorkerType
<1> HIDE DEF row
<1>4. worker'[w] = row /\ DOMAIN worker' = Workers /\ \A v \in Workers : v # w => worker'[v] = worker[v]
  BY <1>1, <1>2
<1>5. QED
  BY <1>3, <1>4

\* What was not read yet.
LEMMA UnreadTyped ==
    Unread \in [gates : Nat, advice : Advice \cup {"none"}, total : Nat, per : [Cards -> Nat]]
BY DEF Unread

\* The other workers keep their types when rows are added.
LEMMA OthersTyped ==
    ASSUME TypeOK, NEW w \in Workers, NEW row \in WorkerType, worker' = [worker EXCEPT ![w] = row],
           JobsKept, Grows, Len(specs') \in Nat,
           row.pc # "idle" => row.job \in JobIds', row.pc = "compiled" => row.spec \in 1..Len(specs')
    PROVE  WorkersTyped'
<1>1. worker' \in [Workers -> WorkerType]
  BY Rows
<1>2. JobIds \subseteq JobIds' /\ 1..Len(specs) \subseteq 1..Len(specs')
  BY Rows DEF JobsKept, Grows, JobIds
<1>3. ASSUME NEW v \in Workers
      PROVE  /\ worker'[v].pc # "idle" => worker'[v].job \in JobIds'
             /\ worker'[v].pc = "compiled" => worker'[v].spec \in 1..Len(specs')
  <2>1. CASE v = w
    <3>1. worker'[v] = row
      BY <2>1, Rows
    <3>2. QED
      BY <3>1
  <2>2. CASE v # w
    <3>1. worker'[v] = worker[v]
      BY <2>2, Rows
    <3>2. QED
      BY <1>2, <3>1, WorkerColumns
  <2>3. QED
    BY <2>1, <2>2
<1>4. QED
  BY <1>1, <1>3 DEF WorkersTyped

\* The worker of a returning operator.
LEMMA ReturnTyped ==
    ASSUME TypeOK, NEW w \in Workers, worker[w].pc # "idle", NEW res \in {"success", "failure"},
           NEW patch \in {"none", "running", "verifying", "loop_deciding", "reporting", "closed"},
           Return(w, res, patch), JobsKept, Grows, Len(specs') \in Nat
    PROVE  WorkersTyped'
<1>1. DOMAIN worker = Workers /\ worker[w] \in WorkerType
  BY Rows
<1> DEFINE row == [[[[worker[w] EXCEPT !.pc = "finished"] EXCEPT !.result = res] EXCEPT !.patch = patch]
                       EXCEPT !.saw = Unread]
<1>2. worker' = [worker EXCEPT ![w] = row]
  BY <1>1 DEF Return
<1>3. row.pc = "finished" /\ row.job = worker[w].job
  BY <1>1 DEF WorkerType
<1>4. row \in WorkerType
  <2>1. [worker[w] EXCEPT !.pc = "finished"] \in WorkerType
    BY <1>1, Zenon DEF WorkerType
  <2>2. [[worker[w] EXCEPT !.pc = "finished"] EXCEPT !.result = res] \in WorkerType
    BY <2>1, Zenon DEF WorkerType
  <2>3. [[[worker[w] EXCEPT !.pc = "finished"] EXCEPT !.result = res] EXCEPT !.patch = patch] \in WorkerType
    BY <2>2, Zenon DEF WorkerType
  <2>4. QED
    BY <2>3, UnreadTyped, Zenon DEF WorkerType
<1> HIDE DEF row
<1>5. worker[w].job \in JobIds'
  <2>1. worker[w].job \in JobIds
    BY WorkerColumns
  <2>2. QED
    BY <2>1, Rows DEF JobsKept, JobIds
<1>6. QED
  BY <1>2, <1>3, <1>4, <1>5, OthersTyped

\* A worker comes back to rest.
Rests(w) == worker' = [worker EXCEPT ![w] = Idle]
LEMMA RestTyped ==
    ASSUME TypeOK, NEW w \in Workers, Rests(w), JobsKept, Grows, Len(specs') \in Nat
    PROVE  WorkersTyped'
<1>1. Idle \in WorkerType /\ Idle.pc = "idle"
  BY UnreadTyped DEF Idle, WorkerType
<1>2. QED
  BY <1>1, OthersTyped DEF Rests

\* Runs and specs keep their types as long as their tables do not change.
LEMMA SameRuns ==
    ASSUME TypeOK, UNCHANGED <<runs, specs>>
    PROVE  RunsTyped' /\ Grows /\ Len(runs') \in Nat /\ Len(specs') \in Nat
BY Parts, Rows DEF RunsTyped, Grows

\* No job changes.
LEMMA SameJobs ==
    ASSUME TypeOK, UNCHANGED jobs
    PROVE  /\ JobsKept /\ JobIds' = JobIds
           /\ UNCHANGED runs => JobsTyped'
BY Parts, Rows DEF JobsKept, JobsTyped, JobRefers, JobIds

\* Runs keep their spec and their approval, and gates are only added.
RunsKept ==
    /\ Len(runs') \in Nat /\ Len(runs) <= Len(runs')
    /\ \A r \in RunIds : /\ runs'[r].spec = runs[r].spec
                         /\ runs[r].approved => runs'[r].approved
                         /\ runs'[r].gates \in Nat /\ runs'[r].gates >= runs[r].gates

\* A new run.
LEMMA NewRunColumns ==
    ASSUME NEW s \in Nat
    PROVE  /\ NewRun(s) \in RunType /\ NewRun(s).spec = s
           /\ NewRun(s).gates = 0 /\ ~NewRun(s).approved
BY DEF NewRun, RunType

\* A gate's decision is stored for a run.
RaiseGates(r) == [runs EXCEPT ![r].gates = @ + 1]
LEMMA GatesRaised ==
    ASSUME TypeOK, NEW r \in RunIds
    PROVE  LET new == RaiseGates(r) IN
           /\ new \in Seq(RunType) /\ Len(new) = Len(runs)
           /\ new[r].gates = runs[r].gates + 1 /\ new[r].spec = runs[r].spec
           /\ new[r].approved = runs[r].approved
           /\ \A q \in RunIds : q # r => new[q] = runs[q]
<1>1. runs[r] \in RunType /\ runs \in Seq(RunType) /\ RunIds = 1..Len(runs) /\ runs[r].gates \in Nat
  BY Rows, RunColumns DEF TypeOK, RunIds
<1> DEFINE row == [runs[r] EXCEPT !.gates = @ + 1]
<1>2. RaiseGates(r) = [runs EXCEPT ![r] = row]
  BY DEF RaiseGates
<1>3. row.gates = runs[r].gates + 1 /\ row.spec = runs[r].spec /\ row.approved = runs[r].approved
  BY <1>1 DEF RunType
<1>4. row \in RunType
  <2>1. runs[r].gates + 1 \in Nat
    BY <1>1
  <2>2. QED
    BY <1>1, <2>1, Zenon DEF RunType
<1> HIDE DEF row
<1>5. /\ [runs EXCEPT ![r] = row] \in Seq(RunType)
      /\ Len([runs EXCEPT ![r] = row]) = Len(runs)
      /\ \A q \in 1..Len(runs) : [runs EXCEPT ![r] = row][q] = IF q = r THEN row ELSE runs[q]
  BY <1>1, <1>4, ExceptSeq
<1>6. QED
  BY <1>1, <1>2, <1>3, <1>5

\* A run is added to a table of runs.
LEMMA RunAdded ==
    ASSUME NEW old \in Seq(RunType), NEW s \in Nat
    PROVE  LET new == Append(old, NewRun(s)) IN
           /\ new \in Seq(RunType) /\ Len(new) = Len(old) + 1
           /\ new[Len(old) + 1] = NewRun(s)
           /\ \A q \in 1..Len(old) : new[q] = old[q]
BY NewRunColumns, AppendProperties

\* The tables of runs a decision leaves.
LEMMA StartTyped ==
    ASSUME TypeOK, NEW s \in 1..Len(specs), runs' = Append(runs, NewRun(s)), UNCHANGED specs
    PROVE  /\ RunsTyped' /\ Grows /\ RunsKept /\ Len(specs') \in Nat
           /\ Len(runs') = Len(runs) + 1 /\ runs'[Len(runs) + 1] = NewRun(s)
           /\ \A q \in RunIds : runs'[q] = runs[q]
<1>1. /\ runs \in Seq(RunType) /\ Len(runs) \in Nat /\ Len(specs) \in Nat /\ s \in Nat
      /\ specs \in Seq(SpecType) /\ RunIds = 1..Len(runs)
  BY Rows DEF TypeOK, RunIds
<1>2. /\ runs' \in Seq(RunType) /\ Len(runs') = Len(runs) + 1
      /\ runs'[Len(runs) + 1] = NewRun(s) /\ \A q \in RunIds : runs'[q] = runs[q]
  BY <1>1, RunAdded
<1>3. \A q \in RunIds : runs[q].spec \in 1..Len(specs) /\ runs[q].gates \in Nat
  BY RunColumns DEF RunIds
<1>4. RunsKept
  BY <1>1, <1>2, <1>3 DEF RunsKept
<1>5. \A q \in 1..Len(runs') : q \in RunIds \/ q = Len(runs) + 1
  BY <1>1, <1>2
<1>6. RunsTyped'
  BY <1>1, <1>2, <1>3, <1>5, NewRunColumns, Rows DEF RunsTyped
<1>7. QED
  BY <1>1, <1>2, <1>4, <1>6 DEF Grows

\* A gate changes nothing else of the runs.
LEMMA GateTyped ==
    ASSUME TypeOK, NEW r \in RunIds, runs' = RaiseGates(r), UNCHANGED specs
    PROVE  /\ RunsTyped' /\ Grows /\ RunsKept /\ Len(specs') \in Nat
           /\ Len(runs') = Len(runs) /\ runs'[r].gates = runs[r].gates + 1
           /\ \A q \in RunIds : q # r => runs'[q] = runs[q]
<1>1. /\ Len(runs) \in Nat /\ Len(specs) \in Nat /\ specs \in Seq(SpecType) /\ RunIds = 1..Len(runs)
  BY Rows DEF TypeOK, RunIds
<1>2. /\ runs' \in Seq(RunType) /\ Len(runs') = Len(runs)
      /\ runs'[r].gates = runs[r].gates + 1 /\ runs'[r].spec = runs[r].spec
      /\ runs'[r].approved = runs[r].approved
      /\ \A q \in RunIds : q # r => runs'[q] = runs[q]
  BY GatesRaised
<1>3. \A q \in RunIds : runs[q].spec \in 1..Len(specs) /\ runs[q].gates \in Nat
  BY RunColumns DEF RunIds
<1>4. RunsKept
  BY <1>1, <1>2, <1>3 DEF RunsKept
<1>5. RunsTyped'
  BY <1>1, <1>2, <1>3, Rows DEF RunsTyped
<1>6. QED
  BY <1>1, <1>2, <1>4, <1>5 DEF Grows

\* Nothing happens to the runs.
LEMMA SameRunsKept ==
    ASSUME TypeOK, UNCHANGED runs
    PROVE  RunsKept
BY Rows, RunColumns DEF RunsKept, RunIds

-----------------------------------------------------------------------------
(* What a decision comes to. *)

\* The greatest and the least of some ids.
LEMMA LeastId ==
    ASSUME NEW n \in Nat, NEW Ids \in SUBSET (0..n), Ids # {}
    PROVE  Min(Ids) \in Ids
<1>1. Ids \in SUBSET Nat
  OBVIOUS
<1>2. PICK m \in Ids : \A k \in Ids : ~(<<k, m>> \in OpToRel(<, Nat))
  BY <1>1, WFMin, NatLessThanWellFounded, Zenon
<1>3. \A k \in Ids : ~(k < m)
  BY <1>1, <1>2, Zenon DEF OpToRel
<1>4. \A k \in Ids : m <= k
  BY <1>3
<1>5. QED
  BY <1>4 DEF Min

\* The greatest of some ids.
LEMMA GreatestId ==
    ASSUME NEW n \in Nat, NEW Ids \in SUBSET (0..n), Ids # {}
    PROVE  Max(Ids) \in Ids
<1> DEFINE T == {m \in Nat : m <= n /\ n - m \in Ids}
<1>1. PICK i \in Ids : TRUE
  OBVIOUS
<1>2. n - i \in T /\ T \in SUBSET Nat
  BY <1>1
<1>3. PICK m \in T : \A k \in T : ~(<<k, m>> \in OpToRel(<, Nat))
  BY <1>2, WFMin, NatLessThanWellFounded, Zenon
<1>4. \A k \in T : ~(k < m)
  BY <1>3, Zenon DEF OpToRel
<1>5. \A j \in Ids : n - j \in T
  OBVIOUS
<1>6. n - m \in Ids /\ \A j \in Ids : n - m >= j
  BY <1>4, <1>5
<1>7. QED
  BY <1>6 DEF Max

\* The life cycle stays within the statuses of a card.
LEMMA LifecycleTyped ==
    ASSUME NEW status \in CardStatus, NEW ev, NEW advice
    PROVE  Lifecycle(status, ev, advice) \in CardStatus
BY DEF Lifecycle, CardStatus

\* The gpus of the run a decision is about.
Current(w) == specs[runs[Job(w).run].spec].gpus

\* A decision stops, starts a run that no gate of the spec holds back, has a
\* spec compiled, or pauses.
Outcome(w, n) ==
    \/ Stop(w)
    \/ \E s \in 1..Len(specs) : StartNextRun(w, s) /\ ~SpecGate(Current(w), specs[s])
    \/ \E c \in Cards : CompileFor(w, c)
    \/ PauseForGate(w, n)

\* Steps 7 and 8 of loop_decide end in one of these.
LEMMA ActOutcome ==
    ASSUME TypeOK, NEW w \in Workers, worker[w].pc = "deciding", NEW n, NEW ev, Act(w, n, ev)
    PROVE  Outcome(w, n) /\ cards' \in [Cards -> CardStatus] /\ UNCHANGED specs
<1> DEFINE r == Job(w).run
           c == specs[runs[r].spec].card
           advice == worker[w].saw.advice
           moved == Lifecycle(cards[c], ev, advice)
           chosen == IF advice = "hypothesis_pivot" THEN "deprioritized" ELSE moved
<1>1. r \in 1..Len(runs) /\ runs[r].spec \in 1..Len(specs) /\ c \in Cards
  <2>1. worker[w].job \in JobIds
    BY WorkerColumns
  <2>2. r \in 1..Len(runs)
    BY <2>1, JobColumns DEF Job
  <2>3. QED
    BY <2>2, RunColumns, SpecColumns
<1>2. cards' = [cards EXCEPT ![c] = chosen] /\ UNCHANGED specs
  BY DEF Act
<1>3. cards \in [Cards -> CardStatus] /\ chosen \in CardStatus
  <2>1. cards \in [Cards -> CardStatus]
    BY DEF TypeOK
  <2>2. moved \in CardStatus
    BY <1>1, <2>1, LifecycleTyped
  <2>3. QED
    BY <2>1, <2>2 DEF CardStatus
<1>4. cards' \in [Cards -> CardStatus]
  BY <1>2, <1>3
<1>5. ASSUME NEW s \in 1..Len(specs), SpecGateOr(w, s, n) PROVE Outcome(w, n)
  BY <1>5 DEF SpecGateOr, Outcome, Current
<1>6. ASSUME Pivot(w, cards', n) PROVE Outcome(w, n)
  <2> DEFINE viable == {d \in Cards : cards'[d] \in {"candidate", "compiled", "deferred"}}
             next == Min(viable)
             ready == {s \in 1..Len(specs) : specs[s].card = next}
  <2>1. CASE viable = {}
    BY <1>6, <2>1 DEF Pivot, Outcome
  <2>2. CASE viable # {}
    <3>1. next \in Cards
      <4>1. viable \in SUBSET (0..NCards) /\ NCards \in Nat /\ viable \subseteq Cards
        BY LoopAssumption DEF Cards
      <4>2. QED
        BY <2>2, <4>1, LeastId
    <3>2. CASE cards'[next] = "compiled" /\ ready # {}
      <4>1. Max(ready) \in 1..Len(specs)
        <5>1. ready \in SUBSET (0..Len(specs)) /\ Len(specs) \in Nat /\ ready \subseteq 1..Len(specs)
          BY Rows
        <5>2. QED
          BY <3>2, <5>1, GreatestId
      <4>2. SpecGateOr(w, Max(ready), n)
        BY <1>6, <2>2, <3>2 DEF Pivot
      <4>3. QED
        BY <1>5, <4>1, <4>2
    <3>3. CASE ~(cards'[next] = "compiled" /\ ready # {})
      <4>1. CompileFor(w, next)
        BY <1>6, <2>2, <3>3 DEF Pivot
      <4>2. QED
        BY <3>1, <4>1 DEF Outcome
    <3>4. QED
      BY <3>2, <3>3
  <2>3. QED
    BY <2>1, <2>2
<1>7. \/ Stop(w) \/ SpecGateOr(w, runs[r].spec, n) \/ CompileFor(w, c) \/ Pivot(w, cards', n)
  BY DEF Act
<1>8. Outcome(w, n)
  <2>1. CASE Stop(w)
    BY <2>1 DEF Outcome
  <2>2. CASE CompileFor(w, c)
    BY <1>1, <2>2 DEF Outcome
  <2>3. QED
    BY <1>1, <1>5, <1>6, <1>7, <2>1, <2>2
<1>9. QED
  BY <1>2, <1>4, <1>8

-----------------------------------------------------------------------------
(* Every step keeps the types, and keeps the rows. *)

SpecsKept ==
    /\ Len(specs') \in Nat /\ Len(specs) <= Len(specs')
    /\ \A s \in 1..Len(specs) : specs'[s] = specs[s]
Kept == JobsKept /\ RunsKept /\ SpecsKept /\ UNCHANGED policy
StepTyped == TypeOK' /\ SawBehind' /\ Kept

\* No spec changes.
LEMMA SameSpecs ==
    ASSUME TypeOK, UNCHANGED specs
    PROVE  SpecsKept /\ Len(specs') \in Nat
BY Rows DEF SpecsKept

\* What a worker has read stays behind when the budget does not change and the
\* worker is the only one to move.
LEMMA StillBehind ==
    ASSUME TypeOK, SawBehind, NEW w \in Workers,
           \A v \in Workers : v # w => worker'[v] = worker[v],
           worker'[w].pc # "deciding" \/ worker'[w].saw.total = total',
           (total' >= total /\ overlap' = overlap) \/ overlap', total' \in Nat
    PROVE  SawBehind'
<1> SUFFICES ASSUME NEW v \in Workers, worker'[v].pc = "deciding"
             PROVE  worker'[v].saw.total <= total' \/ overlap'
  BY DEF SawBehind
<1>1. CASE v = w
  BY <1>1
<1>2. CASE v # w
  <2>1. worker[v].saw.total <= total \/ overlap
    BY <1>2 DEF SawBehind
  <2>2. worker[v].saw.total \in Nat /\ total \in Nat
    BY WorkerColumns DEF TypeOK
  <2>3. QED
    BY <1>2, <2>1, <2>2
<1>3. QED
  BY <1>1, <1>2

\* The budget stays as it is.
LEMMA SameBudget ==
    ASSUME TypeOK, UNCHANGED budget
    PROVE  /\ total' = total /\ per' = per /\ overlap' = overlap
           /\ total' \in Nat /\ total' >= total
           /\ UNCHANGED last_gate => BudgetTyped'
BY DEF TypeOK, budget, BudgetTyped

\* A worker's job and its run exist.
LEMMA JobOf ==
    ASSUME TypeOK, NEW w \in Workers, worker[w].pc # "idle"
    PROVE  /\ worker[w].job \in JobIds /\ Job(w) = jobs[worker[w].job]
           /\ Job(w).run \in RunIds /\ Job(w).run \in 1..Len(runs)
           /\ runs[Job(w).run].spec \in 1..Len(specs)
           /\ specs[runs[Job(w).run].spec].card \in Cards
<1>1. worker[w].job \in JobIds
  BY WorkerColumns
<1>2. Job(w).run \in 1..Len(runs)
  BY <1>1, JobColumns DEF Job
<1>3. QED
  BY <1>1, <1>2, RunColumns, SpecColumns DEF Job, RunIds

\* An operator that inserts a job and returns, with the run tables it leaves.
LEMMA HandOnTyped ==
    ASSUME TypeOK, SawBehind, NEW w \in Workers, worker[w].pc # "idle",
           NEW op \in Ops, NEW r \in 1..Len(runs'), NEW t \in Nat, NEW st \in Statuses,
           Inserts(op, r, t, st),
           op = "protocol_compile" => t \in Cards, op = "loop_decide" => t \in 0..Len(runs'),
           NEW patch \in {"none", "running", "verifying", "loop_deciding", "reporting", "closed"},
           Return(w, "success", patch),
           RunsTyped', RunsKept, SpecsKept
    PROVE  JobsTyped' /\ WorkersTyped' /\ HistoryTyped' /\ Kept
<1>1. Grows /\ Len(runs') \in Nat /\ Len(specs') \in Nat
  BY DEF Grows, RunsKept, SpecsKept
<1>2. JobsTyped' /\ JobsKept
  BY <1>1, InsertTyped, Inserted
<1>3. WorkersTyped'
  BY <1>1, <1>2, ReturnTyped
<1>4. UNCHANGED policy /\ UNCHANGED env
  BY DEF Return
<1>5. HistoryTyped'
  BY <1>4, Parts DEF HistoryTyped, env
<1>6. QED
  BY <1>2, <1>3, <1>4, <1>5 DEF Kept

\* A returning operator that leaves the budget alone is behind nobody.
LEMMA ReturnBehind ==
    ASSUME TypeOK, SawBehind, NEW w \in Workers, NEW res, NEW patch, Return(w, res, patch),
           (total' >= total /\ overlap' = overlap) \/ overlap', total' \in Nat
    PROVE  SawBehind'
BY Returned, StillBehind

\* The cycle and its policy when an operator returns.
LEMMA ReturnCycle ==
    ASSUME TypeOK, NEW w, NEW res, NEW patch, Return(w, res, patch), cards' \in [Cards -> CardStatus]
    PROVE  CycleTyped' /\ UNCHANGED <<policy, cycle, env>>
BY Parts DEF Return, CycleTyped

\* Whatever a decision comes to.
LEMMA OutcomeTyped ==
    ASSUME TypeOK, SawBehind, NEW w \in Workers, worker[w].pc = "deciding",
           NEW n \in Nat, Outcome(w, n), cards' \in [Cards -> CardStatus], UNCHANGED specs,
           total' \in Nat, per' \in [Cards -> Nat], overlap' \in BOOLEAN,
           (total' >= total /\ overlap' = overlap /\ n <= total') \/ overlap'
    PROVE  StepTyped
<1>1. /\ worker[w].job \in JobIds /\ Job(w).run \in 1..Len(runs) /\ Job(w).run \in RunIds
  BY JobOf
<1>2. SpecsKept /\ Len(specs') \in Nat /\ Len(runs) \in Nat
  BY SameSpecs, Rows
<1>3. last_gate \in Nat /\ total \in Nat /\ (last_gate <= total \/ overlap)
  BY DEF TypeOK
<1>4. ASSUME UNCHANGED last_gate \/ last_gate' = n
      PROVE  BudgetTyped'
  BY <1>3, <1>4 DEF BudgetTyped
<1>5. ASSUME NEW res, NEW patch, Return(w, res, patch)
      PROVE  SawBehind' /\ CycleTyped'
  BY <1>5, ReturnBehind, ReturnCycle
<1>6. ASSUME UNCHANGED runs PROVE RunsTyped' /\ RunsKept /\ Len(runs') = Len(runs)
  BY <1>6, SameRuns, SameRunsKept
<1>7. CASE Stop(w)
  <2>1. /\ Inserts("loop_report", Job(w).run, 0, "pending") /\ Return(w, "success", "reporting")
        /\ UNCHANGED runs /\ UNCHANGED last_gate
    BY <1>7 DEF Stop, Inserts
  <2>2. Job(w).run \in 1..Len(runs')
    BY <1>1, <1>6, <2>1
  <2>3. JobsTyped' /\ WorkersTyped' /\ HistoryTyped' /\ Kept
    BY <1>2, <1>6, <2>1, <2>2, HandOnTyped DEF Ops, Statuses
  <2>4. QED
    BY <1>4, <1>5, <1>6, <2>1, <2>3, PartsNext DEF StepTyped
<1>8. ASSUME NEW c \in Cards, CompileFor(w, c) PROVE StepTyped
  <2>1. /\ Inserts("protocol_compile", Job(w).run, c, "pending") /\ Return(w, "success", "running")
        /\ UNCHANGED runs /\ UNCHANGED last_gate
    BY <1>8 DEF CompileFor, Inserts
  <2>2. Job(w).run \in 1..Len(runs') /\ c \in Nat
    BY <1>1, <1>6, <2>1 DEF Cards
  <2>3. JobsTyped' /\ WorkersTyped' /\ HistoryTyped' /\ Kept
    BY <1>2, <1>6, <2>1, <2>2, HandOnTyped DEF Ops, Statuses
  <2>4. QED
    BY <1>4, <1>5, <1>6, <2>1, <2>3, PartsNext DEF StepTyped
<1>9. ASSUME NEW s \in 1..Len(specs), StartNextRun(w, s) PROVE StepTyped
  <2>1. /\ Inserts("execution_setup", Len(runs) + 1, 0, "pending") /\ Return(w, "success", "running")
        /\ runs' = Append(runs, NewRun(s)) /\ UNCHANGED last_gate
    BY <1>9 DEF StartNextRun, Inserts
  <2>2. RunsTyped' /\ RunsKept /\ Len(runs') = Len(runs) + 1
    BY <2>1, StartTyped
  <2>3. Len(runs) + 1 \in 1..Len(runs')
    BY <1>2, <2>2
  <2>4. JobsTyped' /\ WorkersTyped' /\ HistoryTyped' /\ Kept
    BY <1>2, <2>1, <2>2, <2>3, HandOnTyped DEF Ops, Statuses
  <2>5. QED
    BY <1>4, <1>5, <2>1, <2>2, <2>4, PartsNext DEF StepTyped
<1>10. CASE PauseForGate(w, n)
  <2>1. /\ Restates(worker[w].job, "paused") /\ Return(w, "success", "none")
        /\ runs' = RaiseGates(Job(w).run) /\ last_gate' = n
    BY <1>10 DEF PauseForGate, Restates, RaiseGates
  <2>2. RunsTyped' /\ RunsKept /\ Grows /\ Len(runs') \in Nat
    BY <1>1, <2>1, GateTyped DEF RunsKept
  <2>3. JobsTyped' /\ JobsKept
    BY <1>1, <2>1, <2>2, RestateTyped, Restated DEF Statuses
  <2>4. WorkersTyped'
    BY <1>2, <2>1, <2>2, <2>3, ReturnTyped
  <2>5. HistoryTyped' /\ UNCHANGED policy
    BY <2>1, Parts DEF HistoryTyped, Return, env
  <2>6. Kept
    BY <1>2, <2>2, <2>3, <2>5 DEF Kept
  <2>7. QED
    BY <1>4, <1>5, <2>1, <2>2, <2>3, <2>4, <2>5, <2>6, PartsNext DEF StepTyped
<1>11. QED
  BY <1>7, <1>8, <1>9, <1>10 DEF Outcome

\* A step of the queue: nothing but jobs, workers and the history changes.
LEMMA QueueTyped ==
    ASSUME TypeOK, UNCHANGED <<policy, cards, specs, runs, budget, last_gate>>,
           cycle' \in {"running", "verifying", "loop_deciding", "reporting", "closed"},
           JobsTyped', JobsKept, WorkersTyped', HistoryTyped', SawBehind'
    PROVE  StepTyped
<1>1. RunsTyped' /\ RunsKept /\ SpecsKept
  BY SameRuns, SameRunsKept, SameSpecs
<1>2. BudgetTyped'
  BY SameBudget
<1>3. CycleTyped'
  BY Parts DEF CycleTyped
<1>4. QED
  BY <1>1, <1>2, <1>3, PartsNext DEF StepTyped, Kept

\* A worker claims a job.
LEMMA Claimed ==
    ASSUME TypeOK, NEW w \in Workers, NEW j \in Nat,
           worker' = [worker EXCEPT ![w].pc = "executing", ![w].job = j]
    PROVE  /\ \E row \in WorkerType : worker' = [worker EXCEPT ![w] = row]
                                      /\ row.pc = "executing" /\ row.job = j
           /\ DOMAIN worker' = Workers /\ \A v \in Workers : v # w => worker'[v] = worker[v]
           /\ worker'[w].pc = "executing" /\ worker'[w].job = j
<1>1. DOMAIN worker = Workers /\ worker[w] \in WorkerType
  BY Rows
<1> DEFINE row == [[worker[w] EXCEPT !.pc = "executing"] EXCEPT !.job = j]
<1>2. worker' = [worker EXCEPT ![w] = row]
  BY <1>1
<1>3. row.pc = "executing" /\ row.job = j
  BY <1>1 DEF WorkerType
<1>4. row \in WorkerType
  <2>1. [worker[w] EXCEPT !.pc = "executing"] \in WorkerType
    BY <1>1, Zenon DEF WorkerType
  <2>2. QED
    BY <2>1, Zenon DEF WorkerType
<1> HIDE DEF row
<1>5. worker'[w] = row /\ DOMAIN worker' = Workers /\ \A v \in Workers : v # w => worker'[v] = worker[v]
  BY <1>1, <1>2
<1>6. QED
  BY <1>2, <1>3, <1>4, <1>5

\* loop_decide has read.
LEMMA HasRead ==
    ASSUME TypeOK, NEW w \in Workers, DecideRead(w)
    PROVE  /\ \E row \in WorkerType : worker' = [worker EXCEPT ![w] = row]
                                      /\ row.pc = "deciding" /\ row.job = worker[w].job
           /\ DOMAIN worker' = Workers /\ \A v \in Workers : v # w => worker'[v] = worker[v]
           /\ worker'[w].pc = "deciding" /\ worker'[w].job = worker[w].job
           /\ worker'[w].saw.gates = runs[Job(w).run].gates
           /\ worker'[w].saw.total = total /\ worker'[w].saw.per = per
<1>1. DOMAIN worker = Workers /\ worker[w] \in WorkerType /\ worker[w].pc # "idle"
  BY Rows DEF DecideRead, Executing
<1> DEFINE r == Job(w).run
           saw == [gates |-> runs[r].gates, advice |-> runs[r].advice, total |-> total, per |-> per]
           row == [[worker[w] EXCEPT !.pc = "deciding"] EXCEPT !.saw = saw]
<1>2. worker' = [worker EXCEPT ![w] = row]
  BY <1>1 DEF DecideRead
<1>3. row.pc = "deciding" /\ row.job = worker[w].job /\ row.saw = saw
  BY <1>1 DEF WorkerType
<1>4. saw.gates = runs[r].gates /\ saw.total = total /\ saw.per = per
  OBVIOUS
<1>5. saw \in [gates : Nat, advice : Advice \cup {"none"}, total : Nat, per : [Cards -> Nat]]
  <2>1. r \in 1..Len(runs)
    BY <1>1, JobOf
  <2>2. runs[r].gates \in Nat /\ runs[r].advice \in Advice \cup {"none"}
    BY <2>1, RunColumns
  <2>3. total \in Nat /\ per \in [Cards -> Nat]
    BY DEF TypeOK
  <2>4. QED
    BY <2>2, <2>3
<1> HIDE DEF saw
<1>6. row \in WorkerType
  <2>1. [worker[w] EXCEPT !.pc = "deciding"] \in WorkerType
    BY <1>1, Zenon DEF WorkerType
  <2>2. QED
    BY <1>5, <2>1, Zenon DEF WorkerType
<1> HIDE DEF row
<1>7. worker'[w] = row /\ DOMAIN worker' = Workers /\ \A v \in Workers : v # w => worker'[v] = worker[v]
  BY <1>1, <1>2
<1>8. QED
  BY <1>2, <1>3, <1>4, <1>6, <1>7

\* A worker holds the spec it has compiled.
LEMMA Compiled ==
    ASSUME TypeOK, NEW w \in Workers, NEW s \in Nat,
           worker' = [worker EXCEPT ![w].pc = "compiled", ![w].spec = s]
    PROVE  /\ \E row \in WorkerType : worker' = [worker EXCEPT ![w] = row]
                                      /\ row.pc = "compiled" /\ row.job = worker[w].job /\ row.spec = s
           /\ DOMAIN worker' = Workers /\ \A v \in Workers : v # w => worker'[v] = worker[v]
           /\ worker'[w].pc = "compiled" /\ worker'[w].job = worker[w].job
<1>1. DOMAIN worker = Workers /\ worker[w] \in WorkerType
  BY Rows
<1> DEFINE row == [[worker[w] EXCEPT !.pc = "compiled"] EXCEPT !.spec = s]
<1>2. worker' = [worker EXCEPT ![w] = row]
  BY <1>1
<1>3. row.pc = "compiled" /\ row.job = worker[w].job /\ row.spec = s
  BY <1>1 DEF WorkerType
<1>4. row \in WorkerType
  <2>1. [worker[w] EXCEPT !.pc = "compiled"] \in WorkerType
    BY <1>1, Zenon DEF WorkerType
  <2>2. QED
    BY <2>1, Zenon DEF WorkerType
<1> HIDE DEF row
<1>5. worker'[w] = row /\ DOMAIN worker' = Workers /\ \A v \in Workers : v # w => worker'[v] = worker[v]
  BY <1>1, <1>2
<1>6. QED
  BY <1>2, <1>3, <1>4, <1>5

\* Claim, and the first half of a decision.
LEMMA TakeTyped ==
    ASSUME TypeOK, SawBehind, NEW w \in Workers, ClaimJob(w) \/ DecideRead(w)
    PROVE  StepTyped
<1>1. CASE ClaimJob(w)
  <2>1. PICK j \in JobIds : /\ Restates(j, "running")
                            /\ worker' = [worker EXCEPT ![w].pc = "executing", ![w].job = j]
    BY <1>1 DEF ClaimJob, Restates
  <2>2. UNCHANGED <<policy, cycle, cards, specs, runs, budget, last_gate, env>>
    BY <1>1 DEF ClaimJob
  <2>3. j \in Nat /\ Grows /\ Len(runs') \in Nat /\ Len(specs') \in Nat
    BY <2>2, SameRuns DEF JobIds
  <2>4. JobsTyped' /\ JobsKept /\ JobIds' = JobIds
    BY <2>1, <2>3, RestateTyped, Restated DEF Statuses
  <2>5. WorkersTyped'
    <3>1. PICK row \in WorkerType : worker' = [worker EXCEPT ![w] = row]
                                    /\ row.pc = "executing" /\ row.job = j
      BY <2>1, <2>3, Claimed
    <3>2. QED
      BY <2>3, <2>4, <3>1, OthersTyped
  <2>6. SawBehind'
    BY <2>1, <2>2, <2>3, Claimed, StillBehind, SameBudget
  <2>7. HistoryTyped' /\ cycle' \in {"running", "verifying", "loop_deciding", "reporting", "closed"}
    BY <2>2, Parts DEF HistoryTyped, env, CycleTyped
  <2>8. QED
    BY <2>2, <2>4, <2>5, <2>6, <2>7, QueueTyped
<1>2. CASE DecideRead(w)
  <2>1. UNCHANGED <<policy, cycle, cards, specs, runs, budget, last_gate, jobs, env>>
    BY <1>2 DEF DecideRead, tables
  <2>2. Grows /\ Len(specs') \in Nat /\ JobsKept /\ JobsTyped' /\ JobIds' = JobIds
    BY <2>1, SameRuns, SameJobs
  <2>3. worker[w].job \in JobIds
    BY <1>2, JobOf DEF DecideRead, Executing
  <2>4. WorkersTyped'
    <3>1. PICK row \in WorkerType : worker' = [worker EXCEPT ![w] = row]
                                    /\ row.pc = "deciding" /\ row.job = worker[w].job
      BY <1>2, HasRead
    <3>2. QED
      BY <2>2, <2>3, <3>1, OthersTyped
  <2>5. SawBehind'
    BY <1>2, <2>1, HasRead, StillBehind, SameBudget
  <2>6. HistoryTyped' /\ cycle' \in {"running", "verifying", "loop_deciding", "reporting", "closed"}
    BY <2>1, Parts DEF HistoryTyped, env, CycleTyped
  <2>7. QED
    BY <2>1, <2>2, <2>4, <2>5, <2>6, QueueTyped
<1>3. QED
  BY <1>1, <1>2

\* A worker comes to rest, and its row may be settled.
LEMMA RestStep ==
    ASSUME TypeOK, SawBehind, NEW w \in Workers, Rests(w), JobsTyped', JobsKept,
           UNCHANGED <<policy, cards, specs, runs, budget, last_gate>>, HistoryTyped',
           cycle' \in {"running", "verifying", "loop_deciding", "reporting", "closed"}
    PROVE  StepTyped
<1>1. Grows /\ Len(specs') \in Nat
  BY SameRuns
<1>2. WorkersTyped'
  BY <1>1, RestTyped
<1>3. worker'[w].pc # "deciding" /\ \A v \in Workers : v # w => worker'[v] = worker[v]
  BY Rows, Zenon DEF Rests, Idle
<1>4. SawBehind'
  BY <1>3, StillBehind, SameBudget
<1>5. QED
  BY <1>2, <1>4, QueueTyped

\* The settlement of a job, and a worker's death.
LEMMA SettleTyped ==
    ASSUME TypeOK, SawBehind, NEW w \in Workers, SettleStep(w) \/ Crash(w)
    PROVE  StepTyped
<1>0. HistoryTyped /\ CycleTyped
  BY Parts
<1>1. CASE AcknowledgeCancel(w) \/ RejectedPatch(w)
  <2>1. Rests(w) /\ UNCHANGED <<policy, cycle, cards, specs, runs, budget, last_gate, jobs, env>>
    BY <1>1 DEF AcknowledgeCancel, RejectedPatch, tables, Rests
  <2>2. JobsTyped' /\ JobsKept
    BY <2>1, SameJobs
  <2>3. HistoryTyped' /\ cycle' \in {"running", "verifying", "loop_deciding", "reporting", "closed"}
    BY <1>0, <2>1 DEF HistoryTyped, env, CycleTyped
  <2>4. QED
    BY <2>1, <2>2, <2>3, RestStep
<1>2. CASE SettleSuccess(w)
  <2>1. /\ Rests(w) /\ UNCHANGED <<policy, cards, specs, runs, budget, last_gate>>
        /\ worker[w].pc # "idle"
    BY <1>2 DEF SettleSuccess, Rests
  <2>2. worker[w].job \in JobIds
    BY <2>1, JobOf
  <2>3. \E st \in {"paused", "completed"} : Restates(worker[w].job, st)
    BY <1>2 DEF SettleSuccess, Restates
  <2>4. JobsTyped' /\ JobsKept
    BY <2>1, <2>2, <2>3, SameRuns, RestateTyped, Restated DEF Statuses
  <2>5. HistoryTyped'
    BY <1>0, <1>2 DEF HistoryTyped, SettleSuccess
  <2>6. cycle' \in {"running", "verifying", "loop_deciding", "reporting", "closed"}
    <3>1. cycle' = cycle \/ (cycle' = worker[w].patch /\ worker[w].patch # "none")
      BY <1>2 DEF SettleSuccess
    <3>2. QED
      BY <1>0, <3>1, WorkerColumns DEF CycleTyped
  <2>7. QED
    BY <2>1, <2>4, <2>5, <2>6, RestStep
<1>3. CASE SettleFailure(w)
  <2>1. /\ Rests(w) /\ UNCHANGED <<policy, cycle, cards, specs, runs, budget, last_gate, env>>
        /\ worker[w].pc # "idle" /\ Restates(worker[w].job, "failed")
    BY <1>3 DEF SettleFailure, Rests, Restates
  <2>2. worker[w].job \in JobIds
    BY <2>1, JobOf
  <2>3. JobsTyped' /\ JobsKept
    BY <2>1, <2>2, SameRuns, RestateTyped, Restated DEF Statuses
  <2>4. HistoryTyped' /\ cycle' \in {"running", "verifying", "loop_deciding", "reporting", "closed"}
    BY <1>0, <2>1 DEF HistoryTyped, env, CycleTyped
  <2>5. QED
    BY <2>1, <2>3, <2>4, RestStep
<1>4. CASE Crash(w)
  <2>1. Rests(w) /\ UNCHANGED <<policy, cycle, cards, specs, runs, budget, last_gate, jobs>>
    BY <1>4 DEF Crash, tables, Rests
  <2>2. JobsTyped' /\ JobsKept
    BY <2>1, SameJobs
  <2>3. HistoryTyped' /\ cycle' \in {"running", "verifying", "loop_deciding", "reporting", "closed"}
    BY <1>0, <1>4, <2>1 DEF HistoryTyped, Crash, CycleTyped
  <2>4. QED
    BY <2>1, <2>2, <2>3, RestStep
<1>5. QED
  BY <1>1, <1>2, <1>3, <1>4 DEF SettleStep

\* A run row is rewritten in place.
LEMMA RowRewritten ==
    ASSUME TypeOK, NEW r \in RunIds, NEW row \in RunType, runs' = [runs EXCEPT ![r] = row],
           row.spec = runs[r].spec, row.gates = runs[r].gates,
           runs[r].approved => row.approved, UNCHANGED specs
    PROVE  /\ RunsTyped' /\ Grows /\ RunsKept /\ Len(specs') \in Nat /\ Len(runs') = Len(runs)
           /\ \A q \in RunIds : runs'[q].gates = runs[q].gates /\ runs'[q].spec = runs[q].spec
           /\ \A q \in RunIds : q # r => runs'[q] = runs[q]
           /\ runs'[r] = row
<1>1. /\ runs \in Seq(RunType) /\ Len(runs) \in Nat /\ Len(specs) \in Nat
      /\ specs \in Seq(SpecType) /\ RunIds = 1..Len(runs)
  BY Rows DEF TypeOK, RunIds
<1>2. /\ runs' \in Seq(RunType) /\ Len(runs') = Len(runs) /\ runs'[r] = row
      /\ \A q \in RunIds : q # r => runs'[q] = runs[q]
  BY <1>1, ExceptSeq
<1>3. \A q \in RunIds : /\ runs[q].spec \in 1..Len(specs) /\ runs[q].gates \in Nat
                        /\ runs'[q].gates = runs[q].gates /\ runs'[q].spec = runs[q].spec
                        /\ runs[q].approved => runs'[q].approved
  BY <1>2, RunColumns DEF RunIds
<1>4. RunsKept
  BY <1>1, <1>2, <1>3 DEF RunsKept
<1>5. RunsTyped'
  BY <1>1, <1>2, <1>3, Rows DEF RunsTyped
<1>6. QED
  BY <1>1, <1>2, <1>3, <1>4, <1>5 DEF Grows

\* The recommendation of a run.
LEMMA Advised ==
    ASSUME TypeOK, NEW r \in RunIds, NEW a \in Advice, runs' = [runs EXCEPT ![r].advice = a], UNCHANGED specs
    PROVE  /\ RunsTyped' /\ Grows /\ RunsKept /\ Len(specs') \in Nat /\ Len(runs') = Len(runs)
           /\ \A q \in RunIds : /\ runs'[q].gates = runs[q].gates /\ runs'[q].spec = runs[q].spec
                                /\ runs'[q].approved = runs[q].approved
<1>1. runs[r] \in RunType
  BY Rows DEF RunIds
<1> DEFINE row == [runs[r] EXCEPT !.advice = a]
<1>2. runs' = [runs EXCEPT ![r] = row]
  OBVIOUS
<1>3. row.spec = runs[r].spec /\ row.gates = runs[r].gates /\ row.approved = runs[r].approved
  BY <1>1 DEF RunType
<1>4. row \in RunType
  BY <1>1, Zenon DEF RunType
<1> HIDE DEF row
<1>5. /\ RunsTyped' /\ Grows /\ RunsKept /\ Len(specs') \in Nat /\ Len(runs') = Len(runs)
      /\ \A q \in RunIds : runs'[q].gates = runs[q].gates /\ runs'[q].spec = runs[q].spec
      /\ \A q \in RunIds : q # r => runs'[q] = runs[q]
      /\ runs'[r] = row
  <2>1. runs[r].approved => row.approved
    BY <1>3, Zenon
  <2>2. row.spec = runs[r].spec /\ row.gates = runs[r].gates
    BY <1>3
  <2>3. QED
    BY <1>2, <1>4, <2>1, <2>2, RowRewritten
<1>6. \A q \in RunIds : runs'[q].approved = runs[q].approved
  BY <1>3, <1>5
<1>7. QED
  BY <1>5, <1>6

\* The user's approval of a prepared run.
LEMMA ApprovedRun ==
    ASSUME TypeOK, NEW r \in RunIds, runs' = [runs EXCEPT ![r].approved = TRUE], UNCHANGED specs
    PROVE  /\ RunsTyped' /\ Grows /\ RunsKept /\ Len(specs') \in Nat /\ Len(runs') = Len(runs)
           /\ \A q \in RunIds : runs'[q].gates = runs[q].gates /\ runs'[q].spec = runs[q].spec
           /\ runs'[r].approved
<1>1. runs[r] \in RunType
  BY Rows DEF RunIds
<1> DEFINE row == [runs[r] EXCEPT !.approved = TRUE]
<1>2. runs' = [runs EXCEPT ![r] = row]
  OBVIOUS
<1>3. row.spec = runs[r].spec /\ row.gates = runs[r].gates /\ row.approved
  BY <1>1 DEF RunType
<1>4. row \in RunType
  BY <1>1, Zenon DEF RunType
<1> HIDE DEF row
<1>5. QED
  BY <1>2, <1>3, <1>4, RowRewritten

\* The experiment, the recommendation and a prepared run's decision hand on.
LEMMA HandOnSteps ==
    ASSUME TypeOK, SawBehind, NEW w \in Workers, RunExperiment(w) \/ Recommend(w) \/ StartPrepared(w)
    PROVE  StepTyped
<1>0. /\ worker[w].pc # "idle" /\ Job(w).run \in RunIds /\ Job(w).run \in 1..Len(runs)
      /\ worker[w].job \in JobIds /\ Job(w) = jobs[worker[w].job]
  BY JobOf DEF RunExperiment, Recommend, StartPrepared, Executing
<1>1. /\ UNCHANGED <<cards, specs, budget, last_gate>> /\ cards \in [Cards -> CardStatus]
      /\ SpecsKept
  BY SameSpecs DEF RunExperiment, Recommend, StartPrepared, TypeOK
<1>2. /\ BudgetTyped' /\ total' = total /\ overlap' = overlap /\ total' \in Nat /\ total' >= total
  BY <1>1, SameBudget
<1>3. ASSUME NEW patch, Return(w, "success", patch) PROVE SawBehind' /\ CycleTyped'
  BY <1>1, <1>2, <1>3, ReturnBehind, ReturnCycle
<1>4. CASE RunExperiment(w)
  <2>1. /\ Inserts("recommend", Job(w).run, 0, "pending") /\ Return(w, "success", "verifying")
        /\ UNCHANGED runs
    BY <1>4 DEF RunExperiment, Inserts
  <2>2. RunsTyped' /\ RunsKept /\ Job(w).run \in 1..Len(runs')
    BY <1>0, <1>1, <2>1, SameRuns, SameRunsKept
  <2>3. JobsTyped' /\ WorkersTyped' /\ HistoryTyped' /\ Kept
    BY <1>0, <1>1, <2>1, <2>2, HandOnTyped DEF Ops, Statuses
  <2>4. QED
    BY <1>2, <1>3, <2>1, <2>2, <2>3, PartsNext DEF StepTyped
<1>5. CASE Recommend(w)
  <2>1. /\ Inserts("loop_decide", Job(w).run, 0, "pending") /\ Return(w, "success", "loop_deciding")
    BY <1>5 DEF Recommend, Inserts
  <2>2. PICK a \in Bounds[policy].advice : runs' = [runs EXCEPT ![Job(w).run].advice = a]
    BY <1>5 DEF Recommend
  <2>3. a \in Advice
    BY LoopAssumption DEF TypeOK
  <2>4. RunsTyped' /\ RunsKept /\ Len(runs') = Len(runs)
    BY <1>0, <1>1, <2>2, <2>3, Advised
  <2>5. Job(w).run \in 1..Len(runs') /\ 0 \in 0..Len(runs')
    BY <1>0, <2>4 DEF RunsKept
  <2>6. JobsTyped' /\ WorkersTyped' /\ HistoryTyped' /\ Kept
    BY <1>0, <1>1, <2>1, <2>4, <2>5, HandOnTyped DEF Ops, Statuses
  <2>7. QED
    BY <1>2, <1>3, <2>1, <2>4, <2>6, PartsNext DEF StepTyped
<1>6. CASE StartPrepared(w)
  <2>1. /\ Inserts("execution_setup", Job(w).target, 0, "pending") /\ Return(w, "success", "running")
        /\ UNCHANGED runs /\ Job(w).op = "loop_decide" /\ Job(w).target # 0
    BY <1>0, <1>6 DEF StartPrepared, Inserts, Executing
  <2>2. Job(w).target \in 0..Len(runs) /\ Len(runs) \in Nat
    BY <1>0, <2>1, Rows DEF TypeOK
  <2>3. RunsTyped' /\ RunsKept /\ Job(w).target \in 1..Len(runs')
    BY <1>1, <2>1, <2>2, SameRuns, SameRunsKept
  <2>4. JobsTyped' /\ WorkersTyped' /\ HistoryTyped' /\ Kept
    BY <1>0, <1>1, <2>1, <2>3, HandOnTyped DEF Ops, Statuses
  <2>5. QED
    BY <1>2, <1>3, <2>1, <2>3, <2>4, PartsNext DEF StepTyped
<1>7. QED
  BY <1>4, <1>5, <1>6

\* An operator that returns without a new job.
LEMMA ReturnStep ==
    ASSUME TypeOK, SawBehind, NEW w \in Workers, worker[w].pc # "idle", NEW res \in {"success", "failure"},
           NEW patch \in {"none", "running", "verifying", "loop_deciding", "reporting", "closed"},
           Return(w, res, patch), cards' \in [Cards -> CardStatus],
           UNCHANGED <<specs, runs, budget, last_gate, jobs>>
    PROVE  StepTyped
<1>1. RunsTyped' /\ RunsKept /\ SpecsKept /\ Grows /\ Len(specs') \in Nat
  BY SameRuns, SameRunsKept, SameSpecs
<1>2. JobsTyped' /\ JobsKept
  BY SameJobs
<1>3. WorkersTyped'
  BY <1>1, <1>2, ReturnTyped
<1>4. BudgetTyped' /\ SawBehind'
  BY SameBudget, ReturnBehind
<1>5. CycleTyped' /\ UNCHANGED <<policy, env>>
  BY ReturnCycle
<1>6. HistoryTyped'
  BY <1>5, Parts DEF HistoryTyped, env
<1>7. QED
  BY <1>1, <1>2, <1>3, <1>4, <1>5, <1>6, PartsNext DEF StepTyped, Kept

\* A decision that raises, and the report.
LEMMA RaiseSteps ==
    ASSUME TypeOK, SawBehind, NEW w \in Workers, DecideRaises(w) \/ LoopReport(w)
    PROVE  StepTyped
<1>1. cards \in [Cards -> CardStatus]
  BY DEF TypeOK
<1>2. QED
  BY <1>1, ReturnStep DEF DecideRaises, LoopReport, Executing

\* A spec is added.
LEMMA SpecAdded ==
    ASSUME TypeOK, NEW spec \in SpecType, specs' = Append(specs, spec), UNCHANGED runs
    PROVE  /\ RunsTyped' /\ RunsKept /\ SpecsKept /\ Grows
           /\ Len(specs') \in Nat /\ Len(specs') = Len(specs) + 1
<1>1. /\ runs \in Seq(RunType) /\ Len(runs) \in Nat /\ Len(specs) \in Nat /\ specs \in Seq(SpecType)
  BY Rows DEF TypeOK
<1>2. /\ specs' \in Seq(SpecType) /\ Len(specs') = Len(specs) + 1
      /\ \A q \in 1..Len(specs) : specs'[q] = specs[q]
  BY <1>1, AppendProperties
<1>3. \A q \in 1..Len(runs) : runs[q].spec \in 1..Len(specs)
  BY RunColumns
<1>4. RunsTyped'
  BY <1>1, <1>2, <1>3, Rows DEF RunsTyped
<1>5. SpecsKept /\ Grows
  BY <1>1, <1>2 DEF SpecsKept, Grows
<1>6. QED
  BY <1>1, <1>2, <1>4, <1>5, SameRunsKept

\* The first transaction of protocol_compile.
LEMMA CompileTyped ==
    ASSUME TypeOK, SawBehind, NEW w \in Workers, CompileSpec(w)
    PROVE  StepTyped
<1> DEFINE c == Job(w).target
           old == specs[runs[Job(w).run].spec]
<1>1. /\ worker[w].pc # "idle" /\ worker[w].job \in JobIds /\ Job(w) = jobs[worker[w].job]
      /\ Job(w).op = "protocol_compile" /\ runs[Job(w).run].spec \in 1..Len(specs)
  BY JobOf DEF CompileSpec, Executing
<1>2. c \in Cards /\ old.gpus \in {None, 0, 1}
  BY <1>1, SpecColumns DEF TypeOK
<1>3. cards \in [Cards -> CardStatus] /\ UNCHANGED <<runs, budget, last_gate, jobs>>
  BY DEF TypeOK, CompileSpec
<1>4. CASE \E net \in Networked :
             /\ cards' = [cards EXCEPT ![c] = "compiled"]
             /\ specs' = Append(specs, NewSpec(c, net, IF c = old.card THEN old.gpus ELSE None))
             /\ worker' = [worker EXCEPT ![w].pc = "compiled", ![w].spec = Len(specs) + 1]
             /\ UNCHANGED <<policy, cycle, env>>
  <2>1. PICK net \in Networked :
             /\ cards' = [cards EXCEPT ![c] = "compiled"]
             /\ specs' = Append(specs, NewSpec(c, net, IF c = old.card THEN old.gpus ELSE None))
             /\ worker' = [worker EXCEPT ![w].pc = "compiled", ![w].spec = Len(specs) + 1]
             /\ UNCHANGED <<policy, cycle, env>>
    BY <1>4
  <2>2. NewSpec(c, net, IF c = old.card THEN old.gpus ELSE None) \in SpecType
    <3>1. net \in BOOLEAN
      BY DEF Networked
    <3>2. (IF c = old.card THEN old.gpus ELSE None) \in {None, 0, 1}
      BY <1>2
    <3>3. QED
      BY <1>2, <3>1, <3>2 DEF NewSpec, SpecType
  <2>3. /\ RunsTyped' /\ RunsKept /\ SpecsKept /\ Grows /\ Len(specs') \in Nat
        /\ Len(specs') = Len(specs) + 1 /\ Len(specs) + 1 \in Nat
    BY <1>3, <2>1, <2>2, SpecAdded, Rows
  <2>4. JobsTyped' /\ JobsKept /\ JobIds' = JobIds
    BY <1>3, SameJobs
  <2>5. PICK row \in WorkerType : worker' = [worker EXCEPT ![w] = row] /\ row.pc = "compiled"
                                  /\ row.job = worker[w].job /\ row.spec = Len(specs) + 1
    BY <2>1, <2>3, Compiled
  <2>6. WorkersTyped'
    <3>1. row.job \in JobIds' /\ row.spec \in 1..Len(specs')
      BY <1>1, <2>3, <2>4, <2>5, Rows
    <3>2. QED
      BY <2>3, <2>4, <2>5, <3>1, OthersTyped
  <2>7. SawBehind'
    <3>1. worker'[w].pc # "deciding" /\ \A v \in Workers : v # w => worker'[v] = worker[v]
      BY <2>1, <2>3, Compiled
    <3>2. QED
      BY <1>3, <3>1, StillBehind, SameBudget
  <2>8. BudgetTyped'
    BY <1>3, SameBudget
  <2>9. CycleTyped' /\ HistoryTyped'
    <3>1. cards' \in [Cards -> CardStatus]
      BY <1>2, <1>3, <2>1 DEF CardStatus
    <3>2. QED
      BY <2>1, <3>1, Parts DEF CycleTyped, HistoryTyped, env
  <2>10. QED
    BY <2>1, <2>3, <2>4, <2>6, <2>7, <2>8, <2>9, PartsNext DEF StepTyped, Kept
<1>5. CASE /\ cards' = [cards EXCEPT ![c] = IF @ = "candidate" THEN "selected" ELSE @]
           /\ Return(w, "failure", "none") /\ UNCHANGED specs
  <2>1. cards' \in [Cards -> CardStatus]
    BY <1>2, <1>3, <1>5 DEF CardStatus
  <2>2. QED
    BY <1>1, <1>3, <1>5, <2>1, ReturnStep
<1>6. CASE Return(w, "failure", "none") /\ UNCHANGED <<cards, specs>>
  BY <1>1, <1>3, <1>6, ReturnStep
<1>7. QED
  BY <1>4, <1>5, <1>6 DEF CompileSpec

\* The gate of a prepared run: the gate is stored with the run it came from.
LEMMA PreparedGated ==
    ASSUME TypeOK, NEW r \in RunIds, NEW s \in 1..Len(specs),
           runs' = Append(RaiseGates(r), NewRun(s)), UNCHANGED specs
    PROVE  /\ RunsTyped' /\ RunsKept /\ Len(runs') = Len(runs) + 1
           /\ runs'[Len(runs) + 1] = NewRun(s) /\ runs'[r].gates = runs[r].gates + 1
           /\ \A q \in RunIds : q # r => runs'[q] = runs[q]
<1> DEFINE mid == RaiseGates(r)
<1>1. /\ mid \in Seq(RunType) /\ Len(mid) = Len(runs)
      /\ mid[r].gates = runs[r].gates + 1 /\ mid[r].spec = runs[r].spec
      /\ mid[r].approved = runs[r].approved
      /\ \A q \in RunIds : q # r => mid[q] = runs[q]
  BY GatesRaised
<1>2. Len(runs) \in Nat /\ Len(specs) \in Nat /\ s \in Nat /\ RunIds = 1..Len(runs)
      /\ specs \in Seq(SpecType)
  BY Rows DEF RunIds, TypeOK
<1>a. runs' = Append(mid, NewRun(s))
  OBVIOUS
<1> HIDE DEF mid
<1>3. /\ runs' \in Seq(RunType) /\ Len(runs') = Len(runs) + 1
      /\ runs'[Len(runs) + 1] = NewRun(s) /\ \A q \in RunIds : runs'[q] = mid[q]
  BY <1>1, <1>2, <1>a, RunAdded
<1>4. \A q \in RunIds : runs[q].spec \in 1..Len(specs) /\ runs[q].gates \in Nat
  BY RunColumns DEF RunIds
<1>5. \A q \in RunIds : /\ runs'[q].spec = runs[q].spec /\ runs'[q].approved = runs[q].approved
                        /\ runs'[q].gates \in Nat /\ runs'[q].gates >= runs[q].gates
  <2>1. ASSUME NEW q \in RunIds
        PROVE  runs'[q].spec = runs[q].spec /\ runs'[q].approved = runs[q].approved
    BY <1>1, <1>3, <2>1, Zenon
  <2>2. ASSUME NEW q \in RunIds PROVE runs'[q].gates \in Nat /\ runs'[q].gates >= runs[q].gates
    <3>1. runs'[q].gates = runs[q].gates \/ runs'[q].gates = runs[q].gates + 1
      BY <1>1, <1>3, Zenon
    <3>2. runs[q].gates \in Nat
      BY <1>4
    <3>3. \A b \in Nat : b + 1 >= b /\ b >= b /\ b + 1 \in Nat
      OBVIOUS
    <3>4. QED
      BY <3>1, <3>2, <3>3, Zenon
  <2>3. QED
    BY <2>1, <2>2, Zenon
<1>6. RunsKept
  BY <1>2, <1>3, <1>5 DEF RunsKept
<1>7. \A q \in 1..Len(runs') : q \in RunIds \/ q = Len(runs) + 1
  <2>1. \A n \in Nat : \A q \in 1..n+1 : q \in 1..n \/ q = n + 1
    OBVIOUS
  <2>2. Len(runs) \in Nat /\ RunIds = 1..Len(runs) /\ Len(runs') = Len(runs) + 1
    BY <1>2, <1>3
  <2>3. QED
    BY <2>1, <2>2, Zenon
<1>8. RunsTyped'
  <2>1. Len(runs') > 0
    BY <1>2, <1>3
  <2>2. ASSUME NEW q \in 1..Len(runs') PROVE runs'[q].spec \in 1..Len(specs')
    <3>1. CASE q \in RunIds
      BY <1>4, <1>5, <3>1
    <3>2. CASE q = Len(runs) + 1
      BY <1>2, <1>3, <3>2, NewRunColumns
    <3>3. QED
      BY <1>7, <3>1, <3>2
  <2>3. specs' \in Seq(SpecType) /\ runs' \in Seq(RunType)
    BY <1>2, <1>3
  <2>4. QED
    BY <2>1, <2>2, <2>3 DEF RunsTyped
<1>9. QED
  BY <1>1, <1>3, <1>6, <1>8

\* The second transaction of protocol_compile.
LEMMA PrepareTyped ==
    ASSUME TypeOK, SawBehind, NEW w \in Workers, PrepareRun(w)
    PROVE  StepTyped
<1> DEFINE s == worker[w].spec
           from == Job(w).run
           new == Len(runs) + 1
<1>1. /\ worker[w].pc # "idle" /\ worker[w].job \in JobIds /\ from \in RunIds /\ from \in 1..Len(runs)
      /\ s \in 1..Len(specs)
  BY JobOf, WorkerColumns DEF PrepareRun
<1>2. /\ UNCHANGED <<cards, specs, budget>> /\ cards \in [Cards -> CardStatus] /\ SpecsKept
      /\ Len(runs) \in Nat /\ last_gate \in Nat
  BY SameSpecs, Rows DEF PrepareRun, TypeOK
<1>3. /\ total' = total /\ overlap' = overlap /\ total' \in Nat /\ total' >= total
  BY <1>2, SameBudget
<1>4. BudgetTyped'
  <2>1. last_gate' \in {total, last_gate}
    BY DEF PrepareRun
  <2>2. QED
    BY <1>2, <1>3, <2>1, Parts DEF BudgetTyped, budget
<1>5. ASSUME NEW patch, Return(w, "success", patch) PROVE SawBehind' /\ CycleTyped'
  BY <1>2, <1>3, <1>5, ReturnBehind, ReturnCycle
<1>6. CASE /\ runs' = Append(RaiseGates(from), NewRun(s))
           /\ Inserts("loop_decide", from, new, "paused") /\ Return(w, "success", "loop_deciding")
  <2>1. RunsTyped' /\ RunsKept /\ Len(runs') = Len(runs) + 1
    BY <1>1, <1>2, <1>6, PreparedGated
  <2>2. from \in 1..Len(runs') /\ new \in 0..Len(runs') /\ new \in Nat
    BY <1>1, <1>2, <2>1
  <2>3. JobsTyped' /\ WorkersTyped' /\ HistoryTyped' /\ Kept
    BY <1>1, <1>2, <1>6, <2>1, <2>2, HandOnTyped DEF Ops, Statuses
  <2>4. QED
    BY <1>4, <1>5, <1>6, <2>1, <2>3, PartsNext DEF StepTyped
<1>7. CASE /\ runs' = Append(runs, NewRun(s))
           /\ Inserts("execution_setup", new, 0, "pending") /\ Return(w, "success", "none")
  <2>1. RunsTyped' /\ RunsKept /\ Len(runs') = Len(runs) + 1
    BY <1>1, <1>2, <1>7, StartTyped
  <2>2. new \in 1..Len(runs')
    BY <1>2, <2>1
  <2>3. JobsTyped' /\ WorkersTyped' /\ HistoryTyped' /\ Kept
    BY <1>1, <1>2, <1>7, <2>1, <2>2, HandOnTyped DEF Ops, Statuses
  <2>4. QED
    BY <1>4, <1>5, <1>7, <2>1, <2>3, PartsNext DEF StepTyped
<1>8. QED
  BY <1>6, <1>7 DEF PrepareRun, RaiseGates, Inserts

\* What a fresh decision charges, and what it comes to.
Card(w) == specs[runs[Job(w).run].spec].card
Charges(w) ==
    LET saw == worker[w].saw IN
    /\ total' = saw.total + 1 /\ per' = [saw.per EXCEPT ![Card(w)] = saw.per[Card(w)] + 1]
    /\ overlap' = (overlap \/ saw.total # total \/ saw.per # per)
InBudget(w) ==
    /\ ~LimitReached(worker[w].saw.total + 1, policy.max_total_runs)
    /\ ~LimitReached(worker[w].saw.per[Card(w)] + 1, policy.max_runs_per_hypothesis)
FreshOutcome(w) ==
    LET n == worker[w].saw.total + 1 IN
    \/ Stop(w)
    \/ InBudget(w) /\ PauseForGate(w, n)
    \/ /\ InBudget(w) /\ Outcome(w, n)
       /\ \E cur, next, promotion :
             Gate(Max({0, n - last_gate}), cur, next, promotion, FALSE) = "none"

\* A fresh decision charges, then stops, pauses, or goes on with no gate in its way.
LEMMA FreshMeans ==
    ASSUME TypeOK, NEW w \in Workers, DecideFresh(w)
    PROVE  /\ worker[w].pc = "deciding" /\ worker[w].saw.gates = 0 /\ ~InsertRefused(w)
           /\ Charges(w) /\ FreshOutcome(w) /\ Outcome(w, worker[w].saw.total + 1)
           /\ cards' \in [Cards -> CardStatus] /\ UNCHANGED specs
<1> DEFINE saw == worker[w].saw
           n == saw.total + 1
           c == Card(w)
<1>1. /\ worker[w].pc = "deciding" /\ saw.gates = 0 /\ ~InsertRefused(w) /\ Charges(w)
  BY DEF DecideFresh, Charges, Card
<1>2. PICK ev \in Evidence, late \in Late :
          LET promotion == Lifecycle(cards[c], ev, saw.advice) = "validated"
              gpus == specs[runs[Job(w).run].spec].gpus
              gate == Gate(Max({0, n - last_gate}), gpus, gpus, promotion, FALSE)
          IN  IF BudgetExceeded(n, saw.per[c] + 1, late)
              THEN Stop(w) /\ UNCHANGED <<cards, specs>>
              ELSE IF gate # "none"
                   THEN PauseForGate(w, n) /\ UNCHANGED <<cards, specs>>
                   ELSE Act(w, n, ev)
  BY DEF DecideFresh, Card
<1>3. cards \in [Cards -> CardStatus]
  BY DEF TypeOK
<1>4. CASE BudgetExceeded(n, saw.per[c] + 1, late)
  BY <1>1, <1>2, <1>3, <1>4 DEF FreshOutcome, Outcome
<1>5. CASE ~BudgetExceeded(n, saw.per[c] + 1, late)
  <2>1. InBudget(w)
    BY <1>5 DEF BudgetExceeded, InBudget
  <2>2. CASE PauseForGate(w, n) /\ UNCHANGED <<cards, specs>>
    BY <1>1, <1>3, <2>1, <2>2 DEF FreshOutcome, Outcome
  <2>3. CASE /\ Act(w, n, ev)
             /\ \E cur, next, promotion :
                   Gate(Max({0, n - last_gate}), cur, next, promotion, FALSE) = "none"
    <3>1. Outcome(w, n) /\ cards' \in [Cards -> CardStatus] /\ UNCHANGED specs
      BY <1>1, <2>3, ActOutcome
    <3>2. QED
      BY <1>1, <2>1, <2>3, <3>1 DEF FreshOutcome
  <2>4. QED
    BY <1>2, <1>5, <2>2, <2>3
<1>6. QED
  BY <1>4, <1>5

\* A resumed decision goes on at once.
LEMMA ResumedMeans ==
    ASSUME TypeOK, NEW w \in Workers, DecideResumed(w)
    PROVE  /\ worker[w].pc = "deciding" /\ worker[w].saw.gates = 1
           /\ Outcome(w, worker[w].saw.total) /\ UNCHANGED budget
           /\ cards' \in [Cards -> CardStatus] /\ UNCHANGED specs
BY ActOutcome DEF DecideResumed

\* A decision keeps the types: it pauses at a count that is not ahead.
LEMMA DecideTyped ==
    ASSUME TypeOK, SawBehind, NEW w \in Workers, DecideFresh(w) \/ DecideResumed(w)
    PROVE  StepTyped
<1>1. /\ worker[w].saw.total \in Nat /\ worker[w].saw.per \in [Cards -> Nat]
      /\ total \in Nat /\ per \in [Cards -> Nat] /\ overlap \in BOOLEAN
  BY WorkerColumns DEF TypeOK
<1>2. CASE DecideFresh(w)
  <2>1. /\ worker[w].pc = "deciding" /\ Charges(w) /\ Outcome(w, worker[w].saw.total + 1)
        /\ cards' \in [Cards -> CardStatus] /\ UNCHANGED specs
    BY <1>2, FreshMeans
  <2>2. Card(w) \in Cards
    BY <2>1, JobOf DEF Card
  <2>3. total' \in Nat /\ per' \in [Cards -> Nat] /\ overlap' \in BOOLEAN
    BY <1>1, <2>1, <2>2 DEF Charges
  <2>4. (total' >= total /\ overlap' = overlap /\ worker[w].saw.total + 1 <= total') \/ overlap'
    <3>1. (overlap' = overlap /\ worker[w].saw.total = total) \/ overlap'
      BY <1>1, <2>1, Zenon DEF Charges
    <3>2. total' = worker[w].saw.total + 1
      BY <2>1 DEF Charges
    <3>3. QED
      BY <1>1, <3>1, <3>2
  <2>5. QED
    BY <1>1, <2>1, <2>3, <2>4, OutcomeTyped
<1>3. CASE DecideResumed(w)
  <2>1. /\ worker[w].pc = "deciding" /\ Outcome(w, worker[w].saw.total) /\ UNCHANGED budget
        /\ cards' \in [Cards -> CardStatus] /\ UNCHANGED specs
    BY <1>3, ResumedMeans
  <2>2. worker[w].saw.total <= total \/ overlap
    BY <2>1 DEF SawBehind
  <2>3. total' = total /\ per' = per /\ overlap' = overlap
    BY <2>1, SameBudget
  <2>4. QED
    BY <1>1, <2>1, <2>2, <2>3, OutcomeTyped
<1>4. QED
  BY <1>2, <1>3

\* A table of jobs that are rewritten row by row.
LEMMA RowByRow ==
    ASSUME TypeOK, NEW new, DOMAIN new = JobIds, jobs' = new, Grows, Len(runs') \in Nat,
           \A j \in JobIds : /\ new[j] \in JobType /\ new[j].op = jobs[j].op
                             /\ new[j].run = jobs[j].run /\ new[j].target = jobs[j].target,
           \E f : new = [j \in JobIds |-> f[j]]
    PROVE  JobsTyped' /\ JobsKept /\ Len(jobs') = Len(jobs) /\ JobIds' = JobIds
<1>1. Len(jobs) \in Nat /\ JobIds = 1..Len(jobs)
  BY Rows
<1>2. jobs' \in [1..Len(jobs) -> JobType]
  BY <1>1
<1>3. jobs' \in Seq(JobType) /\ Len(jobs') = Len(jobs)
  BY <1>1, <1>2
<1>4. JobIds' = JobIds
  BY <1>3 DEF JobIds
<1>5. JobsKept
  BY <1>1, <1>3 DEF JobsKept
<1>6. ASSUME NEW j \in JobIds PROVE JobRefers(jobs'[j], Len(runs'))
  <2>1. JobRefers(jobs[j], Len(runs)) /\ Len(runs) \in Nat
    BY Parts, Rows DEF JobsTyped
  <2>2. QED
    BY <2>1 DEF JobRefers, Grows
<1>7. QED
  BY <1>3, <1>4, <1>5, <1>6 DEF JobsTyped

\* What a reclaim does to the rows.
LEMMA ReclaimRows ==
    ASSUME TypeOK, ReclaimStale
    PROVE  /\ JobsTyped' /\ JobsKept /\ Len(jobs') = Len(jobs) /\ JobIds' = JobIds
           /\ \A j \in JobIds : jobs'[j].status =
                 IF j \in Reclaimable THEN "pending" ELSE IF j \in Stale THEN "failed" ELSE jobs[j].status
<1> DEFINE row(j) == IF j \in Reclaimable
                     THEN [jobs[j] EXCEPT !.status = "pending", !.reclaims = @ + 1]
                     ELSE IF j \in Stale THEN [jobs[j] EXCEPT !.status = "failed"] ELSE jobs[j]
           new == [j \in JobIds |-> row(j)]
<1>1. jobs' = new /\ DOMAIN new = JobIds /\ UNCHANGED <<runs, specs>>
  BY DEF ReclaimStale
<1>2. Grows /\ Len(runs') \in Nat
  BY <1>1, SameRuns
<1>3. ASSUME NEW j \in JobIds
      PROVE  /\ row(j) \in JobType /\ row(j).op = jobs[j].op
             /\ row(j).run = jobs[j].run /\ row(j).target = jobs[j].target
             /\ row(j).status = IF j \in Reclaimable THEN "pending"
                                ELSE IF j \in Stale THEN "failed" ELSE jobs[j].status
  <2>1. jobs[j] \in JobType /\ jobs[j].reclaims \in 0..MaxReclaims
    BY Rows, JobColumns
  <2>2. CASE j \in Reclaimable
    <3>1. jobs[j].reclaims + 1 \in 0..MaxReclaims
      BY <2>1, <2>2, LoopAssumption DEF Reclaimable
    <3>2. [[jobs[j] EXCEPT !.status = "pending"] EXCEPT !.reclaims = @ + 1] \in JobType
      <4>1. [jobs[j] EXCEPT !.status = "pending"] \in JobType
        BY <2>1, Zenon DEF JobType
      <4>2. [jobs[j] EXCEPT !.status = "pending"].reclaims = jobs[j].reclaims
        BY <2>1 DEF JobType
      <4>3. QED
        BY <3>1, <4>1, <4>2, Zenon DEF JobType
    <3>3. row(j) = [[jobs[j] EXCEPT !.status = "pending"] EXCEPT !.reclaims = @ + 1]
      BY <2>2
    <3>4. LET new_row == [[jobs[j] EXCEPT !.status = "pending"] EXCEPT !.reclaims = @ + 1] IN
          /\ new_row.op = jobs[j].op /\ new_row.run = jobs[j].run
          /\ new_row.target = jobs[j].target /\ new_row.status = "pending"
      BY <2>1 DEF JobType
    <3>5. QED
      BY <2>2, <3>2, <3>3, <3>4, Zenon
  <2>3. CASE j \notin Reclaimable /\ j \in Stale
    <3>1. [jobs[j] EXCEPT !.status = "failed"] \in JobType
      BY <2>1, Zenon DEF JobType
    <3>2. row(j) = [jobs[j] EXCEPT !.status = "failed"]
      BY <2>3
    <3>3. LET new_row == [jobs[j] EXCEPT !.status = "failed"] IN
          /\ new_row.op = jobs[j].op /\ new_row.run = jobs[j].run
          /\ new_row.target = jobs[j].target /\ new_row.status = "failed"
      BY <2>1 DEF JobType
    <3>4. QED
      BY <2>3, <3>1, <3>2, <3>3, Zenon
  <2>4. CASE j \notin Reclaimable /\ j \notin Stale
    BY <2>1, <2>4
  <2>5. QED
    BY <2>2, <2>3, <2>4
<1> HIDE DEF row
<1>4. \A j \in JobIds : new[j] = row(j)
  OBVIOUS
<1>5. \E f : new = [j \in JobIds |-> f[j]]
  <2>1. new = [j \in JobIds |-> new[j]]
    BY <1>4
  <2>2. QED
    BY <2>1, Zenon
<1> HIDE DEF new
<1>6. JobsTyped' /\ JobsKept /\ Len(jobs') = Len(jobs) /\ JobIds' = JobIds
  BY <1>1, <1>2, <1>3, <1>4, <1>5, RowByRow
<1>7. QED
  BY <1>1, <1>3, <1>4, <1>6

\* The rows that may be put back are as many as there are jobs at most.
LEMMA ReclaimableFinite ==
    ASSUME TypeOK
    PROVE  /\ Reclaimable \subseteq JobIds /\ Stale \subseteq JobIds /\ IsFiniteSet(Reclaimable)
           /\ Cardinality(Reclaimable) \in Nat
<1>1. IsFiniteSet(JobIds) /\ Reclaimable \subseteq JobIds /\ Stale \subseteq JobIds
  <2>1. IsFiniteSet(JobIds)
    BY Rows, FS_Interval
  <2>2. QED
    BY <2>1 DEF Reclaimable, Stale
<1>2. QED
  BY <1>1, FS_Subset, FS_CardinalityType

\* No worker moves.
LEMMA SameWorkers ==
    ASSUME TypeOK, SawBehind, UNCHANGED <<worker, budget>>, JobsKept, Len(specs') \in Nat,
           Len(specs) <= Len(specs')
    PROVE  WorkersTyped' /\ SawBehind'
<1>1. \A w \in Workers : /\ worker[w].pc # "idle" => worker[w].job \in JobIds'
                         /\ worker[w].pc = "compiled" => worker[w].spec \in 1..Len(specs')
  BY WorkerColumns, Rows DEF JobsKept, JobIds
<1>2. QED
  BY <1>1, SameBudget, Parts DEF WorkersTyped, SawBehind

\* Dead workers' rows.
LEMMA ReclaimTyped ==
    ASSUME TypeOK, SawBehind, ReclaimStale
    PROVE  StepTyped
<1>1. UNCHANGED <<policy, cycle, cards, specs, runs, budget, last_gate, worker, crashes, approvals, stops, lost>>
  BY DEF ReclaimStale
<1>2. JobsTyped' /\ JobsKept
  BY ReclaimRows
<1>3. WorkersTyped' /\ SawBehind'
  BY <1>1, <1>2, SameWorkers, SameRuns, Rows
<1>4. HistoryTyped'
  <2>1. requeued' \in Nat
    <3>1. requeued \in Nat /\ Cardinality(Reclaimable) \in Nat
      BY ReclaimableFinite, Parts DEF HistoryTyped
    <3>2. requeued' = requeued + Cardinality(Reclaimable)
      BY DEF ReclaimStale
    <3>3. QED
      BY <3>1, <3>2
  <2>2. QED
    BY <1>1, <2>1, Parts DEF HistoryTyped
<1>5. cycle' \in {"running", "verifying", "loop_deciding", "reporting", "closed"}
  BY <1>1 DEF TypeOK
<1>6. QED
  BY <1>1, <1>2, <1>3, <1>4, <1>5, QueueTyped

\* The row that resume_gate takes, and the run it approves.
LEMMA ResumeMeans ==
    ASSUME TypeOK, ResumeGate
    PROVE  /\ \E j \in JobIds :
                 /\ jobs[j].op = "loop_decide" /\ jobs[j].status = "paused"
                 /\ Restates(j, "pending")
                 /\ jobs[j].target \in 0..Len(runs)
                 /\ runs' = IF jobs[j].target = 0 THEN runs
                            ELSE [runs EXCEPT ![jobs[j].target].approved = TRUE]
           /\ approvals' = approvals + 1
           /\ UNCHANGED <<policy, cycle, cards, specs, budget, last_gate, worker,
                          crashes, stops, lost, requeued>>
<1> DEFINE paused == {j \in JobIds : jobs[j].op = "loop_decide" /\ jobs[j].status = "paused"}
<1>1. /\ paused # {} /\ Restates(Max(paused), "pending") /\ approvals' = approvals + 1
      /\ runs' = IF jobs[Max(paused)].target = 0 THEN runs
                 ELSE [runs EXCEPT ![jobs[Max(paused)].target].approved = TRUE]
      /\ UNCHANGED <<policy, cycle, cards, specs, budget, last_gate, worker,
                     crashes, stops, lost, requeued>>
  BY DEF ResumeGate, Restates
<1>2. Max(paused) \in paused
  <2>1. paused \in SUBSET (0..Len(jobs)) /\ Len(jobs) \in Nat
    BY Rows
  <2>2. QED
    BY <1>1, <2>1, GreatestId
<1>3. jobs[Max(paused)].target \in 0..Len(runs)
  BY <1>2 DEF TypeOK
<1> HIDE DEF paused
<1>4. Max(paused) \in JobIds /\ jobs[Max(paused)].op = "loop_decide" /\ jobs[Max(paused)].status = "paused"
  BY <1>2 DEF paused
<1>5. QED
  BY <1>1, <1>3, <1>4

\* A gate is resumed.
LEMMA ResumeTyped ==
    ASSUME TypeOK, SawBehind, ResumeGate
    PROVE  StepTyped
<1>1. PICK j \in JobIds : /\ Restates(j, "pending") /\ jobs[j].target \in 0..Len(runs)
                          /\ runs' = IF jobs[j].target = 0 THEN runs
                                     ELSE [runs EXCEPT ![jobs[j].target].approved = TRUE]
  BY ResumeMeans
<1>2. /\ approvals' = approvals + 1
      /\ UNCHANGED <<policy, cycle, cards, specs, budget, last_gate, worker, crashes, stops, lost, requeued>>
  BY ResumeMeans
<1>3. RunsTyped' /\ RunsKept /\ Grows /\ Len(specs') \in Nat /\ Len(runs') \in Nat
  <2>1. CASE jobs[j].target = 0
    BY <1>1, <1>2, <2>1, SameRuns, SameRunsKept
  <2>2. CASE jobs[j].target # 0
    <3>1. jobs[j].target \in RunIds
      BY <1>1, <2>2, Rows DEF RunIds
    <3>2. QED
      BY <1>1, <1>2, <2>2, <3>1, ApprovedRun, Rows
  <2>3. QED
    BY <2>1, <2>2
<1>4. JobsTyped' /\ JobsKept
  BY <1>1, <1>3, RestateTyped, Restated DEF Statuses
<1>5. WorkersTyped' /\ SawBehind'
  BY <1>2, <1>3, <1>4, SameWorkers DEF Grows
<1>6. BudgetTyped' /\ SpecsKept
  BY <1>2, SameBudget, SameSpecs
<1>7. CycleTyped' /\ HistoryTyped'
  BY <1>2, Parts DEF CycleTyped, HistoryTyped
<1>8. QED
  BY <1>2, <1>3, <1>4, <1>5, <1>6, <1>7, PartsNext DEF StepTyped, Kept

\* What stop_loop leaves of the rows, before it adds the report.
CancelOpen ==
    [j \in JobIds |-> IF jobs[j].status \in {"pending", "claimed", "running", "paused"}
                      THEN [jobs[j] EXCEPT !.status = "cancelled"] ELSE jobs[j]]
LEMMA CancelledRows ==
    ASSUME TypeOK
    PROVE  /\ CancelOpen \in Seq(JobType) /\ Len(CancelOpen) = Len(jobs)
           /\ \A j \in JobIds :
                 /\ CancelOpen[j].op = jobs[j].op /\ CancelOpen[j].run = jobs[j].run
                 /\ CancelOpen[j].target = jobs[j].target
                 /\ CancelOpen[j].status = IF jobs[j].status \in {"pending", "running", "paused"}
                                           THEN "cancelled" ELSE jobs[j].status
<1> DEFINE row(j) == IF jobs[j].status \in {"pending", "claimed", "running", "paused"}
                     THEN [jobs[j] EXCEPT !.status = "cancelled"] ELSE jobs[j]
<1>1. Len(jobs) \in Nat /\ JobIds = 1..Len(jobs)
  BY Rows
<1>2. ASSUME NEW j \in JobIds
      PROVE  /\ row(j) \in JobType /\ row(j).op = jobs[j].op
             /\ row(j).run = jobs[j].run /\ row(j).target = jobs[j].target
             /\ row(j).status = IF jobs[j].status \in {"pending", "running", "paused"}
                                THEN "cancelled" ELSE jobs[j].status
  <2>1. jobs[j] \in JobType /\ jobs[j].status # "claimed"
    BY Rows, JobColumns DEF Statuses
  <2>2. CASE jobs[j].status \in {"pending", "running", "paused"}
    <3>1. [jobs[j] EXCEPT !.status = "cancelled"] \in JobType
      BY <2>1, Zenon DEF JobType
    <3>2. row(j) = [jobs[j] EXCEPT !.status = "cancelled"]
      BY <2>2
    <3>3. LET new_row == [jobs[j] EXCEPT !.status = "cancelled"] IN
          /\ new_row.op = jobs[j].op /\ new_row.run = jobs[j].run
          /\ new_row.target = jobs[j].target /\ new_row.status = "cancelled"
      BY <2>1 DEF JobType
    <3>4. QED
      BY <2>2, <3>1, <3>2, <3>3, Zenon
  <2>3. CASE jobs[j].status \notin {"pending", "running", "paused"}
    BY <2>1, <2>3
  <2>4. QED
    BY <2>2, <2>3
<1>3. CancelOpen = [j \in JobIds |-> row(j)]
  BY DEF CancelOpen
<1> HIDE DEF row
<1>4. CancelOpen \in [1..Len(jobs) -> JobType] /\ \A j \in JobIds : CancelOpen[j] = row(j)
  BY <1>1, <1>2, <1>3
<1>5. CancelOpen \in Seq(JobType) /\ Len(CancelOpen) = Len(jobs)
  BY <1>1, <1>4
<1>6. QED
  BY <1>2, <1>4, <1>5

\* stop_loop cancels every open row and may add the report.
LEMMA StopMeans ==
    ASSUME TypeOK, StopLoop
    PROVE  /\ JobsTyped' /\ JobsKept
           /\ UNCHANGED <<policy, cards, specs, runs, budget, last_gate, worker,
                          crashes, approvals, lost, requeued>>
           /\ \A j \in JobIds : jobs'[j].status = IF jobs[j].status \in {"pending", "running", "paused"}
                                                  THEN "cancelled" ELSE jobs[j].status
           /\ \A j \in JobIds' : j \notin JobIds => jobs'[j].op = "loop_report"
<1>1. /\ UNCHANGED <<policy, cards, specs, runs, budget, last_gate, worker,
                     crashes, approvals, lost, requeued>>
      /\ jobs' = CancelOpen \/ jobs' = Append(CancelOpen, NewJob("loop_report", 1, 0, "pending"))
  BY DEF StopLoop, CancelOpen
<1>2. /\ CancelOpen \in Seq(JobType) /\ Len(CancelOpen) = Len(jobs) /\ Len(jobs) \in Nat
      /\ JobIds = 1..Len(jobs) /\ Len(runs) \in Nat
  BY CancelledRows, Rows
<1>3. NewJob("loop_report", 1, 0, "pending") \in JobType /\ NewJob("loop_report", 1, 0, "pending").op = "loop_report"
      /\ NewJob("loop_report", 1, 0, "pending").run = 1
  BY LoopAssumption DEF NewJob, JobType
<1>4. ASSUME NEW j \in JobIds PROVE JobRefers(CancelOpen[j], Len(runs))
  <2>1. JobRefers(jobs[j], Len(runs))
    BY Parts DEF JobsTyped
  <2>2. CancelOpen[j].op = jobs[j].op /\ CancelOpen[j].run = jobs[j].run /\ CancelOpen[j].target = jobs[j].target
    BY CancelledRows
  <2>3. QED
    BY <2>1, <2>2 DEF JobRefers
<1>5. CASE jobs' = CancelOpen
  <2>1. JobIds' = JobIds /\ Len(jobs') = Len(jobs)
    BY <1>2, <1>5 DEF JobIds
  <2>2. JobsTyped'
    BY <1>1, <1>2, <1>4, <1>5, <2>1 DEF JobsTyped
  <2>3. JobsKept
    BY <1>2, <1>5, <2>1, CancelledRows DEF JobsKept
  <2>4. QED
    BY <1>1, <1>5, <2>1, <2>2, <2>3, CancelledRows
<1>6. CASE jobs' = Append(CancelOpen, NewJob("loop_report", 1, 0, "pending"))
  <2> DEFINE report == NewJob("loop_report", 1, 0, "pending")
  <2>1. /\ jobs' \in Seq(JobType) /\ Len(jobs') = Len(jobs) + 1
        /\ jobs'[Len(jobs) + 1] = report /\ \A j \in JobIds : jobs'[j] = CancelOpen[j]
    BY <1>2, <1>3, <1>6, AppendProperties
  <2>2. JobIds' = 1..(Len(jobs) + 1)
    BY <2>1 DEF JobIds
  <2>3. \A j \in JobIds' : j \in JobIds \/ j = Len(jobs) + 1
    BY <1>2, <2>2
  <2>4. 1 \in 1..Len(runs)
    BY Rows
  <2>5. JobRefers(report, Len(runs))
    BY <1>3, <2>4 DEF JobRefers
  <2>6. JobsTyped'
    BY <1>1, <1>4, <2>1, <2>3, <2>5 DEF JobsTyped
  <2>7. JobsKept
    BY <1>2, <2>1, CancelledRows DEF JobsKept
  <2>8. QED
    BY <1>1, <1>3, <2>1, <2>3, <2>6, <2>7, CancelledRows
<1>7. QED
  BY <1>1, <1>5, <1>6

\* The user stops the loop.
LEMMA StopTyped ==
    ASSUME TypeOK, SawBehind, StopLoop
    PROVE  StepTyped
<1>1. /\ JobsTyped' /\ JobsKept
      /\ UNCHANGED <<policy, cards, specs, runs, budget, last_gate, worker,
                     crashes, approvals, lost, requeued>>
  BY StopMeans
<1>2. WorkersTyped' /\ SawBehind'
  BY <1>1, SameWorkers, Rows
<1>3. HistoryTyped'
  <2>1. stops' = stops + 1
    BY DEF StopLoop
  <2>2. QED
    BY <1>1, <2>1, Parts DEF HistoryTyped
<1>4. cycle' \in {"running", "verifying", "loop_deciding", "reporting", "closed"}
  BY DEF StopLoop, TypeOK
<1>5. QED
  BY <1>1, <1>2, <1>3, <1>4, QueueTyped

\* Every step keeps the types and the rows.
LEMMA NextTyped ==
    ASSUME TypeOK, SawBehind, Next
    PROVE  StepTyped
BY TakeTyped, HandOnSteps, DecideTyped, RaiseSteps, CompileTyped, PrepareTyped, SettleTyped,
   ReclaimTyped, ResumeTyped, StopTyped DEF Next, OperatorStep

\* The cycle starts with rows of their types.
LEMMA InitTyped ==
    ASSUME Init
    PROVE  TypeOK /\ SawBehind
<1>1. policy \in Policies /\ Bounds[policy].compiled \subseteq Cards
  BY LoopAssumption DEF Init, Cards
<1>2. PICK net \in Networked, hw \in Gpus, n \in Bounds[policy].compiled :
          /\ cards = [c \in Cards |-> IF c <= n THEN "compiled" ELSE "candidate"]
          /\ specs = [c \in 1..n |-> NewSpec(c, net, IF c = 1 THEN 0 ELSE hw)]
  BY DEF Init
<1>3. n \in Cards /\ n \in Nat /\ n >= 1 /\ 1..n \subseteq Cards
  BY <1>1, LoopAssumption DEF Cards
<1>4. net \in BOOLEAN /\ hw \in {0, 1}
  BY DEF Networked, Gpus
<1>5. specs \in Seq(SpecType) /\ Len(specs) = n
  <2>1. \A c \in 1..n : NewSpec(c, net, IF c = 1 THEN 0 ELSE hw) \in SpecType
    BY <1>3, <1>4 DEF NewSpec, SpecType
  <2>2. specs \in [1..n -> SpecType]
    BY <1>2, <2>1
  <2>3. QED
    BY <1>2, <1>3, <2>2
<1>6. [NewRun(1) EXCEPT !.by_loop = FALSE] \in RunType /\ [NewRun(1) EXCEPT !.by_loop = FALSE].spec = 1
  BY DEF NewRun, RunType
<1>7. runs \in Seq(RunType) /\ Len(runs) = 1 /\ runs[1].spec = 1
  <2>1. \A row \in RunType : <<row>> \in Seq(RunType) /\ Len(<<row>>) = 1 /\ <<row>>[1] = row
    OBVIOUS
  <2>2. runs = <<[NewRun(1) EXCEPT !.by_loop = FALSE]>>
    BY DEF Init
  <2>3. QED
    BY <1>6, <2>1, <2>2, Zenon
<1>8. RunsTyped
  BY <1>3, <1>5, <1>7 DEF RunsTyped
<1>9. NewJob("execution_setup", 1, 0, "pending") \in JobType
  BY LoopAssumption DEF NewJob, JobType
<1>10. jobs \in Seq(JobType) /\ Len(jobs) = 1 /\ jobs[1] = NewJob("execution_setup", 1, 0, "pending")
  BY <1>9 DEF Init
<1>11. JobsTyped
  <2>1. \A j \in JobIds : j = 1
    BY <1>10 DEF JobIds
  <2>2. JobRefers(jobs[1], Len(runs))
    BY <1>7, <1>10, NewJobColumns DEF JobRefers
  <2>3. QED
    BY <1>10, <2>1, <2>2 DEF JobsTyped
<1>12. Idle \in WorkerType /\ Idle.pc = "idle"
  BY UnreadTyped DEF Idle, WorkerType
<1>13. WorkersTyped /\ SawBehind
  BY <1>12 DEF Init, WorkersTyped, SawBehind
<1>14. BudgetTyped /\ HistoryTyped
  <2>1. lost \in BOOLEAN /\ overlap \in BOOLEAN
    BY Zenon DEF Init
  <2>2. per \in [Cards -> Nat] /\ total = 0 /\ last_gate = 0
    BY DEF Init
  <2>3. crashes = 0 /\ approvals = 0 /\ stops = 0 /\ requeued = 0
    BY DEF Init
  <2>4. QED
    BY <2>1, <2>2, <2>3 DEF BudgetTyped, HistoryTyped
<1>15. CycleTyped
  BY <1>2 DEF Init, CycleTyped, CardStatus
<1>16. QED
  BY <1>8, <1>11, <1>13, <1>14, <1>15, Parts

\* Every table holds what its columns allow and refers to rows that exist,
\* whatever workers, the user and crashes do; in particular a gate's snapshot is
\* never ahead of the budget, unless a decision overwrote another's charge.
THEOREM LoopTypeOK == Spec => []TypeOK
<1>1. Init => TypeOK /\ SawBehind
  BY InitTyped
<1>2. TypeOK /\ SawBehind /\ [Next]_vars => TypeOK' /\ SawBehind'
  <2> SUFFICES ASSUME TypeOK, SawBehind, [Next]_vars PROVE TypeOK' /\ SawBehind'
    OBVIOUS
  <2>1. CASE Next
    BY <2>1, NextTyped DEF StepTyped
  <2>2. CASE UNCHANGED vars
    <3>1. UNCHANGED <<policy, cycle, cards, specs, runs, budget, last_gate, jobs, worker, env>>
      BY <2>2 DEF vars, tables
    <3>2. JobsTyped' /\ JobsKept /\ WorkersTyped' /\ SawBehind'
      BY <3>1, SameJobs, SameWorkers, Rows
    <3>3. HistoryTyped' /\ cycle' \in {"running", "verifying", "loop_deciding", "reporting", "closed"}
      BY <3>1, Parts DEF HistoryTyped, env, CycleTyped
    <3>4. QED
      BY <3>1, <3>2, <3>3, QueueTyped DEF StepTyped
  <2>3. QED
    BY <2>1, <2>2
<1>3. QED
  BY <1>1, <1>2, PTL DEF Spec

-----------------------------------------------------------------------------
(* Runs started, tokens, and the workers that hold them. *)

\* The sets that are counted are finite.
LEMMA Finite ==
    ASSUME TypeOK
    PROVE  /\ Started \subseteq RunIds /\ IsFiniteSet(Started) /\ Cardinality(Started) \in Nat
           /\ Tokens \subseteq JobIds /\ IsFiniteSet(Tokens) /\ Cardinality(Tokens) \in Nat
           /\ ToCharge \subseteq RunIds /\ IsFiniteSet(ToCharge) /\ Cardinality(ToCharge) \in Nat
<1>1. IsFiniteSet(JobIds) /\ IsFiniteSet(RunIds)
  BY Rows, FS_Interval DEF RunIds
<1>2. Started \subseteq RunIds
  BY JobColumns DEF Started, RunIds
<1>3. Tokens \subseteq JobIds /\ ToCharge \subseteq RunIds
  BY DEF Tokens, ToCharge
<1>4. QED
  BY <1>1, <1>2, <1>3, FS_Subset, FS_CardinalityType

\* As many runs at most as there are jobs for them.
LEMMA RunsOfJobs ==
    ASSUME TypeOK, NEW D \in SUBSET JobIds, NEW X, \A x \in X : \E j \in D : jobs[j].run = x
    PROVE  /\ IsFiniteSet(D) /\ Cardinality(D) \in Nat /\ IsFiniteSet(X)
           /\ Cardinality(X) \in Nat /\ Cardinality(X) <= Cardinality(D)
<1> DEFINE E == {j \in D : jobs[j].run \in X}
           f == [j \in E |-> jobs[j].run]
<1>1. IsFiniteSet(D) /\ IsFiniteSet(E) /\ Cardinality(E) <= Cardinality(D)
  <2>1. IsFiniteSet(JobIds)
    BY Rows, FS_Interval
  <2>2. IsFiniteSet(D)
    BY <2>1, FS_Subset
  <2>3. QED
    BY <2>2, FS_Subset
<1>2. f \in Surjection(E, X)
  BY DEF Surjection
<1>3. QED
  BY <1>1, <1>2, FS_Surjection, FS_CardinalityType

\* A run is started by an execution_setup job.
LEMMA StartedBy ==
    ASSUME NEW r
    PROVE  r \in Started <=> r # 1 /\ \E j \in JobIds : jobs[j].op = "execution_setup" /\ jobs[j].run = r
BY DEF Started

\* The same after a step.
LEMMA StartedByNext ==
    ASSUME NEW r
    PROVE  r \in Started' <=>
             r # 1 /\ \E j \in JobIds' : jobs'[j].op = "execution_setup" /\ jobs'[j].run = r
BY DEF Started

\* Runs are started by new jobs only.
LEMMA StartedKept ==
    ASSUME TypeOK, JobsKept,
           \A j \in JobIds' : j \notin JobIds => jobs'[j].op # "execution_setup"
    PROVE  Started' = Started
<1>1. JobIds \subseteq JobIds'
  BY Rows DEF JobsKept, JobIds
<1>2. ASSUME NEW r PROVE r \in Started <=> r \in Started'
  BY <1>1, StartedBy, StartedByNext DEF JobsKept
<1>3. QED
  BY <1>2

\* A setup job starts its run.
LEMMA StartedOne ==
    ASSUME TypeOK, NEW r, NEW t, NEW st, Inserts("execution_setup", r, t, st)
    PROVE  Started' = Started \cup ({r} \ {1})
<1>1. /\ JobIds \subseteq JobIds' /\ Len(jobs) + 1 \in JobIds'
      /\ \A j \in JobIds : jobs'[j] = jobs[j]
      /\ \A j \in JobIds' : j \in JobIds \/ j = Len(jobs) + 1
      /\ jobs'[Len(jobs) + 1].op = "execution_setup" /\ jobs'[Len(jobs) + 1].run = r
  BY Inserted, NewJobColumns
<1>2. ASSUME NEW q PROVE q \in Started' <=> q \in Started \cup ({r} \ {1})
  <2>1. CASE q = 1
    BY <2>1, StartedBy, StartedByNext
  <2>2. CASE q # 1
    BY <1>1, <2>2, StartedBy, StartedByNext
  <2>3. QED
    BY <2>1, <2>2
<1>3. QED
  BY <1>2

\* Another job starts none.
LEMMA StartedNone ==
    ASSUME TypeOK, NEW op, op # "execution_setup", NEW r, NEW t, NEW st, Inserts(op, r, t, st)
    PROVE  Started' = Started
<1>1. JobsKept /\ \A j \in JobIds' : j \notin JobIds => jobs'[j].op # "execution_setup"
  BY Inserted, NewJobColumns
<1>2. QED
  BY <1>1, StartedKept

\* The workers other than w are where they were.
OthersStay(w) == \A v \in Workers : v # w => worker'[v] = worker[v]

\* A worker stays with its row as long as the row is not put back.
LEMMA HoldsKept ==
    ASSUME TypeOK, WorkersHold, Kept,
           \A v \in Workers : Busy(v)' =>
               /\ Busy(v) /\ worker'[v].job = worker[v].job
               /\ jobs'[worker[v].job].status \notin {"pending", "paused"},
           \A v \in Workers : worker'[v].pc = "deciding" =>
               \/ worker[v].pc = "deciding" /\ worker'[v].saw = worker[v].saw
               \/ /\ Job(v).op = "loop_decide" /\ Job(v).target = 0
                  /\ worker'[v].saw.gates <= runs[Job(v).run].gates /\ worker'[v].saw.gates \in Nat,
           \A v \in Workers : worker'[v].pc = "compiled" =>
               worker[v].pc = "compiled" \/ Job(v).op = "protocol_compile"
    PROVE  WorkersHold'
<1> SUFFICES ASSUME NEW w \in Workers PROVE WorkerHolds(w)'
  BY DEF WorkersHold
<1>1. WorkerHolds(w)
  BY DEF WorkersHold
<1>2. Busy(w)' => ~Open(worker[w].job)' /\ worker'[w].job = worker[w].job /\ Busy(w)
  BY DEF Open
<1>3. Busy(w)' => \A v \in Workers : Busy(v)' /\ worker'[v].job = worker'[w].job => v = w
  BY <1>1, <1>2 DEF WorkerHolds
<1>4. ASSUME worker'[w].pc \in {"deciding", "compiled"}
      PROVE  /\ Job(w)'.op = Job(w).op /\ Job(w)'.target = Job(w).target /\ Job(w)'.run = Job(w).run
             /\ runs'[Job(w).run].gates >= runs[Job(w).run].gates
             /\ runs[Job(w).run].gates \in Nat /\ runs'[Job(w).run].gates \in Nat
  <2>1. Busy(w)' /\ Busy(w) /\ worker[w].pc # "idle"
    BY <1>2, <1>4 DEF Busy
  <2>2. worker[w].job \in JobIds /\ Job(w).run \in RunIds /\ worker'[w].job = worker[w].job
    BY <1>2, <2>1, JobOf
  <2>3. runs[Job(w).run].gates \in Nat
    BY <2>2, RunColumns DEF RunIds
  <2>4. /\ Job(w)'.op = Job(w).op /\ Job(w)'.target = Job(w).target /\ Job(w)'.run = Job(w).run
    BY <2>2 DEF Job, Kept, JobsKept
  <2>5. runs'[Job(w).run].gates >= runs[Job(w).run].gates /\ runs'[Job(w).run].gates \in Nat
    BY <2>2 DEF Kept, RunsKept
  <2>6. QED
    BY <2>3, <2>4, <2>5
<1>5. worker'[w].pc = "deciding" => /\ Job(w)'.op = "loop_decide" /\ Job(w)'.target = 0
                                    /\ worker'[w].saw.gates <= runs'[Job(w)'.run].gates
  <2> SUFFICES ASSUME worker'[w].pc = "deciding"
               PROVE  /\ Job(w)'.op = "loop_decide" /\ Job(w)'.target = 0
                      /\ worker'[w].saw.gates <= runs'[Job(w)'.run].gates
    OBVIOUS
  <2>1. /\ Job(w).op = "loop_decide" /\ Job(w).target = 0 /\ worker'[w].saw.gates \in Nat
        /\ worker'[w].saw.gates <= runs[Job(w).run].gates
    BY <1>1, WorkerColumns DEF WorkerHolds
  <2>2. QED
    BY <1>4, <2>1
<1>6. worker'[w].pc = "compiled" => Job(w)'.op = "protocol_compile"
  BY <1>1, <1>4 DEF WorkerHolds
<1>7. QED
  BY <1>2, <1>3, <1>5, <1>6 DEF WorkerHolds

\* A returning operator lets its row go; nobody else held it.
LEMMA ReturnHolds ==
    ASSUME TypeOK, WorkersHold, Kept, NEW w \in Workers, Busy(w), NEW res, NEW patch,
           Return(w, res, patch),
           \A j \in JobIds : j # worker[w].job => jobs'[j].status = jobs[j].status
    PROVE  WorkersHold'
<1>1. OthersStay(w) /\ worker'[w].pc = "finished"
  BY Returned DEF OthersStay
<1>2. ASSUME NEW v \in Workers, Busy(v)'
      PROVE  /\ Busy(v) /\ worker'[v].job = worker[v].job
             /\ jobs'[worker[v].job].status \notin {"pending", "paused"}
  <2>1. v # w /\ worker'[v] = worker[v] /\ Busy(v)
    BY <1>1, <1>2 DEF OthersStay, Busy
  <2>2. worker[v].job # worker[w].job /\ ~Open(worker[v].job)
    BY <2>1 DEF WorkersHold, WorkerHolds
  <2>3. worker[v].job \in JobIds
    BY <2>1, WorkerColumns DEF Busy
  <2>4. QED
    BY <2>1, <2>2, <2>3 DEF Open
<1>3. \A v \in Workers : worker'[v].pc \in {"deciding", "compiled"} => worker'[v] = worker[v]
  BY <1>1 DEF OthersStay
<1>4. QED
  BY <1>2, <1>3, HoldsKept

\* A worker at rest holds nothing.
LEMMA RestHolds ==
    ASSUME TypeOK, WorkersHold, Kept, NEW w \in Workers, Rests(w),
           \A j \in JobIds : jobs'[j].status \in {"pending", "paused"} => Open(j)
    PROVE  WorkersHold'
<1>1. OthersStay(w) /\ worker'[w].pc = "idle"
  BY Rows, Zenon DEF OthersStay, Rests, Idle
<1>2. ASSUME NEW v \in Workers, Busy(v)'
      PROVE  /\ Busy(v) /\ worker'[v].job = worker[v].job
             /\ jobs'[worker[v].job].status \notin {"pending", "paused"}
  <2>1. v # w /\ worker'[v] = worker[v] /\ Busy(v)
    BY <1>1, <1>2 DEF OthersStay, Busy
  <2>2. worker[v].job \in JobIds /\ ~Open(worker[v].job)
    BY <2>1, WorkerColumns DEF Busy, WorkersHold, WorkerHolds
  <2>3. QED
    BY <2>1, <2>2
<1>3. \A v \in Workers : worker'[v].pc \in {"deciding", "compiled"} => worker'[v] = worker[v]
  BY <1>1 DEF OthersStay
<1>4. QED
  BY <1>2, <1>3, HoldsKept

\* Nobody moves, and no row is put back that a worker holds.
LEMMA StillHolds ==
    ASSUME TypeOK, WorkersHold, Kept, UNCHANGED worker,
           \A v \in Workers : Busy(v) => jobs'[worker[v].job].status \notin {"pending", "paused"}
    PROVE  WorkersHold'
BY HoldsKept DEF Busy

\* Only one worker claims a pending row.
LEMMA ClaimHolds ==
    ASSUME TypeOK, WorkersHold, NEW w \in Workers, NEW j \in JobIds,
           jobs[j].status = "pending", Restates(j, "running"), UNCHANGED runs,
           OthersStay(w), worker'[w].pc = "executing", worker'[w].job = j
    PROVE  WorkersHold'
<1>2. /\ jobs'[j].status = "running" /\ \A k \in JobIds : k # j => jobs'[k] = jobs[k]
      /\ \A k \in JobIds : jobs'[k].op = jobs[k].op /\ jobs'[k].target = jobs[k].target
                           /\ jobs'[k].run = jobs[k].run
  BY Restated DEF JobsKept
<1>3. ASSUME NEW v \in Workers, v # w, Busy(v)
      PROVE  /\ worker[v].job \in JobIds /\ worker[v].job # j
             /\ jobs'[worker[v].job].status \notin {"pending", "paused"}
  <2>1. ~Open(worker[v].job) /\ worker[v].job \in JobIds
    BY <1>3, WorkerColumns DEF WorkersHold, WorkerHolds, Busy
  <2>2. QED
    BY <1>2, <2>1 DEF Open
<1>4. ASSUME NEW v \in Workers, v # w
      PROVE  worker'[v] = worker[v] /\ (Busy(v)' <=> Busy(v))
  BY <1>4 DEF OthersStay, Busy
<1>5. ASSUME NEW v \in Workers PROVE WorkerHolds(v)'
  <2>1. Busy(v)' => jobs'[worker'[v].job].status \notin {"pending", "paused"}
    <3>1. CASE v = w
      BY <1>2, <3>1
    <3>2. CASE v # w
      BY <1>3, <1>4, <3>2
    <3>3. QED
      BY <3>1, <3>2
  <2>2. ASSUME NEW u \in Workers, Busy(v)', Busy(u)', worker'[u].job = worker'[v].job PROVE u = v
    <3>1. CASE u # w /\ v # w
      BY <1>4, <2>2, <3>1 DEF WorkersHold, WorkerHolds
    <3>2. CASE u = w \/ v = w
      BY <1>3, <1>4, <2>2, <3>2
    <3>3. QED
      BY <3>1, <3>2
  <2>3. ASSUME worker'[v].pc \in {"deciding", "compiled"}
        PROVE  /\ worker'[v] = worker[v] /\ WorkerHolds(v)
               /\ Job(v)'.op = Job(v).op /\ Job(v)'.target = Job(v).target
               /\ Job(v)'.run = Job(v).run
    <3>1. v # w /\ worker'[v] = worker[v]
      BY <1>4, <2>3
    <3>2. worker[v].job \in JobIds
      BY <2>3, <3>1, WorkerColumns
    <3>3. QED
      BY <1>2, <3>1, <3>2 DEF Job, WorkersHold
  <2>4. worker'[v].pc = "deciding" => /\ Job(v)'.op = "loop_decide" /\ Job(v)'.target = 0
                                      /\ worker'[v].saw.gates <= runs'[Job(v)'.run].gates
    BY <2>3 DEF WorkerHolds
  <2>5. worker'[v].pc = "compiled" => Job(v)'.op = "protocol_compile"
    BY <2>3 DEF WorkerHolds
  <2>6. QED
    BY <2>1, <2>2, <2>4, <2>5 DEF WorkerHolds, Open
<1>6. QED
  BY <1>5 DEF WorkersHold

\* What is held after an operator has returned.
LEMMA HeldAfterReturn ==
    ASSUME TypeOK, WorkersHold, NEW w \in Workers, Busy(w), NEW res, NEW patch, Return(w, res, patch)
    PROVE  \A j : Held(j)' <=> (Held(j) /\ j # worker[w].job)
<1>1. OthersStay(w) /\ worker'[w].pc = "finished"
  BY Returned DEF OthersStay
<1>2. ASSUME NEW v \in Workers
      PROVE  /\ Busy(v)' <=> Busy(v) /\ v # w
             /\ v # w => worker'[v].job = worker[v].job
  BY <1>1 DEF OthersStay, Busy
<1>3. ASSUME NEW j PROVE Held(j)' <=> (Held(j) /\ j # worker[w].job)
  <2>1. Held(j)' => (Held(j) /\ j # worker[w].job)
    BY <1>2 DEF Held, WorkersHold, WorkerHolds
  <2>2. (Held(j) /\ j # worker[w].job) => Held(j)'
    BY <1>2 DEF Held
  <2>3. QED
    BY <2>1, <2>2
<1>4. QED
  BY <1>3

\* An operator passes its token on, unless it is the loop's last.
LEMMA TokenPassed ==
    ASSUME TypeOK, WorkersHold, NEW w \in Workers, Busy(w), NEW res, NEW patch, Return(w, res, patch),
           NEW op, NEW r, NEW t, NEW st \in {"pending", "paused"}, Inserts(op, r, t, st)
    PROVE  Tokens' = (Tokens \ {worker[w].job}) \cup (IF op = "loop_report" THEN {} ELSE {Len(jobs) + 1})
<1>1. /\ JobIds \subseteq JobIds' /\ Len(jobs) + 1 \in JobIds' /\ Len(jobs) + 1 \notin JobIds
      /\ \A j \in JobIds : jobs'[j] = jobs[j]
      /\ \A j \in JobIds' : j \in JobIds \/ j = Len(jobs) + 1
      /\ jobs'[Len(jobs) + 1].op = op /\ jobs'[Len(jobs) + 1].status = st
  BY Inserted, NewJobColumns
<1>2. \A j : Held(j)' <=> (Held(j) /\ j # worker[w].job)
  BY HeldAfterReturn
<1>3. ~Open(worker[w].job)
  BY DEF WorkersHold, WorkerHolds
<1>4. ASSUME NEW j \in JobIds PROVE j \in Tokens' <=> j \in Tokens /\ j # worker[w].job
  <2>1. Open(j)' <=> Open(j)
    BY <1>1 DEF Open
  <2>2. QED
    BY <1>1, <1>2, <1>3, <2>1 DEF Tokens
<1>5. Len(jobs) + 1 \in Tokens' <=> op # "loop_report"
  BY <1>1 DEF Tokens, Open
<1>6. Tokens' \subseteq JobIds' /\ Tokens \subseteq JobIds
  BY DEF Tokens
<1>7. QED
  BY <1>1, <1>4, <1>5, <1>6

\* An operator that fails drops its token.
LEMMA TokenDropped ==
    ASSUME TypeOK, WorkersHold, NEW w \in Workers, Busy(w), NEW res, NEW patch, Return(w, res, patch),
           UNCHANGED jobs
    PROVE  Tokens' = Tokens \ {worker[w].job}
<1>1. \A j : Held(j)' <=> (Held(j) /\ j # worker[w].job)
  BY HeldAfterReturn
<1>2. ~Open(worker[w].job) /\ JobIds' = JobIds
  BY DEF WorkersHold, WorkerHolds, JobIds
<1>3. \A j : Open(j)' <=> Open(j)
  BY DEF Open
<1>4. QED
  BY <1>1, <1>2, <1>3 DEF Tokens

\* A decision that pauses keeps its token.
LEMMA TokenPaused ==
    ASSUME TypeOK, WorkersHold, NEW w \in Workers, Busy(w), NEW res, NEW patch, Return(w, res, patch),
           Restates(worker[w].job, "paused"), Job(w).op # "loop_report"
    PROVE  Tokens' = Tokens /\ worker[w].job \in Tokens
<1>0. worker[w].job \in JobIds
  BY WorkerColumns DEF Busy
<1>1. \A j : Held(j)' <=> (Held(j) /\ j # worker[w].job)
  BY HeldAfterReturn
<1>2. /\ JobIds' = JobIds /\ jobs'[worker[w].job].status = "paused"
      /\ \A j \in JobIds : j # worker[w].job => jobs'[j] = jobs[j]
      /\ \A j \in JobIds : jobs'[j].op = jobs[j].op
  BY <1>0, Restated DEF JobsKept
<1>3. Held(worker[w].job)
  BY DEF Held
<1>4. ASSUME NEW j \in JobIds PROVE j \in Tokens' <=> j \in Tokens
  <2>1. CASE j = worker[w].job
    BY <1>0, <1>2, <1>3, <2>1 DEF Tokens, Open, Job
  <2>2. CASE j # worker[w].job
    BY <1>1, <1>2, <2>2 DEF Tokens, Open
  <2>3. QED
    BY <2>1, <2>2
<1>5. QED
  BY <1>0, <1>2, <1>3, <1>4 DEF Tokens, Job

\* Tokens are lost when rows are settled or cancelled and workers die.
LEMMA TokensLost ==
    ASSUME TypeOK, JobsKept,
           \A j \in JobIds : jobs'[j].status \in {"pending", "paused"} => Open(j),
           \A j : Held(j)' => Held(j),
           \A j \in JobIds' : j \notin JobIds => jobs'[j].op = "loop_report"
    PROVE  Tokens' \subseteq Tokens
<1> SUFFICES ASSUME NEW j \in Tokens' PROVE j \in Tokens
  OBVIOUS
<1>1. j \in JobIds' /\ jobs'[j].op # "loop_report" /\ (Open(j)' \/ Held(j)')
  BY DEF Tokens
<1>2. j \in JobIds
  BY <1>1
<1>3. jobs[j].op # "loop_report" /\ (Open(j) \/ Held(j))
  BY <1>1, <1>2 DEF JobsKept, Open
<1>4. QED
  BY <1>2, <1>3 DEF Tokens

-----------------------------------------------------------------------------
(* What is known of a run before it is started, and of the rows workers hold. *)

\* Gates are added to the runs in R at most, and new runs have none.
GatesOf(R) ==
    /\ \A q \in RunIds : q \notin R => runs'[q].gates = runs[q].gates
    /\ \A q \in RunIds' : q \notin RunIds => runs'[q].gates = 0

\* Nothing is done for a run before it is started.
LEMMA KnownKept ==
    ASSUME TypeOK, Kept, OnlyStarted, NEW R \in SUBSET Known, GatesOf(R),
           \A j \in JobIds' : j \notin JobIds =>
               jobs'[j].op \in {"loop_report", "execution_setup"} \/ jobs'[j].run \in Known
    PROVE  OnlyStarted' /\ Known \subseteq Known'
<1>1. JobIds \subseteq JobIds' /\ JobsKept
  BY Rows DEF Kept, JobsKept, JobIds
<1>2. Known \subseteq Known'
  <2>1. ASSUME NEW r \in Started PROVE r \in Started'
    BY <1>1, StartedBy, StartedByNext DEF JobsKept
  <2>2. QED
    BY <2>1 DEF Known
<1>3. ASSUME NEW j \in JobIds', jobs'[j].op # "loop_report" PROVE jobs'[j].run \in Known'
  <2>1. CASE j \in JobIds
    BY <1>1, <1>2, <1>3, <2>1 DEF OnlyStarted, JobsKept
  <2>2. CASE jobs'[j].op = "execution_setup"
    BY <2>2, StartedByNext DEF Known
  <2>3. QED
    BY <1>2, <1>3, <2>1, <2>2
<1>4. ASSUME NEW r \in RunIds', runs'[r].gates > 0 PROVE r \in Known'
  <2>1. r \in RunIds
    BY <1>4 DEF GatesOf
  <2>2. CASE r \in R
    BY <1>2, <2>2
  <2>3. CASE r \notin R
    BY <1>2, <1>4, <2>1, <2>3 DEF GatesOf, OnlyStarted
  <2>4. QED
    BY <2>2, <2>3
<1>5. QED
  BY <1>2, <1>3, <1>4 DEF OnlyStarted

\* The tables of runs a step may leave, and the gates in them.
LEMMA GatesSame ==
    ASSUME UNCHANGED runs
    PROVE  GatesOf({}) /\ RunIds' = RunIds
BY DEF GatesOf, RunIds

\* A new run has no gates.
LEMMA GatesStart ==
    ASSUME TypeOK, NEW s \in 1..Len(specs), runs' = Append(runs, NewRun(s)), UNCHANGED specs
    PROVE  /\ GatesOf({}) /\ Len(runs) + 1 \in RunIds' /\ Len(runs) + 1 \notin RunIds
           /\ runs'[Len(runs) + 1].gates = 0 /\ runs'[Len(runs) + 1].spec = s
<1>1. /\ Len(runs') = Len(runs) + 1 /\ runs'[Len(runs) + 1] = NewRun(s)
      /\ \A q \in RunIds : runs'[q] = runs[q]
  BY StartTyped
<1>2. Len(runs) \in Nat /\ s \in Nat
  BY Rows
<1>3. RunIds' = 1..(Len(runs) + 1) /\ RunIds = 1..Len(runs)
  BY <1>1 DEF RunIds
<1>4. \A q \in RunIds' : q \in RunIds \/ q = Len(runs) + 1
  BY <1>2, <1>3
<1>5. QED
  BY <1>1, <1>2, <1>3, <1>4, NewRunColumns DEF GatesOf

\* A gate is added to one run.
LEMMA GatesOne ==
    ASSUME TypeOK, NEW r \in RunIds, runs' = RaiseGates(r), UNCHANGED specs
    PROVE  GatesOf({r}) /\ RunIds' = RunIds /\ runs'[r].gates = runs[r].gates + 1
<1>1. /\ Len(runs') = Len(runs) /\ runs'[r].gates = runs[r].gates + 1
      /\ \A q \in RunIds : q # r => runs'[q] = runs[q]
  BY GateTyped
<1>2. RunIds' = RunIds
  BY <1>1 DEF RunIds
<1>3. QED
  BY <1>1, <1>2 DEF GatesOf

\* A gate and a new run.
LEMMA GatesPrepared ==
    ASSUME TypeOK, NEW r \in RunIds, NEW s \in 1..Len(specs),
           runs' = Append(RaiseGates(r), NewRun(s)), UNCHANGED specs
    PROVE  /\ GatesOf({r}) /\ Len(runs) + 1 \in RunIds' /\ Len(runs) + 1 \notin RunIds
           /\ runs'[Len(runs) + 1].gates = 0 /\ runs'[r].gates = runs[r].gates + 1
<1>1. /\ Len(runs') = Len(runs) + 1 /\ runs'[Len(runs) + 1] = NewRun(s)
      /\ runs'[r].gates = runs[r].gates + 1 /\ \A q \in RunIds : q # r => runs'[q] = runs[q]
  BY PreparedGated
<1>2. Len(runs) \in Nat /\ s \in Nat
  BY Rows
<1>3. RunIds' = 1..(Len(runs) + 1) /\ RunIds = 1..Len(runs)
  BY <1>1 DEF RunIds
<1>4. \A q \in RunIds' : q \in RunIds \/ q = Len(runs) + 1
  BY <1>2, <1>3
<1>5. QED
  BY <1>1, <1>2, <1>3, <1>4, NewRunColumns DEF GatesOf

\* A recommendation, and an approval, add no gates.
LEMMA GatesRewritten ==
    ASSUME Len(runs') = Len(runs), \A q \in RunIds : runs'[q].gates = runs[q].gates
    PROVE  GatesOf({}) /\ RunIds' = RunIds
BY DEF GatesOf, RunIds

-----------------------------------------------------------------------------
(* The kinds of steps. *)

\* A row that waits for an approval goes on waiting.
AwaitKept == \A j \in JobIds : AwaitsApproval(j) => AwaitsApproval(j)'
Firm == WorkersHold' /\ AwaitKept

\* Rows change hands only where nobody waits.
LEMMA AwaitStays ==
    ASSUME NEW t,
           \A v \in Workers : worker'[v].pc # "idle" =>
               worker'[v].job = t \/ (worker[v].pc # "idle" /\ worker'[v].job = worker[v].job),
           ~AwaitsApproval(t),
           \A j \in JobIds : AwaitsApproval(j) => jobs'[j].status \in {"paused", "cancelled"}
    PROVE  AwaitKept
BY DEF AwaitKept, AwaitsApproval

\* A returning operator.
LEMMA ReturnFirm ==
    ASSUME TypeOK, WorkersHold, Kept, NEW w \in Workers, Busy(w), NEW res, NEW patch,
           Return(w, res, patch),
           \A j \in JobIds : j # worker[w].job => jobs'[j].status = jobs[j].status
    PROVE  Firm
<1>1. WorkersHold'
  BY ReturnHolds
<1>2. OthersStay(w) /\ worker'[w].job = worker[w].job /\ worker[w].pc # "idle"
  BY Returned DEF OthersStay, Busy
<1>3. ~AwaitsApproval(worker[w].job)
  BY <1>2 DEF AwaitsApproval
<1>4. \A j \in JobIds : AwaitsApproval(j) => jobs'[j].status \in {"paused", "cancelled"}
  BY <1>3 DEF AwaitsApproval
<1>5. AwaitKept
  BY <1>2, <1>3, <1>4, AwaitStays DEF OthersStay
<1>6. QED
  BY <1>1, <1>5 DEF Firm

\* A worker that comes to rest.
LEMMA RestFirm ==
    ASSUME TypeOK, WorkersHold, Kept, NEW w \in Workers, worker[w].pc # "idle", Rests(w),
           \A j \in JobIds : j # worker[w].job => jobs'[j].status = jobs[j].status,
           jobs'[worker[w].job].status \in {"pending", "paused"} => Open(worker[w].job)
    PROVE  Firm
<1>1. WorkersHold'
  BY RestHolds DEF Open
<1>2. OthersStay(w) /\ worker'[w].pc = "idle"
  BY Rows, Zenon DEF OthersStay, Rests, Idle
<1>3. ~AwaitsApproval(worker[w].job)
  BY DEF AwaitsApproval
<1>4. \A j \in JobIds : AwaitsApproval(j) => jobs'[j].status \in {"paused", "cancelled"}
  BY <1>3 DEF AwaitsApproval
<1>5. AwaitKept
  BY <1>2, <1>3, <1>4, AwaitStays DEF OthersStay
<1>6. QED
  BY <1>1, <1>5 DEF Firm

\* An operator that has not returned hands its row on to a new one.
Passes(w, op, r, t, st) ==
    /\ Busy(w) /\ Job(w).op # "loop_report"
    /\ Inserts(op, r, t, st) /\ \E patch : Return(w, "success", patch)
LEMMA PassFirm ==
    ASSUME TypeOK, WorkersHold, Kept, NEW w \in Workers, NEW op, NEW r, NEW t, NEW st,
           Passes(w, op, r, t, st)
    PROVE  Firm
<1>1. \A j \in JobIds : jobs'[j] = jobs[j]
  BY Inserted DEF Passes
<1>2. QED
  BY <1>1, ReturnFirm DEF Passes

\* The token moves with it.
LEMMA PassToken ==
    ASSUME TypeOK, WorkersHold, NEW w \in Workers, NEW op, NEW r, NEW t, NEW st \in {"pending", "paused"},
           Passes(w, op, r, t, st), op # "loop_report"
    PROVE  /\ worker[w].job \in Tokens /\ worker[w].job \in JobIds /\ Len(jobs) + 1 \notin JobIds
           /\ Tokens' = (Tokens \ {worker[w].job}) \cup {Len(jobs) + 1}
           /\ Cardinality(Tokens') = Cardinality(Tokens)
           /\ UNCHANGED <<policy, cycle, env>>
           /\ \A v \in Workers : worker'[v].pc = "deciding" => v # w /\ worker'[v] = worker[v]
<1>1. worker[w].job \in JobIds /\ Len(jobs) + 1 \notin JobIds /\ Job(w) = jobs[worker[w].job]
  BY WorkerColumns, Inserted DEF Passes, Busy, Job
<1>2. worker[w].job \in Tokens
  BY <1>1 DEF Passes, Tokens, Held
<1>3. Tokens' = (Tokens \ {worker[w].job}) \cup {Len(jobs) + 1}
  BY TokenPassed DEF Passes
<1>4. /\ IsFiniteSet(Tokens) /\ Len(jobs) + 1 \notin Tokens
      /\ Cardinality(Tokens) \in Nat
  BY <1>1, Finite
<1>5. /\ IsFiniteSet(Tokens \ {worker[w].job})
      /\ Cardinality(Tokens \ {worker[w].job}) = Cardinality(Tokens) - 1
  BY <1>2, <1>4, FS_RemoveElement
<1>6. Cardinality(Tokens') = Cardinality(Tokens)
  <2>1. Len(jobs) + 1 \notin Tokens \ {worker[w].job}
    BY <1>4
  <2>2. Cardinality(Tokens') = Cardinality(Tokens \ {worker[w].job}) + 1
    BY <1>3, <1>5, <2>1, FS_AddElement
  <2>3. QED
    BY <1>4, <1>5, <2>2
<1>7. UNCHANGED <<policy, cycle, env>>
  BY DEF Passes, Return
<1>8. \A v \in Workers : worker'[v].pc = "deciding" => v # w /\ worker'[v] = worker[v]
  BY Returned DEF Passes
<1>9. QED
  BY <1>1, <1>2, <1>3, <1>6, <1>7, <1>8

\* A step after which nothing is owed that was not owed before: no run is
\* started, no gate passed and nothing charged; rows may be taken, settled and
\* cancelled.
Quiet ==
    /\ UNCHANGED <<policy, runs, budget, last_gate, approvals>>
    /\ Tokens' \subseteq Tokens
    /\ \A j \in JobIds' : j \notin JobIds => jobs'[j].op = "loop_report"
    /\ \A j \in Tokens' : jobs'[j].status = "paused" <=> jobs[j].status = "paused"
    /\ \A v \in Workers : worker'[v].pc = "deciding" =>
          /\ worker'[v].job = worker[v].job /\ worker[v].pc # "idle"
          /\ \/ worker[v].pc = "deciding" /\ worker'[v].saw = worker[v].saw
             \/ /\ worker'[v].saw.total = total /\ worker'[v].saw.per = per
                /\ worker'[v].saw.gates = runs[Job(v).run].gates

\* An operator that returns without a new row.
LEMMA DropQuiet ==
    ASSUME TypeOK, WorkersHold, Kept, NEW w \in Workers, Busy(w), NEW res, NEW patch, Return(w, res, patch),
           UNCHANGED <<runs, budget, last_gate, jobs>>
    PROVE  Quiet /\ Firm /\ requeued' = requeued
<1>1. UNCHANGED <<policy, approvals, requeued>>
  BY DEF Return, env
<1>2. Tokens' \subseteq Tokens /\ JobIds' = JobIds
  BY TokenDropped, SameJobs
<1>3. \A v \in Workers : worker'[v].pc = "deciding" => worker'[v] = worker[v]
  BY Returned
<1>4. Firm
  BY ReturnFirm
<1>5. QED
  BY <1>1, <1>2, <1>3, <1>4 DEF Quiet

\* A worker that comes to rest.
LEMMA RestQuiet ==
    ASSUME TypeOK, WorkersHold, Kept, NEW w \in Workers, worker[w].pc # "idle", Rests(w),
           JobIds' = JobIds,
           UNCHANGED <<policy, runs, budget, last_gate, approvals, requeued>>,
           \A j \in JobIds : j # worker[w].job => jobs'[j].status = jobs[j].status,
           jobs'[worker[w].job].status = "paused" => jobs[worker[w].job].status = "paused",
           jobs'[worker[w].job].status # "pending" \/ UNCHANGED jobs
    PROVE  Quiet /\ Firm /\ requeued' = requeued
<1>1. OthersStay(w) /\ worker'[w].pc = "idle"
  BY Rows, Zenon DEF OthersStay, Rests, Idle
<1>2. worker[w].job \in JobIds
  BY WorkerColumns
<1>3. \A j \in JobIds : jobs'[j].status \in {"pending", "paused"} => Open(j)
  BY <1>2 DEF Open
<1>4. \A j : Held(j)' => Held(j)
  BY <1>1 DEF Held, OthersStay, Busy
<1>5. Tokens' \subseteq Tokens
  BY <1>3, <1>4, TokensLost DEF Kept
<1>6. \A j \in Tokens' : jobs'[j].status = "paused" <=> jobs[j].status = "paused"
  <2>1. ASSUME NEW j \in Tokens', jobs[j].status = "paused" PROVE jobs'[j].status = "paused"
    <3>1. j \in JobIds /\ (Open(j)' \/ Held(j)') /\ ~Held(j)
      BY <2>1 DEF Tokens, Held, WorkersHold, WorkerHolds, Open
    <3>2. Open(j)'
      BY <1>4, <3>1
    <3>3. QED
      BY <2>1, <3>1, <3>2 DEF Open
  <2>2. ASSUME NEW j \in Tokens', jobs'[j].status = "paused" PROVE jobs[j].status = "paused"
    BY <1>5, <2>2 DEF Tokens
  <2>3. QED
    BY <2>1, <2>2
<1>7. \A v \in Workers : worker'[v].pc = "deciding" => worker'[v] = worker[v]
  BY <1>1 DEF OthersStay
<1>8. Firm
  BY <1>2, <1>3, RestFirm
<1>9. QED
  BY <1>5, <1>6, <1>7, <1>8 DEF Quiet

\* Settlement and death.
LEMMA SettleQuiet ==
    ASSUME TypeOK, WorkersHold, Kept, NEW w \in Workers, SettleStep(w) \/ Crash(w)
    PROVE  Quiet /\ Firm /\ requeued' = requeued
<1>1. CASE AcknowledgeCancel(w) \/ RejectedPatch(w) \/ Crash(w)
  <2>1. /\ worker[w].pc # "idle" /\ Rests(w) /\ UNCHANGED tables /\ UNCHANGED <<approvals, requeued>>
    BY <1>1 DEF AcknowledgeCancel, RejectedPatch, Crash, Rests, env
  <2>2. UNCHANGED <<policy, runs, budget, last_gate, jobs>>
    BY <2>1 DEF tables
  <2>3. JobIds' = JobIds
    BY <2>2, SameJobs
  <2>4. QED
    BY <2>1, <2>2, <2>3, RestQuiet
<1>2. CASE SettleSuccess(w) \/ SettleFailure(w)
  <2>1. /\ worker[w].pc # "idle" /\ Rests(w)
        /\ UNCHANGED <<policy, runs, budget, last_gate, approvals, requeued>>
    BY <1>2 DEF SettleSuccess, SettleFailure, Rests, env
  <2>2. worker[w].job \in JobIds
    BY <2>1, WorkerColumns
  <2>3. \E st : /\ Restates(worker[w].job, st) /\ st # "pending"
                /\ st = "paused" => jobs[worker[w].job].status = "paused"
    <3>1. CASE SettleFailure(w)
      <4>1. Restates(worker[w].job, "failed")
        BY <3>1 DEF SettleFailure, Restates
      <4>2. QED
        BY <4>1
    <3>2. CASE SettleSuccess(w) /\ jobs[worker[w].job].status = "paused"
      <4>1. Restates(worker[w].job, "paused")
        BY <3>2 DEF SettleSuccess, Restates
      <4>2. QED
        BY <3>2, <4>1
    <3>3. CASE SettleSuccess(w) /\ jobs[worker[w].job].status # "paused"
      <4>1. Restates(worker[w].job, "completed")
        BY <3>3 DEF SettleSuccess, Restates
      <4>2. QED
        BY <4>1
    <3>4. QED
      BY <1>2, <3>1, <3>2, <3>3
  <2>4. /\ JobIds' = JobIds /\ \A j \in JobIds : j # worker[w].job => jobs'[j].status = jobs[j].status
        /\ jobs'[worker[w].job].status # "pending"
        /\ jobs'[worker[w].job].status = "paused" => jobs[worker[w].job].status = "paused"
    BY <2>2, <2>3, Restated
  <2>5. QED
    BY <2>1, <2>4, RestQuiet
<1>3. QED
  BY <1>1, <1>2 DEF SettleStep

\* A decision that raises, and the report.
LEMMA RaiseQuiet ==
    ASSUME TypeOK, WorkersHold, Kept, NEW w \in Workers, DecideRaises(w) \/ LoopReport(w)
    PROVE  Quiet /\ Firm /\ requeued' = requeued
<1>1. Busy(w) /\ UNCHANGED <<runs, budget, last_gate, jobs>>
  BY DEF DecideRaises, LoopReport, Executing, Busy
<1>2. \E res, patch : Return(w, res, patch)
  BY DEF DecideRaises, LoopReport
<1>3. QED
  BY <1>1, <1>2, DropQuiet

\* A worker goes on with its row.
LEMMA StayQuiet ==
    ASSUME TypeOK, WorkersHold, Kept, NEW w \in Workers, Busy(w), OthersStay(w),
           worker'[w].job = worker[w].job, UNCHANGED <<policy, runs, budget, last_gate, jobs, approvals>>,
           \/ worker'[w].pc = "compiled" /\ Job(w).op = "protocol_compile"
           \/ /\ worker'[w].pc = "deciding" /\ Job(w).op = "loop_decide" /\ Job(w).target = 0
              /\ worker'[w].saw.total = total /\ worker'[w].saw.per = per
              /\ worker'[w].saw.gates = runs[Job(w).run].gates
    PROVE  Quiet /\ Firm
<1>1. \A v \in Workers : /\ Busy(v)' <=> Busy(v)
                         /\ worker'[v].job = worker[v].job
  BY DEF OthersStay, Busy
<1>2. JobIds' = JobIds /\ \A j : (Held(j)' <=> Held(j)) /\ (Open(j)' <=> Open(j))
  BY <1>1, SameJobs DEF Held, Open
<1>3. Tokens' = Tokens
  BY <1>2 DEF Tokens
<1>4. worker[w].pc # "idle" /\ Job(w).run \in 1..Len(runs)
  BY JobOf DEF Busy
<1>5. runs[Job(w).run].gates \in Nat
  BY <1>4, RunColumns
<1>6. WorkersHold'
  <2>1. ASSUME NEW v \in Workers, Busy(v)'
        PROVE  /\ Busy(v) /\ worker'[v].job = worker[v].job
               /\ jobs'[worker[v].job].status \notin {"pending", "paused"}
    BY <1>1, <2>1 DEF WorkersHold, WorkerHolds, Open
  <2>2. ASSUME NEW v \in Workers, worker'[v].pc = "deciding"
        PROVE  \/ worker[v].pc = "deciding" /\ worker'[v].saw = worker[v].saw
               \/ /\ Job(v).op = "loop_decide" /\ Job(v).target = 0
                  /\ worker'[v].saw.gates <= runs[Job(v).run].gates /\ worker'[v].saw.gates \in Nat
    BY <1>5, <2>2 DEF OthersStay
  <2>3. ASSUME NEW v \in Workers, worker'[v].pc = "compiled"
        PROVE  worker[v].pc = "compiled" \/ Job(v).op = "protocol_compile"
    BY <2>3 DEF OthersStay
  <2>4. QED
    BY <2>1, <2>2, <2>3, HoldsKept
<1>7. AwaitKept
  <2>1. \A v \in Workers : worker'[v].pc # "idle" => worker[v].pc # "idle" /\ worker'[v].job = worker[v].job
    BY <1>4 DEF OthersStay
  <2>2. QED
    BY <2>1 DEF AwaitKept, AwaitsApproval
<1>8. \A v \in Workers : worker'[v].pc = "deciding" =>
          /\ worker'[v].job = worker[v].job /\ worker[v].pc # "idle"
          /\ \/ worker[v].pc = "deciding" /\ worker'[v].saw = worker[v].saw
             \/ /\ worker'[v].saw.total = total /\ worker'[v].saw.per = per
                /\ worker'[v].saw.gates = runs[Job(v).run].gates
  BY <1>4 DEF OthersStay
<1>9. Quiet
  BY <1>2, <1>3, <1>8 DEF Quiet
<1>10. QED
  BY <1>6, <1>7, <1>9 DEF Firm

\* Claim: the token is in a worker's hands now.
LEMMA ClaimQuiet ==
    ASSUME TypeOK, WorkersHold, Kept, NEW w \in Workers, ClaimJob(w)
    PROVE  Quiet /\ Firm /\ requeued' = requeued
<1>1. PICK j \in JobIds : /\ jobs[j].status = "pending" /\ Restates(j, "running")
                          /\ worker' = [worker EXCEPT ![w].pc = "executing", ![w].job = j]
  BY DEF ClaimJob, Restates
<1>2. /\ UNCHANGED <<policy, runs, budget, last_gate, approvals, requeued>> /\ worker[w].pc = "idle"
  BY DEF ClaimJob, env
<1>3. OthersStay(w) /\ worker'[w].pc = "executing" /\ worker'[w].job = j
  <2>1. j \in Nat
    BY Rows
  <2>2. QED
    BY <1>1, <2>1, Claimed DEF OthersStay
<1>4. /\ JobIds' = JobIds /\ jobs'[j].status = "running"
      /\ \A k \in JobIds : k # j => jobs'[k] = jobs[k]
      /\ \A k \in JobIds : jobs'[k].op = jobs[k].op
  BY <1>1, Restated DEF JobsKept
<1>5. WorkersHold'
  BY <1>1, <1>2, <1>3, ClaimHolds
<1>6. ~Busy(w) /\ Busy(w)' /\ \A v \in Workers : v # w => (Busy(v)' <=> Busy(v)) /\ worker'[v].job = worker[v].job
  BY <1>2, <1>3 DEF Busy, OthersStay
<1>7. ASSUME NEW k \in JobIds PROVE k \in Tokens' => k \in Tokens
  <2>1. CASE k = j
    BY <1>1, <1>4, <2>1 DEF Tokens, Open
  <2>2. CASE k # j
    <3>1. Held(k)' => Held(k)
      BY <1>3, <1>6, <2>2 DEF Held
    <3>2. Open(k)' => Open(k)
      BY <1>4, <2>2 DEF Open
    <3>3. QED
      BY <1>4, <3>1, <3>2 DEF Tokens
  <2>3. QED
    BY <2>1, <2>2
<1>8. Tokens' \subseteq Tokens
  BY <1>4, <1>7 DEF Tokens
<1>9. \A k \in JobIds : jobs'[k].status = "paused" <=> jobs[k].status = "paused"
  BY <1>1, <1>4
<1>10. \A v \in Workers : worker'[v].pc = "deciding" => worker'[v] = worker[v]
  BY <1>3 DEF OthersStay
<1>11. AwaitKept
  <2>1. ~AwaitsApproval(j)
    BY <1>1 DEF AwaitsApproval
  <2>2. \A k \in JobIds : AwaitsApproval(k) => jobs'[k].status \in {"paused", "cancelled"}
    BY <1>4, <2>1 DEF AwaitsApproval
  <2>3. QED
    BY <1>3, <2>1, <2>2, AwaitStays DEF OthersStay
<1>12. Quiet
  <2>1. \A k \in Tokens' : jobs'[k].status = "paused" <=> jobs[k].status = "paused"
    BY <1>8, <1>9 DEF Tokens
  <2>2. QED
    BY <1>2, <1>4, <1>8, <1>10, <2>1 DEF Quiet
<1>13. QED
  BY <1>2, <1>5, <1>11, <1>12 DEF Firm

\* The first half of a decision, and the first transaction of protocol_compile.
LEMMA ReadQuiet ==
    ASSUME TypeOK, WorkersHold, Kept, NEW w \in Workers, DecideRead(w) \/ CompileSpec(w)
    PROVE  Quiet /\ Firm /\ requeued' = requeued
<1>1. Busy(w)
  BY DEF DecideRead, CompileSpec, Executing, Busy
<1>2. CASE DecideRead(w)
  <2>1. UNCHANGED <<policy, runs, budget, last_gate, jobs, approvals, requeued>>
    BY <1>2 DEF DecideRead, tables, env
  <2>2. Job(w).op = "loop_decide" /\ Job(w).target = 0
    BY <1>2 DEF DecideRead, Executing, Job
  <2>3. /\ OthersStay(w) /\ worker'[w].pc = "deciding" /\ worker'[w].job = worker[w].job
        /\ worker'[w].saw.gates = runs[Job(w).run].gates
        /\ worker'[w].saw.total = total /\ worker'[w].saw.per = per
    BY <1>2, HasRead DEF OthersStay
  <2>4. QED
    BY <1>1, <2>1, <2>2, <2>3, StayQuiet
<1>3. CASE CompileSpec(w)
  <2>1. UNCHANGED <<runs, budget, last_gate, jobs>> /\ Job(w).op = "protocol_compile"
    BY <1>3 DEF CompileSpec, Executing, Job
  <2>2. CASE \E res, patch : Return(w, res, patch)
    BY <1>1, <2>1, <2>2, DropQuiet
  <2>3. CASE /\ worker' = [worker EXCEPT ![w].pc = "compiled", ![w].spec = Len(specs) + 1]
             /\ UNCHANGED <<policy, cycle, env>>
    <3>1. Len(specs) + 1 \in Nat
      BY Rows
    <3>2. OthersStay(w) /\ worker'[w].pc = "compiled" /\ worker'[w].job = worker[w].job
      BY <2>3, <3>1, Compiled DEF OthersStay
    <3>3. UNCHANGED <<policy, approvals, requeued>>
      BY <2>3 DEF env
    <3>4. QED
      BY <1>1, <2>1, <3>2, <3>3, StayQuiet
  <2>4. QED
    BY <1>3, <2>2, <2>3 DEF CompileSpec
<1>4. QED
  BY <1>2, <1>3

\* The user stops the loop: what a worker still holds goes on.
LEMMA StopQuiet ==
    ASSUME TypeOK, WorkersHold, Kept, StopLoop
    PROVE  Quiet /\ Firm /\ requeued' = requeued
<1>1. /\ JobsKept /\ UNCHANGED <<policy, runs, budget, last_gate, worker, approvals, requeued>>
      /\ \A j \in JobIds : jobs'[j].status = IF jobs[j].status \in {"pending", "running", "paused"}
                                             THEN "cancelled" ELSE jobs[j].status
      /\ \A j \in JobIds' : j \notin JobIds => jobs'[j].op = "loop_report"
  BY StopMeans
<1>2. \A j \in JobIds : jobs'[j].status \notin {"pending", "paused"}
  BY <1>1
<1>3. \A j : Held(j)' <=> Held(j)
  BY <1>1 DEF Held, Busy
<1>4. Tokens' \subseteq Tokens
  BY <1>1, <1>2, <1>3, TokensLost
<1>5. \A j \in Tokens' : jobs'[j].status = "paused" <=> jobs[j].status = "paused"
  <2>1. ASSUME NEW j \in Tokens' PROVE jobs'[j].status # "paused" /\ jobs[j].status # "paused"
    <3>1. j \in JobIds
      BY <1>4 DEF Tokens
    <3>2. Held(j)
      BY <1>2, <1>3, <3>1 DEF Tokens, Open
    <3>3. QED
      BY <1>2, <3>1, <3>2 DEF Held, WorkersHold, WorkerHolds, Open
  <2>2. QED
    BY <2>1
<1>6. Quiet
  BY <1>1, <1>4, <1>5 DEF Quiet
<1>7. WorkersHold'
  <2>1. \A v \in Workers : Busy(v) => worker[v].job \in JobIds
    BY WorkerColumns DEF Busy
  <2>2. QED
    BY <1>1, <1>2, <2>1, StillHolds
<1>8. AwaitKept
  BY <1>1 DEF AwaitKept, AwaitsApproval
<1>9. QED
  BY <1>1, <1>6, <1>7, <1>8 DEF Firm

\* Dead workers' rows: those put back are new tokens, nothing else is.
LEMMA ReclaimKind ==
    ASSUME TypeOK, WorkersHold, Kept, ReclaimStale
    PROVE  /\ Firm /\ UNCHANGED <<policy, runs, budget, last_gate, approvals>> /\ JobIds' = JobIds
           /\ Tokens \subseteq Tokens' /\ Tokens' \subseteq Tokens \cup Reclaimable
           /\ requeued' = requeued + Cardinality(Reclaimable) /\ requeued \in Nat
           /\ requeued' = 0 => Quiet /\ requeued = 0
<1>1. /\ UNCHANGED <<policy, runs, budget, last_gate, approvals, worker>>
      /\ requeued' = requeued + Cardinality(Reclaimable) /\ requeued \in Nat
  BY DEF ReclaimStale, TypeOK
<1>2. /\ JobIds' = JobIds
      /\ \A j \in JobIds : jobs'[j].status =
            IF j \in Reclaimable THEN "pending" ELSE IF j \in Stale THEN "failed" ELSE jobs[j].status
      /\ \A j \in JobIds : jobs'[j].op = jobs[j].op
  BY ReclaimRows DEF JobsKept
<1>3. \A j : Held(j)' <=> Held(j)
  BY <1>1 DEF Held, Busy
<1>4. ASSUME NEW j \in Stale
      PROVE  jobs[j].status = "running" /\ ~Held(j) /\ ~Open(j) /\ \A v \in Workers : worker[v].job # j
  BY DEF Stale, Held, Open
<1>5. Reclaimable \subseteq Stale
  BY DEF Reclaimable
<1>6. ASSUME NEW j \in JobIds PROVE /\ j \in Tokens => j \in Tokens' /\ jobs'[j].status = jobs[j].status
                                    /\ j \in Tokens' => j \in Tokens \cup Reclaimable
  <2>1. CASE j \in Reclaimable
    BY <1>4, <1>5, <2>1 DEF Tokens
  <2>2. CASE j \in Stale /\ j \notin Reclaimable
    BY <1>2, <1>3, <1>4, <2>2 DEF Tokens, Open
  <2>3. CASE j \notin Stale
    <3>1. jobs'[j].status = jobs[j].status
      BY <1>2, <1>5, <2>3
    <3>2. QED
      BY <1>2, <1>3, <3>1 DEF Tokens, Open
  <2>4. QED
    BY <2>1, <2>2, <2>3
<1>7. Tokens \subseteq Tokens' /\ Tokens' \subseteq Tokens \cup Reclaimable
  BY <1>2, <1>6 DEF Tokens
<1>8. WorkersHold'
  <2>1. ASSUME NEW v \in Workers, Busy(v) PROVE jobs'[worker[v].job].status \notin {"pending", "paused"}
    <3>1. worker[v].job \in JobIds /\ ~Open(worker[v].job)
      BY <2>1, WorkerColumns DEF WorkersHold, WorkerHolds, Busy
    <3>2. worker[v].job \notin Stale
      BY <1>4
    <3>3. QED
      BY <1>2, <1>5, <3>1, <3>2 DEF Open
  <2>2. QED
    BY <1>1, <2>1, StillHolds
<1>9. AwaitKept
  <2>1. \A j \in JobIds : AwaitsApproval(j) => j \notin Stale
    BY <1>4 DEF AwaitsApproval
  <2>2. QED
    BY <1>1, <1>2, <1>5, <2>1 DEF AwaitKept, AwaitsApproval
<1>10. ASSUME requeued' = 0 PROVE Quiet /\ requeued = 0
  <2>1. IsFiniteSet(Reclaimable) /\ Cardinality(Reclaimable) \in Nat
    BY ReclaimableFinite
  <2>2. Cardinality(Reclaimable) = 0 /\ requeued = 0
    BY <1>1, <1>10, <2>1
  <2>3. Reclaimable = {}
    BY <2>1, <2>2, FS_EmptySet
  <2>4. Tokens' \subseteq Tokens
    BY <1>7, <2>3
  <2>5. \A j \in Tokens' : jobs'[j].status = "paused" <=> jobs[j].status = "paused"
    BY <1>6, <2>4 DEF Tokens
  <2>6. QED
    BY <1>1, <1>2, <2>2, <2>4, <2>5 DEF Quiet
<1>11. QED
  BY <1>1, <1>2, <1>7, <1>8, <1>9, <1>10 DEF Firm

\* A gate is resumed: its token is one more approval away.
Resumes(j) ==
    /\ UNCHANGED <<policy, budget, last_gate, worker, requeued>> /\ approvals' = approvals + 1
    /\ jobs[j].op = "loop_decide" /\ jobs[j].status = "paused" /\ jobs'[j].status = "pending"
    /\ \A k \in JobIds : k # j => jobs'[k] = jobs[k]
    /\ JobIds' = JobIds /\ GatesOf({}) /\ RunIds' = RunIds
    /\ Tokens' = Tokens /\ j \in Tokens
    /\ jobs[j].target # 0 => runs'[jobs[j].target].approved
LEMMA ResumeKind ==
    ASSUME TypeOK, WorkersHold, Kept, ResumeGate
    PROVE  WorkersHold' /\ \E j \in JobIds : Resumes(j)
<1>1. PICK j \in JobIds :
                 /\ jobs[j].op = "loop_decide" /\ jobs[j].status = "paused"
                 /\ Restates(j, "pending")
                 /\ jobs[j].target \in 0..Len(runs)
                 /\ runs' = IF jobs[j].target = 0 THEN runs
                            ELSE [runs EXCEPT ![jobs[j].target].approved = TRUE]
  BY ResumeMeans
<1>2. UNCHANGED <<policy, specs, budget, last_gate, worker, requeued>> /\ approvals' = approvals + 1
  BY ResumeMeans
<1>3. /\ GatesOf({}) /\ RunIds' = RunIds
      /\ jobs[j].target # 0 => runs'[jobs[j].target].approved
  <2>1. CASE jobs[j].target = 0
    BY <1>1, <2>1, GatesSame
  <2>2. CASE jobs[j].target # 0
    <3>1. jobs[j].target \in RunIds
      BY <1>1, <2>2, Rows DEF RunIds
    <3>2. /\ Len(runs') = Len(runs) /\ \A q \in RunIds : runs'[q].gates = runs[q].gates
          /\ runs'[jobs[j].target].approved
      BY <1>1, <1>2, <2>2, <3>1, ApprovedRun
    <3>3. QED
      BY <3>2, GatesRewritten
  <2>3. QED
    BY <2>1, <2>2
<1>4. /\ JobIds' = JobIds /\ jobs'[j].status = "pending"
      /\ \A k \in JobIds : k # j => jobs'[k] = jobs[k]
      /\ \A k \in JobIds : jobs'[k].op = jobs[k].op
  BY <1>1, Restated DEF JobsKept
<1>5. \A k : Held(k)' <=> Held(k)
  BY <1>2 DEF Held, Busy
<1>6. \A k \in JobIds : Open(k)' <=> Open(k)
  BY <1>1, <1>4 DEF Open
<1>7. Tokens' = Tokens /\ j \in Tokens
  BY <1>1, <1>4, <1>5, <1>6 DEF Tokens, Open
<1>8. WorkersHold'
  <2>1. ASSUME NEW v \in Workers, Busy(v) PROVE jobs'[worker[v].job].status \notin {"pending", "paused"}
    <3>1. worker[v].job \in JobIds /\ ~Open(worker[v].job)
      BY <2>1, WorkerColumns DEF WorkersHold, WorkerHolds, Busy
    <3>2. QED
      BY <1>6, <3>1 DEF Open
  <2>2. QED
    BY <1>2, <2>1, StillHolds
<1>9. QED
  BY <1>1, <1>2, <1>3, <1>4, <1>7, <1>8 DEF Resumes

\* The experiment and the recommendation hand on to the next operator.
Hands(w) ==
    /\ \E op \in {"recommend", "loop_decide"} : Passes(w, op, Job(w).run, 0, "pending")
    /\ Job(w).op \in {"execution_setup", "recommend"}
    /\ UNCHANGED <<budget, last_gate>> /\ GatesOf({}) /\ RunIds' = RunIds

\* An approved run starts.
StartsPrepared(w) ==
    /\ Passes(w, "execution_setup", Job(w).target, 0, "pending")
    /\ Job(w).op = "loop_decide" /\ Job(w).target # 0 /\ Job(w).target \in RunIds
    /\ UNCHANGED <<budget, last_gate, runs>>

\* A new run starts that no gate of its spec holds back.
StartsNew(w, s) ==
    /\ Passes(w, "execution_setup", Len(runs) + 1, 0, "pending")
    /\ UNCHANGED <<last_gate, specs>> /\ GatesOf({})
    /\ Len(runs) + 1 \in RunIds' /\ Len(runs) + 1 \notin RunIds
    /\ runs'[Len(runs) + 1].gates = 0 /\ runs'[Len(runs) + 1].spec = s
    /\ ~SpecGate(Current(w), specs[s])

\* A new run waits for its approval.
Waits(w) ==
    /\ Passes(w, "loop_decide", Job(w).run, Len(runs) + 1, "paused")
    /\ last_gate' = total /\ GatesOf({Job(w).run})
    /\ Len(runs) + 1 \in RunIds' /\ Len(runs) + 1 \notin RunIds
    /\ runs'[Len(runs) + 1].gates = 0 /\ runs'[Job(w).run].gates = runs[Job(w).run].gates + 1

\* A decision stops, has a spec compiled, or pauses.
Ends(w) ==
    Passes(w, "loop_report", Job(w).run, 0, "pending") /\ UNCHANGED <<runs, last_gate>>
Compiles(w) ==
    /\ \E c \in Cards : Passes(w, "protocol_compile", Job(w).run, c, "pending")
    /\ UNCHANGED <<runs, last_gate>>
Pauses(w, n) ==
    /\ Restates(worker[w].job, "paused") /\ \E patch : Return(w, "success", patch)
    /\ GatesOf({Job(w).run}) /\ RunIds' = RunIds /\ last_gate' = n
    /\ runs'[Job(w).run].gates = runs[Job(w).run].gates + 1

\* What the operators do, in these terms.
LEMMA HandKind ==
    ASSUME TypeOK, NEW w \in Workers, RunExperiment(w) \/ Recommend(w)
    PROVE  Hands(w)
<1>1. /\ Busy(w) /\ Job(w).op \in {"execution_setup", "recommend"} /\ UNCHANGED <<budget, last_gate, specs>>
      /\ worker[w].pc # "idle"
  BY DEF RunExperiment, Recommend, Executing, Busy, Job
<1>2. Job(w).run \in RunIds
  BY <1>1, JobOf
<1>3. CASE RunExperiment(w)
  <2>1. Passes(w, "recommend", Job(w).run, 0, "pending") /\ UNCHANGED runs
    BY <1>1, <1>3 DEF RunExperiment, Passes, Inserts
  <2>2. QED
    BY <1>1, <2>1, GatesSame DEF Hands
<1>4. CASE Recommend(w)
  <2>1. Passes(w, "loop_decide", Job(w).run, 0, "pending")
    BY <1>1, <1>4 DEF Recommend, Passes, Inserts
  <2>2. PICK a \in Bounds[policy].advice : runs' = [runs EXCEPT ![Job(w).run].advice = a]
    BY <1>4 DEF Recommend
  <2>3. a \in Advice
    BY LoopAssumption DEF TypeOK
  <2>4. Len(runs') = Len(runs) /\ \A q \in RunIds : runs'[q].gates = runs[q].gates
    BY <1>1, <1>2, <2>2, <2>3, Advised
  <2>5. QED
    BY <1>1, <2>1, <2>4, GatesRewritten DEF Hands
<1>5. QED
  BY <1>3, <1>4

\* The decision for a prepared run.
LEMMA PreparedKind ==
    ASSUME TypeOK, NEW w \in Workers, StartPrepared(w)
    PROVE  StartsPrepared(w)
<1>1. /\ Busy(w) /\ Job(w).op = "loop_decide" /\ Job(w).target # 0 /\ worker[w].pc # "idle"
      /\ UNCHANGED <<budget, last_gate, runs>>
      /\ Passes(w, "execution_setup", Job(w).target, 0, "pending")
  BY DEF StartPrepared, Executing, Busy, Job, Passes, Inserts
<1>2. Job(w).target \in 0..Len(runs) /\ Len(runs) \in Nat
  BY <1>1, WorkerColumns, Rows DEF Job, TypeOK
<1>3. QED
  BY <1>1, <1>2 DEF StartsPrepared, RunIds

\* The second transaction of protocol_compile.
LEMMA PrepareKind ==
    ASSUME TypeOK, WorkersHold, NEW w \in Workers, PrepareRun(w)
    PROVE  /\ UNCHANGED budget /\ Job(w).op = "protocol_compile"
           /\ Waits(w) \/ \E s \in 1..Len(specs) : StartsNew(w, s)
<1>1. /\ Busy(w) /\ Job(w).op = "protocol_compile" /\ worker[w].pc # "idle"
      /\ UNCHANGED <<budget, specs>> /\ worker[w].spec \in 1..Len(specs)
  BY WorkerColumns DEF PrepareRun, Busy, WorkersHold, WorkerHolds
<1>2. Job(w).run \in RunIds
  BY <1>1, JobOf
<1>3. CASE SpecGate(specs[runs[Job(w).run].spec].gpus, specs[worker[w].spec])
  <2>1. /\ runs' = Append(RaiseGates(Job(w).run), NewRun(worker[w].spec)) /\ last_gate' = total
        /\ Passes(w, "loop_decide", Job(w).run, Len(runs) + 1, "paused")
    BY <1>1, <1>3 DEF PrepareRun, RaiseGates, Passes, Inserts
  <2>2. QED
    BY <1>1, <1>2, <2>1, GatesPrepared DEF Waits
<1>4. CASE ~SpecGate(specs[runs[Job(w).run].spec].gpus, specs[worker[w].spec])
  <2>1. /\ runs' = Append(runs, NewRun(worker[w].spec)) /\ UNCHANGED last_gate
        /\ Passes(w, "execution_setup", Len(runs) + 1, 0, "pending")
    BY <1>1, <1>4 DEF PrepareRun, Passes, Inserts
  <2>2. StartsNew(w, worker[w].spec)
    BY <1>1, <1>4, <2>1, GatesStart DEF StartsNew, Current
  <2>3. QED
    BY <1>1, <2>2
<1>5. QED
  BY <1>3, <1>4

\* What a decision comes to.
LEMMA OutcomeKind ==
    ASSUME TypeOK, WorkersHold, NEW w \in Workers, worker[w].pc = "deciding", NEW n,
           Outcome(w, n), UNCHANGED specs
    PROVE  /\ Busy(w) /\ Job(w).op = "loop_decide" /\ Job(w).target = 0
           /\ Ends(w) \/ Compiles(w) \/ Pauses(w, n) \/ \E s \in 1..Len(specs) : StartsNew(w, s)
<1>1. Busy(w) /\ Job(w).op = "loop_decide" /\ Job(w).target = 0
  BY DEF Busy, WorkersHold, WorkerHolds
<1>2. Job(w).run \in RunIds
  BY JobOf
<1>3. CASE Stop(w)
  BY <1>1, <1>3 DEF Stop, Ends, Passes, Inserts
<1>4. CASE \E c \in Cards : CompileFor(w, c)
  BY <1>1, <1>4 DEF CompileFor, Compiles, Passes, Inserts
<1>5. CASE PauseForGate(w, n)
  <2>1. runs' = RaiseGates(Job(w).run) /\ Restates(worker[w].job, "paused") /\ last_gate' = n
        /\ Return(w, "success", "none")
    BY <1>5 DEF PauseForGate, RaiseGates, Restates
  <2>2. Pauses(w, n)
    BY <1>2, <2>1, GatesOne DEF Pauses
  <2>3. QED
    BY <1>1, <2>2
<1>6. ASSUME NEW s \in 1..Len(specs), StartNextRun(w, s), ~SpecGate(Current(w), specs[s])
      PROVE  StartsNew(w, s)
  <2>1. /\ runs' = Append(runs, NewRun(s)) /\ UNCHANGED last_gate
        /\ Passes(w, "execution_setup", Len(runs) + 1, 0, "pending")
    BY <1>1, <1>6 DEF StartNextRun, Passes, Inserts
  <2>2. QED
    BY <1>6, <2>1, GatesStart DEF StartsNew
<1>7. QED
  BY <1>1, <1>3, <1>4, <1>5, <1>6 DEF Outcome

\* The pausing decision.
LEMMA PauseFirm ==
    ASSUME TypeOK, WorkersHold, Kept, NEW w \in Workers, Busy(w), NEW n, Pauses(w, n)
    PROVE  Firm
<1>1. worker[w].job \in JobIds
  BY WorkerColumns DEF Busy
<1>2. \A j \in JobIds : j # worker[w].job => jobs'[j].status = jobs[j].status
  BY <1>1, Restated DEF Pauses
<1>3. QED
  BY <1>2, ReturnFirm DEF Pauses

\* An operator works for a run that is known.
LEMMA OfKnownRun ==
    ASSUME TypeOK, OnlyStarted, NEW w \in Workers, Busy(w), Job(w).op # "loop_report"
    PROVE  Job(w).run \in Known /\ Job(w).run \in RunIds
<1>1. worker[w].job \in JobIds /\ Job(w) = jobs[worker[w].job] /\ Job(w).run \in RunIds
  BY JobOf DEF Busy
<1>2. QED
  BY <1>1 DEF OnlyStarted

\* The row handed on is of a known run, a setup or the report.
LEMMA PassKnown ==
    ASSUME TypeOK, Kept, OnlyStarted, NEW R \in SUBSET Known, GatesOf(R),
           NEW w \in Workers, NEW op, NEW r, NEW t, NEW st, Passes(w, op, r, t, st),
           op \in {"loop_report", "execution_setup"} \/ r \in Known
    PROVE  OnlyStarted'
<1>1. \A j \in JobIds' : j \notin JobIds => jobs'[j].op = op /\ jobs'[j].run = r
  BY Inserted, NewJobColumns DEF Passes
<1>2. QED
  BY <1>1, KnownKept

\* A quiet step makes no run known.
LEMMA QuietKnown ==
    ASSUME TypeOK, Kept, OnlyStarted, Quiet
    PROVE  OnlyStarted' /\ Started' = Started
<1>1. GatesOf({}) /\ \A j \in JobIds' : j \notin JobIds => jobs'[j].op = "loop_report"
  BY GatesSame DEF Quiet
<1>2. OnlyStarted'
  BY <1>1, KnownKept
<1>3. QED
  BY <1>1, <1>2, StartedKept DEF Kept

\* Whatever a decision comes to.
LEMMA DecideFirm ==
    ASSUME TypeOK, WorkersHold, OnlyStarted, Kept, NEW w \in Workers, worker[w].pc = "deciding",
           NEW n, Outcome(w, n), UNCHANGED specs
    PROVE  Firm /\ OnlyStarted'
<1>1. /\ Busy(w) /\ Job(w).op = "loop_decide"
      /\ Ends(w) \/ Compiles(w) \/ Pauses(w, n) \/ \E s \in 1..Len(specs) : StartsNew(w, s)
  BY OutcomeKind
<1>2. Job(w).run \in Known /\ {Job(w).run} \in SUBSET Known /\ {} \in SUBSET Known
  BY <1>1, OfKnownRun
<1>3. CASE Ends(w)
  BY <1>2, <1>3, PassFirm, PassKnown, GatesSame DEF Ends
<1>4. CASE Compiles(w)
  BY <1>2, <1>4, PassFirm, PassKnown, GatesSame DEF Compiles
<1>5. CASE \E s \in 1..Len(specs) : StartsNew(w, s)
  BY <1>2, <1>5, PassFirm, PassKnown DEF StartsNew
<1>6. CASE Pauses(w, n)
  <2>1. Firm
    BY <1>1, <1>6, PauseFirm
  <2>2. JobIds' = JobIds
    <3>1. worker[w].job \in JobIds
      BY JobOf
    <3>2. QED
      BY <1>6, <3>1, Restated DEF Pauses
  <2>3. QED
    BY <1>2, <1>6, <2>1, <2>2, KnownKept DEF Pauses
<1>7. QED
  BY <1>1, <1>3, <1>4, <1>5, <1>6

\* Every step keeps what workers hold and what is known of the runs.
LEMMA StepHolds ==
    ASSUME TypeOK, WorkersHold, OnlyStarted, Kept, Next
    PROVE  WorkersHold' /\ OnlyStarted'
<1>0. {} \in SUBSET Known
  OBVIOUS
<1>1. ASSUME NEW w \in Workers, ClaimJob(w) \/ SettleStep(w) \/ Crash(w) \/ DecideRaises(w)
                                \/ LoopReport(w) \/ DecideRead(w) \/ CompileSpec(w)
      PROVE  WorkersHold' /\ OnlyStarted'
  <2>1. Quiet /\ Firm
    BY <1>1, ClaimQuiet, SettleQuiet, RaiseQuiet, ReadQuiet
  <2>2. QED
    BY <2>1, QuietKnown DEF Firm
<1>2. ASSUME NEW w \in Workers, RunExperiment(w) \/ Recommend(w) PROVE WorkersHold' /\ OnlyStarted'
  <2>1. Hands(w)
    BY <1>2, HandKind
  <2>2. PICK op \in {"recommend", "loop_decide"} : Passes(w, op, Job(w).run, 0, "pending")
    BY <2>1 DEF Hands
  <2>3. GatesOf({}) /\ Job(w).run \in Known
    BY <2>1, <2>2, OfKnownRun DEF Hands, Passes
  <2>4. QED
    BY <1>0, <2>2, <2>3, PassFirm, PassKnown DEF Firm
<1>3. ASSUME NEW w \in Workers, StartPrepared(w) PROVE WorkersHold' /\ OnlyStarted'
  <2>1. Passes(w, "execution_setup", Job(w).target, 0, "pending") /\ GatesOf({})
    BY <1>3, PreparedKind, GatesSame DEF StartsPrepared
  <2>2. QED
    BY <1>0, <2>1, PassFirm, PassKnown DEF Firm
<1>4. ASSUME NEW w \in Workers, PrepareRun(w) PROVE WorkersHold' /\ OnlyStarted'
  <2>1. CASE Waits(w)
    <3>1. Passes(w, "loop_decide", Job(w).run, Len(runs) + 1, "paused") /\ GatesOf({Job(w).run})
      BY <2>1 DEF Waits
    <3>2. Job(w).run \in Known
      BY <3>1, OfKnownRun DEF Passes
    <3>3. {Job(w).run} \in SUBSET Known
      BY <3>2
    <3>4. QED
      BY <3>1, <3>2, <3>3, PassFirm, PassKnown DEF Firm
  <2>2. ASSUME NEW s, StartsNew(w, s) PROVE WorkersHold' /\ OnlyStarted'
    BY <1>0, <2>2, PassFirm, PassKnown DEF StartsNew, Firm
  <2>3. QED
    BY <1>4, <2>1, <2>2, PrepareKind
<1>5. ASSUME NEW w \in Workers, DecideFresh(w) \/ DecideResumed(w) PROVE WorkersHold' /\ OnlyStarted'
  BY <1>5, FreshMeans, ResumedMeans, DecideFirm DEF Firm
<1>6. CASE StopLoop
  BY <1>6, StopQuiet, QuietKnown DEF Firm
<1>7. CASE ReclaimStale
  <2>1. Firm /\ UNCHANGED runs /\ JobIds' = JobIds
    BY <1>7, ReclaimKind
  <2>2. QED
    BY <1>0, <2>1, GatesSame, KnownKept DEF Firm
<1>8. CASE ResumeGate
  <2>1. WorkersHold' /\ GatesOf({}) /\ JobIds' = JobIds
    BY <1>8, ResumeKind DEF Resumes
  <2>2. QED
    BY <1>0, <2>1, KnownKept
<1>9. QED
  BY <1>1, <1>2, <1>3, <1>4, <1>5, <1>6, <1>7, <1>8 DEF Next, OperatorStep

-----------------------------------------------------------------------------
(* The network gate. *)

\* Under the network gate a spec that no gate holds back does not use it.
LEMMA UngatedOffline ==
    ASSUME policy \in Policies, policy.before_network_execution, ~policy.after_every_run,
           NEW cur, NEW s, ~SpecGate(cur, s)
    PROVE  ~s.network
<1>1. policy \in PolicyType
  BY LoopAssumption
<1>2. ~(policy.after_every_n_runs # None /\ 0 >= policy.after_every_n_runs)
  BY <1>1 DEF PolicyType, None
<1>3. s.network => Gate(0, cur, s.gpus, FALSE, s.network)
                       \in {"before_hardware_escalation", "before_network_execution"}
  BY <1>2 DEF Gate
<1>4. QED
  BY <1>3 DEF SpecGate

\* Runs that were approved stay approved, rows that wait go on waiting.
LEMMA ApprovalKept ==
    ASSUME TypeOK, Kept, PreparedApproved, AwaitKept,
           \A j \in JobIds' : j \notin JobIds =>
               jobs'[j].op # "loop_decide" \/ jobs'[j].target = 0 \/ AwaitsApproval(j)'
    PROVE  PreparedApproved'
<1> SUFFICES ASSUME NEW j \in JobIds', jobs'[j].op = "loop_decide", jobs'[j].target # 0
             PROVE  runs'[jobs'[j].target].approved \/ AwaitsApproval(j)'
  BY DEF PreparedApproved
<1>1. CASE j \notin JobIds
  BY <1>1
<1>2. CASE j \in JobIds
  <2>1. jobs[j].op = "loop_decide" /\ jobs[j].target # 0 /\ jobs'[j].target = jobs[j].target
    BY <1>2 DEF Kept, JobsKept
  <2>2. jobs[j].target \in RunIds
    BY <1>2, <2>1, Rows DEF TypeOK, RunIds
  <2>3. runs[jobs[j].target].approved \/ AwaitsApproval(j)
    BY <1>2, <2>1 DEF PreparedApproved
  <2>4. QED
    BY <1>2, <2>1, <2>2, <2>3 DEF AwaitKept, Kept, RunsKept
<1>3. QED
  BY <1>1, <1>2

\* The runs that were started stay as they were approved.
LEMMA NetworkKept ==
    ASSUME TypeOK, Kept, NetworkApproved,
           policy.before_network_execution /\ ~policy.after_every_run =>
               \A r \in Started' : r \in Started \/ ~specs'[runs'[r].spec].network \/ runs'[r].approved
    PROVE  NetworkApproved'
<1> SUFFICES ASSUME policy.before_network_execution, ~policy.after_every_run, NEW r \in Started',
                    specs'[runs'[r].spec].network
             PROVE  runs'[r].approved
  BY DEF NetworkApproved, Kept
<1>1. CASE r \in Started
  <2>1. r \in RunIds
    BY <1>1, Finite
  <2>2. runs[r].spec \in 1..Len(specs)
    BY <2>1, RunColumns DEF RunIds
  <2>3. specs'[runs'[r].spec] = specs[runs[r].spec]
    BY <2>1, <2>2 DEF Kept, RunsKept, SpecsKept
  <2>4. runs[r].approved
    BY <1>1, <2>3 DEF NetworkApproved
  <2>5. QED
    BY <2>1, <2>4 DEF Kept, RunsKept
<1>2. QED
  BY <1>1

\* A new run is off the network, a prepared one approved.
LEMMA NewOffline ==
    ASSUME TypeOK, Kept, NetworkApproved, PreparedApproved, WorkersHold,
           NEW w \in Workers, NEW s, StartsNew(w, s)
    PROVE  NetworkApproved' /\ PreparedApproved'
<1>1. Passes(w, "execution_setup", Len(runs) + 1, 0, "pending")
  BY DEF StartsNew
<1>2. Started' \subseteq Started \cup {Len(runs) + 1}
  BY <1>1, StartedOne DEF Passes
<1>3. runs'[Len(runs) + 1].spec = s /\ specs' = specs /\ ~SpecGate(Current(w), specs[s])
  BY DEF StartsNew
<1>4. policy.before_network_execution /\ ~policy.after_every_run => ~specs'[s].network
  BY <1>3, UngatedOffline DEF TypeOK
<1>5. NetworkApproved'
  BY <1>2, <1>3, <1>4, NetworkKept
<1>6. \A j \in JobIds' : j \notin JobIds => jobs'[j].op = "execution_setup"
  BY <1>1, Inserted, NewJobColumns DEF Passes
<1>7. AwaitKept
  BY <1>1, PassFirm DEF Firm
<1>8. QED
  BY <1>5, <1>6, <1>7, ApprovalKept

\* Steps that start no run.
LEMMA NoNewRun ==
    ASSUME TypeOK, Kept, NetworkApproved, PreparedApproved, AwaitKept,
           \A j \in JobIds' : j \notin JobIds =>
               /\ jobs'[j].op # "execution_setup"
               /\ jobs'[j].op # "loop_decide" \/ jobs'[j].target = 0 \/ AwaitsApproval(j)'
    PROVE  NetworkApproved' /\ PreparedApproved'
<1>1. Started' = Started
  BY StartedKept DEF Kept
<1>2. QED
  BY <1>1, NetworkKept, ApprovalKept

\* A row handed on that starts no run and prepares none.
LEMMA PassOffline ==
    ASSUME TypeOK, Kept, NetworkApproved, PreparedApproved, WorkersHold,
           NEW w \in Workers, NEW op, NEW r, NEW t, NEW st, Passes(w, op, r, t, st),
           op # "execution_setup", op # "loop_decide" \/ t = 0
    PROVE  NetworkApproved' /\ PreparedApproved'
<1>1. \A j \in JobIds' : j \notin JobIds => jobs'[j].op = op /\ jobs'[j].target = t
  BY Inserted, NewJobColumns DEF Passes
<1>2. AwaitKept
  BY PassFirm DEF Firm
<1>3. QED
  BY <1>1, <1>2, NoNewRun

\* A prepared run waits in a row that is new to every worker.
LEMMA WaitsOffline ==
    ASSUME TypeOK, Kept, NetworkApproved, PreparedApproved, WorkersHold, NEW w \in Workers, Waits(w)
    PROVE  NetworkApproved' /\ PreparedApproved'
<1>1. Passes(w, "loop_decide", Job(w).run, Len(runs) + 1, "paused")
  BY DEF Waits
<1>2. AwaitKept
  BY <1>1, PassFirm DEF Firm
<1>3. /\ \A j \in JobIds' : j \notin JobIds => j = Len(jobs) + 1 /\ jobs'[j].op = "loop_decide"
                                               /\ jobs'[j].status = "paused"
      /\ Len(jobs) + 1 \notin JobIds
  BY <1>1, Inserted, NewJobColumns DEF Passes
<1>4. \A v \in Workers : worker'[v].pc # "idle" => worker'[v].job \in JobIds
  <2>1. \A v \in Workers : v # w => worker'[v] = worker[v]
    BY <1>1, Returned DEF Passes
  <2>2. worker'[w].job = worker[w].job /\ worker[w].pc # "idle"
    BY <1>1, Returned DEF Passes, Busy
  <2>3. QED
    BY <2>1, <2>2, WorkerColumns
<1>5. \A j \in JobIds' : j \notin JobIds => AwaitsApproval(j)'
  BY <1>3, <1>4 DEF AwaitsApproval
<1>6. QED
  BY <1>2, <1>3, <1>5, NoNewRun

\* A run that was prepared is started by a row that no longer waits.
LEMMA PreparedOffline ==
    ASSUME TypeOK, Kept, NetworkApproved, PreparedApproved, WorkersHold, NEW w \in Workers, StartsPrepared(w)
    PROVE  NetworkApproved' /\ PreparedApproved'
<1>1. /\ Passes(w, "execution_setup", Job(w).target, 0, "pending") /\ UNCHANGED runs
      /\ Job(w).op = "loop_decide" /\ Job(w).target # 0
  BY DEF StartsPrepared
<1>2. Started' \subseteq Started \cup {Job(w).target}
  BY <1>1, StartedOne DEF Passes
<1>3. worker[w].pc # "idle" /\ worker[w].job \in JobIds
  BY <1>1, WorkerColumns DEF Passes, Busy
<1>4. runs[Job(w).target].approved
  BY <1>1, <1>3 DEF PreparedApproved, AwaitsApproval, Job
<1>5. NetworkApproved'
  BY <1>1, <1>2, <1>4, NetworkKept
<1>6. \A j \in JobIds' : j \notin JobIds => jobs'[j].op = "execution_setup"
  BY <1>1, Inserted, NewJobColumns DEF Passes
<1>7. AwaitKept
  BY <1>1, PassFirm DEF Firm
<1>8. QED
  BY <1>5, <1>6, <1>7, ApprovalKept

\* A decision prepares no run, and one it starts is off the network.
LEMMA DecideOffline ==
    ASSUME TypeOK, Kept, NetworkApproved, PreparedApproved, WorkersHold, NEW w \in Workers,
           worker[w].pc = "deciding", NEW n, Outcome(w, n), UNCHANGED specs
    PROVE  NetworkApproved' /\ PreparedApproved'
<1>1. /\ Busy(w)
      /\ Ends(w) \/ Compiles(w) \/ Pauses(w, n) \/ \E s \in 1..Len(specs) : StartsNew(w, s)
  BY OutcomeKind
<1>2. CASE Ends(w)
  BY <1>2, PassOffline DEF Ends
<1>3. CASE Compiles(w)
  BY <1>3, PassOffline DEF Compiles
<1>4. CASE \E s \in 1..Len(specs) : StartsNew(w, s)
  BY <1>4, NewOffline
<1>5. CASE Pauses(w, n)
  <2>1. AwaitKept
    BY <1>1, <1>5, PauseFirm DEF Firm
  <2>2. JobIds' = JobIds
    BY <1>5, Restated, WorkerColumns DEF Pauses
  <2>3. QED
    BY <2>1, <2>2, NoNewRun
<1>6. QED
  BY <1>1, <1>2, <1>3, <1>4, <1>5

\* Every step keeps the promise of the network gate.
LEMMA StepOffline ==
    ASSUME TypeOK, Kept, NetworkApproved, PreparedApproved, WorkersHold, Next
    PROVE  NetworkApproved' /\ PreparedApproved'
<1>0. ASSUME Quiet, Firm PROVE NetworkApproved' /\ PreparedApproved'
  BY <1>0, NoNewRun DEF Quiet, Firm
<1>1. ASSUME NEW w \in Workers, ClaimJob(w) \/ SettleStep(w) \/ Crash(w) \/ DecideRaises(w)
                                \/ LoopReport(w) \/ DecideRead(w) \/ CompileSpec(w)
      PROVE  NetworkApproved' /\ PreparedApproved'
  BY <1>0, <1>1, ClaimQuiet, SettleQuiet, RaiseQuiet, ReadQuiet
<1>2. ASSUME NEW w \in Workers, RunExperiment(w) \/ Recommend(w) PROVE NetworkApproved' /\ PreparedApproved'
  BY <1>2, HandKind, PassOffline DEF Hands
<1>3. ASSUME NEW w \in Workers, StartPrepared(w) PROVE NetworkApproved' /\ PreparedApproved'
  BY <1>3, PreparedKind, PreparedOffline
<1>4. ASSUME NEW w \in Workers, PrepareRun(w) PROVE NetworkApproved' /\ PreparedApproved'
  BY <1>4, PrepareKind, WaitsOffline, NewOffline
<1>5. ASSUME NEW w \in Workers, DecideFresh(w) \/ DecideResumed(w) PROVE NetworkApproved' /\ PreparedApproved'
  BY <1>5, FreshMeans, ResumedMeans, DecideOffline
<1>6. CASE StopLoop
  BY <1>0, <1>6, StopQuiet
<1>7. CASE ReclaimStale
  <2>1. AwaitKept /\ JobIds' = JobIds
    BY <1>7, ReclaimKind DEF Firm
  <2>2. QED
    BY <2>1, NoNewRun
<1>8. CASE ResumeGate
  <2>1. PICK j \in JobIds : Resumes(j)
    BY <1>8, ResumeKind
  <2>2. JobIds' = JobIds /\ UNCHANGED worker /\ \A k \in JobIds : k # j => jobs'[k] = jobs[k]
    BY <2>1 DEF Resumes
  <2>3. NetworkApproved'
    <3>1. Started' = Started
      BY <2>2, StartedKept DEF Kept
    <3>2. QED
      BY <3>1, NetworkKept
  <2>4. PreparedApproved'
    <3> SUFFICES ASSUME NEW k \in JobIds, jobs'[k].op = "loop_decide", jobs'[k].target # 0
                 PROVE  runs'[jobs'[k].target].approved \/ AwaitsApproval(k)'
      BY <2>2 DEF PreparedApproved
    <3>1. jobs[k].op = "loop_decide" /\ jobs[k].target # 0 /\ jobs'[k].target = jobs[k].target
      BY DEF Kept, JobsKept
    <3>2. CASE k = j
      BY <2>1, <3>1, <3>2 DEF Resumes
    <3>3. CASE k # j
      <4>1. jobs[k].target \in RunIds
        BY <3>1, Rows DEF TypeOK, RunIds
      <4>2. runs[jobs[k].target].approved \/ AwaitsApproval(k)
        BY <3>1 DEF PreparedApproved
      <4>3. QED
        BY <2>2, <3>1, <3>3, <4>1, <4>2 DEF AwaitsApproval, Kept, RunsKept
    <3>4. QED
      BY <3>2, <3>3
  <2>5. QED
    BY <2>3, <2>4
<1>9. QED
  BY <1>1, <1>2, <1>3, <1>4, <1>5, <1>6, <1>7, <1>8 DEF Next, OperatorStep

-----------------------------------------------------------------------------
(* One token, as long as no job is executed twice. *)

\* What a decision has read is what it finds.
ReadsHold ==
    \A w \in Workers : worker[w].pc = "deciding" =>
        /\ worker[w].saw.total = total /\ worker[w].saw.per = per
        /\ worker[w].saw.gates = runs[Job(w).run].gates
Single == (\A i, j \in Tokens : i = j) /\ ReadsHold

\* The parts of SingleToken.
LEMMA SingleParts == SingleToken <=> (requeued = 0 => ~overlap /\ Single)
BY DEF SingleToken, Single, ReadsHold

\* The worker with the token is the only one to decide.
LEMMA OnlyHolder ==
    ASSUME TypeOK, WorkersHold, \A i, j \in Tokens : i = j, NEW w \in Workers, Busy(w),
           Job(w).op # "loop_report"
    PROVE  /\ worker[w].job \in Tokens /\ worker[w].job \in JobIds
           /\ \A v \in Workers : worker[v].pc = "deciding" => v = w
<1>1. ASSUME NEW v \in Workers, Busy(v), Job(v).op # "loop_report"
      PROVE  worker[v].job \in Tokens /\ worker[v].job \in JobIds
  <2>1. worker[v].job \in JobIds
    BY <1>1, WorkerColumns DEF Busy
  <2>2. QED
    BY <1>1, <2>1 DEF Tokens, Held, Job
<1>2. ASSUME NEW v \in Workers, worker[v].pc = "deciding" PROVE v = w
  <2>1. Busy(v) /\ Job(v).op = "loop_decide"
    BY <1>2 DEF Busy, WorkersHold, WorkerHolds
  <2>2. worker[v].job = worker[w].job
    BY <1>1, <2>1
  <2>3. QED
    BY <2>1, <2>2 DEF WorkersHold, WorkerHolds
<1>3. QED
  BY <1>1, <1>2

\* The token is handed on.
LEMMA SinglePass ==
    ASSUME TypeOK, WorkersHold, Single, NEW w \in Workers, NEW op, NEW r, NEW t,
           NEW st \in {"pending", "paused"}, Passes(w, op, r, t, st)
    PROVE  /\ Single' /\ worker[w].job \in Tokens
           /\ Tokens' = IF op = "loop_report" THEN {} ELSE {Len(jobs) + 1}
           /\ UNCHANGED <<policy, env>>
<1>1. /\ worker[w].job \in Tokens /\ \A v \in Workers : worker[v].pc = "deciding" => v = w
  BY OnlyHolder DEF Passes, Single
<1>2. Tokens' = (Tokens \ {worker[w].job}) \cup (IF op = "loop_report" THEN {} ELSE {Len(jobs) + 1})
  BY TokenPassed DEF Passes
<1>3. Tokens' = IF op = "loop_report" THEN {} ELSE {Len(jobs) + 1}
  BY <1>1, <1>2 DEF Single
<1>4. \A v \in Workers : worker'[v].pc # "deciding"
  <2>1. worker'[w].pc = "finished" /\ \A v \in Workers : v # w => worker'[v] = worker[v]
    BY Returned DEF Passes
  <2>2. QED
    BY <1>1, <2>1
<1>5. UNCHANGED <<policy, env>>
  BY DEF Passes, Return
<1>6. QED
  BY <1>1, <1>3, <1>4, <1>5 DEF Single, ReadsHold

\* The token stays with a row that is paused.
LEMMA SinglePause ==
    ASSUME TypeOK, WorkersHold, Single, NEW w \in Workers, Busy(w), Job(w).op # "loop_report",
           NEW n, Pauses(w, n)
    PROVE  /\ Single' /\ Tokens' = {worker[w].job} /\ worker[w].job \in JobIds
           /\ UNCHANGED <<policy, env>>
<1>1. /\ worker[w].job \in Tokens /\ worker[w].job \in JobIds
      /\ \A v \in Workers : worker[v].pc = "deciding" => v = w
  BY OnlyHolder DEF Single
<1>2. Tokens' = Tokens
  BY TokenPaused DEF Pauses
<1>3. \A v \in Workers : worker'[v].pc # "deciding"
  <2>1. worker'[w].pc = "finished" /\ \A v \in Workers : v # w => worker'[v] = worker[v]
    BY Returned DEF Pauses
  <2>2. QED
    BY <1>1, <2>1
<1>4. UNCHANGED <<policy, env>>
  BY DEF Pauses, Return
<1>5. Tokens = {worker[w].job}
  BY <1>1 DEF Single
<1>6. QED
  BY <1>1, <1>2, <1>3, <1>4, <1>5 DEF Single, ReadsHold

\* What was read stays true when nothing is written.
LEMMA ReadsKept ==
    ASSUME TypeOK, ReadsHold, Kept, UNCHANGED budget, GatesOf({}),
           \A v \in Workers : worker'[v].pc = "deciding" =>
              /\ worker'[v].job = worker[v].job /\ worker[v].pc # "idle"
              /\ \/ worker[v].pc = "deciding" /\ worker'[v].saw = worker[v].saw
                 \/ /\ worker'[v].saw.total = total /\ worker'[v].saw.per = per
                    /\ worker'[v].saw.gates = runs[Job(v).run].gates
    PROVE  ReadsHold'
<1> SUFFICES ASSUME NEW v \in Workers, worker'[v].pc = "deciding"
             PROVE  /\ worker'[v].saw.total = total' /\ worker'[v].saw.per = per'
                    /\ worker'[v].saw.gates = runs'[Job(v)'.run].gates
  BY DEF ReadsHold
<1>1. /\ worker'[v].saw.total = total /\ worker'[v].saw.per = per
      /\ worker'[v].saw.gates = runs[Job(v).run].gates
  BY DEF ReadsHold
<1>2. worker[v].job \in JobIds /\ Job(v).run \in RunIds /\ worker'[v].job = worker[v].job
  BY JobOf
<1>3. Job(v)'.run = Job(v).run
  BY <1>2 DEF Job, Kept, JobsKept
<1>4. runs'[Job(v).run].gates = runs[Job(v).run].gates
  BY <1>2 DEF GatesOf
<1>5. QED
  BY <1>1, <1>3, <1>4 DEF budget

\* A quiet step makes no token.
LEMMA SingleQuiet ==
    ASSUME TypeOK, Single, Kept, Quiet
    PROVE  Single' /\ overlap' = overlap
<1>1. ReadsHold'
  BY ReadsKept, GatesSame DEF Quiet, Single
<1>2. QED
  BY <1>1 DEF Quiet, Single, budget

\* Whatever a decision comes to.
LEMMA SingleOutcome ==
    ASSUME TypeOK, WorkersHold, Single, NEW w \in Workers, worker[w].pc = "deciding", NEW n,
           Outcome(w, n), UNCHANGED specs
    PROVE  Single' /\ UNCHANGED <<policy, env>>
<1>1. /\ Busy(w) /\ Job(w).op = "loop_decide"
      /\ Ends(w) \/ Compiles(w) \/ Pauses(w, n) \/ \E s \in 1..Len(specs) : StartsNew(w, s)
  BY OutcomeKind
<1>2. CASE Ends(w)
  BY <1>2, SinglePass DEF Ends
<1>3. CASE Compiles(w)
  BY <1>3, SinglePass DEF Compiles
<1>4. CASE \E s \in 1..Len(specs) : StartsNew(w, s)
  BY <1>4, SinglePass DEF StartsNew
<1>5. CASE Pauses(w, n)
  BY <1>1, <1>5, SinglePause
<1>6. QED
  BY <1>1, <1>2, <1>3, <1>4, <1>5

\* Every step keeps the token single.
LEMMA StepSingle ==
    ASSUME TypeOK, WorkersHold, Kept, SingleToken, Next
    PROVE  SingleToken' /\ (requeued' = 0 => requeued = 0)
<1>0. ASSUME Quiet, requeued' = requeued PROVE SingleToken' /\ (requeued' = 0 => requeued = 0)
  <2>1. requeued = 0 => Single' /\ overlap' = overlap /\ ~overlap
    BY <1>0, SingleParts, SingleQuiet
  <2>2. QED
    BY <1>0, <2>1 DEF SingleToken, Single, ReadsHold
<1>a. ASSUME UNCHANGED env, requeued = 0 => Single' /\ ~overlap'
      PROVE  SingleToken' /\ (requeued' = 0 => requeued = 0)
  BY <1>a DEF SingleToken, Single, ReadsHold, env
<1>1. ASSUME NEW w \in Workers, ClaimJob(w) \/ SettleStep(w) \/ Crash(w) \/ DecideRaises(w)
                                \/ LoopReport(w) \/ DecideRead(w) \/ CompileSpec(w)
      PROVE  SingleToken' /\ (requeued' = 0 => requeued = 0)
  BY <1>0, <1>1, ClaimQuiet, SettleQuiet, RaiseQuiet, ReadQuiet
<1>2. ASSUME NEW w \in Workers, NEW op, NEW r, NEW t, NEW st \in {"pending", "paused"},
             Passes(w, op, r, t, st), UNCHANGED budget
      PROVE  SingleToken' /\ (requeued' = 0 => requeued = 0)
  <2>1. UNCHANGED env
    BY <1>2 DEF Passes, Return
  <2>2. requeued = 0 => Single' /\ overlap' = overlap /\ ~overlap
    BY <1>2, SinglePass, SingleParts DEF budget
  <2>3. QED
    BY <1>a, <2>1, <2>2
<1>3. ASSUME NEW w \in Workers, RunExperiment(w) \/ Recommend(w)
      PROVE  SingleToken' /\ (requeued' = 0 => requeued = 0)
  BY <1>2, <1>3, HandKind DEF Hands
<1>4. ASSUME NEW w \in Workers, StartPrepared(w) PROVE SingleToken' /\ (requeued' = 0 => requeued = 0)
  BY <1>2, <1>4, PreparedKind DEF StartsPrepared
<1>5. ASSUME NEW w \in Workers, PrepareRun(w) PROVE SingleToken' /\ (requeued' = 0 => requeued = 0)
  BY <1>2, <1>5, PrepareKind DEF Waits, StartsNew
<1>6. ASSUME NEW w \in Workers, DecideFresh(w) \/ DecideResumed(w)
      PROVE  SingleToken' /\ (requeued' = 0 => requeued = 0)
  <2>1. PICK n : Outcome(w, n) /\ worker[w].pc = "deciding" /\ UNCHANGED specs
    BY <1>6, FreshMeans, ResumedMeans
  <2>2. UNCHANGED env
    <3>1. \E patch : Return(w, "success", patch)
      BY <2>1 DEF Outcome, Stop, StartNextRun, CompileFor, PauseForGate
    <3>2. QED
      BY <3>1 DEF Return
  <2>3. requeued = 0 => Single'
    BY <2>1, SingleOutcome, SingleParts
  <2>4. requeued = 0 => ~overlap'
    <3>1. CASE DecideResumed(w)
      BY <3>1, SingleParts, ResumedMeans, SameBudget
    <3>2. CASE DecideFresh(w)
      <4>1. overlap' = (overlap \/ worker[w].saw.total # total \/ worker[w].saw.per # per)
        BY <3>2, FreshMeans DEF Charges
      <4>2. requeued = 0 => ~overlap /\ worker[w].saw.total = total /\ worker[w].saw.per = per
        BY <2>1 DEF SingleToken
      <4>3. QED
        BY <4>1, <4>2, Zenon
    <3>3. QED
      BY <1>6, <3>1, <3>2
  <2>5. QED
    BY <1>a, <2>2, <2>3, <2>4
<1>7. CASE StopLoop
  BY <1>0, <1>7, StopQuiet
<1>8. CASE ReclaimStale
  <2>1. requeued' = 0 => Quiet /\ requeued = 0
    BY <1>8, ReclaimKind
  <2>2. CASE requeued' = 0
    BY <1>0, <2>1, <2>2
  <2>3. CASE requeued' # 0
    BY <2>3 DEF SingleToken
  <2>4. QED
    BY <2>2, <2>3
<1>9. CASE ResumeGate
  <2>1. PICK j \in JobIds : Resumes(j)
    BY <1>9, ResumeKind
  <2>2. requeued = 0 => Single'
    <3>1. ASSUME ReadsHold PROVE ReadsHold'
      BY <2>1, <3>1, ReadsKept DEF Resumes
    <3>2. QED
      BY <2>1, <3>1, SingleParts DEF Resumes, Single
  <2>3. overlap' = overlap /\ requeued' = requeued
    BY <2>1 DEF Resumes, budget
  <2>4. QED
    BY <2>2, <2>3, SingleParts DEF SingleToken, Single, ReadsHold
<1>10. QED
  BY <1>1, <1>3, <1>4, <1>5, <1>6, <1>7, <1>8, <1>9 DEF Next, OperatorStep

-----------------------------------------------------------------------------
(* The gate after every n runs. *)

\* The quantities compared.
LEMMA Numbers ==
    ASSUME TypeOK, EveryNth # None
    PROVE  /\ EveryNth \in Nat /\ EveryNth >= 1 /\ EveryNth * approvals \in Nat
           /\ EveryNth * (approvals + 1) = EveryNth * approvals + EveryNth
           /\ total \in Nat /\ last_gate \in Nat /\ approvals \in Nat /\ Since \in Int
           /\ Cardinality(Started) \in Nat
<1>1. policy \in PolicyType
  BY LoopAssumption DEF TypeOK
<1>2. EveryNth \in Nat /\ EveryNth >= 1
  BY <1>1 DEF EveryNth, PolicyType, None
<1>3. total \in Nat /\ last_gate \in Nat /\ approvals \in Nat
  BY DEF TypeOK
<1>4. \A n, a \in Nat : n * a \in Nat /\ n * (a + 1) = n * a + n
  OBVIOUS
<1>5. QED
  BY <1>2, <1>3, <1>4, Finite DEF Since

\* A token keeps its phase when nothing is written.
LEMMA PhaseKept ==
    ASSUME TypeOK, Kept, NEW j \in JobIds, Phase(j), GatesOf({}), Started' = Started,
           UNCHANGED <<policy, budget, last_gate, approvals>>,
           jobs'[j].status = "paused" <=> jobs[j].status = "paused"
    PROVE  Phase(j)'
<1>1. jobs'[j].op = jobs[j].op /\ jobs'[j].run = jobs[j].run /\ jobs'[j].target = jobs[j].target
  BY DEF Kept, JobsKept
<1>2. jobs[j].run \in RunIds
  BY JobColumns DEF RunIds
<1>3. runs'[jobs[j].run].gates = runs[jobs[j].run].gates
  BY <1>2 DEF GatesOf
<1>4. jobs[j].op = "loop_decide" /\ jobs[j].target # 0 =>
          runs'[jobs[j].target].gates = runs[jobs[j].target].gates
  <2>1. jobs[j].op = "loop_decide" /\ jobs[j].target # 0 => jobs[j].target \in RunIds
    BY Rows DEF TypeOK, RunIds
  <2>2. QED
    BY <2>1 DEF GatesOf
<1>5. Since' = Since /\ EveryNth' = EveryNth /\ approvals' = approvals
  BY DEF Since, EveryNth, budget
<1>6. Fresh(j)' <=> Fresh(j)
  BY <1>1, <1>3 DEF Fresh, Undecided
<1>7. QED
  BY <1>1, <1>3, <1>4, <1>5, <1>6 DEF Phase

\* A new token for a run whose decision is to come.
LEMMA FreshPhase ==
    ASSUME TypeOK, NEW k, k = Len(jobs) + 1, NEW op, NEW r, NEW t, Inserts(op, r, t, "pending"),
           op \in {"execution_setup", "recommend"} \/ (op = "loop_decide" /\ t = 0),
           runs'[r].gates = 0, Cardinality(Started') <= EveryNth' * approvals' + Since', Since' < EveryNth'
    PROVE  Phase(k)'
<1>1. /\ jobs'[k].op = op /\ jobs'[k].run = r
      /\ jobs'[k].target = t /\ jobs'[k].status = "pending"
  BY Inserted, NewJobColumns
<1>2. Fresh(k)'
  BY <1>1 DEF Fresh, Undecided
<1>3. QED
  BY <1>1, <1>2 DEF Phase

\* A new token that a charge or an approval has paid for.
LEMMA PaidPhase ==
    ASSUME TypeOK, NEW k, k = Len(jobs) + 1, NEW r, NEW t, Inserts("protocol_compile", r, t, "pending"),
           Cardinality(Started') + 1 <= EveryNth' * approvals' + Since', Since' < EveryNth'
    PROVE  Phase(k)'
<1>1. /\ jobs'[k].op = "protocol_compile" /\ jobs'[k].status = "pending"
  BY Inserted, NewJobColumns
<1>2. ~Fresh(k)'
  BY <1>1 DEF Fresh, Undecided
<1>3. QED
  BY <1>1, <1>2 DEF Phase

\* A new token that waits for the user.
LEMMA WaitPhase ==
    ASSUME TypeOK, NEW k, k = Len(jobs) + 1, NEW r, NEW t, t # 0, Inserts("loop_decide", r, t, "paused"),
           runs'[t].gates = 0, runs'[r].gates > 0, Since' = 0
    PROVE  Phase(k)'
<1>1. /\ jobs'[k].op = "loop_decide" /\ jobs'[k].run = r
      /\ jobs'[k].target = t /\ jobs'[k].status = "paused"
  BY Inserted, NewJobColumns
<1>2. ~Fresh(k)'
  BY <1>1 DEF Fresh, Undecided
<1>3. QED
  BY <1>1, <1>2 DEF Phase

\* What a token in a worker's hands is worth.
LEMMA HeldPhase ==
    ASSUME TypeOK, WorkersHold, NEW w \in Workers, Busy(w), Phase(worker[w].job), EveryNth # None
    PROVE  /\ Since < EveryNth
           /\ Cardinality(Started) <= EveryNth * approvals + Since
           /\ ~Fresh(worker[w].job) => Cardinality(Started) + 1 <= EveryNth * approvals + Since
<1>1. jobs[worker[w].job].status # "paused"
  BY DEF WorkersHold, WorkerHolds, Open
<1>2. QED
  BY <1>1, Numbers DEF Phase

\* Under the gate fewer than n runs are made between two approvals.
LEMMA UnderGate ==
    ASSUME TypeOK, ~overlap, EveryNth # None, NEW cur, NEW next, NEW promotion,
           Gate(Max({0, (total + 1) - last_gate}), cur, next, promotion, FALSE) = "none"
    PROVE  Since + 1 < EveryNth
<1> DEFINE m == (total + 1) - last_gate
<1>1. total \in Nat /\ last_gate \in Nat /\ last_gate <= total /\ m \in Nat /\ m >= 0
  BY DEF TypeOK
<1>2. Max({0, m}) = m
  <2>1. \A x \in {0, m} : (\A y \in {0, m} : x >= y) => x = m
    BY <1>1
  <2>2. m \in {0, m} /\ \A y \in {0, m} : m >= y
    BY <1>1
  <2> HIDE DEF m
  <2>3. QED
    BY <2>1, <2>2 DEF Max
<1>3. ~policy.after_every_run
  BY DEF Gate
<1>4. EveryNth = policy.after_every_n_runs
  BY <1>3 DEF EveryNth
<1>5. ~(m >= policy.after_every_n_runs)
  BY <1>2, <1>3, <1>4 DEF Gate
<1>6. QED
  BY <1>1, <1>4, <1>5, Numbers DEF Since

\* The token is in phase, and the gate honoured.
PhaseHolds ==
    /\ \A j \in Tokens : Phase(j)
    /\ Cardinality(Started) < EveryNth * (approvals + 1)
InRound == TypeOK /\ WorkersHold /\ Single /\ ~overlap /\ EveryNth # None /\ PhaseHolds

\* The two invariants of the gate say that.
LEMMA PhaseParts ==
    InPhase /\ GateHonoured <=> (EveryNth # None /\ requeued = 0 => PhaseHolds)
BY DEF InPhase, GateHonoured, PhaseHolds

\* The same after a step.
LEMMA PhasePartsNext ==
    InPhase' /\ GateHonoured' <=> (EveryNth' # None /\ requeued' = 0 => PhaseHolds')
BY DEF InPhase, GateHonoured, PhaseHolds

\* The token an operator holds, and what it hands on.
LEMMA RoundPass ==
    ASSUME InRound, NEW w \in Workers, NEW op, NEW r, NEW t, NEW st \in {"pending", "paused"},
           Passes(w, op, r, t, st)
    PROVE  /\ Tokens' = IF op = "loop_report" THEN {} ELSE {Len(jobs) + 1}
           /\ EveryNth' = EveryNth /\ approvals' = approvals
           /\ Phase(worker[w].job) /\ Busy(w) /\ worker[w].job \in JobIds
           /\ Since < EveryNth
           /\ Cardinality(Started) <= EveryNth * approvals + Since
           /\ ~Fresh(worker[w].job) => Cardinality(Started) + 1 <= EveryNth * approvals + Since
           /\ op # "execution_setup" => Started' = Started
<1>1. TypeOK /\ WorkersHold /\ Single /\ EveryNth # None /\ Busy(w)
  BY DEF InRound, Passes
<1>2. /\ Tokens' = IF op = "loop_report" THEN {} ELSE {Len(jobs) + 1}
      /\ worker[w].job \in Tokens /\ UNCHANGED <<policy, env>>
  BY <1>1, SinglePass
<1>3. EveryNth' = EveryNth /\ approvals' = approvals
  BY <1>2 DEF EveryNth, env
<1>4. Phase(worker[w].job) /\ worker[w].job \in JobIds
  BY <1>2 DEF InRound, PhaseHolds, Tokens
<1>5. op # "execution_setup" => Started' = Started
  BY <1>1, StartedNone DEF Passes
<1>6. QED
  BY <1>1, <1>2, <1>3, <1>4, <1>5, HeldPhase

\* Nothing is written.
LEMMA PhaseQuiet ==
    ASSUME InRound, Kept, OnlyStarted, Quiet
    PROVE  PhaseHolds'
<1>1. TypeOK /\ GatesOf({}) /\ Started' = Started
  BY QuietKnown, GatesSame DEF InRound, Quiet
<1>2. ASSUME NEW j \in Tokens' PROVE Phase(j)'
  <2>1. j \in JobIds /\ Phase(j)
    BY DEF Quiet, InRound, PhaseHolds, Tokens
  <2>2. QED
    BY <1>1, <2>1, PhaseKept DEF Quiet
<1>3. EveryNth' = EveryNth /\ approvals' = approvals
  BY DEF Quiet, EveryNth
<1>4. QED
  BY <1>1, <1>2, <1>3 DEF InRound, PhaseHolds

\* The experiment and the recommendation keep the run's phase.
LEMMA PhaseHands ==
    ASSUME InRound, Kept, NEW w \in Workers, Hands(w)
    PROVE  PhaseHolds'
<1>1. PICK op \in {"recommend", "loop_decide"} : Passes(w, op, Job(w).run, 0, "pending")
  BY DEF Hands
<1>2. /\ Tokens' = {Len(jobs) + 1} /\ EveryNth' = EveryNth /\ approvals' = approvals
      /\ Phase(worker[w].job) /\ worker[w].job \in JobIds /\ Busy(w) /\ Since < EveryNth
      /\ Cardinality(Started) <= EveryNth * approvals + Since /\ Started' = Started
  BY <1>1, RoundPass
<1>3. Since' = Since
  BY DEF Hands, Since, budget
<1>4. runs'[Job(w).run].gates = 0
  <2>1. Job(w).run \in RunIds
    BY <1>2, JobOf DEF InRound, Busy
  <2>2. runs[Job(w).run].gates = 0
    BY <1>2 DEF Hands, Phase, Fresh, Job
  <2>3. QED
    BY <2>1, <2>2 DEF Hands, GatesOf
<1>5. PICK k : k = Len(jobs) + 1
  OBVIOUS
<1>6. Phase(k)'
  BY <1>1, <1>2, <1>3, <1>4, <1>5, FreshPhase DEF InRound, Passes
<1>7. QED
  BY <1>2, <1>5, <1>6 DEF PhaseHolds, InRound

\* A run is added to those started.
LEMMA StartedMore ==
    ASSUME TypeOK, NEW r, NEW t, NEW st, Inserts("execution_setup", r, t, st)
    PROVE  /\ Cardinality(Started') \in Nat /\ Cardinality(Started') <= Cardinality(Started) + 1
           /\ Cardinality(Started') >= Cardinality(Started)
           /\ r \in Known => Started' = Started
           /\ r \notin Known => Cardinality(Started') = Cardinality(Started) + 1
<1>1. Started' = Started \cup ({r} \ {1})
  BY StartedOne
<1>2. IsFiniteSet(Started) /\ Cardinality(Started) \in Nat
  BY Finite
<1>3. CASE r \in Known
  <2>1. Started' = Started
    BY <1>1, <1>3 DEF Known
  <2>2. QED
    BY <1>2, <1>3, <2>1
<1>4. CASE r \notin Known
  <2>1. Started' = Started \cup {r} /\ r \notin Started
    BY <1>1, <1>4 DEF Known
  <2>2. Cardinality(Started') = Cardinality(Started) + 1
    BY <1>2, <2>1, FS_AddElement
  <2>3. QED
    BY <1>2, <1>4, <2>2
<1>5. QED
  BY <1>3, <1>4

\* A run that is paid for starts, fresh.
LEMMA PhaseStarts ==
    ASSUME InRound, NEW w \in Workers, NEW r, Passes(w, "execution_setup", r, 0, "pending"),
           runs'[r].gates = 0, UNCHANGED last_gate, total' \in Nat,
           Cardinality(Started) + 1 <= EveryNth * approvals + (total' - last_gate),
           total' - last_gate < EveryNth
    PROVE  PhaseHolds'
<1>1. /\ Tokens' = {Len(jobs) + 1} /\ EveryNth' = EveryNth /\ approvals' = approvals
  BY RoundPass
<1>2. Since' = total' - last_gate
  BY DEF Since
<1>3. /\ Cardinality(Started') \in Nat /\ Cardinality(Started') <= Cardinality(Started) + 1
  BY StartedMore DEF Passes, InRound
<1>4. /\ EveryNth \in Nat /\ EveryNth * approvals \in Nat /\ Cardinality(Started) \in Nat
      /\ EveryNth * (approvals + 1) = EveryNth * approvals + EveryNth /\ last_gate \in Nat
  BY Numbers DEF InRound
<1>5. Cardinality(Started') <= EveryNth' * approvals' + Since' /\ Since' < EveryNth'
  BY <1>1, <1>2, <1>3, <1>4
<1>6. PICK k : k = Len(jobs) + 1
  OBVIOUS
<1>7. Phase(k)'
  BY <1>5, <1>6, FreshPhase DEF InRound, Passes
<1>8. Cardinality(Started') < EveryNth' * (approvals' + 1)
  <2>1. \A s, m, p, g, n \in Int : m <= s + 1 /\ s + 1 <= p + g /\ g < n => m < p + n
    OBVIOUS
  <2>2. Cardinality(Started') < EveryNth * approvals + EveryNth
    <3>1. /\ Cardinality(Started) \in Int /\ Cardinality(Started') \in Int /\ EveryNth \in Int
          /\ total' - last_gate \in Int
      BY <1>3, <1>4
    <3>2. EveryNth * approvals \in Int
      BY <1>4
    <3>3. QED
      BY <1>3, <2>1, <3>1, <3>2, Zenon
  <2>3. QED
    BY <1>1, <1>4, <2>2, Zenon
<1>9. QED
  BY <1>1, <1>6, <1>7, <1>8 DEF PhaseHolds

\* An approved run starts.
LEMMA PhasePrepared ==
    ASSUME InRound, NEW w \in Workers, StartsPrepared(w)
    PROVE  PhaseHolds'
<1>1. /\ Passes(w, "execution_setup", Job(w).target, 0, "pending") /\ Job(w).op = "loop_decide"
      /\ Job(w).target # 0 /\ UNCHANGED <<budget, last_gate, runs>>
  BY DEF StartsPrepared
<1>2. /\ Phase(worker[w].job) /\ Since < EveryNth
      /\ ~Fresh(worker[w].job) => Cardinality(Started) + 1 <= EveryNth * approvals + Since
  BY <1>1, RoundPass
<1>3. ~Fresh(worker[w].job)
  BY <1>1 DEF Fresh, Undecided, Job
<1>4. runs'[Job(w).target].gates = 0
  BY <1>1, <1>2 DEF Phase, Job
<1>5. total' = total /\ total \in Nat
  BY <1>1 DEF budget, InRound, TypeOK
<1>6. QED
  BY <1>1, <1>2, <1>3, <1>4, <1>5, PhaseStarts DEF Since

\* A run waits for its approval.
LEMMA PhaseWaits ==
    ASSUME InRound, NEW w \in Workers, Waits(w), UNCHANGED budget
    PROVE  PhaseHolds'
<1>1. Passes(w, "loop_decide", Job(w).run, Len(runs) + 1, "paused")
  BY DEF Waits
<1>2. /\ Tokens' = {Len(jobs) + 1} /\ EveryNth' = EveryNth /\ approvals' = approvals /\ Started' = Started
      /\ Busy(w)
  BY <1>1, RoundPass
<1>3. Since' = 0
  BY DEF Waits, Since, budget, InRound, TypeOK
<1>4. Job(w).run \in RunIds
  BY <1>2, JobOf DEF InRound, Busy
<1>5. runs'[Job(w).run].gates > 0 /\ runs'[Len(runs) + 1].gates = 0
  <2>1. runs[Job(w).run].gates \in Nat
    BY <1>4, RunColumns DEF RunIds, InRound
  <2>2. QED
    BY <2>1 DEF Waits
<1>6. Len(runs) + 1 # 0
  BY Rows DEF InRound
<1>7. PICK k : k = Len(jobs) + 1
  OBVIOUS
<1>8. Phase(k)'
  BY <1>1, <1>3, <1>5, <1>6, <1>7, WaitPhase DEF InRound, Passes
<1>9. QED
  BY <1>2, <1>7, <1>8 DEF PhaseHolds, InRound

\* A spec that is paid for is compiled.
LEMMA PhaseCompiles ==
    ASSUME InRound, NEW w \in Workers, Compiles(w), total' \in Nat,
           Cardinality(Started) + 1 <= EveryNth * approvals + (total' - last_gate),
           total' - last_gate < EveryNth
    PROVE  PhaseHolds'
<1>1. PICK c \in Cards : Passes(w, "protocol_compile", Job(w).run, c, "pending")
  BY DEF Compiles
<1>2. /\ Tokens' = {Len(jobs) + 1} /\ EveryNth' = EveryNth /\ approvals' = approvals /\ Started' = Started
  BY <1>1, RoundPass
<1>3. Since' = total' - last_gate
  BY DEF Compiles, Since
<1>4. Cardinality(Started') + 1 <= EveryNth' * approvals' + Since' /\ Since' < EveryNth'
  BY <1>2, <1>3
<1>5. PICK k : k = Len(jobs) + 1
  OBVIOUS
<1>6. Phase(k)'
  BY <1>1, <1>4, <1>5, PaidPhase DEF InRound, Passes
<1>7. QED
  BY <1>2, <1>5, <1>6 DEF PhaseHolds, InRound

\* The loop stops.
LEMMA PhaseEnds ==
    ASSUME InRound, NEW w \in Workers, Ends(w)
    PROVE  PhaseHolds'
<1>1. /\ Tokens' = {} /\ EveryNth' = EveryNth /\ approvals' = approvals /\ Started' = Started
  BY RoundPass DEF Ends
<1>2. QED
  BY <1>1 DEF PhaseHolds, InRound

\* The loop pauses: the count begins again.
LEMMA PhasePauses ==
    ASSUME InRound, Kept, NEW w \in Workers, Busy(w), Job(w).op = "loop_decide", Job(w).target = 0,
           NEW n \in Nat, total' = n, Pauses(w, n)
    PROVE  PhaseHolds'
<1>1. /\ Tokens' = {worker[w].job} /\ worker[w].job \in JobIds /\ UNCHANGED <<policy, env>>
  BY SinglePause DEF InRound
<1>2. EveryNth' = EveryNth /\ approvals' = approvals
  BY <1>1 DEF EveryNth, env
<1>3. /\ JobIds' = JobIds /\ jobs'[worker[w].job].status = "paused"
  BY <1>1, Restated DEF Pauses, InRound
<1>4. Started' = Started
  BY <1>3, StartedKept DEF InRound, Kept
<1>5. Since' = 0
  <2>1. last_gate' = n /\ n - n = 0
    BY DEF Pauses
  <2>2. QED
    BY <2>1 DEF Since
<1>6. PICK k : k = worker[w].job
  OBVIOUS
<1>7. jobs'[k].op = "loop_decide" /\ jobs'[k].target = 0 /\ jobs'[k].run = Job(w).run
  BY <1>1, <1>6 DEF Kept, JobsKept, Job
<1>8. runs'[Job(w).run].gates > 0
  <2>1. Job(w).run \in 1..Len(runs)
    BY JobOf DEF InRound, Busy
  <2>2. runs[Job(w).run].gates \in Nat
    BY <2>1, RunColumns DEF InRound
  <2>3. QED
    BY <2>2 DEF Pauses
<1>9. Phase(k)'
  <2>1. ~Fresh(k)'
    BY <1>7, <1>8 DEF Fresh
  <2>2. QED
    BY <1>3, <1>5, <1>6, <1>7, <1>8, <2>1 DEF Phase
<1>10. QED
  BY <1>1, <1>2, <1>4, <1>6, <1>9 DEF PhaseHolds, InRound

\* The user resumes a gate: another round may begin.
LEMMA PhaseResumes ==
    ASSUME InRound, Kept, NEW j \in JobIds, Resumes(j)
    PROVE  PhaseHolds'
<1>1. /\ EveryNth' = EveryNth /\ approvals' = approvals + 1 /\ Since' = Since
      /\ JobIds' = JobIds /\ Tokens' = Tokens /\ j \in Tokens
      /\ jobs[j].op = "loop_decide" /\ jobs[j].status = "paused" /\ jobs'[j].status = "pending"
  BY DEF Resumes, EveryNth, Since, budget
<1>2. Started' = Started /\ Tokens' = {j}
  <2>1. Started' = Started
    BY <1>1, StartedKept DEF InRound, Kept
  <2>2. QED
    BY <1>1, <2>1 DEF InRound, Single
<1>3. Phase(j) /\ Since = 0 /\ runs[jobs[j].run].gates > 0
  BY <1>1 DEF InRound, PhaseHolds, Phase
<1>4. /\ EveryNth \in Nat /\ EveryNth >= 1 /\ EveryNth * approvals \in Nat /\ approvals \in Nat
      /\ EveryNth * (approvals + 1) = EveryNth * approvals + EveryNth
      /\ Cardinality(Started) \in Nat
  BY Numbers DEF InRound
<1>5. Cardinality(Started) < EveryNth * (approvals + 1)
  BY DEF InRound, PhaseHolds
<1>6. EveryNth * (approvals + 1) \in Nat /\ EveryNth * ((approvals + 1) + 1) = EveryNth * (approvals + 1) + EveryNth
  <2>1. \A n, a \in Nat : n * a \in Nat /\ n * (a + 1) = n * a + n /\ a + 1 \in Nat
    OBVIOUS
  <2>2. QED
    BY <1>4, <2>1, Zenon
<1>7. Cardinality(Started') < EveryNth' * (approvals' + 1)
  <2>1. Cardinality(Started) < EveryNth * (approvals + 1) + EveryNth
    BY <1>4, <1>5, <1>6
  <2>2. QED
    BY <1>1, <1>2, <1>6, <2>1, Zenon
<1>8. /\ jobs'[j].op = "loop_decide" /\ jobs'[j].run = jobs[j].run /\ jobs'[j].target = jobs[j].target
      /\ jobs[j].run \in RunIds
      /\ jobs[j].target # 0 => jobs[j].target \in RunIds
  <2>1. jobs'[j].op = "loop_decide" /\ jobs'[j].run = jobs[j].run /\ jobs'[j].target = jobs[j].target
    BY <1>1 DEF Kept, JobsKept
  <2>2. jobs[j].run \in RunIds
    BY JobColumns DEF RunIds, InRound
  <2>3. jobs[j].target # 0 => jobs[j].target \in RunIds
    BY <1>1, Rows DEF RunIds, InRound, TypeOK
  <2>4. QED
    BY <2>1, <2>2, <2>3
<1>9. Phase(j)'
  <2>1. /\ runs'[jobs[j].run].gates = runs[jobs[j].run].gates
        /\ jobs[j].target # 0 => runs'[jobs[j].target].gates = runs[jobs[j].target].gates
    BY <1>8 DEF Resumes, GatesOf
  <2>2. ~Fresh(j)'
    BY <1>3, <1>8, <2>1 DEF Fresh
  <2>3. Cardinality(Started') + 1 <= EveryNth' * approvals' + Since' /\ Since' < EveryNth'
    <3>1. Cardinality(Started) + 1 <= EveryNth * (approvals + 1) + 0 /\ 0 < EveryNth
      BY <1>4, <1>5, <1>6
    <3>2. QED
      BY <1>1, <1>2, <1>3, <3>1, Zenon
  <2>4. /\ jobs'[j].op = "loop_decide" /\ jobs'[j].target # 0 =>
              runs'[jobs'[j].target].gates = 0 /\ runs'[jobs'[j].run].gates > 0
    BY <1>1, <1>3, <1>8, <2>1 DEF Phase
  <2>5. QED
    BY <1>1, <1>8, <2>2, <2>3, <2>4 DEF Phase
<1>10. QED
  BY <1>2, <1>7, <1>9 DEF PhaseHolds

\* A decision that stops, and one that pauses.
LEMMA StopPauseKind ==
    ASSUME TypeOK, WorkersHold, NEW w \in Workers, worker[w].pc = "deciding", UNCHANGED specs, NEW n
    PROVE  (Stop(w) => Ends(w)) /\ (PauseForGate(w, n) => Pauses(w, n))
<1>1. Busy(w) /\ Job(w).op = "loop_decide"
  BY DEF Busy, WorkersHold, WorkerHolds
<1>2. ASSUME Stop(w) PROVE Ends(w)
  BY <1>1, <1>2 DEF Stop, Ends, Passes, Inserts
<1>3. ASSUME PauseForGate(w, n) PROVE Pauses(w, n)
  <2>1. runs' = RaiseGates(Job(w).run) /\ Restates(worker[w].job, "paused") /\ last_gate' = n
        /\ Return(w, "success", "none")
    BY <1>3 DEF PauseForGate, RaiseGates, Restates
  <2>2. Job(w).run \in RunIds
    BY JobOf
  <2>3. QED
    BY <2>1, <2>2, GatesOne DEF Pauses
<1>4. QED
  BY <1>2, <1>3

\* A decision keeps the phase, whatever it comes to: going on is paid for by
\* the charge, or by the approval that resumed it.
LEMMA PhaseOutcome ==
    ASSUME InRound, Kept, NEW w \in Workers, worker[w].pc = "deciding", NEW n \in Nat, total' = n,
           Outcome(w, n), UNCHANGED specs,
           Cardinality(Started) + 1 <= EveryNth * approvals + (n - last_gate), n - last_gate < EveryNth
    PROVE  PhaseHolds'
<1>1. /\ Busy(w) /\ Job(w).op = "loop_decide" /\ Job(w).target = 0
      /\ Ends(w) \/ Compiles(w) \/ Pauses(w, n) \/ \E s \in 1..Len(specs) : StartsNew(w, s)
  BY OutcomeKind DEF InRound
<1>2. /\ Cardinality(Started) + 1 <= EveryNth * approvals + (total' - last_gate)
      /\ total' - last_gate < EveryNth /\ total' \in Nat
  BY Zenon
<1>3. CASE Ends(w)
  BY <1>3, PhaseEnds
<1>4. CASE Compiles(w)
  BY <1>2, <1>4, PhaseCompiles
<1>5. CASE Pauses(w, n)
  BY <1>1, <1>5, PhasePauses
<1>6. ASSUME NEW s, StartsNew(w, s) PROVE PhaseHolds'
  <2>1. /\ Passes(w, "execution_setup", Len(runs) + 1, 0, "pending") /\ UNCHANGED last_gate
        /\ runs'[Len(runs) + 1].gates = 0
    BY <1>6 DEF StartsNew
  <2>2. PICK r : r = Len(runs) + 1
    OBVIOUS
  <2>3. QED
    BY <1>2, <2>1, <2>2, PhaseStarts
<1>7. QED
  BY <1>1, <1>3, <1>4, <1>5, <1>6

\* A decision keeps the phase.
LEMMA PhaseDecides ==
    ASSUME InRound, Kept, NEW w \in Workers, DecideFresh(w) \/ DecideResumed(w)
    PROVE  PhaseHolds'
<1>1. worker[w].pc = "deciding" /\ UNCHANGED specs /\ TypeOK /\ WorkersHold /\ Single
  BY FreshMeans, ResumedMeans DEF InRound
<1>2. Busy(w) /\ Job(w).op = "loop_decide" /\ Job(w).target = 0
  BY <1>1 DEF Busy, WorkersHold, WorkerHolds
<1>3. /\ worker[w].saw.total = total /\ worker[w].saw.gates = runs[Job(w).run].gates
      /\ worker[w].saw.per = per
  BY <1>1 DEF Single, ReadsHold
<1>4. worker[w].job \in Tokens
  BY <1>1, <1>2, OnlyHolder DEF Single
<1>5. /\ Since < EveryNth /\ Cardinality(Started) <= EveryNth * approvals + Since
      /\ ~Fresh(worker[w].job) => Cardinality(Started) + 1 <= EveryNth * approvals + Since
  BY <1>1, <1>2, <1>4, HeldPhase DEF InRound, PhaseHolds
<1>6. /\ EveryNth \in Nat /\ EveryNth * approvals \in Nat /\ Cardinality(Started) \in Nat
      /\ total \in Nat /\ last_gate \in Nat
  BY Numbers DEF InRound
<1>7. CASE DecideFresh(w)
  <2> DEFINE n == total + 1
  <2>1. total' = n /\ n \in Nat /\ FreshOutcome(w)
    BY <1>3, <1>6, <1>7, FreshMeans DEF Charges, InRound
  <2>2. \/ Stop(w) \/ PauseForGate(w, n)
        \/ /\ Outcome(w, n)
           /\ \E cur, next, promotion : Gate(Max({0, n - last_gate}), cur, next, promotion, FALSE) = "none"
    BY <1>3, <2>1 DEF FreshOutcome
  <2>3. CASE Stop(w)
    BY <1>1, <2>3, StopPauseKind, PhaseEnds
  <2>4. CASE PauseForGate(w, n)
    BY <1>1, <1>2, <2>1, <2>4, StopPauseKind, PhasePauses
  <2>5. CASE /\ Outcome(w, n)
             /\ \E cur, next, promotion : Gate(Max({0, n - last_gate}), cur, next, promotion, FALSE) = "none"
    <3>1. Since + 1 < EveryNth
      BY <2>5, UnderGate DEF InRound
    <3>2. n - last_gate = Since + 1 /\ Since \in Int
      BY <1>6 DEF Since
    <3>3. Cardinality(Started) + 1 <= EveryNth * approvals + (n - last_gate) /\ n - last_gate < EveryNth
      <4>1. \A s, p, g \in Int : s <= p + g => s + 1 <= p + (g + 1)
        OBVIOUS
      <4>2. Cardinality(Started) \in Int /\ EveryNth * approvals \in Int
        BY <1>6
      <4>3. Cardinality(Started) + 1 <= EveryNth * approvals + (Since + 1)
        BY <1>5, <3>2, <4>1, <4>2, Zenon
      <4> HIDE DEF n
      <4>4. QED
        BY <3>1, <3>2, <4>3, Zenon
    <3>4. QED
      BY <1>1, <2>1, <2>5, <3>3, PhaseOutcome
  <2>6. QED
    BY <2>2, <2>3, <2>4, <2>5
<1>8. CASE DecideResumed(w)
  <2>1. /\ worker[w].saw.gates = 1 /\ Outcome(w, total) /\ total' = total
    BY <1>3, <1>8, ResumedMeans, SameBudget DEF InRound
  <2>2. ~Fresh(worker[w].job)
    BY <1>3, <2>1 DEF Fresh, Job
  <2>3. QED
    BY <1>1, <1>5, <1>6, <2>1, <2>2, PhaseOutcome DEF Since
<1>9. QED
  BY <1>7, <1>8

\* Every step keeps the phase, and honours the gate.
LEMMA StepPhase ==
    ASSUME TypeOK, WorkersHold, OnlyStarted, Kept, SingleToken, InPhase, GateHonoured, Next
    PROVE  InPhase' /\ GateHonoured'
<1> SUFFICES ASSUME EveryNth' # None, requeued' = 0 PROVE PhaseHolds'
  BY PhasePartsNext
<1>1. requeued = 0 /\ EveryNth # None
  BY StepSingle DEF Kept, EveryNth
<1>2. InRound
  BY <1>1, SingleParts, PhaseParts DEF InRound
<1>3. ASSUME NEW w \in Workers, ClaimJob(w) \/ SettleStep(w) \/ Crash(w) \/ DecideRaises(w)
                                \/ LoopReport(w) \/ DecideRead(w) \/ CompileSpec(w)
      PROVE  PhaseHolds'
  BY <1>2, <1>3, ClaimQuiet, SettleQuiet, RaiseQuiet, ReadQuiet, PhaseQuiet
<1>4. ASSUME NEW w \in Workers, RunExperiment(w) \/ Recommend(w) PROVE PhaseHolds'
  BY <1>2, <1>4, HandKind, PhaseHands
<1>5. ASSUME NEW w \in Workers, StartPrepared(w) PROVE PhaseHolds'
  BY <1>2, <1>5, PreparedKind, PhasePrepared
<1>6. ASSUME NEW w \in Workers, PrepareRun(w) PROVE PhaseHolds'
  <2>1. CASE Waits(w)
    BY <1>2, <1>6, <2>1, PrepareKind, PhaseWaits
  <2>2. ASSUME NEW s, StartsNew(w, s) PROVE PhaseHolds'
    <3>1. /\ Passes(w, "execution_setup", Len(runs) + 1, 0, "pending") /\ UNCHANGED last_gate
          /\ runs'[Len(runs) + 1].gates = 0
      BY <2>2 DEF StartsNew
    <3>2. UNCHANGED budget /\ Job(w).op = "protocol_compile"
      BY <1>6, PrepareKind
    <3>3. total' = total /\ total \in Nat
      BY <3>2, SameBudget DEF TypeOK
    <3>4. ~Fresh(worker[w].job)
      BY <3>2 DEF Fresh, Undecided, Job
    <3>5. /\ Since < EveryNth /\ Cardinality(Started) + 1 <= EveryNth * approvals + Since
      BY <1>2, <3>1, <3>4, RoundPass
    <3>6. QED
      BY <1>2, <3>1, <3>3, <3>5, PhaseStarts DEF Since
  <2>3. QED
    BY <1>6, <2>1, <2>2, PrepareKind
<1>7. ASSUME NEW w \in Workers, DecideFresh(w) \/ DecideResumed(w) PROVE PhaseHolds'
  BY <1>2, <1>7, PhaseDecides
<1>8. CASE StopLoop
  BY <1>2, <1>8, StopQuiet, PhaseQuiet
<1>9. CASE ReclaimStale
  BY <1>2, <1>9, ReclaimKind, PhaseQuiet
<1>10. CASE ResumeGate
  BY <1>2, <1>10, ResumeKind, PhaseResumes
<1>11. QED
  BY <1>3, <1>4, <1>5, <1>6, <1>7, <1>8, <1>9, <1>10 DEF Next, OperatorStep

-----------------------------------------------------------------------------
(* Charges and what they cover. *)

\* The counted sets of a state, and of the next one.
Counted ==
    /\ IsFiniteSet(Started) /\ Cardinality(Started) \in Nat
    /\ IsFiniteSet(Tokens) /\ Cardinality(Tokens) \in Nat
    /\ IsFiniteSet(ToCharge) /\ Cardinality(ToCharge) \in Nat
LEMMA CountedNow == TypeOK => Counted
BY Finite DEF Counted

\* The same after a step.
LEMMA CountedNext == TypeOK' => Counted'
BY CountedNow, PTL

\* A set within the union of two others has no more elements than both.
LEMMA UnionBound ==
    ASSUME NEW A, NEW B, IsFiniteSet(B), NEW R, IsFiniteSet(R), A \subseteq B \cup R
    PROVE  /\ Cardinality(A) \in Nat /\ Cardinality(B) \in Nat /\ Cardinality(R) \in Nat
           /\ Cardinality(A) <= Cardinality(B) + Cardinality(R)
<1>1. /\ IsFiniteSet(B \cup R)
      /\ Cardinality(B \cup R) = Cardinality(B) + Cardinality(R) - Cardinality(B \cap R)
  BY FS_Union
<1>2. IsFiniteSet(A) /\ Cardinality(A) <= Cardinality(B \cup R)
  BY <1>1, FS_Subset
<1>3. IsFiniteSet(B \cap R)
  BY FS_Intersection
<1>4. /\ Cardinality(A) \in Nat /\ Cardinality(B) \in Nat /\ Cardinality(R) \in Nat
      /\ Cardinality(B \cap R) \in Nat /\ Cardinality(B \cup R) \in Nat
  BY <1>1, <1>2, <1>3, FS_CardinalityType
<1>5. QED
  BY <1>1, <1>2, <1>4

\* A policy has a limit, and limits are numbers.
LEMMA Limits ==
    ASSUME NEW pol \in Policies
    PROVE  /\ pol.max_total_runs # None => pol.max_total_runs \in Nat
           /\ pol.max_total_runs = None => pol.max_runs_per_hypothesis \in Nat
           /\ pol.max_runs_per_hypothesis \in Nat \cup {None}
<1>1. pol \in PolicyType /\ (pol.max_total_runs # None \/ pol.max_runs_per_hypothesis # None)
  BY LoopAssumption
<1>2. QED
  BY <1>1 DEF PolicyType

\* The charges that left room are not more than the budget has room for.
LEMMA ChargesFit ==
    ASSUME NEW pol \in Policies, NEW n \in Nat, NEW p \in [Cards -> Nat]
    PROVE  /\ IsFiniteSet(ChargesOf(pol, n, p)) /\ Cardinality(ChargesOf(pol, n, p)) \in Nat
           /\ Cardinality(ChargesOf(pol, n, p)) <=
                 IF pol.max_total_runs # None THEN Room(pol.max_total_runs)
                 ELSE NCards * Room(pol.max_runs_per_hypothesis)
<1>1. CASE pol.max_total_runs # None
  <2> DEFINE m == pol.max_total_runs
  <2>1. m \in Nat /\ Room(m) \in Nat
    BY <1>1, Limits DEF Room
  <2>2. ChargesOf(pol, n, p) \subseteq 1..Room(m)
    BY <1>1, <2>1 DEF ChargesOf, Room
  <2>3. IsFiniteSet(1..Room(m)) /\ Cardinality(1..Room(m)) = Room(m)
    BY <2>1, FS_Interval
  <2>4. QED
    BY <1>1, <2>1, <2>2, <2>3, FS_Subset, FS_CardinalityType
<1>2. CASE pol.max_total_runs = None
  <2> DEFINE m == pol.max_runs_per_hypothesis
  <2>1. m \in Nat /\ Room(m) \in Nat /\ NCards \in Nat
    BY <1>2, Limits, LoopAssumption DEF Room
  <2>2. ChargesOf(pol, n, p) \subseteq Cards \X (1..Room(m))
    <3>1. ASSUME NEW ck \in Cards \X Nat, ck[2] \in 1..p[ck[1]], ck[2] < m
          PROVE  ck \in Cards \X (1..Room(m))
      <4>1. ck[2] \in Nat /\ p[ck[1]] \in Nat
        BY <3>1
      <4>2. ck[2] \in 1..Room(m)
        BY <2>1, <3>1, <4>1 DEF Room
      <4>3. QED
        BY <3>1, <4>2
    <3>2. QED
      BY <1>2, <3>1 DEF ChargesOf
  <2>3. /\ IsFiniteSet(1..Room(m)) /\ Cardinality(1..Room(m)) = Room(m)
        /\ IsFiniteSet(Cards) /\ Cardinality(Cards) = NCards
    <3>1. ASSUME NEW b \in Nat PROVE IsFiniteSet(1..b) /\ Cardinality(1..b) = b
      BY FS_Interval
    <3>2. QED
      BY <2>1, <3>1, Zenon DEF Cards
  <2>4. /\ IsFiniteSet(Cards \X (1..Room(m)))
        /\ Cardinality(Cards \X (1..Room(m))) = NCards * Room(m)
    BY <2>3, FS_Product
  <2>5. IsFiniteSet(ChargesOf(pol, n, p)) /\ Cardinality(ChargesOf(pol, n, p)) <= NCards * Room(m)
    BY <2>2, <2>4, FS_Subset
  <2>6. QED
    BY <1>2, <2>5, FS_CardinalityType
<1>3. QED
  BY <1>1, <1>2

\* A charge is one more, unless it reaches a limit.
LEMMA ChargesGrow ==
    ASSUME NEW pol \in Policies, NEW n \in Nat, NEW p \in [Cards -> Nat], NEW c \in Cards,
           NEW q, q = [p EXCEPT ![c] = p[c] + 1]
    PROVE  /\ Cardinality(ChargesOf(pol, n + 1, q)) >= Cardinality(ChargesOf(pol, n, p))
           /\ ~LimitReached(n + 1, pol.max_total_runs) /\ ~LimitReached(p[c] + 1, pol.max_runs_per_hypothesis)
                 => Cardinality(ChargesOf(pol, n + 1, q)) >= Cardinality(ChargesOf(pol, n, p)) + 1
<1> DEFINE A == ChargesOf(pol, n, p)
           B == ChargesOf(pol, n + 1, q)
<1>1. q \in [Cards -> Nat] /\ n + 1 \in Nat /\ \A d \in Cards : q[d] >= p[d]
  OBVIOUS
<1>2. IsFiniteSet(A) /\ IsFiniteSet(B) /\ Cardinality(A) \in Nat /\ Cardinality(B) \in Nat
  BY <1>1, ChargesFit
<1>3. A \subseteq B
  <2>1. CASE pol.max_total_runs # None
    BY <2>1 DEF ChargesOf
  <2>2. CASE pol.max_total_runs = None
    <3>1. ASSUME NEW ck \in Cards \X Nat, ck[2] \in 1..p[ck[1]] PROVE ck[2] \in 1..q[ck[1]]
      BY <1>1, <3>1
    <3>2. QED
      BY <2>2, <3>1 DEF ChargesOf
  <2>3. QED
    BY <2>1, <2>2
<1>4. ASSUME ~LimitReached(n + 1, pol.max_total_runs), ~LimitReached(p[c] + 1, pol.max_runs_per_hypothesis)
      PROVE  \E x : x \in B /\ x \notin A
  <2>1. CASE pol.max_total_runs # None
    <3>1. n + 1 < pol.max_total_runs
      BY <1>4, <2>1, Limits DEF LimitReached
    <3>2. n + 1 \in B /\ n + 1 \notin A
      BY <2>1, <3>1 DEF ChargesOf
    <3>3. QED
      BY <3>2
  <2>2. CASE pol.max_total_runs = None
    <3>1. p[c] + 1 < pol.max_runs_per_hypothesis
      BY <1>4, <2>2, Limits DEF LimitReached, None
    <3>2. q[c] = p[c] + 1 /\ p[c] \in Nat
      OBVIOUS
    <3>3. <<c, p[c] + 1>> \in Cards \X Nat
      BY <3>2
    <3>4. <<c, p[c] + 1>> \in B /\ <<c, p[c] + 1>> \notin A
      BY <2>2, <3>1, <3>2, <3>3 DEF ChargesOf
    <3>5. QED
      BY <3>4
  <2>3. QED
    BY <2>1, <2>2
<1> HIDE DEF A, B
<1>5. Cardinality(B) >= Cardinality(A)
  BY <1>2, <1>3, FS_Subset
<1>6. ASSUME NEW x, x \in B, x \notin A PROVE Cardinality(B) >= Cardinality(A) + 1
  <2>1. A \cup {x} \subseteq B /\ IsFiniteSet(A \cup {x}) /\ Cardinality(A \cup {x}) = Cardinality(A) + 1
    BY <1>2, <1>3, <1>6, FS_AddElement
  <2>2. QED
    BY <1>2, <2>1, FS_Subset
<1>7. QED
  BY <1>4, <1>5, <1>6 DEF A, B

\* A run whose decision is still to come keeps that, unless it is in R: its
\* token stays or is passed on for the same run.
LEMMA ToChargeKept ==
    ASSUME TypeOK, Kept, NEW R, GatesOf(R),
           \A j \in JobIds' : j \notin JobIds /\ jobs'[j].op = "protocol_compile" => jobs'[j].run \in R,
           \A j \in Tokens : Undecided(j) =>
               \/ jobs[j].run \in R
               \/ \E k \in Tokens' : jobs'[k].run = jobs[j].run /\ Undecided(k)'
    PROVE  ToCharge \subseteq ToCharge' \cup R
<1> SUFFICES ASSUME NEW r \in ToCharge, r \notin R PROVE r \in ToCharge'
  OBVIOUS
<1>1. r \in RunIds /\ r \in RunIds' /\ runs[r].gates = 0
  BY Rows DEF ToCharge, Kept, RunsKept, RunIds
<1>2. runs'[r].gates = 0
  BY <1>1 DEF GatesOf
<1>3. \A j \in JobIds' : jobs'[j].op = "protocol_compile" => jobs'[j].run # r
  BY DEF ToCharge, Kept, JobsKept
<1>4. \E k \in Tokens' : jobs'[k].run = r /\ Undecided(k)'
  BY DEF ToCharge
<1>5. QED
  BY <1>1, <1>2, <1>3, <1>4 DEF ToCharge

\* A token that stays is one of the same run, to be decided or not.
LEMMA StaysUndecided ==
    ASSUME TypeOK, Kept, NEW j \in Tokens, Undecided(j)
    PROVE  jobs'[j].run = jobs[j].run /\ Undecided(j)'
<1>1. j \in JobIds
  BY DEF Tokens
<1>2. QED
  BY <1>1 DEF Undecided, Kept, JobsKept

\* A run put into the queue for the first time is one to be decided.
LEMMA ToChargeNew ==
    ASSUME TypeOK, WorkersHold, NEW w \in Workers, NEW r, Passes(w, "execution_setup", r, 0, "pending"),
           r \in RunIds', runs'[r].gates = 0,
           \A j \in JobIds : jobs[j].op # "loop_report" => jobs[j].run # r
    PROVE  r \in ToCharge' /\ r \notin ToCharge
<1>1. r \notin ToCharge
  BY DEF ToCharge, Tokens
<1>2. PICK k : k = Len(jobs) + 1
  OBVIOUS
<1>3. /\ jobs'[k] = NewJob("execution_setup", r, 0, "pending")
      /\ \A j \in JobIds : jobs'[j] = jobs[j]
      /\ \A j \in JobIds' : j \in JobIds \/ j = k
  BY <1>2, Inserted DEF Passes
<1>4. jobs'[k].op = "execution_setup" /\ jobs'[k].run = r
  BY <1>3, NewJobColumns
<1>5. k \in Tokens'
  BY <1>2, PassToken
<1>6. \A j \in JobIds' : jobs'[j].op = "protocol_compile" => jobs'[j].run # r
  BY <1>3, <1>4
<1>7. Undecided(k)'
  BY <1>4 DEF Undecided
<1>8. QED
  BY <1>1, <1>4, <1>5, <1>6, <1>7 DEF ToCharge

\* What a step is accounted with.
Account == TypeOK /\ TypeOK' /\ Kept /\ WorkersHold /\ OnlyStarted /\ Covered /\ ~overlap'

\* The numbers of the account.
LEMMA AccountNumbers ==
    ASSUME Account
    PROVE  /\ Cardinality(Started) \in Nat /\ Cardinality(Started') \in Nat
           /\ Cardinality(Tokens) \in Nat /\ Cardinality(Tokens') \in Nat
           /\ Cardinality(ToCharge) \in Nat /\ Cardinality(ToCharge') \in Nat
           /\ Cardinality(Charged) \in Nat /\ Cardinality(Charged') \in Nat
           /\ requeued \in Nat /\ requeued' \in Nat
           /\ IsFiniteSet(Tokens) /\ IsFiniteSet(Tokens')
           /\ IsFiniteSet(ToCharge) /\ IsFiniteSet(ToCharge')
           /\ Charged' = ChargesOf(policy, total', per')
<1>1. Counted /\ Counted'
  BY CountedNow, CountedNext DEF Account
<1>2. policy' = policy /\ policy \in Policies
  BY DEF Account, Kept, TypeOK
<1>3. /\ total \in Nat /\ per \in [Cards -> Nat] /\ total' \in Nat /\ per' \in [Cards -> Nat]
      /\ requeued \in Nat /\ requeued' \in Nat
  BY DEF Account, TypeOK
<1>4. Charged = ChargesOf(policy, total, per) /\ Charged' = ChargesOf(policy, total', per')
  BY <1>2 DEF Charged
<1>5. Cardinality(Charged) \in Nat /\ Cardinality(Charged') \in Nat
  BY <1>2, <1>3, <1>4, ChargesFit
<1>6. QED
  BY <1>1, <1>3, <1>4, <1>5 DEF Counted

\* The charges without one.
LEMMA SameCharged ==
    ASSUME Account, UNCHANGED budget
    PROVE  Charged' = Charged /\ ~overlap
BY AccountNumbers DEF budget, Charged, Account

\* The account is balanced by a comparison of both sides.
LEMMA Balanced ==
    ASSUME Account, ~overlap,
           (Cardinality(Started') + Cardinality(Tokens'))
                 + (Cardinality(Charged) + requeued + Cardinality(ToCharge))
              <= (Cardinality(Started) + Cardinality(Tokens))
                 + (Cardinality(Charged') + requeued' + Cardinality(ToCharge'))
    PROVE  Covered'
<1>1. Cardinality(Started) + Cardinality(Tokens)
         <= Cardinality(Charged) + requeued + Cardinality(ToCharge)
  BY DEF Account, Covered
<1>2. Cardinality(Started') + Cardinality(Tokens')
         <= Cardinality(Charged') + requeued' + Cardinality(ToCharge')
  BY <1>1, AccountNumbers
<1>3. QED
  BY <1>2 DEF Covered

\* A quiet step takes as many tokens as it takes runs to be decided, or more.
LEMMA CoveredQuiet ==
    ASSUME Account, Quiet, requeued' = requeued
    PROVE  Covered'
<1>1. Started' = Started /\ Charged' = Charged /\ ~overlap
  BY QuietKnown, SameCharged DEF Account, Quiet
<1> DEFINE D == Tokens \ Tokens'
           R == {jobs[j].run : j \in D}
<1>2. D \in SUBSET JobIds
  BY DEF Tokens
<1>3. /\ IsFiniteSet(D) /\ Cardinality(D) \in Nat /\ IsFiniteSet(R)
      /\ Cardinality(R) \in Nat /\ Cardinality(R) <= Cardinality(D)
  BY <1>2, RunsOfJobs DEF Account
<1>4. ToCharge \subseteq ToCharge' \cup R
  <2>1. GatesOf(R)
    BY GatesSame DEF Quiet, GatesOf
  <2>2. \A j \in JobIds' : j \notin JobIds /\ jobs'[j].op = "protocol_compile" => jobs'[j].run \in R
    BY DEF Quiet
  <2>3. ASSUME NEW j \in Tokens, Undecided(j)
        PROVE  jobs[j].run \in R \/ \E k \in Tokens' : jobs'[k].run = jobs[j].run /\ Undecided(k)'
    BY <2>3, StaysUndecided DEF Account
  <2>4. QED
    BY <2>1, <2>2, <2>3, ToChargeKept DEF Account
<1>5. Cardinality(ToCharge) <= Cardinality(ToCharge') + Cardinality(R)
  BY <1>3, <1>4, AccountNumbers, UnionBound
<1>6. Cardinality(Tokens) = Cardinality(Tokens') + Cardinality(D)
  <2>1. Tokens \cap Tokens' = Tokens'
    BY DEF Quiet
  <2>2. Cardinality(D) = Cardinality(Tokens) - Cardinality(Tokens \cap Tokens')
    BY AccountNumbers, FS_Difference
  <2>3. Cardinality(D) = Cardinality(Tokens) - Cardinality(Tokens')
    BY <2>1, <2>2, Zenon
  <2> HIDE DEF D
  <2>4. QED
    BY <1>3, <2>3, AccountNumbers
<1> HIDE DEF D, R
<1>7. QED
  BY <1>1, <1>3, <1>5, <1>6, AccountNumbers, Balanced

\* A row put back is a re-execution.
LEMMA CoveredReclaim ==
    ASSUME Account, ReclaimStale
    PROVE  Covered'
<1>1. /\ UNCHANGED <<policy, runs, budget>> /\ JobIds' = JobIds
      /\ Tokens \subseteq Tokens' /\ Tokens' \subseteq Tokens \cup Reclaimable
      /\ requeued' = requeued + Cardinality(Reclaimable)
  BY ReclaimKind DEF Account
<1>2. Charged' = Charged /\ ~overlap
  BY <1>1, SameCharged
<1>3. Started' = Started
  BY <1>1, StartedKept DEF Account, Kept
<1>4. IsFiniteSet(Reclaimable) /\ Cardinality(Reclaimable) \in Nat
  BY ReclaimableFinite DEF Account
<1>5. Cardinality(Tokens') <= Cardinality(Tokens) + Cardinality(Reclaimable)
  BY <1>1, <1>4, AccountNumbers, UnionBound
<1>6. ToCharge \subseteq ToCharge' \cup {}
  <2>1. GatesOf({})
    BY <1>1, GatesSame
  <2>2. ASSUME NEW j \in Tokens, Undecided(j)
        PROVE  \E k \in Tokens' : jobs'[k].run = jobs[j].run /\ Undecided(k)'
    BY <1>1, <2>2, StaysUndecided DEF Account
  <2>3. QED
    BY <1>1, <2>1, <2>2, ToChargeKept DEF Account
<1>7. Cardinality(ToCharge) <= Cardinality(ToCharge')
  BY <1>6, AccountNumbers, FS_Subset
<1>8. QED
  BY <1>2, <1>3, <1>4, <1>5, <1>7, <1>1, AccountNumbers, Balanced

\* A resumed row was a token already.
LEMMA CoveredResume ==
    ASSUME Account, ResumeGate
    PROVE  Covered'
<1>1. PICK j \in JobIds : Resumes(j)
  BY ResumeKind DEF Account
<1>2. UNCHANGED <<budget, requeued>> /\ JobIds' = JobIds /\ Tokens' = Tokens /\ GatesOf({})
  BY <1>1 DEF Resumes
<1>3. Charged' = Charged /\ ~overlap
  BY <1>2, SameCharged
<1>4. Started' = Started
  BY <1>2, StartedKept DEF Account, Kept
<1>5. ToCharge \subseteq ToCharge' \cup {}
  <2>1. ASSUME NEW i \in Tokens, Undecided(i)
        PROVE  \E k \in Tokens' : jobs'[k].run = jobs[i].run /\ Undecided(k)'
    BY <1>2, <2>1, StaysUndecided DEF Account
  <2>2. QED
    BY <1>2, <2>1, ToChargeKept DEF Account
<1>6. Cardinality(ToCharge) <= Cardinality(ToCharge')
  BY <1>5, AccountNumbers, FS_Subset
<1>7. QED
  BY <1>2, <1>3, <1>4, <1>6, AccountNumbers, Balanced

\* A set with an element more.
LEMMA OneMore ==
    ASSUME NEW A, NEW B, IsFiniteSet(B), NEW R, IsFiniteSet(R), A \subseteq B \cup R, NEW x, x \in B, x \notin A
    PROVE  /\ Cardinality(A) \in Nat /\ Cardinality(B) \in Nat /\ Cardinality(R) \in Nat
           /\ Cardinality(A) + 1 <= Cardinality(B) + Cardinality(R)
<1>1. A \subseteq (B \ {x}) \cup R
  OBVIOUS
<1>2. IsFiniteSet(B \ {x}) /\ Cardinality(B \ {x}) = Cardinality(B) - 1
  BY FS_RemoveElement
<1>3. Cardinality(A) <= Cardinality(B \ {x}) + Cardinality(R) /\ Cardinality(A) \in Nat
  BY <1>1, <1>2, UnionBound
<1>4. Cardinality(B) \in Nat /\ Cardinality(R) \in Nat
  BY FS_CardinalityType
<1>5. QED
  BY <1>2, <1>3, <1>4

\* The recommend and the loop_decide job are for the run of the job before.
LEMMA CoveredHands ==
    ASSUME Account, NEW w \in Workers, Hands(w)
    PROVE  Covered'
<1>1. PICK op \in {"recommend", "loop_decide"} : Passes(w, op, Job(w).run, 0, "pending")
  BY DEF Hands
<1>2. UNCHANGED budget /\ GatesOf({}) /\ Job(w).op \in {"execution_setup", "recommend"}
  BY DEF Hands
<1>3. PICK k : k = Len(jobs) + 1
  OBVIOUS
<1>4. /\ Tokens' = (Tokens \ {worker[w].job}) \cup {k} /\ Cardinality(Tokens') = Cardinality(Tokens)
      /\ requeued' = requeued
  BY <1>1, <1>3, PassToken DEF Account, env
<1>5. Charged' = Charged /\ ~overlap
  BY <1>2, SameCharged
<1>6. Started' = Started
  BY <1>1, StartedNone DEF Passes, Account
<1>7. /\ jobs'[k] = NewJob(op, Job(w).run, 0, "pending")
      /\ \A j \in JobIds' : j \in JobIds \/ j = k
  BY <1>1, <1>3, Inserted DEF Passes, Account
<1>8. jobs'[k].op = op /\ jobs'[k].run = Job(w).run /\ jobs'[k].target = 0
  BY <1>7, NewJobColumns
<1>9. Undecided(k)'
  BY <1>8 DEF Undecided
<1>10. ToCharge \subseteq ToCharge' \cup {}
  <2>1. ASSUME NEW j \in Tokens, Undecided(j)
        PROVE  \E i \in Tokens' : jobs'[i].run = jobs[j].run /\ Undecided(i)'
    <3>1. CASE j = worker[w].job
      BY <1>4, <1>8, <1>9, <3>1 DEF Job
    <3>2. CASE j # worker[w].job
      BY <1>4, <2>1, <3>2, StaysUndecided DEF Account
    <3>3. QED
      BY <3>1, <3>2
  <2>2. \A j \in JobIds' : j \notin JobIds => jobs'[j].op # "protocol_compile"
    BY <1>7, <1>8
  <2>3. QED
    BY <1>2, <2>1, <2>2, ToChargeKept DEF Account
<1>11. Cardinality(ToCharge) <= Cardinality(ToCharge')
  BY <1>10, AccountNumbers, FS_Subset
<1>12. QED
  BY <1>4, <1>5, <1>6, <1>11, AccountNumbers, Balanced

\* A prepared run counts when it is put into the queue first, and is then one
\* to be decided.
LEMMA CoveredPrepared ==
    ASSUME Account, NEW w \in Workers, StartsPrepared(w)
    PROVE  Covered'
<1> DEFINE t == Job(w).target
<1>1. /\ Passes(w, "execution_setup", t, 0, "pending") /\ t \in RunIds
      /\ Job(w).op = "loop_decide" /\ t # 0 /\ UNCHANGED <<budget, runs>>
  BY DEF StartsPrepared
<1>2. Charged' = Charged /\ ~overlap
  BY <1>1, SameCharged
<1>3. PICK k : k = Len(jobs) + 1
  OBVIOUS
<1>4. /\ Tokens' = (Tokens \ {worker[w].job}) \cup {k} /\ Cardinality(Tokens') = Cardinality(Tokens)
      /\ requeued' = requeued
  BY <1>1, <1>3, PassToken DEF Account, env
<1>5. ToCharge \subseteq ToCharge' \cup {}
  <2>1. GatesOf({}) /\ RunIds' = RunIds
    BY <1>1, GatesSame
  <2>2. ASSUME NEW j \in Tokens, Undecided(j)
        PROVE  \E i \in Tokens' : jobs'[i].run = jobs[j].run /\ Undecided(i)'
    <3>1. j # worker[w].job
      BY <1>1, <2>2 DEF Undecided, Job
    <3>2. QED
      BY <1>4, <2>2, <3>1, StaysUndecided DEF Account
  <2>3. /\ jobs'[k] = NewJob("execution_setup", t, 0, "pending")
        /\ \A j \in JobIds' : j \in JobIds \/ j = k
    BY <1>1, <1>3, Inserted DEF Passes, Account
  <2>4. jobs'[k].op = "execution_setup"
    BY <2>3, NewJobColumns
  <2>5. \A j \in JobIds' : j \notin JobIds => jobs'[j].op # "protocol_compile"
    BY <2>3, <2>4
  <2>6. QED
    BY <2>1, <2>2, <2>5, ToChargeKept DEF Account
<1>6. Inserts("execution_setup", t, 0, "pending") /\ TypeOK
  BY <1>1 DEF Passes, Account
<1>7. CASE t \in Known
  <2>1. Started' = Started
    BY <1>6, <1>7, StartedMore
  <2>2. Cardinality(ToCharge) <= Cardinality(ToCharge')
    BY <1>5, AccountNumbers, FS_Subset
  <2>3. QED
    BY <1>2, <1>4, <2>1, <2>2, AccountNumbers, Balanced
<1>8. CASE t \notin Known
  <2>1. Cardinality(Started') = Cardinality(Started) + 1
    BY <1>6, <1>8, StartedMore
  <2>2. runs'[t].gates = 0 /\ t \in RunIds'
    <3>1. runs[t].gates \in Nat
      BY <1>1, RunColumns DEF Account, RunIds
    <3>2. runs[t].gates = 0
      BY <1>1, <1>8, <3>1 DEF Account, OnlyStarted
    <3>3. QED
      BY <1>1, <3>2, GatesSame
  <2>3. \A j \in JobIds : jobs[j].op # "loop_report" => jobs[j].run # t
    BY <1>8 DEF Account, OnlyStarted
  <2>4. t \in ToCharge' /\ t \notin ToCharge
    BY <1>1, <2>2, <2>3, ToChargeNew DEF Account
  <2>5. Cardinality(ToCharge') >= Cardinality(ToCharge) + 1
    <3>1. IsFiniteSet({}) /\ Cardinality({}) = 0
      BY FS_EmptySet
    <3>2. Cardinality(ToCharge) + 1 <= Cardinality(ToCharge') + Cardinality({})
      BY <1>5, <2>4, <3>1, OneMore, AccountNumbers
    <3>3. QED
      BY <3>1, <3>2, AccountNumbers
  <2>6. QED
    BY <1>2, <1>4, <2>1, <2>5, AccountNumbers, Balanced
<1>9. QED
  BY <1>7, <1>8

\* A step that takes no token but its own leaves all runs but its own to be
\* decided.
LEMMA OwnRun ==
    ASSUME Account, NEW w \in Workers, GatesOf({Job(w).run}), Tokens \ {worker[w].job} \subseteq Tokens',
           \A j \in JobIds' : j \notin JobIds /\ jobs'[j].op = "protocol_compile" => jobs'[j].run = Job(w).run
    PROVE  ToCharge \subseteq ToCharge' \cup {Job(w).run}
<1>1. ASSUME NEW j \in Tokens, Undecided(j)
      PROVE  \/ jobs[j].run \in {Job(w).run}
             \/ \E k \in Tokens' : jobs'[k].run = jobs[j].run /\ Undecided(k)'
  <2>1. CASE j = worker[w].job
    BY <2>1 DEF Job
  <2>2. CASE j # worker[w].job
    BY <1>1, <2>2, StaysUndecided DEF Account
  <2>3. QED
    BY <2>1, <2>2
<1>2. \A j \in JobIds' : j \notin JobIds /\ jobs'[j].op = "protocol_compile" => jobs'[j].run \in {Job(w).run}
  OBVIOUS
<1>3. QED
  BY <1>1, <1>2, ToChargeKept DEF Account

\* A decision is paid for by a charge, unless its run was charged for before.
Paid(w) ==
    \/ Cardinality(Charged') >= Cardinality(Charged) + 1
    \/ Cardinality(Charged') >= Cardinality(Charged) /\ Job(w).run \notin ToCharge

\* What a decision takes from the runs to be decided, its charge makes up for.
LEMMA PaidFor ==
    ASSUME Account, NEW w, Paid(w), ToCharge \subseteq ToCharge' \cup {Job(w).run}
    PROVE  /\ Cardinality(Charged) + Cardinality(ToCharge)
                 <= Cardinality(Charged') + Cardinality(ToCharge')
           /\ \A x : x \in ToCharge' /\ x \notin ToCharge =>
                 Cardinality(Charged) + Cardinality(ToCharge) + 1
                    <= Cardinality(Charged') + Cardinality(ToCharge')
<1> DEFINE r == Job(w).run
<1>1. PICK R : /\ R \in {{}, {r}} /\ ToCharge \subseteq ToCharge' \cup R
               /\ IsFiniteSet(R) /\ Cardinality(R) \in {0, 1}
               /\ Cardinality(Charged') >= Cardinality(Charged) + Cardinality(R)
  <2>1. IsFiniteSet({}) /\ Cardinality({}) = 0 /\ IsFiniteSet({r}) /\ Cardinality({r}) = 1
    BY FS_EmptySet, FS_Singleton
  <2>2. CASE Cardinality(Charged') >= Cardinality(Charged) + 1
    BY <2>1, <2>2
  <2>3. CASE Cardinality(Charged') >= Cardinality(Charged) /\ r \notin ToCharge
    <3>1. ToCharge \subseteq ToCharge' \cup {}
      BY <2>3
    <3>2. Cardinality(Charged') >= Cardinality(Charged) + Cardinality({})
      BY <2>1, <2>3, AccountNumbers
    <3>3. QED
      BY <2>1, <3>1, <3>2
  <2>4. QED
    BY <2>2, <2>3 DEF Paid
<1>2. Cardinality(ToCharge) <= Cardinality(ToCharge') + Cardinality(R)
  BY <1>1, AccountNumbers, UnionBound
<1>3. ASSUME NEW x, x \in ToCharge', x \notin ToCharge
      PROVE  Cardinality(ToCharge) + 1 <= Cardinality(ToCharge') + Cardinality(R)
  BY <1>1, <1>3, AccountNumbers, OneMore
<1>4. Cardinality(R) \in Nat
  BY <1>1
<1>5. QED
  BY <1>1, <1>2, <1>3, <1>4, AccountNumbers

\* A token passed on that starts nothing.
LEMMA CoveredPass ==
    ASSUME Account, ~overlap, NEW w \in Workers, Paid(w), GatesOf({Job(w).run}),
           NEW op, op \notin {"execution_setup", "loop_report"}, NEW t, NEW st \in {"pending", "paused"},
           Passes(w, op, Job(w).run, t, st)
    PROVE  Covered'
<1>1. PICK k : k = Len(jobs) + 1
  OBVIOUS
<1>2. /\ Tokens' = (Tokens \ {worker[w].job}) \cup {k} /\ Cardinality(Tokens') = Cardinality(Tokens)
      /\ requeued' = requeued
  BY <1>1, PassToken DEF Account, env
<1>3. Started' = Started
  BY StartedNone DEF Passes, Account
<1>4. /\ jobs'[k] = NewJob(op, Job(w).run, t, st)
      /\ \A j \in JobIds' : j \in JobIds \/ j = k
  BY <1>1, Inserted DEF Passes, Account
<1>5. jobs'[k].run = Job(w).run
  BY <1>4, NewJobColumns
<1>6. ToCharge \subseteq ToCharge' \cup {Job(w).run}
  BY <1>2, <1>4, <1>5, OwnRun
<1>7. Cardinality(Charged) + Cardinality(ToCharge) <= Cardinality(Charged') + Cardinality(ToCharge')
  BY <1>6, PaidFor
<1>8. QED
  BY <1>2, <1>3, <1>7, AccountNumbers, Balanced

\* A token passed on to a run that is new.
LEMMA CoveredStarts ==
    ASSUME Account, ~overlap, NEW w \in Workers, Paid(w), NEW s, StartsNew(w, s)
    PROVE  Covered'
<1> DEFINE r == Len(runs) + 1
<1>1. /\ Passes(w, "execution_setup", r, 0, "pending") /\ GatesOf({})
      /\ r \in RunIds' /\ r \notin RunIds /\ runs'[r].gates = 0
  BY DEF StartsNew
<1>2. PICK k : k = Len(jobs) + 1
  OBVIOUS
<1>3. /\ Tokens' = (Tokens \ {worker[w].job}) \cup {k} /\ Cardinality(Tokens') = Cardinality(Tokens)
      /\ requeued' = requeued
  BY <1>1, <1>2, PassToken DEF Account, env
<1>4. Inserts("execution_setup", r, 0, "pending") /\ TypeOK
  BY <1>1 DEF Passes, Account
<1>5. /\ jobs'[k] = NewJob("execution_setup", r, 0, "pending")
      /\ \A j \in JobIds' : j \in JobIds \/ j = k
  BY <1>2, <1>4, Inserted
<1>6. jobs'[k].op = "execution_setup"
  BY <1>5, NewJobColumns
<1>7. ToCharge \subseteq ToCharge' \cup {Job(w).run}
  <2>1. GatesOf({Job(w).run})
    BY <1>1 DEF GatesOf
  <2>2. \A j \in JobIds' : j \notin JobIds => jobs'[j].op # "protocol_compile"
    BY <1>5, <1>6
  <2>3. QED
    BY <1>3, <2>1, <2>2, OwnRun
<1>8. r \in ToCharge' /\ r \notin ToCharge
  <2>1. \A j \in JobIds : jobs[j].run # r
    BY <1>1, <1>4, JobColumns DEF RunIds
  <2>2. QED
    BY <1>1, <2>1, ToChargeNew DEF Account
<1>9. Cardinality(Charged) + Cardinality(ToCharge) + 1 <= Cardinality(Charged') + Cardinality(ToCharge')
  BY <1>7, <1>8, PaidFor
<1>10. Cardinality(Started') <= Cardinality(Started) + 1
  BY <1>4, StartedMore
<1>11. QED
  BY <1>3, <1>9, <1>10, AccountNumbers, Balanced

\* A gate keeps its token.
LEMMA CoveredPauses ==
    ASSUME Account, ~overlap, NEW w \in Workers, Busy(w), Job(w).op # "loop_report", Paid(w),
           NEW n, Pauses(w, n)
    PROVE  Covered'
<1>1. PICK patch : Return(w, "success", patch)
  BY DEF Pauses
<1>2. Restates(worker[w].job, "paused") /\ GatesOf({Job(w).run})
  BY DEF Pauses
<1>3. worker[w].job \in JobIds /\ TypeOK
  BY WorkerColumns DEF Account, Busy
<1>4. Tokens' = Tokens
  BY <1>1, <1>2, TokenPaused DEF Account
<1>5. JobIds' = JobIds
  BY <1>2, <1>3, Restated
<1>6. Started' = Started
  BY <1>5, StartedKept DEF Account, Kept
<1>7. requeued' = requeued
  BY <1>1 DEF Return, env
<1>8. ToCharge \subseteq ToCharge' \cup {Job(w).run}
  BY <1>2, <1>4, <1>5, OwnRun
<1>9. Cardinality(Charged) + Cardinality(ToCharge) <= Cardinality(Charged') + Cardinality(ToCharge')
  BY <1>8, PaidFor
<1>10. QED
  BY <1>4, <1>6, <1>7, <1>9, AccountNumbers, Balanced

\* The report takes the token of its run.
LEMMA CoveredEnds ==
    ASSUME Account, ~overlap, NEW w \in Workers, Ends(w), Cardinality(Charged') >= Cardinality(Charged)
    PROVE  Covered'
<1>1. /\ Busy(w) /\ Job(w).op # "loop_report" /\ UNCHANGED runs
      /\ Inserts("loop_report", Job(w).run, 0, "pending")
  BY DEF Ends, Passes
<1>2. PICK patch : Return(w, "success", patch)
  BY DEF Ends, Passes
<1>3. worker[w].job \in JobIds /\ TypeOK
  BY <1>1, WorkerColumns DEF Account, Busy
<1>4. worker[w].job \in Tokens
  BY <1>1, <1>3 DEF Tokens, Held, Job
<1>5. Tokens' = Tokens \ {worker[w].job}
  BY <1>1, <1>2, TokenPassed DEF Account
<1>6. Cardinality(Tokens') = Cardinality(Tokens) - 1
  BY <1>4, <1>5, FS_RemoveElement, AccountNumbers
<1>7. Started' = Started /\ requeued' = requeued
  BY <1>1, <1>2, <1>3, StartedNone DEF Return, env
<1>8. PICK k : k = Len(jobs) + 1
  OBVIOUS
<1>9. /\ jobs'[k] = NewJob("loop_report", Job(w).run, 0, "pending")
      /\ \A j \in JobIds' : j \in JobIds \/ j = k
  BY <1>1, <1>3, <1>8, Inserted
<1>10. jobs'[k].op = "loop_report"
  BY <1>9, NewJobColumns
<1>11. ToCharge \subseteq ToCharge' \cup {Job(w).run}
  <2>1. GatesOf({Job(w).run})
    BY <1>1, GatesSame DEF GatesOf
  <2>2. \A j \in JobIds' : j \notin JobIds => jobs'[j].op # "protocol_compile"
    BY <1>9, <1>10
  <2>3. QED
    BY <1>5, <2>1, <2>2, OwnRun
<1>12. Cardinality(ToCharge) <= Cardinality(ToCharge') + 1
  <2>1. IsFiniteSet({Job(w).run}) /\ Cardinality({Job(w).run}) = 1
    BY FS_Singleton
  <2>2. Cardinality(ToCharge) <= Cardinality(ToCharge') + Cardinality({Job(w).run})
    BY <1>11, <2>1, AccountNumbers, UnionBound
  <2>3. QED
    BY <2>1, <2>2
<1>13. QED
  BY <1>6, <1>7, <1>12, AccountNumbers, Balanced

\* Whatever a paid decision does is covered.
LEMMA CoveredOutcome ==
    ASSUME Account, ~overlap, NEW w \in Workers, worker[w].pc = "deciding", NEW n, Outcome(w, n),
           UNCHANGED specs, Paid(w)
    PROVE  Covered'
<1>1. /\ Busy(w) /\ Job(w).op = "loop_decide"
      /\ Ends(w) \/ Compiles(w) \/ Pauses(w, n) \/ \E s \in 1..Len(specs) : StartsNew(w, s)
  BY OutcomeKind DEF Account
<1>2. CASE Ends(w)
  <2>1. Cardinality(Charged') >= Cardinality(Charged)
    BY AccountNumbers DEF Paid
  <2>2. QED
    BY <1>2, <2>1, CoveredEnds
<1>3. CASE Compiles(w)
  <2>1. PICK c \in Cards : Passes(w, "protocol_compile", Job(w).run, c, "pending")
    BY <1>3 DEF Compiles
  <2>2. GatesOf({Job(w).run})
    BY <1>3, GatesSame DEF Compiles, GatesOf
  <2>3. QED
    BY <2>1, <2>2, CoveredPass
<1>4. CASE Pauses(w, n)
  BY <1>1, <1>4, CoveredPauses
<1>5. ASSUME NEW s, StartsNew(w, s) PROVE Covered'
  BY <1>5, CoveredStarts
<1>6. QED
  BY <1>1, <1>2, <1>3, <1>4, <1>5

\* A fresh decision charges what it found, and goes on only within the limits.
LEMMA CoveredFresh ==
    ASSUME Account, NEW w \in Workers, DecideFresh(w)
    PROVE  Covered'
<1>1. /\ TypeOK /\ WorkersHold /\ worker[w].pc = "deciding" /\ Charges(w) /\ FreshOutcome(w)
      /\ UNCHANGED specs
  BY FreshMeans DEF Account
<1>2. ~overlap /\ worker[w].saw.total = total /\ worker[w].saw.per = per
  <2>1. ~overlap' /\ overlap' = (overlap \/ worker[w].saw.total # total \/ worker[w].saw.per # per)
    BY <1>1 DEF Account, Charges
  <2>2. QED
    BY <2>1, Zenon
<1> DEFINE c == Card(w)
<1>3. c \in Cards /\ policy \in Policies /\ total \in Nat /\ per \in [Cards -> Nat]
  BY <1>1, JobOf DEF Card, TypeOK
<1>4. Charged = ChargesOf(policy, total, per)
      /\ Charged' = ChargesOf(policy, total + 1, [per EXCEPT ![c] = per[c] + 1])
  BY <1>1, <1>2, AccountNumbers DEF Charges, Charged
<1> HIDE DEF c
<1>5. /\ Cardinality(Charged') >= Cardinality(Charged)
      /\ ~LimitReached(total + 1, policy.max_total_runs)
         /\ ~LimitReached(per[c] + 1, policy.max_runs_per_hypothesis)
            => Cardinality(Charged') >= Cardinality(Charged) + 1
  BY <1>3, <1>4, ChargesGrow
<1>6. InBudget(w) => Paid(w)
  BY <1>2, <1>5 DEF InBudget, Paid, c
<1>7. PICK n : n = worker[w].saw.total + 1
  OBVIOUS
<1>8. (Stop(w) => Ends(w)) /\ (PauseForGate(w, n) => Pauses(w, n))
  BY <1>1, StopPauseKind
<1>9. CASE Stop(w)
  BY <1>2, <1>5, <1>8, <1>9, CoveredEnds
<1>10. CASE InBudget(w) /\ PauseForGate(w, n)
  <2>1. Busy(w) /\ Job(w).op # "loop_report"
    BY <1>1 DEF Busy, WorkersHold, WorkerHolds
  <2>2. QED
    BY <1>2, <1>6, <1>8, <1>10, <2>1, CoveredPauses
<1>11. CASE InBudget(w) /\ Outcome(w, n)
  BY <1>1, <1>2, <1>6, <1>11, CoveredOutcome
<1>12. QED
  BY <1>1, <1>7, <1>9, <1>10, <1>11 DEF FreshOutcome

\* A resumed decision is of a run with a gate, whose charge was made.
LEMMA CoveredResumed ==
    ASSUME Account, NEW w \in Workers, DecideResumed(w)
    PROVE  Covered'
<1>1. /\ TypeOK /\ worker[w].pc = "deciding" /\ worker[w].saw.gates = 1
      /\ Outcome(w, worker[w].saw.total) /\ UNCHANGED budget /\ UNCHANGED specs
  BY ResumedMeans DEF Account
<1>2. Charged' = Charged /\ ~overlap
  BY <1>1, SameCharged
<1>3. Job(w).run \in RunIds /\ runs[Job(w).run].gates \in Nat
  BY <1>1, JobOf, RunColumns DEF RunIds
<1>4. runs[Job(w).run].gates >= 1
  BY <1>1, <1>3 DEF Account, WorkersHold, WorkerHolds
<1>5. Job(w).run \notin ToCharge
  BY <1>3, <1>4 DEF ToCharge
<1>6. Paid(w)
  BY <1>2, <1>5, AccountNumbers DEF Paid
<1>7. QED
  BY <1>1, <1>2, <1>6, CoveredOutcome

\* The run a variation was compiled for was charged for.
LEMMA CoveredPrepare ==
    ASSUME Account, NEW w \in Workers, PrepareRun(w)
    PROVE  Covered'
<1>1. /\ TypeOK /\ UNCHANGED budget /\ Job(w).op = "protocol_compile"
      /\ Waits(w) \/ \E s \in 1..Len(specs) : StartsNew(w, s)
  BY PrepareKind DEF Account
<1>2. Charged' = Charged /\ ~overlap
  BY <1>1, SameCharged
<1>3. worker[w].job \in JobIds
  BY <1>1, WorkerColumns DEF PrepareRun
<1>4. Job(w).run \notin ToCharge
  BY <1>1, <1>3 DEF ToCharge, Job
<1>5. Paid(w)
  BY <1>2, <1>4, AccountNumbers DEF Paid
<1>6. CASE Waits(w)
  <2>1. Passes(w, "loop_decide", Job(w).run, Len(runs) + 1, "paused") /\ GatesOf({Job(w).run})
    BY <1>6 DEF Waits
  <2>2. QED
    BY <1>2, <1>5, <2>1, CoveredPass
<1>7. ASSUME NEW s, StartsNew(w, s) PROVE Covered'
  BY <1>2, <1>5, <1>7, CoveredStarts
<1>8. QED
  BY <1>1, <1>6, <1>7

\* Every step keeps the runs and the tokens covered.
LEMMA StepCovered ==
    ASSUME TypeOK, TypeOK', Kept, WorkersHold, OnlyStarted, Covered, Next
    PROVE  Covered'
<1> SUFFICES ASSUME ~overlap' PROVE Covered'
  BY DEF Covered
<1>1. Account
  BY DEF Account
<1>2. ASSUME NEW w \in Workers, ClaimJob(w) \/ SettleStep(w) \/ Crash(w) \/ DecideRaises(w)
                                \/ LoopReport(w) \/ DecideRead(w) \/ CompileSpec(w)
      PROVE  Covered'
  BY <1>1, <1>2, ClaimQuiet, SettleQuiet, RaiseQuiet, ReadQuiet, CoveredQuiet
<1>3. ASSUME NEW w \in Workers, RunExperiment(w) \/ Recommend(w) PROVE Covered'
  BY <1>1, <1>3, HandKind, CoveredHands
<1>4. ASSUME NEW w \in Workers, StartPrepared(w) PROVE Covered'
  BY <1>1, <1>4, PreparedKind, CoveredPrepared
<1>5. ASSUME NEW w \in Workers, PrepareRun(w) PROVE Covered'
  BY <1>1, <1>5, CoveredPrepare
<1>6. ASSUME NEW w \in Workers, DecideFresh(w) \/ DecideResumed(w) PROVE Covered'
  BY <1>1, <1>6, CoveredFresh, CoveredResumed
<1>7. CASE StopLoop
  BY <1>1, <1>7, StopQuiet, CoveredQuiet
<1>8. CASE ReclaimStale
  BY <1>1, <1>8, CoveredReclaim
<1>9. CASE ResumeGate
  BY <1>1, <1>9, CoveredResume
<1>10. QED
  BY <1>2, <1>3, <1>4, <1>5, <1>6, <1>7, <1>8, <1>9 DEF Next, OperatorStep

\* What is covered is within the budget.
LEMMA CoveredWithin ==
    ASSUME TypeOK, Covered, SingleToken
    PROVE  WithinBudget
<1>1. ASSUME ~overlap PROVE Cardinality(Started) <= Budgeted + requeued
  <2>1. Cardinality(Started) + Cardinality(Tokens)
           <= Cardinality(Charged) + requeued + Cardinality(ToCharge)
    BY <1>1 DEF Covered
  <2>2. Cardinality(ToCharge) <= Cardinality(Tokens)
    <3>1. Tokens \in SUBSET JobIds /\ \A r \in ToCharge : \E j \in Tokens : jobs[j].run = r
      BY DEF Tokens, ToCharge
    <3>2. QED
      BY <3>1, RunsOfJobs
  <2>3. Cardinality(Charged) \in Nat /\ Cardinality(Charged) <= Budgeted
    <3>1. policy \in Policies /\ total \in Nat /\ per \in [Cards -> Nat]
      BY DEF TypeOK
    <3>2. QED
      BY <3>1, ChargesFit DEF Charged, Budgeted
  <2>4. Budgeted \in Int
    <3>1. \A limit \in Nat : Room(limit) \in Nat
      BY DEF Room
    <3>2. NCards \in Nat /\ policy \in Policies
      BY LoopAssumption DEF TypeOK
    <3>3. \A a, b \in Nat : a * b \in Nat
      OBVIOUS
    <3>4. CASE policy.max_total_runs # None
      BY <3>1, <3>2, <3>4, Limits DEF Budgeted
    <3>5. CASE policy.max_total_runs = None
      BY <3>1, <3>2, <3>3, <3>5, Limits DEF Budgeted
    <3>6. QED
      BY <3>4, <3>5
  <2>5. Counted /\ requeued \in Nat
    BY CountedNow DEF TypeOK
  <2>6. QED
    BY <2>1, <2>2, <2>3, <2>4, <2>5 DEF Counted
<1>2. overlap => requeued > 0
  <2>1. requeued \in Nat
    BY DEF TypeOK
  <2>2. requeued = 0 => ~overlap
    BY DEF SingleToken
  <2>3. QED
    BY <2>1, <2>2
<1>3. QED
  BY <1>1, <1>2 DEF WithinBudget

-----------------------------------------------------------------------------
(* The theorems. *)

\* The first job is the one token, and nothing has been started.
LEMMA InitCounts ==
    ASSUME Init
    PROVE  /\ TypeOK /\ JobIds = {1} /\ RunIds = {1} /\ jobs[1].op = "execution_setup" /\ jobs[1].run = 1
           /\ jobs[1].status = "pending" /\ jobs[1].target = 0 /\ runs[1].gates = 0
           /\ Started = {} /\ Tokens = {1} /\ ToCharge = {1}
           /\ \A w \in Workers : worker[w].pc = "idle"
<1>1. TypeOK
  BY InitTyped
<1>2. jobs = <<NewJob("execution_setup", 1, 0, "pending")>>
  BY DEF Init
<1>3. Len(jobs) = 1 /\ jobs[1] = NewJob("execution_setup", 1, 0, "pending") /\ JobIds = {1}
  <2>1. \A x : Len(<<x>>) = 1 /\ <<x>>[1] = x
    OBVIOUS
  <2>2. Len(jobs) = 1 /\ jobs[1] = NewJob("execution_setup", 1, 0, "pending")
    BY <1>2, <2>1, Zenon
  <2>3. QED
    BY <2>2 DEF JobIds
<1>4. /\ jobs[1].op = "execution_setup" /\ jobs[1].run = 1 /\ jobs[1].status = "pending"
      /\ jobs[1].target = 0
  BY <1>3, NewJobColumns
<1>5. RunIds = {1} /\ runs[1].gates = 0
  <2>1. runs = <<[NewRun(1) EXCEPT !.by_loop = FALSE]>>
    BY DEF Init
  <2>2. [NewRun(1) EXCEPT !.by_loop = FALSE].gates = 0
    BY DEF NewRun
  <2>3. \A x : Len(<<x>>) = 1 /\ <<x>>[1] = x
    OBVIOUS
  <2>4. Len(runs) = 1 /\ runs[1] = [NewRun(1) EXCEPT !.by_loop = FALSE]
    BY <2>1, <2>3, Zenon
  <2>5. runs[1].gates = 0
    BY <2>2, <2>4, Zenon
  <2>6. QED
    BY <2>4, <2>5 DEF RunIds
<1>6. \A w \in Workers : worker[w].pc = "idle"
  BY DEF Init, Idle
<1>7. Started = {}
  BY <1>3, <1>4 DEF Started
<1>8. Tokens = {1}
  BY <1>3, <1>4 DEF Tokens, Open
<1>9. ToCharge = {1}
  BY <1>3, <1>4, <1>5, <1>8 DEF ToCharge, Undecided
<1>10. QED
  BY <1>1, <1>3, <1>4, <1>5, <1>6, <1>7, <1>8, <1>9

\* The invariant holds when the cycle starts.
LEMMA InitInv ==
    ASSUME Init
    PROVE  Inv
<1>1. TypeOK /\ SawBehind
  BY InitTyped
<1>2. ~overlap /\ requeued = 0 /\ approvals = 0 /\ total = 0 /\ last_gate = 0
  BY DEF Init
<1>3. /\ Cardinality(Started) = 0 /\ Cardinality(Tokens) = 1 /\ Cardinality(ToCharge) = 1
  <2>1. Started = {} /\ Tokens = {1} /\ ToCharge = {1}
    BY InitCounts
  <2>2. Cardinality({}) = 0 /\ Cardinality({1}) = 1
    BY FS_EmptySet, FS_Singleton
  <2>3. QED
    BY <2>1, <2>2, Zenon
<1>4. WorkersHold
  BY InitCounts DEF WorkersHold, WorkerHolds, Busy
<1>5. OnlyStarted
  BY InitCounts DEF OnlyStarted, Known
<1>6. Covered
  <2>1. Cardinality(Charged) \in Nat
    BY <1>1, ChargesFit DEF Charged, TypeOK
  <2>2. QED
    BY <1>2, <1>3, <2>1 DEF Covered
<1>7. SingleToken
  BY <1>2, InitCounts DEF SingleToken
<1>8. InPhase /\ GateHonoured
  <2> SUFFICES ASSUME EveryNth # None
               PROVE  Phase(1) /\ Cardinality(Started) < EveryNth * (approvals + 1)
    BY InitCounts DEF InPhase, GateHonoured
  <2>1. /\ EveryNth \in Nat /\ EveryNth >= 1 /\ EveryNth * approvals \in Nat
        /\ EveryNth * (approvals + 1) = EveryNth * approvals + EveryNth
    BY <1>1, Numbers
  <2>2. Since = 0
    BY <1>2 DEF Since
  <2>3. Fresh(1)
    BY InitCounts DEF Fresh, Undecided
  <2>4. Cardinality(Started) <= EveryNth * approvals + Since /\ Since < EveryNth
    BY <1>3, <2>1, <2>2
  <2>5. Phase(1)
    BY <2>3, <2>4, InitCounts DEF Phase
  <2>6. QED
    BY <1>3, <2>1, <2>5
<1>9. PreparedApproved /\ NetworkApproved
  BY InitCounts DEF PreparedApproved, NetworkApproved
<1>10. QED
  BY <1>1, <1>4, <1>5, <1>6, <1>7, <1>8, <1>9 DEF Inv

\* A step of the loop keeps the invariant.
LEMMA NextInv ==
    ASSUME Inv, Next
    PROVE  Inv'
<1>1. TypeOK' /\ SawBehind' /\ Kept
  BY NextTyped DEF Inv, StepTyped
<1>2. WorkersHold' /\ OnlyStarted'
  BY <1>1, StepHolds DEF Inv
<1>3. Covered'
  BY <1>1, StepCovered DEF Inv
<1>4. SingleToken'
  BY <1>1, StepSingle DEF Inv
<1>5. InPhase' /\ GateHonoured'
  BY <1>1, StepPhase DEF Inv
<1>6. NetworkApproved' /\ PreparedApproved'
  BY <1>1, StepOffline DEF Inv
<1>7. QED
  BY <1>1, <1>2, <1>3, <1>4, <1>5, <1>6 DEF Inv

\* So does a step of something else.
LEMMA StutterInv ==
    ASSUME Inv, UNCHANGED vars
    PROVE  Inv'
<1>1. /\ policy' = policy /\ cycle' = cycle /\ cards' = cards /\ specs' = specs /\ runs' = runs
      /\ total' = total /\ per' = per /\ last_gate' = last_gate /\ jobs' = jobs /\ worker' = worker
      /\ crashes' = crashes /\ approvals' = approvals /\ stops' = stops /\ requeued' = requeued
  BY DEF vars, tables, env, budget
<1>2. (lost' <=> lost) /\ lost' = lost /\ (overlap' <=> overlap) /\ overlap' = overlap
  BY Zenon DEF vars, tables, env, budget
<1>3. JobIds' = JobIds /\ RunIds' = RunIds
  BY <1>1 DEF JobIds, RunIds
<1>4. /\ \A w \in Workers : (Busy(w)' <=> Busy(w)) /\ Job(w)' = Job(w)
      /\ \A j : (Open(j)' <=> Open(j)) /\ (Undecided(j)' <=> Undecided(j))
  BY <1>1 DEF Busy, Open, Undecided, Job
<1>5. \A j : Held(j)' <=> Held(j)
  BY <1>1, <1>4 DEF Held
<1>6. Started' = Started /\ Tokens' = Tokens
  BY <1>1, <1>3, <1>4, <1>5 DEF Started, Tokens
<1>7. ToCharge' = ToCharge /\ Charged' = Charged /\ Known' = Known
  BY <1>1, <1>3, <1>4, <1>6 DEF ToCharge, Charged, Known
<1>8. TypeOK' /\ SawBehind'
  BY <1>1, <1>2, <1>3 DEF Inv, TypeOK, SawBehind
<1>9. WorkersHold'
  BY <1>1, <1>4 DEF Inv, WorkersHold, WorkerHolds
<1>10. OnlyStarted'
  BY <1>1, <1>3, <1>7 DEF Inv, OnlyStarted
<1>11. Covered'
  BY <1>1, <1>2, <1>6, <1>7 DEF Inv, Covered
<1>12. SingleToken'
  BY <1>1, <1>2, <1>4, <1>6 DEF Inv, SingleToken
<1>13. EveryNth' = EveryNth /\ Since' = Since
  BY <1>1 DEF EveryNth, Since
<1>14. \A j : Fresh(j)' <=> Fresh(j)
  BY <1>1, <1>4 DEF Fresh
<1>15. \A j : Phase(j)' <=> Phase(j)
  BY <1>1, <1>6, <1>13, <1>14 DEF Phase
<1>16. InPhase' /\ GateHonoured'
  BY <1>1, <1>6, <1>13, <1>15 DEF Inv, InPhase, GateHonoured
<1>17. PreparedApproved' /\ NetworkApproved'
  BY <1>1, <1>3, <1>6 DEF Inv, PreparedApproved, NetworkApproved, AwaitsApproval
<1>18. QED
  BY <1>8, <1>9, <1>10, <1>11, <1>12, <1>16, <1>17 DEF Inv

\* The inductive invariant: rows are held by one worker, runs and tokens are
\* covered by charges, and as long as nothing is executed twice there is one
\* token, whose place in the round after the last gate is known.
THEOREM LoopInvariant == Spec => []Inv
<1>1. Init => Inv
  BY InitInv
<1>2. Inv /\ [Next]_vars => Inv'
  BY NextInv, StutterInv
<1>3. QED
  BY <1>1, <1>2, PTL DEF Spec

\* The budget of the cycle holds whatever the recommendations, the gates, the
\* user and crashes do: one run more at most per row put back after a crash,
\* unless two decisions charged the same budget row, which takes such a row too.
THEOREM LoopWithinBudget == Spec => []WithinBudget
<1>1. Inv => WithinBudget
  BY CoveredWithin DEF Inv
<1>2. QED
  BY <1>1, LoopInvariant, PTL

\* A policy that pauses after every n runs never starts n runs more without
\* another approval, as long as no job is executed twice.
THEOREM LoopGateHonoured == Spec => []GateHonoured
<1>1. Inv => GateHonoured
  BY DEF Inv
<1>2. QED
  BY <1>1, LoopInvariant, PTL

\* Under a network gate, unless a gate after every run is configured too and
\* masks it (gates.py 60-65), no run that needs the network is put into the
\* queue before the user has approved that run, crashes and re-executions
\* included (loop_decide.py 371-394, compile.py 391-453).
THEOREM LoopNetworkApproved == Spec => []NetworkApproved
<1>1. Inv => NetworkApproved
  BY DEF Inv
<1>2. QED
  BY <1>1, LoopInvariant, PTL

=============================================================================
