---------------------------- MODULE PatternMemory ----------------------------
(***************************************************************************)
(* The memory of cross-cycle patterns: consolidate_patterns mines the      *)
(* artifacts of all cycles into a pattern row and its observations,        *)
(* decay_patterns ages it down the trust tiers, the worker's maintenance   *)
(* tick schedules the decay, users approve, reject and re-tier it, and the *)
(* operators of a cycle take it into their prompts when the injection      *)
(* policy allows.                                                          *)
(*                                                                         *)
(* Rows of different content keys meet in no statement, so one row is      *)
(* modelled.  A unit of work reads the row, computes, and later writes by  *)
(* primary key only the columns it changed; nothing locks the row between. *)
(* Time is in ticks and timestamps are kept as ages, so time never ends.   *)
(* Titles, bodies, embeddings and staleness_score (which only reports the  *)
(* age seen by the last decay) are left out.                               *)
(***************************************************************************)
EXTENDS Integers, Sequences, FiniteSets, FiniteSetsExt, SequencesExt

CONSTANTS
    Workers,      \* worker processes; a dead one is started again
    CycleOf,      \* the cycle of each artifact, artifacts in order of creation
    CharterOf,    \* the charter of each cycle
    Window,       \* settings.pattern_max_staleness_days, in ticks
    Windows,      \* staleness windows a manual decay asks for
    Interval,     \* settings.pattern_decay_interval_h, in ticks
    MaxReclaims,  \* settings.job_max_reclaims
    OldAge,       \* bound: ages from here on are not told apart
    Budgets       \* bound: how many workers run, artifacts are known to the memory,
                  \* and artifacts, requests and crashes are still to come

Cycles   == DOMAIN CharterOf
Charters == {CharterOf[y] : y \in Cycles}

ASSUME MemoryAssumption ==
    /\ IsFiniteSet(Workers)
    /\ CycleOf \in Seq(Cycles) /\ Len(CycleOf) > 0
    /\ Window \in Nat \ {0} /\ Interval \in Nat \ {0} /\ Windows \subseteq Nat
    /\ MaxReclaims \in Nat
    /\ OldAge \in Nat /\ \A d \in Windows \union {Window} : 2 * d <= OldAge
    /\ Budgets \subseteq [{"workers", "known", "artifact", "consolidate", "decay", "consult", "verdict",
                            "tier", "crash"} -> 0..Len(CycleOf)]
    /\ \A b \in Budgets : b["known"] + b["artifact"] <= Len(CycleOf)

VARIABLES
    sources,    \* how many of the artifacts exist
    pattern,    \* the canonical_patterns row
    observed,   \* its pattern_observations: artifacts
    approvals,  \* its pattern_approvals, in created_at order
    gate,       \* periodic_job_state: age of last_enqueued_at
    queue,      \* pending jobs, in created_at order
    orphans,    \* jobs left running by dead workers
    worker,     \* each worker: where it stands, its job and unit of work
    consult,    \* an operator of a cycle between finding the row and using it
    applied,    \* pattern.applied events
    recent,     \* scheduled decay jobs, by age below Interval
    budget      \* what of it is still to come

memory == <<pattern, observed>>
prompts == <<consult, applied>>
jobs   == <<queue, orphans>>
vars   == <<sources, memory, approvals, gate, jobs, worker, consult, applied, recent, budget>>

None      == [tier |-> "none"]
Global    == "global"
Missing   == -2    \* no periodic_job_state row
Never     == -1    \* a row whose last_enqueued_at is NULL
Tiers     == {"auto", "curated", "deprecated"}
Artifacts == 1..Len(CycleOf)
CharterOfArtifact(a) == CharterOf[CycleOf[a]]

\* Mutant: the confidences the docstring gives.
DocumentedConfidence(n, charters) ==
    LET base == Min({350 + 200 * (n - 1), 800}) IN
    IF Cardinality(charters) > 1 THEN Min({base + 100, 950}) ELSE base

\* Confidence in thousandths.
ComputeConfidence(n, charters) ==
    LET base == Min({350 + 100 * (n - 1), 800}) IN
    IF Cardinality(charters) > 1 THEN Min({base + 100, 950}) ELSE base

NewPattern(n, charters) ==
    [tier |-> "auto", evidence |-> n, confidence |-> ComputeConfidence(n, charters),
     charters |-> charters, age |-> 0]

Idle == [at |-> "idle", job |-> None, found |-> {}, read |-> None, new |-> None]
Off  == [Idle EXCEPT !.at = "off"]

Init ==
    /\ budget \in Budgets /\ sources = Len(CycleOf) - budget["artifact"]
    /\ observed = 1..budget["known"] /\ approvals = << >>
    /\ pattern = IF observed = {} THEN None
                 ELSE NewPattern(Cardinality(observed), {CharterOfArtifact(a) : a \in observed})
    /\ gate = Missing
    /\ queue = << >> /\ orphans = << >>
    /\ LET running == CHOOSE ws \in SUBSET Workers : Cardinality(ws) = budget["workers"] IN
       worker = [w \in Workers |-> IF w \in running THEN Idle ELSE Off]
    /\ consult = None /\ applied = {}
    /\ recent = [a \in 0..Interval-1 |-> 0]

-----------------------------------------------------------------------------
(* Jobs *)

Enqueue(job) == queue' = Append(queue, job)
DecayJob(window)      == [kind |-> "decay", window |-> window, reclaims |-> 0]
ConsolidateJob(scope) == [kind |-> "consolidate", scope |-> scope, reclaims |-> 0]

Spend(k) ==
    /\ budget[k] > 0
    /\ budget' = [budget EXCEPT ![k] = @ - 1]

\* Mutant: a row without a date keeps the gate closed.
OpenGateDated(w) ==
    /\ worker[w].at = "idle"
    /\ gate \notin {Never} \union 0..Interval-1
    /\ worker' = [worker EXCEPT ![w].at = "gate", ![w].read = gate]
    /\ UNCHANGED <<sources, memory, approvals, gate, jobs, prompts, recent, budget>>

\* The worker's maintenance tick finds the gate open; last_enqueued_at is only
\* written by the commit.
OpenGate(w) ==
    /\ worker[w].at = "idle"
    /\ gate \notin 0..Interval-1
    /\ worker' = [worker EXCEPT ![w].at = "gate", ![w].read = gate]
    /\ UNCHANGED <<sources, memory, approvals, gate, jobs, prompts, recent, budget>>

\* Mutant: only the insert stamps the gate's row.
EnqueueUnstamped(w) ==
    /\ worker[w].at = "gate"
    /\ worker' = [worker EXCEPT ![w] = [Idle EXCEPT !.at = "claim"]]
    /\ IF worker[w].read = Missing /\ gate # Missing
       THEN UNCHANGED <<gate, queue, recent>>
       ELSE /\ gate' = IF gate = Missing THEN 0 ELSE gate
            /\ Enqueue(DecayJob(Window))
            /\ recent' = [recent EXCEPT ![0] = @ + 1]
    /\ UNCHANGED <<sources, memory, approvals, orphans, prompts, budget>>

\* A second insert of the gate's row is refused and the job rolled back with it.
EnqueueDecay(w) ==
    /\ worker[w].at = "gate"
    /\ worker' = [worker EXCEPT ![w] = [Idle EXCEPT !.at = "claim"]]
    /\ IF worker[w].read = Missing /\ gate # Missing
       THEN UNCHANGED <<gate, queue, recent>>
       ELSE /\ gate' = 0
            /\ Enqueue(DecayJob(Window))
            /\ recent' = [recent EXCEPT ![0] = @ + 1]
    /\ UNCHANGED <<sources, memory, approvals, orphans, prompts, budget>>

\* The loop claims after every maintenance tick, and between ticks.
Claim(w) ==
    /\ \/ /\ worker[w].at \in {"idle", "claim"} /\ queue # << >>
          /\ worker' = [worker EXCEPT ![w].at = Head(queue).kind, ![w].job = Head(queue)]
          /\ queue' = Tail(queue)
       \/ /\ worker[w].at = "claim" /\ queue = << >>
          /\ worker' = [worker EXCEPT ![w] = Idle]
          /\ UNCHANGED queue
    /\ UNCHANGED <<sources, memory, approvals, gate, orphans, prompts, recent, budget>>

\* The operator has returned or raised.
Finish(w) == worker' = [worker EXCEPT ![w] = [Idle EXCEPT !.at = "settle", !.job = worker[w].job]]

\* Mutant: the worker keeps the job it has settled.
SettleHeld(w) ==
    /\ worker[w].at = "settle"
    /\ worker' = [worker EXCEPT ![w].at = "idle"]
    /\ UNCHANGED <<sources, memory, approvals, gate, jobs, prompts, recent, budget>>

\* The row is completed or failed.
Settle(w) ==
    /\ worker[w].at = "settle"
    /\ worker' = [worker EXCEPT ![w] = Idle]
    /\ UNCHANGED <<sources, memory, approvals, gate, jobs, prompts, recent, budget>>

Crash(w) ==
    /\ worker[w] \notin {Off, Idle}
    /\ Spend("crash")
    /\ worker' = [worker EXCEPT ![w] = Idle]
    /\ orphans' = IF worker[w].job = None THEN orphans ELSE Append(orphans, worker[w].job)
    /\ UNCHANGED <<sources, memory, approvals, gate, queue, prompts, recent>>

ReclaimStale ==
    /\ orphans # << >>
    /\ orphans' = Tail(orphans)
    /\ queue' = LET job == Head(orphans) IN
                IF job.reclaims < MaxReclaims
                THEN <<[job EXCEPT !.reclaims = @ + 1]>> \o queue ELSE queue
    /\ UNCHANGED <<sources, memory, approvals, gate, worker, prompts, recent, budget>>

-----------------------------------------------------------------------------
(* Units of work on the row *)

\* What a commit leaves of the row: the columns the unit of work changed are
\* overwritten, the others keep what was committed meanwhile.
Written(read, new) == [c \in DOMAIN new |-> IF new[c] = read[c] THEN pattern[c] ELSE new[c]]

\* The candidates of the job's charter that share the content key.
Gathered(job) == {a \in 1..sources : job.scope \in {Global, CharterOfArtifact(a)}}

\* Mutant: the evidence of every consolidation is added up.
ReinforcedAgain(row, n, charters) ==
    [row EXCEPT !.evidence = @ + n, !.charters = @ \union charters, !.age = 0]

\* The confidence that was read is not lowered, and a deprecated pattern is lifted when several
\* charters of this consolidation support it.
Reinforced(row, n, charters) ==
    [tier       |-> IF row.tier = "deprecated" /\ Cardinality(charters) > 1
                    THEN "curated" ELSE row.tier,
     evidence   |-> Max({row.evidence, n}),
     confidence |-> Max({row.confidence, ComputeConfidence(n, charters)}),
     charters   |-> row.charters \union charters,
     age        |-> 0]

\* consolidate_patterns reads the artifacts; with none to aggregate it is done.
ConsolidateRead(w) ==
    /\ worker[w].at = "consolidate"
    /\ LET found == Gathered(worker[w].job) IN
       IF found = {} THEN Finish(w)
       ELSE worker' = [worker EXCEPT ![w].at = "upsert", ![w].found = found]
    /\ UNCHANGED <<sources, memory, approvals, gate, jobs, prompts, recent, budget>>

\* After the embedding, upsert_pattern reads the row and merges the aggregate.
UpsertPattern(w) ==
    /\ worker[w].at = "upsert"
    /\ LET found    == worker[w].found
           n        == Cardinality(found)
           charters == {CharterOfArtifact(a) : a \in found} IN
       worker' = [worker EXCEPT ![w].at = "store", ![w].read = pattern,
                      ![w].new = IF pattern = None THEN NewPattern(n, charters)
                                 ELSE Reinforced(pattern, n, charters)]
    /\ UNCHANGED <<sources, memory, approvals, gate, jobs, prompts, recent, budget>>

\* The commit.  A second insert of the key is refused and the operator fails.
\* last_reinforced_at is always written.
StorePattern(w) ==
    /\ worker[w].at = "store"
    /\ LET read == worker[w].read
           new  == worker[w].new IN
       IF read = None /\ pattern # None
       THEN UNCHANGED memory
       ELSE /\ pattern' = IF read = None THEN new
                          ELSE [Written(read, new) EXCEPT !.age = new.age]
            /\ observed' = observed \union worker[w].found
    /\ Finish(w)
    /\ UNCHANGED <<sources, approvals, gate, jobs, prompts, recent, budget>>

\* One step down the tiers per run: at one window of age, and at two.
Evaluate(row, window) ==
    LET score(n) == window > 0 /\ row.age >= n * window IN
    [row EXCEPT !.tier = CASE row.tier = "auto" /\ score(1)    -> "curated"
                           [] row.tier = "curated" /\ score(2) -> "deprecated"
                           [] OTHER                            -> row.tier]

DecayRead(w) ==
    /\ worker[w].at = "decay"
    /\ worker' = [worker EXCEPT ![w].at = "demote", ![w].read = pattern,
                      ![w].new = IF pattern = None THEN None
                                 ELSE Evaluate(pattern, worker[w].job.window)]
    /\ UNCHANGED <<sources, memory, approvals, gate, jobs, prompts, recent, budget>>

\* The decay's commit also touches the gate's row, creating it without a date.
Demote(w) ==
    /\ worker[w].at = "demote"
    /\ pattern' = IF worker[w].read = None THEN pattern
                  ELSE Written(worker[w].read, worker[w].new)
    /\ gate' = IF gate = Missing THEN Never ELSE gate
    /\ Finish(w)
    /\ UNCHANGED <<sources, observed, approvals, jobs, prompts, recent, budget>>

-----------------------------------------------------------------------------
(* Injection into the prompts of a cycle's operators *)

\* Boosted effective confidence of at least 0.7: it falls linearly to nothing
\* over the window, and several charters add 15%.
Confident(row) ==
    LET fresh == Window - Min({row.age, Window})
        boost == IF Cardinality(row.charters) > 1 THEN 115 ELSE 100 IN
    row.confidence * fresh * boost >= 700 * 100 * Window

\* Mutant: any approval counts, whatever came after it.
ApprovedOnce(scope) ==
    \E i \in DOMAIN approvals : approvals[i].scope = scope
        /\ approvals[i].decision = "approve" /\ approvals[i].left # 0

\* The last verdict of the scope is an approval that has not expired.
Approved(scope) ==
    \E i \in DOMAIN approvals :
        /\ approvals[i].scope = scope /\ approvals[i].decision = "approve" /\ approvals[i].left # 0
        /\ \A j \in i+1..Len(approvals) : approvals[j].scope # scope

HasValidApproval(charter) == \E scope \in {charter, Global} : Approved(scope)

\* find_relevant_patterns: not deprecated, and observed in another cycle.
Relevant(cycle) == pattern # None /\ pattern.tier # "deprecated"
                   /\ \E a \in observed : CycleOf[a] # cycle

\* An operator of a cycle (search, generate, check, remediate or loop_decide)
\* finds the row; its worker and job are modelled with its own component.
FindRelevant(cycle) ==
    /\ consult = None
    /\ Spend("consult")
    /\ Relevant(cycle)
    /\ consult' = [tier |-> "found", cycle |-> cycle, row |-> pattern]
    /\ UNCHANGED <<sources, memory, approvals, gate, jobs, worker, applied, recent>>

\* The policy judges the row that was read.
InjectPatterns ==
    /\ consult # None
    /\ LET row   == consult.row
           takes == \/ row.tier = "auto" /\ Confident(row)
                    \/ row.tier = "curated" /\ HasValidApproval(CharterOf[consult.cycle]) IN
       applied' = IF takes THEN applied \union {[cycle |-> consult.cycle, tier |-> row.tier]}
                  ELSE applied
    /\ consult' = None
    /\ UNCHANGED <<sources, memory, approvals, gate, jobs, worker, recent, budget>>

-----------------------------------------------------------------------------
(* Requests, other components, time *)

RequestConsolidation(scope) ==
    /\ Spend("consolidate")
    /\ Enqueue(ConsolidateJob(scope))
    /\ UNCHANGED <<sources, memory, approvals, gate, orphans, worker, prompts, recent>>

RequestDecay(window) ==
    /\ Spend("decay")
    /\ Enqueue(DecayJob(window))
    /\ UNCHANGED <<sources, memory, approvals, gate, orphans, worker, prompts, recent>>

\* left: ticks to expires_at, -1 without one.
Verdict(scope, decision, left) ==
    /\ pattern # None
    /\ Spend("verdict")
    /\ approvals' = Append(approvals, [scope |-> scope, decision |-> decision, left |-> left])
    /\ UNCHANGED <<sources, memory, gate, jobs, worker, prompts, recent>>

ApprovePattern(scope) == \E left \in {-1, 1} : Verdict(scope, "approve", left)
RejectPattern(scope)  == Verdict(scope, "reject", -1)

UpdateTrustTier(tier) ==
    /\ pattern # None
    /\ Spend("tier")
    /\ pattern' = [pattern EXCEPT !.tier = tier]
    /\ UNCHANGED <<sources, observed, approvals, gate, jobs, worker, prompts, recent>>

\* Another operator stores a postmortem, remediation action, signal, frontier
\* or loop decision with the pattern's content key.
StoreArtifact ==
    /\ Spend("artifact")
    /\ sources' = sources + 1
    /\ UNCHANGED <<memory, approvals, gate, jobs, worker, prompts, recent>>

\* A tick is a day or more: no unit of work spans one.
Tick ==
    /\ \A w \in Workers : worker[w].at \notin {"gate", "upsert", "store", "demote"} /\ consult = None
    /\ pattern' = IF pattern = None THEN None ELSE [pattern EXCEPT !.age = Min({@ + 1, OldAge})]
    /\ approvals' = [i \in DOMAIN approvals |->
                       [approvals[i] EXCEPT !.left = IF @ > 0 THEN @ - 1 ELSE @]]
    /\ gate' = IF gate \in {Missing, Never, Interval} THEN gate ELSE gate + 1
    /\ recent' = [a \in DOMAIN recent |-> IF a = 0 THEN 0 ELSE recent[a - 1]]
    /\ UNCHANGED <<sources, observed, jobs, worker, prompts, budget>>

-----------------------------------------------------------------------------

WorkerStep(w) ==
    \/ OpenGate(w) \/ EnqueueDecay(w) \/ Claim(w) \/ Settle(w)
    \/ ConsolidateRead(w) \/ UpsertPattern(w) \/ StorePattern(w)
    \/ DecayRead(w) \/ Demote(w)

Next ==
    \/ \E w \in Workers : WorkerStep(w) \/ Crash(w)
    \/ ReclaimStale \/ StoreArtifact \/ Tick
    \/ \E scope \in Charters \union {Global} :
           RequestConsolidation(scope) \/ ApprovePattern(scope) \/ RejectPattern(scope)
    \/ \E window \in Windows : RequestDecay(window)
    \/ InjectPatterns \/ \E cycle \in Cycles : FindRelevant(cycle)
    \/ \E tier \in Tiers : UpdateTrustTier(tier)

Spec == Init /\ [][Next]_vars

\* Workers loop, maintenance ticks reclaim, and time passes however often the
\* gate is looked at.
FairSpec == Spec /\ (\A w \in Workers : WF_vars(WorkerStep(w)))
                 /\ WF_vars(ReclaimStale) /\ WF_vars(InjectPatterns) /\ SF_vars(Tick)

-----------------------------------------------------------------------------
(* Properties *)

Rows == [tier : Tiers, evidence : Nat, confidence : {350 + 50 * i : i \in 0..12},
         charters : (SUBSET Charters) \ {{}}, age : 0..OldAge]
Jobs == [kind : {"consolidate"}, scope : Charters \union {Global}, reclaims : 0..MaxReclaims]
        \union [kind : {"decay"}, window : Nat, reclaims : 0..MaxReclaims]
Verdicts == [scope : Charters \union {Global}, decision : {"approve", "reject"}, left : -1..1]
Gates    == {Missing, Never} \union 0..Interval
Phases   == {"off", "idle", "gate", "claim", "consolidate", "upsert", "store", "decay", "demote", "settle"}

MemoryTypeOK ==
    /\ sources \in 0..Len(CycleOf) - budget["artifact"]
    /\ pattern \in Rows \union {None}
    /\ observed \subseteq Artifacts
    /\ approvals \in Seq(Verdicts)

JobsTypeOK ==
    /\ gate \in Gates
    /\ queue \in Seq(Jobs) /\ orphans \in Seq(Jobs)
    /\ recent \in [0..Interval-1 -> Nat]
    /\ DOMAIN budget = {"workers", "known", "artifact", "consolidate", "decay", "consult", "verdict",
                        "tier", "crash"}
    /\ \A k \in DOMAIN budget : budget[k] \in Nat

WorkerTypeOK(w) ==
    /\ DOMAIN worker[w] = DOMAIN Idle
    /\ worker[w].at \in Phases
    /\ worker[w].job \in Jobs \union {None}
    /\ worker[w].job = None <=> worker[w].at \in {"off", "idle", "gate", "claim"}
    /\ worker[w].found \subseteq Artifacts
    /\ worker[w].at = "gate" => worker[w].read \in Gates
    /\ worker[w].at \in {"store", "demote"} =>
           worker[w].read \in Rows \union {None} /\ worker[w].new \in Rows \union {None}

PromptsTypeOK ==
    /\ consult # None => consult.cycle \in Cycles /\ consult.row \in Rows
    /\ applied \subseteq [cycle : Cycles, tier : {"auto", "curated"}]

\* The row, its verdicts, the gate, the jobs and the units of work in flight
\* hold values of their types; a unit of work is only in flight for its job.
TypeOK ==
    /\ MemoryTypeOK /\ JobsTypeOK /\ PromptsTypeOK
    /\ DOMAIN worker = Workers /\ \A w \in Workers : WorkerTypeOK(w)

\* What the row claims is backed by its observations: evidence_count counts no
\* artifact twice and source_charter_ids names no charter without one, although
\* consolidations overlap, collide, and are executed again after a crash.
EvidenceBacked ==
    pattern # None =>
        /\ pattern.evidence \in 1..Cardinality(observed)
        /\ pattern.charters \subseteq {CharterOfArtifact(a) : a \in observed}

\* The gate lets each worker schedule at most one decay per interval, and all of
\* them in the same tick (not one in all, since the gate is read before it is
\* written).
DecayPerInterval ==
    \A a, b \in DOMAIN recent :
        /\ recent[a] <= Cardinality(Workers)
        /\ recent[a] > 0 /\ recent[b] > 0 => a = b

\* A pattern enters a prompt on its own strength only when at least three
\* artifacts support it, five when they are all of one charter, and never when
\* the cycle only sees its own artifacts.  It is a property of InjectionPolicy's
\* defaults, which a cycle's configuration may override.
InjectionBacked ==
    \A e \in applied :
        /\ \E a \in observed : CycleOf[a] # e.cycle
        /\ e.tier = "auto" =>
               Cardinality(observed) >=
                   (IF Cardinality({CharterOfArtifact(a) : a \in observed}) > 1 THEN 3 ELSE 5)

\* A curated pattern enters a prompt only while an approval stands for the
\* charter or for all: unexpired, and with no later rejection in its scope.  A
\* repeated injection of the tier into the cycle is in the set already and is not
\* judged again.
Stands(charter) ==
    \E i \in DOMAIN approvals :
        /\ approvals[i].decision = "approve" /\ approvals[i].left # 0
        /\ approvals[i].scope \in {charter, Global}
        /\ \A j \in i+1..Len(approvals) :
               approvals[j].scope = approvals[i].scope => approvals[j].decision # "reject"
InjectionApproved ==
    [][applied' # applied /\ consult.row.tier = "curated" => Stands(CharterOf[consult.cycle])]_vars

\* A pattern nobody reinforces any more ends deprecated: the scheduled decay
\* takes it there, however jobs are lost and repeated.
DormantForgotten == (pattern # None) ~> (pattern.tier = "deprecated")
=============================================================================
