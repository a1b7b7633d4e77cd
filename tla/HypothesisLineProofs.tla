------------------------- MODULE HypothesisLineProofs -------------------------
(***************************************************************************)
(* Theorems about one hypothesis line, for any metric values, specs,       *)
(* limits, number of attempts, runs and repeats: what its frontier, its    *)
(* signals, its retries and its recommendations may rely on.               *)
(***************************************************************************)
EXTENDS HypothesisLine, FiniteSetTheorems, SequenceTheorems, WellFoundedInduction, TLAPS

Verified(r) == runs[r].verdict \in {"passed", "inconclusive"}

\* Which jobs a run has agrees with what was decided on it so far.
RunSound(r) ==
    /\ runs[r].status = "pending" => runs[r].verdict = None
    /\ runs[r].status = "completed" => runs[r].value \in Values
    /\ runs[r].status # "completed" => runs[r].value = NoMetric
    /\ Verified(r) => runs[r].status = "completed"
    /\ runs[r].postmortem => runs[r].verdict = "failed"
    /\ runs[r].signal # None => Verified(r)
    /\ runs[r].advice # None => runs[r].verdict # None
    /\ <<"run", r>> \in todo => runs[r].status = "pending"
    /\ <<"check", r>> \in todo => runs[r].status # "pending" /\ runs[r].verdict = None
    /\ \A op \in {"remediate", "postmortem", "recommend_failed"} :
          <<op, r>> \in todo => runs[r].verdict = "failed"
    /\ \A op \in {"signal", "recommend"} : <<op, r>> \in todo => Verified(r)
RunsSound == \A r \in RunIds : RunSound(r)

\* Every retry has been paid for with an action of its lineage ...
RetriesPaid ==
    \A r \in RunIds : Cardinality(Lineage(r)) <= 1 + Cardinality(LineageActions(r))

\* ... of the run it repeats.
Acted(r) == \E k \in DOMAIN actions : actions[k].run = r
ParentsActed == \A r \in RunIds : runs[r].parent # 0 => Acted(runs[r].parent)

\* A run that was acted on will not be given a focused fix again: remediation
\* has escalated, or its failure never had a focused fix.
Spent(r) ==
    \/ NeedsEscalation(r)
    \/ ClassOf(r) \notin {"oom", "timeout", "invalid_artifact"}
    \/ ClassOf(r) = "invalid_artifact" /\ ~ArtifactFix(r)
FocusIsSpent ==
    \A k \in DOMAIN actions : /\ actions[k].class = ClassOf(actions[k].run)
                              /\ Spent(actions[k].run)

\* As long as no job was executed twice, a run is acted on, classified and
\* advised once, and what is retried was not given up.
Retried(r) == \E c \in RunIds : runs[c].parent = r
GivenUp(r) ==
    \/ <<"postmortem", r>> \in todo \/ runs[r].postmortem
    \/ \E k \in DOMAIN actions : actions[k].run = r /\ actions[k].outcome = "exhausted"
DoneOnce ==
    repeats = 0 => \A r \in RunIds :
        /\ <<"remediate", r>> \in todo => ~Acted(r) /\ ~Retried(r) /\ ~GivenUp(r)
        /\ Retried(r) => ~GivenUp(r)
        /\ <<"recommend", r>> \in todo \/ runs[r].advice # None => <<"signal", r>> \notin todo

\* A run is classified again only when its job was executed again.
Again == {k \in DOMAIN log : \E i \in 1..(k - 1) : log[i] = log[k]}
ToComeAgain == {r \in ToSet(log) : <<"signal", r>> \in todo}
RepeatsCounted == Cardinality(Again) + Cardinality(ToComeAgain) <= repeats

Inv ==
    /\ TypeOK /\ RunsSound
    /\ FrontierMatches /\ BestIsNoRegression
    /\ LimitsGrow
    /\ RetriesPaid /\ RetriesBounded
    /\ ParentsActed /\ FocusIsSpent /\ FocusedOnce
    /\ DoneOnce /\ RecoveryCounts
    /\ RepeatsCounted

-----------------------------------------------------------------------------
(* Rows and lineages. *)

\* Every row has its type.
LEMMA Rows ==
    ASSUME TypeOK
    PROVE  /\ Len(runs) \in Nat /\ RunIds = 1..Len(runs) /\ DOMAIN runs = RunIds
           /\ \A r \in RunIds : runs[r] \in RunType /\ runs[r].parent \in 0..(r - 1)
           /\ Len(actions) \in Nat /\ DOMAIN actions = 1..Len(actions)
           /\ \A k \in DOMAIN actions : actions[k] \in ActionType /\ actions[k].run \in RunIds
           /\ Len(log) \in Nat /\ DOMAIN log = 1..Len(log)
           /\ \A k \in DOMAIN log : log[k] \in RunIds
           /\ Len(completed) \in Nat /\ DOMAIN completed = 1..Len(completed)
           /\ \A k \in DOMAIN completed : completed[k] \in RunIds
           /\ repeats \in Nat
<1>1. /\ Len(runs) \in Nat /\ RunIds = 1..Len(runs) /\ DOMAIN runs = RunIds
      /\ \A r \in RunIds : runs[r] \in RunType
  BY DEF TypeOK, RunIds
<1>2. \A r \in RunIds : runs[r].parent \in 0..(r - 1)
  <2> SUFFICES ASSUME NEW r \in RunIds PROVE runs[r].parent \in 0..(r - 1)
    OBVIOUS
  <2>1. runs[r].parent \in Nat /\ runs[r].parent < r /\ r \in Nat
    BY <1>1 DEF RunType, TypeOK
  <2>2. QED
    BY <2>1
<1>3. repeats \in Nat
  BY LineAssumption DEF TypeOK
<1>4. QED
  BY <1>1, <1>2, <1>3 DEF TypeOK

\* The columns of a run's row.
LEMMA RunColumns ==
    ASSUME TypeOK, NEW r \in RunIds
    PROVE  /\ runs[r].parent \in Nat /\ runs[r].limits \in Limits
           /\ runs[r].status \in {"pending", "completed", "failed"}
           /\ runs[r].class \in FailureClasses \cup {None, "metric_parse"}
           /\ runs[r].value \in Values \cup {NoMetric}
           /\ runs[r].manifest \in {None, "complete", "misnamed"}
           /\ runs[r].verdict \in {None, "passed", "inconclusive", "failed"}
           /\ runs[r].signal \in Signals \cup {None}
           /\ runs[r].improved \in BOOLEAN /\ runs[r].comparable \in BOOLEAN
           /\ runs[r].postmortem \in BOOLEAN /\ runs[r].advice \in Advices \cup {None}
BY Rows DEF RunType

\* A property of the numbers up to n that every number inherits from the
\* smaller ones holds of all of them.
LEMMA LeastIn ==
    ASSUME NEW Bad \in SUBSET Nat, Bad # {}
    PROVE  \E m \in Bad : \A k \in Bad : ~(k < m)
<1>1. PICK m \in Bad : \A k \in Bad : ~(<<k, m>> \in OpToRel(<, Nat))
  BY WFMin, NatLessThanWellFounded, Zenon
<1>2. \A k \in Bad : k \in Nat /\ m \in Nat
  OBVIOUS
<1>3. QED
  BY <1>1, <1>2, Zenon DEF OpToRel

\* The walk to the root ends, since a parent is older than its child.
Walks(f, m, up) == f = [r \in 0..m |-> IF r = 0 THEN {} ELSE {r} \cup f[up[r]]]
LEMMA WalksExist ==
    ASSUME NEW n \in Nat, NEW up \in [1..n -> Nat], \A r \in 1..n : up[r] < r
    PROVE  \E f : Walks(f, n, up)
<1> DEFINE Bad == {m \in 0..n : ~\E f : Walks(f, m, up)}
<1>1. /\ Bad \in SUBSET Nat
      /\ \A m \in Bad : m \in 0..n /\ ~\E f : Walks(f, m, up)
      /\ \A m \in 0..n : m \notin Bad => \E f : Walks(f, m, up)
  OBVIOUS
<1> HIDE DEF Bad
<1>2. CASE Bad = {}
  BY <1>1, <1>2
<1>3. CASE Bad # {}
  <2>1. PICK m \in Bad : \A k \in Bad : ~(k < m)
    BY <1>1, <1>3, LeastIn, Zenon
  <2>2. m \in 0..n
    BY <1>1
  <2>3. m # 0
    <3> DEFINE f0 == [r \in 0..0 |-> {}]
    <3>1. f0 = [r \in 0..0 |-> IF r = 0 THEN {} ELSE {r} \cup f0[up[r]]]
      OBVIOUS
    <3> HIDE DEF f0
    <3>2. Walks(f0, 0, up)
      BY <3>1 DEF Walks
    <3>3. QED
      BY <3>2, <1>1
  <2>4. m - 1 \in 0..n /\ m - 1 < m
    BY <2>2, <2>3
  <2>5. PICK f : Walks(f, m - 1, up)
    BY <2>1, <2>4, <1>1
  <2> DEFINE g == [r \in 0..m |-> IF r = m THEN {m} \cup f[up[m]] ELSE f[r]]
  <2>6. ASSUME NEW r \in 0..m
        PROVE  g[r] = IF r = 0 THEN {} ELSE {r} \cup g[up[r]]
    <3>1. CASE r = 0
      BY <2>2, <2>3, <2>5, <3>1 DEF Walks
    <3>2. CASE r # 0
      <4>1. r \in 1..n /\ up[r] \in 0..(r - 1) /\ up[r] \in 0..m /\ up[r] # m
        BY <2>2, <3>2
      <4>2. g[up[r]] = f[up[r]]
        BY <4>1
      <4>3. CASE r = m
        BY <4>2, <4>3, <3>2
      <4>4. CASE r # m
        <5>1. r \in 0..(m - 1)
          BY <2>2, <4>4
        <5>2. f[r] = IF r = 0 THEN {} ELSE {r} \cup f[up[r]]
          BY <2>5, <5>1 DEF Walks
        <5>3. QED
          BY <5>2, <4>2, <4>4, <3>2
      <4>5. QED
        BY <4>3, <4>4
    <3>3. QED
      BY <3>1, <3>2
  <2>7. Walks(g, m, up)
    <3>1. g = [r \in 0..m |-> g[r]]
      OBVIOUS
    <3> HIDE DEF g
    <3>2. [r \in 0..m |-> g[r]] = [r \in 0..m |-> IF r = 0 THEN {} ELSE {r} \cup g[up[r]]]
      BY <2>6
    <3>3. QED
      BY <3>1, <3>2, Zenon DEF Walks
  <2>8. QED
    BY <2>7, <1>1
<1>4. QED
  BY <1>2, <1>3

\* A lineage is the run and its parent's lineage.
LineageUnfolds ==
    \A r \in RunIds : /\ Lineage(r) \in SUBSET (1..r) /\ r \in Lineage(r)
                      /\ Lineage(r) = {r} \cup (IF runs[r].parent = 0 THEN {}
                                                ELSE Lineage(runs[r].parent))
LEMMA LineagesUnfold == TypeOK => LineageUnfolds
<1> SUFFICES ASSUME TypeOK PROVE LineageUnfolds
  OBVIOUS
<1> DEFINE n == Len(runs)
           up == [r \in 1..n |-> runs[r].parent]
           Step(f) == [r \in 0..n |-> IF r = 0 THEN {} ELSE {r} \cup f[runs[r].parent]]
<1>1. /\ n \in Nat /\ RunIds = 1..n /\ up \in [1..n -> Nat]
      /\ \A r \in 1..n : up[r] = runs[r].parent /\ up[r] < r /\ up[r] \in 0..(r - 1)
  <2>1. n \in Nat /\ RunIds = 1..n /\ \A r \in 1..n : runs[r].parent \in 0..(r - 1)
    BY Rows
  <2> HIDE DEF n
  <2>2. QED
    BY <2>1
<1> HIDE DEF n
<1>2. \E f : f = Step(f)
  <2>1. PICK f : Walks(f, n, up)
    BY <1>1, WalksExist, Zenon
  <2>2. \A r \in 0..n : (IF r = 0 THEN {} ELSE {r} \cup f[up[r]])
                        = (IF r = 0 THEN {} ELSE {r} \cup f[runs[r].parent])
    <3> HIDE DEF up
    <3> SUFFICES ASSUME NEW r \in 0..n, r # 0 PROVE up[r] = runs[r].parent
      OBVIOUS
    <3>1. QED
      BY <1>1
  <2>3. Step(f) = [r \in 0..n |-> IF r = 0 THEN {} ELSE {r} \cup f[up[r]]]
    BY <2>2
  <2>4. f = Step(f)
    BY <2>1, <2>3, Zenon DEF Walks
  <2>5. QED
    BY <2>4, Zenon
<1>3. Ancestry = CHOOSE f : f = Step(f)
  BY DEF Ancestry, n
<1>4. Ancestry = Step(Ancestry)
  BY <1>2, <1>3
<1>5. \A r \in 0..n : Ancestry[r] = IF r = 0 THEN {} ELSE {r} \cup Ancestry[runs[r].parent]
  BY <1>4
<1> HIDE DEF Step
<1>6. ASSUME NEW r \in RunIds
      PROVE  /\ Lineage(r) = {r} \cup (IF runs[r].parent = 0 THEN {}
                                       ELSE Lineage(runs[r].parent))
             /\ Lineage(r) = {r} \cup Ancestry[runs[r].parent]
  <2>1. r \in 0..n /\ r # 0 /\ runs[r].parent \in 0..n /\ 0 \in 0..n
    <3> HIDE DEF up
    <3>1. QED
      BY <1>1
  <2>2. Ancestry[r] = {r} \cup Ancestry[runs[r].parent]
    BY <2>1, <1>5
  <2>3. runs[r].parent = 0 => Ancestry[runs[r].parent] = {}
    BY <2>1, <1>5
  <2>4. QED
    BY <2>2, <2>3 DEF Lineage
<1> DEFINE Bad == {r \in RunIds : Lineage(r) \notin SUBSET (1..r)}
<1>7. Bad = {}
  <2>1. SUFFICES ASSUME Bad # {} PROVE FALSE
    OBVIOUS
  <2>2. Bad \in SUBSET Nat
    BY <1>1
  <2>3. PICK m \in Bad : \A k \in Bad : ~(k < m)
    <3> HIDE DEF Bad
    <3>1. QED
      BY <2>1, <2>2, LeastIn, Zenon
  <2>4. m \in RunIds /\ m \in 1..n /\ runs[m].parent \in 0..(m - 1) /\ Lineage(m) \notin SUBSET (1..m)
    BY <1>1
  <2>5. CASE runs[m].parent = 0
    BY <2>4, <2>5, <1>6
  <2>6. CASE runs[m].parent # 0
    <3> DEFINE p == runs[m].parent
    <3>1. p \in RunIds /\ p < m /\ p \in Nat /\ m \in Nat
      BY <2>4, <2>6, <1>1
    <3>2. Lineage(p) \in SUBSET (1..p)
      BY <2>3, <3>1
    <3>3. Lineage(m) = {m} \cup Lineage(p)
      BY <2>4, <2>6, <1>6
    <3>4. QED
      BY <3>1, <3>2, <3>3, <2>4
  <2>7. QED
    BY <2>5, <2>6
<1>8. QED
  BY <1>6, <1>7 DEF LineageUnfolds

-----------------------------------------------------------------------------
(* What the algorithms return. *)

\* The smaller of two numbers.
LEMMA MinOfTwo ==
    ASSUME NEW x \in Nat, NEW y \in Nat
    PROVE  Min({x, y}) = IF x <= y THEN x ELSE y
<1>1. \E m \in {x, y} : \A k \in {x, y} : m <= k
  OBVIOUS
<1>2. Min({x, y}) \in {x, y} /\ \A k \in {x, y} : Min({x, y}) <= k
  BY <1>1 DEF Min
<1>3. QED
  BY <1>2

\* More memory is more, up to the cap, and the time stays.
LEMMA MemoryIsRaised ==
    ASSUME NEW limits \in Limits, NEW new \in MoreMemory(limits)
    PROVE  /\ new \in Limits /\ new.timeout = limits.timeout
           /\ new.memory > limits.memory /\ new.memory <= MemoryCap
<1>1. /\ limits.memory \in Nat /\ 2 * limits.memory \in Nat /\ MemoryCap \in Nat
      /\ limits.timeout \in Nat
  BY DEF Limits, MemoryCap
<1> DEFINE m == Min({2 * limits.memory, MemoryCap})
<1>2. m \in Nat /\ m <= MemoryCap
  BY <1>1, MinOfTwo DEF MemoryCap
<1>3. new = [limits EXCEPT !.memory = m] /\ new.memory > limits.memory
  BY DEF MoreMemory
<1> HIDE DEF m
<1>4. QED
  BY <1>1, <1>2, <1>3 DEF Limits

\* More time is more, up to the cap, and the memory stays.
LEMMA TimeIsRaised ==
    ASSUME NEW limits \in Limits, NEW new \in MoreTime(limits)
    PROVE  /\ new \in Limits /\ new.memory = limits.memory
           /\ new.timeout > limits.timeout /\ new.timeout <= TimeoutCap
<1>1. /\ limits.timeout \in Nat /\ (3 * limits.timeout) \div 2 \in Nat
      /\ TimeoutCap \in Nat /\ limits.memory \in Nat
  BY DEF Limits, TimeoutCap
<1> DEFINE m == Min({(3 * limits.timeout) \div 2, TimeoutCap})
<1>2. m \in Nat /\ m <= TimeoutCap
  BY <1>1, MinOfTwo DEF TimeoutCap
<1>3. new = [limits EXCEPT !.timeout = m] /\ new.timeout > limits.timeout
  BY DEF MoreTime
<1> HIDE DEF m
<1>4. QED
  BY <1>1, <1>2, <1>3 DEF Limits

\* A retry never gets less, what it gets more is within the caps, and a run
\* that is spent is not repaired with a focused fix.
LEMMA StrategiesAreSound ==
    ASSUME TypeOK, NEW r \in RunIds, NEW s \in SelectStrategy(r)
    PROVE  /\ s.strategy \in Focused \cup {"skip", "debug_broad"}
           /\ s.limits \in Limits
           /\ s.limits.memory >= runs[r].limits.memory
           /\ s.limits.timeout >= runs[r].limits.timeout
           /\ s.limits.memory # runs[r].limits.memory => s.limits.memory <= MemoryCap
           /\ s.limits.timeout # runs[r].limits.timeout => s.limits.timeout <= TimeoutCap
           /\ s.strategy \in Focused => ~Spent(r)
           /\ s.strategy = "debug_broad" => Spent(r)
<1> DEFINE old == runs[r].limits
<1>1. /\ old \in Limits /\ old.memory \in Nat /\ old.timeout \in Nat
      /\ ClassOf(r) \in FailureClasses \cup {"metric_parse", "unknown"}
  BY RunColumns DEF Limits, ClassOf
<1>2. \/ /\ s.strategy \in {"skip", "debug_broad"} /\ s.limits = old
         /\ s.strategy = "debug_broad" => Spent(r)
      \/ s.strategy = "increase_memory" /\ s.limits \in MoreMemory(old) /\ ~Spent(r)
      \/ s.strategy = "extend_timeout" /\ s.limits \in MoreTime(old) /\ ~Spent(r)
      \/ s.strategy = "repair_artifact_path" /\ s.limits = old /\ ~Spent(r)
  <2> HIDE DEF old
  <2>1. CASE ClassOf(r) \in {"metric_parse", "unknown"}
    BY <2>1 DEF SelectStrategy, Spent, old
  <2>2. CASE ClassOf(r) = "runtime"
    BY <2>2 DEF SelectStrategy, Spent, old
  <2>3. CASE ClassOf(r) = "dependency"
    BY <2>3 DEF SelectStrategy, Spent, NamesModules, StderrWritten, old
  <2>4. CASE ClassOf(r) = "oom"
    BY <2>4 DEF SelectStrategy, Spent, old
  <2>5. CASE ClassOf(r) = "timeout"
    BY <2>5 DEF SelectStrategy, Spent, old
  <2>6. CASE ClassOf(r) = "invalid_artifact"
    BY <2>6 DEF SelectStrategy, Spent, old
  <2>7. QED
    BY <1>1, <2>1, <2>2, <2>3, <2>4, <2>5, <2>6 DEF FailureClasses
<1>3. \A new \in MoreMemory(old) :
          /\ new \in Limits /\ new.timeout = old.timeout
          /\ new.memory > old.memory /\ new.memory <= MemoryCap
  BY <1>1, MemoryIsRaised, Zenon
<1>4. \A new \in MoreTime(old) :
          /\ new \in Limits /\ new.memory = old.memory
          /\ new.timeout > old.timeout /\ new.timeout <= TimeoutCap
  BY <1>1, TimeIsRaised, Zenon
<1>5. QED
  BY <1>1, <1>2, <1>3, <1>4 DEF Focused, Limits

\* A signal is one of the signals.
LEMMA SignalsAreSignals ==
    ASSUME NEW x, NEW history PROVE ClassifySignal(x, history) \in Signals
BY DEF ClassifySignal, Signals

\* A recommendation is one of the recommendations.
LEMMA AdvicesAreAdvices ==
    ASSUME NEW failed, NEW exhausted, NEW unresolved, NEW signal
    PROVE  Recommendation(failed, exhausted, unresolved, signal) \in Advices
BY DEF Recommendation, Advices
-----------------------------------------------------------------------------
(* What a step leaves of the tables. *)

\* The row of a run is replaced, the others stay.
Updates(q, row) ==
    /\ runs' \in Seq(RunType) /\ Len(runs') = Len(runs)
    /\ RunIds' = RunIds
    /\ runs'[q] = row
    /\ \A r \in RunIds : r # q => runs'[r] = runs[r]
LEMMA RowUpdated ==
    ASSUME TypeOK, NEW q \in RunIds, NEW row \in RunType, runs' = [runs EXCEPT ![q] = row]
    PROVE  Updates(q, row)
<1>1. runs \in Seq(RunType) /\ q \in 1..Len(runs)
  BY DEF TypeOK, RunIds
<1>2. runs' \in Seq(RunType) /\ Len(runs') = Len(runs)
  BY <1>1, ExceptSeq
<1>3. QED
  BY <1>1, <1>2 DEF Updates, RunIds

\* A row is added.
Adds(row) ==
    /\ runs' \in Seq(RunType) /\ Len(runs') = Len(runs) + 1
    /\ RunIds' = RunIds \cup {Len(runs) + 1} /\ Len(runs) + 1 \notin RunIds
    /\ runs'[Len(runs) + 1] = row
    /\ \A r \in RunIds : runs'[r] = runs[r]
LEMMA RowAdded ==
    ASSUME TypeOK, NEW row \in RunType, runs' = Append(runs, row)
    PROVE  Adds(row)
<1>1. runs \in Seq(RunType) /\ Len(runs) \in Nat /\ RunIds = 1..Len(runs)
  BY DEF TypeOK, RunIds
<1>2. /\ runs' \in Seq(RunType) /\ Len(runs') = Len(runs) + 1
      /\ runs'[Len(runs) + 1] = row /\ \A r \in 1..Len(runs) : runs'[r] = runs[r]
  BY <1>1, AppendProperties
<1>3. RunIds' = 1..(Len(runs) + 1)
  BY <1>2 DEF RunIds
<1>4. QED
  BY <1>1, <1>2, <1>3 DEF Adds

\* An action is recorded of a run.
Acts(q, strategy, outcome) ==
    /\ actions' \in Seq(ActionType) /\ Len(actions') = Len(actions) + 1
    /\ DOMAIN actions' = DOMAIN actions \cup {Len(actions) + 1}
    /\ Len(actions) + 1 \notin DOMAIN actions
    /\ \A k \in DOMAIN actions : actions'[k] = actions[k] /\ k < Len(actions) + 1
    /\ actions'[Len(actions) + 1] = [run |-> q, class |-> ClassOf(q),
                                     strategy |-> strategy, outcome |-> outcome]
LEMMA ActionAdded ==
    ASSUME TypeOK, NEW q \in RunIds,
           NEW strategy \in Focused \cup {"skip", "debug_broad"},
           NEW outcome \in {"retry_created", "skipped", "exhausted"},
           Act(q, strategy, outcome)
    PROVE  Acts(q, strategy, outcome)
<1> DEFINE row == [run |-> q, class |-> ClassOf(q), strategy |-> strategy, outcome |-> outcome]
<1>1. ClassOf(q) \in FailureClasses \cup {"metric_parse", "unknown"} /\ q \in Nat
  BY RunColumns, Rows DEF ClassOf
<1>2. row \in ActionType
  BY <1>1 DEF ActionType
<1>3. actions' = Append(actions, row)
  BY DEF Act
<1>4. actions \in Seq(ActionType) /\ Len(actions) \in Nat /\ DOMAIN actions = 1..Len(actions)
  BY DEF TypeOK
<1> HIDE DEF row
<1>5. /\ actions' \in Seq(ActionType) /\ Len(actions') = Len(actions) + 1
      /\ actions'[Len(actions) + 1] = row
      /\ \A k \in 1..Len(actions) : actions'[k] = actions[k]
  BY <1>2, <1>3, <1>4, AppendProperties
<1>6. DOMAIN actions' = 1..(Len(actions) + 1)
  BY <1>5
<1>7. QED
  BY <1>4, <1>5, <1>6 DEF Acts, row

\* Writing one column of a row leaves a row.
LEMMA RowColumns ==
    ASSUME NEW row \in RunType
    PROVE  /\ \A x \in {"completed", "failed"} : [row EXCEPT !.status = x] \in RunType
           /\ \A x \in FailureClasses \cup {"metric_parse"} :
                 [row EXCEPT !.class = x] \in RunType
           /\ \A x \in Values : [row EXCEPT !.value = x] \in RunType
           /\ \A x \in {"complete", "misnamed"} : [row EXCEPT !.manifest = x] \in RunType
           /\ \A x \in {"passed", "inconclusive", "failed"} :
                 [row EXCEPT !.verdict = x] \in RunType
           /\ \A x \in Signals : [row EXCEPT !.signal = x] \in RunType
           /\ \A x \in BOOLEAN : /\ [row EXCEPT !.improved = x] \in RunType
                                 /\ [row EXCEPT !.comparable = x] \in RunType
           /\ [row EXCEPT !.postmortem = TRUE] \in RunType
           /\ \A x \in Advices : [row EXCEPT !.advice = x] \in RunType
<1>1. ASSUME NEW x \in {"completed", "failed"} PROVE [row EXCEPT !.status = x] \in RunType
  BY Zenon DEF RunType
<1>2. ASSUME NEW x \in FailureClasses \cup {"metric_parse"} PROVE [row EXCEPT !.class = x] \in RunType
  BY Zenon DEF RunType
<1>3. ASSUME NEW x \in Values PROVE [row EXCEPT !.value = x] \in RunType
  BY Zenon DEF RunType
<1>4. ASSUME NEW x \in {"complete", "misnamed"} PROVE [row EXCEPT !.manifest = x] \in RunType
  BY Zenon DEF RunType
<1>5. ASSUME NEW x \in {"passed", "inconclusive", "failed"} PROVE [row EXCEPT !.verdict = x] \in RunType
  BY Zenon DEF RunType
<1>6. ASSUME NEW x \in Signals PROVE [row EXCEPT !.signal = x] \in RunType
  BY Zenon DEF RunType
<1>7. ASSUME NEW x \in BOOLEAN PROVE [row EXCEPT !.improved = x] \in RunType
  BY Zenon DEF RunType
<1>8. ASSUME NEW x \in BOOLEAN PROVE [row EXCEPT !.comparable = x] \in RunType
  BY Zenon DEF RunType
<1>9. ASSUME NEW x \in {TRUE} PROVE [row EXCEPT !.postmortem = x] \in RunType
  BY Zenon DEF RunType
<1>10. ASSUME NEW x \in Advices PROVE [row EXCEPT !.advice = x] \in RunType
  BY Zenon DEF RunType
<1>11. QED
  BY <1>1, <1>2, <1>3, <1>4, <1>5, <1>6, <1>7, <1>8, <1>9, <1>10

\* The rows an action writes.
FailedRow(q, class)    == [runs[q] EXCEPT !.status = "failed", !.class = class]
UnreadableRow(q)       == [runs[q] EXCEPT !.status = "failed", !.class = "metric_parse",
                                          !.manifest = "complete"]
CapturedRow(q, x, a)   == [runs[q] EXCEPT !.status = "completed", !.value = x, !.manifest = a]
CheckedRow(q)          == [runs[q] EXCEPT !.verdict = IF runs[q].status = "failed"
                                                      THEN "failed" ELSE Verdict(q)]
PostmortemRow(q)       == [runs[q] EXCEPT !.postmortem = TRUE]
ClassifiedRow(q)       ==
    [runs[q] EXCEPT !.signal = ClassifySignal(runs[q].value, ValuesOf(History(q))),
                    !.improved = Improves(runs[q].value),
                    !.comparable = ToSet(History(q)) \subseteq ToSet(log)]
AdvisedRow(q, failed)  ==
    [runs[q] EXCEPT !.advice = Recommendation(failed, Exhausted(q), HasUnresolved(q, failed),
                                              runs[q].signal)]
LEMMA FailsWrites ==
    ASSUME TypeOK, NEW q \in RunIds, NEW c \in FailureClasses, ContainerFails(q, c)
    PROVE  Updates(q, FailedRow(q, c))
<1>1. runs' = [runs EXCEPT ![q] = FailedRow(q, c)]
  BY Rows DEF ContainerFails, FailedRow
<1>2. FailedRow(q, c) \in RunType
  BY Rows, RowColumns DEF FailedRow
<1>3. QED
  BY <1>1, <1>2, RowUpdated
\* MetricsUnreadable writes a row.
LEMMA UnreadableWrites ==
    ASSUME TypeOK, NEW q \in RunIds, MetricsUnreadable(q)
    PROVE  Updates(q, UnreadableRow(q))
<1>1. runs' = [runs EXCEPT ![q] = UnreadableRow(q)]
  BY Rows DEF MetricsUnreadable, UnreadableRow
<1>2. UnreadableRow(q) \in RunType
  BY Rows, RowColumns DEF UnreadableRow
<1>3. QED
  BY <1>1, <1>2, RowUpdated

\* CaptureArtifacts writes a row.
LEMMA CaptureWrites ==
    ASSUME TypeOK, NEW q \in RunIds, NEW x \in Values, NEW a \in {"complete", "misnamed"},
           CaptureArtifacts(q, x, a)
    PROVE  Updates(q, CapturedRow(q, x, a))
<1>1. runs' = [runs EXCEPT ![q] = CapturedRow(q, x, a)]
  BY Rows DEF CaptureArtifacts, CapturedRow
<1>2. CapturedRow(q, x, a) \in RunType
  BY Rows, RowColumns DEF CapturedRow
<1>3. QED
  BY <1>1, <1>2, RowUpdated

\* VerificationCheck writes a row.
LEMMA CheckWrites ==
    ASSUME TypeOK, NEW q \in RunIds, VerificationCheck(q)
    PROVE  Updates(q, CheckedRow(q))
<1>1. runs' = [runs EXCEPT ![q] = CheckedRow(q)]
  BY Rows DEF VerificationCheck, CheckedRow
<1>2. Verdict(q) \in {"passed", "inconclusive", "failed"}
  BY DEF Verdict
<1>3. CheckedRow(q) \in RunType
  BY Rows, RowColumns, <1>2 DEF CheckedRow
<1>4. QED
  BY <1>1, <1>3, RowUpdated

\* VerificationPostmortem writes a row.
LEMMA PostmortemWrites ==
    ASSUME TypeOK, NEW q \in RunIds, VerificationPostmortem(q)
    PROVE  Updates(q, PostmortemRow(q))
<1>1. runs' = [runs EXCEPT ![q] = PostmortemRow(q)]
  BY Rows DEF VerificationPostmortem, PostmortemRow
<1>2. PostmortemRow(q) \in RunType
  BY Rows, RowColumns DEF PostmortemRow
<1>3. QED
  BY <1>1, <1>2, RowUpdated

\* SignalClassify writes a row.
LEMMA ClassifyWrites ==
    ASSUME TypeOK, NEW q \in RunIds, SignalClassify(q)
    PROVE  Updates(q, ClassifiedRow(q))
<1>1. runs' = [runs EXCEPT ![q] = ClassifiedRow(q)]
  BY Rows DEF SignalClassify, ClassifiedRow
<1>2. Improves(runs[q].value) \in BOOLEAN
  <2> DEFINE i == Improves(runs[q].value)
  <2>1. i = TRUE \/ i = FALSE
    BY Zenon DEF Improves, IsImprovement, Better
  <2>2. QED
    BY <2>1
<1>3. (ToSet(History(q)) \subseteq ToSet(log)) \in BOOLEAN
  OBVIOUS
<1>4. ClassifySignal(runs[q].value, ValuesOf(History(q))) \in Signals
  BY SignalsAreSignals
<1>5. ASSUME NEW s \in Signals, NEW i \in BOOLEAN, NEW c \in BOOLEAN
      PROVE  [runs[q] EXCEPT !.signal = s, !.improved = i, !.comparable = c] \in RunType
  BY Rows, RowColumns
<1>6. ClassifiedRow(q) \in RunType
  BY <1>2, <1>3, <1>4, <1>5 DEF ClassifiedRow
<1>7. QED
  BY <1>1, <1>6, RowUpdated

\* Recommend writes a row.
LEMMA RecommendWrites ==
    ASSUME TypeOK, NEW q \in RunIds, NEW failed \in BOOLEAN, Recommend(q, failed)
    PROVE  Updates(q, AdvisedRow(q, failed))
<1>1. runs' = [runs EXCEPT ![q] = AdvisedRow(q, failed)]
  BY Rows DEF Recommend, AdvisedRow
<1>2. Recommendation(failed, Exhausted(q), HasUnresolved(q, failed), runs[q].signal) \in Advices
  BY AdvicesAreAdvices
<1>3. ASSUME NEW a \in Advices PROVE [runs[q] EXCEPT !.advice = a] \in RunType
  BY Rows, RowColumns
<1>4. AdvisedRow(q, failed) \in RunType
  BY <1>2, <1>3 DEF AdvisedRow
<1>5. QED
  BY <1>1, <1>4, RowUpdated

\* A run that is created has a row of its type.
LEMMA NewRunTyped ==
    ASSUME NEW parent \in Nat, NEW limits \in Limits PROVE NewRun(parent, limits) \in RunType
BY DEF NewRun, RunType

\* StartRun adds a root.
LEMMA StartAdds ==
    ASSUME TypeOK, StartRun PROVE Adds(NewRun(0, spec.limits))
<1>1. spec.limits \in Limits
  BY LineAssumption DEF TypeOK
<1>2. QED
  BY <1>1, NewRunTyped, RowAdded DEF StartRun

\* GiveUp records an action.
LEMMA GiveUpActs ==
    ASSUME TypeOK, NEW q \in RunIds, GiveUp(q)
    PROVE  \/ Acts(q, "skip", "exhausted")
           \/ \E s \in SelectStrategy(q) : /\ s.strategy \in {"skip", "debug_broad"}
                                           /\ Acts(q, s.strategy, "skipped")
<1>1. CASE Act(q, "skip", "exhausted")
  BY <1>1, ActionAdded
<1>2. ASSUME NEW s \in SelectStrategy(q), s.strategy \in {"skip", "debug_broad"},
             Act(q, s.strategy, "skipped")
      PROVE  Acts(q, s.strategy, "skipped")
  BY <1>2, ActionAdded
<1>3. QED
  BY <1>1, <1>2 DEF GiveUp

\* CreateRetry records an action and adds the retry.
LEMMA RetryActsAndAdds ==
    ASSUME TypeOK, NEW q \in RunIds, CreateRetry(q)
    PROVE  \E s \in SelectStrategy(q) : /\ s.strategy # "skip"
                                        /\ Acts(q, s.strategy, "retry_created")
                                        /\ Adds(NewRun(q, s.limits))
<1>1. PICK s \in SelectStrategy(q) :
          /\ s.strategy # "skip"
          /\ Act(q, s.strategy, "retry_created")
          /\ runs' = Append(runs, NewRun(q, s.limits))
  BY DEF CreateRetry
<1>2. /\ s.strategy \in Focused \cup {"skip", "debug_broad"} /\ s.limits \in Limits
      /\ q \in Nat
  BY StrategiesAreSound, Rows
<1>3. Acts(q, s.strategy, "retry_created")
  BY <1>1, <1>2, ActionAdded
<1>4. Adds(NewRun(q, s.limits))
  BY <1>1, <1>2, NewRunTyped, RowAdded
<1>5. QED
  BY <1>1, <1>3, <1>4
\* What a step may not change: where a run came from and what it was given;
\* how it ended, once it ended; the verdict, once there is one; the actions.
RowKept(old, new) ==
    /\ new.parent = old.parent /\ new.limits = old.limits
    /\ old.status # "pending" => /\ new.status = old.status /\ new.class = old.class
                                 /\ new.manifest = old.manifest /\ new.value = old.value
    /\ old.verdict # None => new.verdict = old.verdict
RunsKept ==
    /\ runs' \in Seq(RunType) /\ Len(runs) <= Len(runs') /\ RunIds \subseteq RunIds'
    /\ \A r \in RunIds : RowKept(runs[r], runs'[r])
    /\ \A r \in RunIds' : runs'[r].parent < r
ActionsKept ==
    /\ actions' \in Seq(ActionType) /\ Len(actions) <= Len(actions')
    /\ \A k \in DOMAIN actions : k \in DOMAIN actions' /\ actions'[k] = actions[k]

\* A run that is updated within these bounds keeps them all.
LEMMA UpdateKeeps ==
    ASSUME TypeOK, NEW q \in RunIds, NEW row, Updates(q, row), RowKept(runs[q], row)
    PROVE  RunsKept
<1>1. \A r \in RunIds : RowKept(runs[r], runs'[r])
  BY DEF Updates, RowKept
<1>2. \A r \in RunIds : runs'[r].parent < r
  BY <1>1 DEF TypeOK, RowKept
<1>3. Len(runs) \in Nat
  BY Rows
<1>4. QED
  BY <1>1, <1>2, <1>3 DEF RunsKept, Updates

\* So does a run that is added after its parent.
LEMMA AddingKeeps ==
    ASSUME TypeOK, NEW row, row.parent \in 0..Len(runs), Adds(row)
    PROVE  RunsKept
<1>1. \A r \in RunIds : RowKept(runs[r], runs'[r])
  BY DEF Adds, RowKept
<1>2. Len(runs) \in Nat
  BY Rows
<1>3. ASSUME NEW r \in RunIds' PROVE runs'[r].parent < r
  <2>1. CASE r \in RunIds
    BY <2>1 DEF TypeOK, Adds
  <2>2. CASE r \notin RunIds
    BY <1>2, <2>2 DEF Adds
  <2>3. QED
    BY <2>1, <2>2
<1>4. QED
  BY <1>1, <1>2, <1>3 DEF RunsKept, Adds

\* And the table that is left alone.
LEMMA SameActions == TypeOK /\ UNCHANGED actions => ActionsKept
BY DEF TypeOK, ActionsKept

\* The actions there were stay when one is recorded.
LEMMA ActingKeeps ==
    ASSUME TypeOK, NEW q \in RunIds, NEW s, NEW o, Acts(q, s, o)
    PROVE  ActionsKept
BY Rows DEF Acts, ActionsKept

\* A run whose row and jobs no step adds to stays sound.
LEMMA OthersSound ==
    ASSUME NEW r, RunSound(r), runs'[r] = runs[r],
           \A op \in Operators : <<op, r>> \in todo' => <<op, r>> \in todo
    PROVE  RunSound(r)'
BY DEF RunSound, Verified, Operators

\* What every step does to the tables.
TablesStep ==
    /\ RunsKept /\ ActionsKept
    /\ \A k \in DOMAIN actions' \ DOMAIN actions :
          actions'[k].run \in RunIds /\ runs[actions'[k].run].verdict = "failed"
    /\ todo' \subseteq Operators \X RunIds'
    /\ repeats' \in repeats..bound.repeats
    /\ UNCHANGED <<spec, bound>>

\* The jobs after one was handed on.
LEMMA Handing ==
    ASSUME TypeOK, NEW j, NEW next, Hand(j, next)
    PROVE  /\ todo' \subseteq todo \cup next /\ next \subseteq todo'
           /\ repeats' \in repeats..bound.repeats
           /\ j \in next \/ j \notin todo' \/ repeats' = repeats + 1
           /\ repeats' # repeats => repeats' = repeats + 1
           /\ todo \ {j} \subseteq todo'
<1>1. repeats \in 0..bound.repeats /\ bound.repeats \in Nat
  BY LineAssumption DEF TypeOK
<1>2. QED
  BY <1>1 DEF Hand

\* StartRun keeps the tables and the runs sound.
LEMMA StartSound ==
    ASSUME TypeOK, RunsSound, StartRun
    PROVE  TablesStep /\ RunsSound'
<1> DEFINE n == Len(runs) + 1
           row == NewRun(0, spec.limits)
<1>1. Adds(row) /\ row.parent = 0
  BY StartAdds DEF NewRun
<1>2. /\ todo' = todo \cup {<<"run", n>>} /\ n \in Nat
      /\ todo \subseteq Operators \X RunIds
      /\ repeats \in 0..bound.repeats /\ bound.repeats \in Nat
  BY Rows, LineAssumption DEF StartRun, TypeOK
<1>3. RunsKept
  <2>1. 0 \in 0..Len(runs)
    BY <1>2, Rows
  <2>2. QED
    BY <1>1, <2>1, AddingKeeps
<1>4. TablesStep
  BY <1>1, <1>2, <1>3, SameActions DEF StartRun, TablesStep, Adds, Operators
<1>5. ASSUME NEW r \in RunIds PROVE RunSound(r)'
  <2>1. r # n /\ runs'[r] = runs[r]
    BY <1>1 DEF Adds
  <2>2. \A op \in Operators : <<op, r>> \in todo' => <<op, r>> \in todo
    BY <1>2, <2>1
  <2>3. QED
    BY <2>1, <2>2, OthersSound DEF RunsSound
<1>6. ASSUME NEW r \in RunIds', r \notin RunIds PROVE RunSound(r)'
  <2>1. r = n /\ runs'[r] = row
    BY <1>1, <1>6 DEF Adds
  <2>2. \A op \in Operators : <<op, r>> \in todo' => op = "run"
    BY <1>2, <1>6
  <2>3. QED
    BY <2>1, <2>2 DEF RunSound, Verified, Operators, NewRun, None
<1>7. QED
  BY <1>1, <1>4, <1>5, <1>6 DEF RunsSound, Adds
\* So does an operator that updates the row of its run and hands it on, if it
\* leaves that run sound.
LEMMA UpdateSound ==
    ASSUME TypeOK, RunsSound, NEW q \in RunIds, NEW row, Updates(q, row),
           RowKept(runs[q], row), UNCHANGED <<spec, actions, bound>>,
           todo' \subseteq todo \cup {<<op, q>> : op \in Operators},
           repeats' \in repeats..bound.repeats, RunSound(q)'
    PROVE  TablesStep /\ RunsSound'
<1>1. RunsKept /\ ActionsKept
  BY UpdateKeeps, SameActions
<1>2. TablesStep
  BY <1>1 DEF TablesStep, TypeOK, Updates
<1>3. ASSUME NEW r \in RunIds, r # q PROVE RunSound(r)'
  <2>1. runs'[r] = runs[r]
    BY <1>3 DEF Updates
  <2>2. \A op \in Operators : <<op, r>> \in todo' => <<op, r>> \in todo
    BY <1>3
  <2>3. QED
    BY <2>1, <2>2, OthersSound DEF RunsSound
<1>4. QED
  BY <1>2, <1>3 DEF RunsSound, Updates

\* The next jobs of an operator that does not hand its job on twice.
LEMMA OnceHanded ==
    ASSUME TypeOK, UNCHANGED repeats PROVE repeats' \in repeats..bound.repeats
BY LineAssumption DEF TypeOK

\* ContainerFails keeps the tables and the runs sound.
LEMMA FailsSound ==
    ASSUME TypeOK, RunsSound, NEW q \in RunIds, NEW c \in FailureClasses, ContainerFails(q, c)
    PROVE  TablesStep /\ RunsSound'
<1>1. Updates(q, FailedRow(q, c))
  BY FailsWrites
<1>2. RunSound(q) /\ <<"run", q>> \in todo /\ runs[q] \in RunType
  BY Rows DEF RunsSound, ContainerFails
<1>3. RowKept(runs[q], FailedRow(q, c))
  BY <1>2 DEF RowKept, FailedRow, RunSound, RunType
<1>4. todo' = (todo \ {<<"run", q>>}) \cup {<<"check", q>>}
  BY DEF ContainerFails
<1>5. RunSound(q)'
  <2>1. runs'[q] = FailedRow(q, c)
    BY <1>1 DEF Updates
  <2>2. QED
    BY <1>2, <1>4, <2>1 DEF RunSound, Verified, FailedRow, RunType, None
<1>6. todo' \subseteq todo \cup {<<op, q>> : op \in Operators}
  BY <1>4 DEF Operators
<1>7. UNCHANGED <<spec, actions, bound>> /\ repeats' \in repeats..bound.repeats
  BY OnceHanded DEF ContainerFails
<1>8. QED
  BY <1>1, <1>3, <1>5, <1>6, <1>7, UpdateSound

\* MetricsUnreadable keeps the tables and the runs sound.
LEMMA UnreadableSound ==
    ASSUME TypeOK, RunsSound, NEW q \in RunIds, MetricsUnreadable(q)
    PROVE  TablesStep /\ RunsSound'
<1>1. Updates(q, UnreadableRow(q))
  BY UnreadableWrites
<1>2. RunSound(q) /\ <<"run", q>> \in todo /\ runs[q] \in RunType
  BY Rows DEF RunsSound, MetricsUnreadable
<1>3. RowKept(runs[q], UnreadableRow(q))
  BY <1>2 DEF RowKept, UnreadableRow, RunSound, RunType
<1>4. todo' = (todo \ {<<"run", q>>}) \cup {<<"check", q>>}
  BY DEF MetricsUnreadable
<1>5. RunSound(q)'
  <2>1. runs'[q] = UnreadableRow(q)
    BY <1>1 DEF Updates
  <2>2. QED
    BY <1>2, <1>4, <2>1 DEF RunSound, Verified, UnreadableRow, RunType, None
<1>6. todo' \subseteq todo \cup {<<op, q>> : op \in Operators}
  BY <1>4 DEF Operators
<1>7. UNCHANGED <<spec, actions, bound>> /\ repeats' \in repeats..bound.repeats
  BY OnceHanded DEF MetricsUnreadable
<1>8. QED
  BY <1>1, <1>3, <1>5, <1>6, <1>7, UpdateSound

\* CaptureArtifacts keeps the tables and the runs sound.
LEMMA CaptureSound ==
    ASSUME TypeOK, RunsSound, NEW q \in RunIds, NEW x \in Values,
           NEW a \in {"complete", "misnamed"}, CaptureArtifacts(q, x, a)
    PROVE  TablesStep /\ RunsSound'
<1>1. Updates(q, CapturedRow(q, x, a))
  BY CaptureWrites
<1>2. RunSound(q) /\ <<"run", q>> \in todo /\ runs[q] \in RunType
  BY Rows DEF RunsSound, CaptureArtifacts
<1>3. RowKept(runs[q], CapturedRow(q, x, a))
  BY <1>2 DEF RowKept, CapturedRow, RunSound, RunType
<1>4. todo' = (todo \ {<<"run", q>>}) \cup {<<"check", q>>}
  BY DEF CaptureArtifacts
<1>5. RunSound(q)'
  <2>1. runs'[q] = CapturedRow(q, x, a)
    BY <1>1 DEF Updates
  <2>2. QED
    BY <1>2, <1>4, <2>1 DEF RunSound, Verified, CapturedRow, RunType, None
<1>6. todo' \subseteq todo \cup {<<op, q>> : op \in Operators}
  BY <1>4 DEF Operators
<1>7. UNCHANGED <<spec, actions, bound>> /\ repeats' \in repeats..bound.repeats
  BY OnceHanded DEF CaptureArtifacts
<1>8. QED
  BY <1>1, <1>3, <1>5, <1>6, <1>7, UpdateSound

\* VerificationCheck keeps the tables and the runs sound.
LEMMA CheckSound ==
    ASSUME TypeOK, RunsSound, NEW q \in RunIds, VerificationCheck(q)
    PROVE  TablesStep /\ RunsSound'
<1> DEFINE verdict == IF runs[q].status = "failed" THEN "failed" ELSE Verdict(q)
<1>1. Updates(q, CheckedRow(q)) /\ CheckedRow(q) = [runs[q] EXCEPT !.verdict = verdict]
  BY CheckWrites DEF CheckedRow
<1>2. /\ RunSound(q) /\ <<"check", q>> \in todo /\ runs[q] \in RunType
      /\ verdict \in {"passed", "inconclusive", "failed"}
  BY Rows DEF RunsSound, VerificationCheck, Verdict
<1>3. verdict # "failed" => runs[q].status = "completed"
  BY <1>2 DEF RunSound, RunType
<1>4. todo' = (todo \ {<<"check", q>>})
                 \cup {<<IF verdict = "failed" THEN "remediate" ELSE "signal", q>>}
  BY DEF VerificationCheck
<1> HIDE DEF verdict
<1>5. RowKept(runs[q], CheckedRow(q))
  BY <1>1, <1>2 DEF RowKept, RunSound, RunType
<1>6. RunSound(q)'
  <2>1. runs'[q] = [runs[q] EXCEPT !.verdict = verdict]
    BY <1>1 DEF Updates
  <2>2. runs'[q].verdict = verdict /\ verdict # None
    BY <1>2, <2>1 DEF RunType, None
  <2>3. CASE verdict = "failed"
    BY <1>2, <1>4, <2>1, <2>2, <2>3 DEF RunSound, Verified, RunType, None
  <2>4. CASE verdict # "failed"
    BY <1>2, <1>3, <1>4, <2>1, <2>2, <2>4 DEF RunSound, Verified, RunType, None
  <2>5. QED
    BY <2>3, <2>4
<1>7. todo' \subseteq todo \cup {<<op, q>> : op \in Operators}
  BY <1>4 DEF Operators
<1>8. UNCHANGED <<spec, actions, bound>> /\ repeats' \in repeats..bound.repeats
  BY OnceHanded DEF VerificationCheck
<1>9. QED
  BY <1>1, <1>5, <1>6, <1>7, <1>8, UpdateSound

\* VerificationPostmortem keeps the tables and the runs sound.
LEMMA PostmortemSound ==
    ASSUME TypeOK, RunsSound, NEW q \in RunIds, VerificationPostmortem(q)
    PROVE  TablesStep /\ RunsSound'
<1>1. Updates(q, PostmortemRow(q))
  BY PostmortemWrites
<1>2. /\ RunSound(q) /\ <<"postmortem", q>> \in todo /\ runs[q] \in RunType
      /\ runs[q].verdict = "failed"
  BY Rows DEF RunsSound, VerificationPostmortem, RunSound
<1>3. RowKept(runs[q], PostmortemRow(q))
  BY <1>2 DEF RowKept, PostmortemRow, RunType
<1>4. /\ todo' \subseteq todo \cup {<<"recommend_failed", q>>}
      /\ repeats' \in repeats..bound.repeats
  <2>1. Hand(<<"postmortem", q>>, {<<"recommend_failed", q>>})
    BY DEF VerificationPostmortem
  <2>2. QED
    BY <2>1, Handing
<1>5. RunSound(q)'
  <2>1. runs'[q] = PostmortemRow(q)
    BY <1>1 DEF Updates
  <2>2. QED
    BY <1>2, <1>4, <2>1 DEF RunSound, Verified, PostmortemRow, RunType, None
<1>6. todo' \subseteq todo \cup {<<op, q>> : op \in Operators}
  BY <1>4 DEF Operators
<1>7. UNCHANGED <<spec, actions, bound>>
  BY DEF VerificationPostmortem
<1>8. QED
  BY <1>1, <1>3, <1>4, <1>5, <1>6, <1>7, UpdateSound

\* SignalClassify keeps the tables and the runs sound.
LEMMA ClassifySound ==
    ASSUME TypeOK, RunsSound, NEW q \in RunIds, SignalClassify(q)
    PROVE  TablesStep /\ RunsSound'
<1>1. Updates(q, ClassifiedRow(q))
  BY ClassifyWrites
<1>2. /\ RunSound(q) /\ <<"signal", q>> \in todo /\ runs[q] \in RunType
      /\ runs[q].verdict \in {"passed", "inconclusive"}
  BY Rows DEF RunsSound, SignalClassify, RunSound, Verified
<1>3. /\ todo' \subseteq todo \cup {<<"recommend", q>>}
      /\ repeats' \in repeats..bound.repeats
  <2>1. Hand(<<"signal", q>>, {<<"recommend", q>>})
    BY DEF SignalClassify
  <2>2. QED
    BY <2>1, Handing
<1> DEFINE row == ClassifiedRow(q)
<1>4. /\ row.parent = runs[q].parent /\ row.limits = runs[q].limits
      /\ row.status = runs[q].status /\ row.class = runs[q].class
      /\ row.manifest = runs[q].manifest /\ row.value = runs[q].value
      /\ row.verdict = runs[q].verdict /\ row.postmortem = runs[q].postmortem
      /\ row.advice = runs[q].advice
  BY <1>2 DEF ClassifiedRow, RunType
<1>5. runs'[q] = row
  BY <1>1 DEF Updates
<1> HIDE DEF row
<1>6. RowKept(runs[q], row)
  BY <1>2, <1>4 DEF RowKept
<1>7. RunSound(q)'
  BY <1>2, <1>3, <1>4, <1>5 DEF RunSound, Verified
<1>8. todo' \subseteq todo \cup {<<op, q>> : op \in Operators}
  BY <1>3 DEF Operators
<1>9. UNCHANGED <<spec, actions, bound>>
  BY DEF SignalClassify
<1>10. QED
  BY <1>1, <1>3, <1>6, <1>7, <1>8, <1>9, UpdateSound DEF row

\* Recommend keeps the tables and the runs sound.
LEMMA RecommendSound ==
    ASSUME TypeOK, RunsSound, NEW q \in RunIds, NEW failed \in BOOLEAN, Recommend(q, failed)
    PROVE  TablesStep /\ RunsSound'
<1> DEFINE j == <<IF failed THEN "recommend_failed" ELSE "recommend", q>>
<1>1. Updates(q, AdvisedRow(q, failed))
  BY RecommendWrites
<1>2. RunSound(q) /\ j \in todo /\ runs[q] \in RunType
  BY Rows DEF RunsSound, Recommend
<1>3. runs[q].verdict # None
  BY <1>2 DEF RunSound, Verified, None
<1>4. todo' \subseteq todo /\ repeats' \in repeats..bound.repeats
  <2>1. Hand(j, {})
    BY DEF Recommend
  <2> HIDE DEF j
  <2>2. QED
    BY <2>1, Handing
<1> DEFINE row == AdvisedRow(q, failed)
<1>5. /\ row.parent = runs[q].parent /\ row.limits = runs[q].limits
      /\ row.status = runs[q].status /\ row.class = runs[q].class
      /\ row.manifest = runs[q].manifest /\ row.value = runs[q].value
      /\ row.verdict = runs[q].verdict /\ row.postmortem = runs[q].postmortem
      /\ row.signal = runs[q].signal
  BY <1>2 DEF AdvisedRow, RunType
<1>6. runs'[q] = row
  BY <1>1 DEF Updates
<1> HIDE DEF row, j
<1>7. RowKept(runs[q], row)
  BY <1>2, <1>5 DEF RowKept
<1>8. RunSound(q)'
  BY <1>2, <1>3, <1>4, <1>5, <1>6 DEF RunSound, Verified
<1>9. UNCHANGED <<spec, actions, bound>>
  BY DEF Recommend
<1>10. todo' \subseteq todo \cup {<<op, q>> : op \in Operators}
  BY <1>4
<1>11. QED
  BY <1>1, <1>4, <1>7, <1>8, <1>9, <1>10, UpdateSound DEF row
\* GiveUp keeps the tables and the runs sound.
LEMMA GiveUpSound ==
    ASSUME TypeOK, RunsSound, NEW q \in RunIds, GiveUp(q)
    PROVE  TablesStep /\ RunsSound'
<1>1. PICK s, o : Acts(q, s, o)
  BY GiveUpActs
<1>2. RunSound(q) /\ <<"remediate", q>> \in todo /\ runs[q].verdict = "failed"
  BY DEF RunsSound, GiveUp, RunSound
<1>3. /\ todo' \subseteq todo \cup {<<"postmortem", q>>}
      /\ repeats' \in repeats..bound.repeats
  <2>1. Hand(<<"remediate", q>>, {<<"postmortem", q>>})
    BY DEF GiveUp
  <2>2. QED
    BY <2>1, Handing
<1>4. UNCHANGED <<spec, runs, bound>> /\ RunIds' = RunIds
  BY DEF GiveUp, RunIds
<1>5. RunsKept
  BY <1>4, Rows DEF RunsKept, RowKept, TypeOK
<1>6. ActionsKept /\ \A k \in DOMAIN actions' \ DOMAIN actions : actions'[k].run = q
  BY <1>1, ActingKeeps DEF Acts
<1>7. TablesStep
  BY <1>2, <1>3, <1>4, <1>5, <1>6 DEF TablesStep, TypeOK, Operators
<1>8. ASSUME NEW r \in RunIds PROVE RunSound(r)'
  <2>1. RunSound(r) /\ runs'[r] = runs[r]
    BY <1>4 DEF RunsSound
  <2>2. CASE r = q
    BY <1>2, <1>3, <2>1, <2>2 DEF RunSound, Verified
  <2>3. CASE r # q
    <3>1. \A op \in Operators : <<op, r>> \in todo' => <<op, r>> \in todo
      BY <1>3, <2>3
    <3>2. QED
      BY <2>1, <3>1, OthersSound
  <2>4. QED
    BY <2>2, <2>3
<1>9. QED
  BY <1>4, <1>7, <1>8 DEF RunsSound

\* CreateRetry keeps the tables and the runs sound.
LEMMA RetrySound ==
    ASSUME TypeOK, RunsSound, NEW q \in RunIds, CreateRetry(q)
    PROVE  TablesStep /\ RunsSound'
<1> DEFINE n == Len(runs) + 1
<1>1. PICK s \in SelectStrategy(q) : Acts(q, s.strategy, "retry_created") /\ Adds(NewRun(q, s.limits))
  BY RetryActsAndAdds
<1>2. /\ RunSound(q) /\ <<"remediate", q>> \in todo /\ runs[q].verdict = "failed"
      /\ n \in Nat /\ q \in 0..Len(runs) /\ todo \subseteq Operators \X RunIds
  <2>1. n \in Nat /\ q \in 0..Len(runs)
    BY Rows
  <2>2. RunSound(q) /\ <<"remediate", q>> \in todo
    BY DEF RunsSound, CreateRetry
  <2>3. QED
    BY <2>1, <2>2 DEF RunSound, TypeOK
<1>3. /\ todo' \subseteq todo \cup {<<"run", n>>}
      /\ repeats' \in repeats..bound.repeats
  <2>1. Hand(<<"remediate", q>>, {<<"run", n>>})
    BY DEF CreateRetry
  <2>2. QED
    BY <2>1, Handing
<1>4. UNCHANGED <<spec, bound>>
  BY DEF CreateRetry
<1> DEFINE row == NewRun(q, s.limits)
<1>5. Adds(row) /\ row.parent = q
  BY <1>1 DEF NewRun
<1>6. RunsKept
  <2> HIDE DEF row
  <2>1. QED
    BY <1>2, <1>5, AddingKeeps
<1>7. ActionsKept /\ \A k \in DOMAIN actions' \ DOMAIN actions : actions'[k].run = q
  <2>1. ActionsKept
    BY <1>1, ActingKeeps
  <2>2. QED
    BY <1>1, <2>1 DEF Acts
<1>8. TablesStep
  <2>1. todo' \subseteq Operators \X RunIds'
    BY <1>2, <1>3, <1>5 DEF Adds, Operators
  <2>2. QED
    BY <1>2, <1>3, <1>4, <1>6, <1>7, <2>1 DEF TablesStep
<1>9. ASSUME NEW r \in RunIds PROVE RunSound(r)'
  <2>1. r # n /\ runs'[r] = runs[r]
    BY <1>5 DEF Adds
  <2>2. \A op \in Operators : <<op, r>> \in todo' => <<op, r>> \in todo
    BY <1>3, <2>1
  <2>3. QED
    BY <2>1, <2>2, OthersSound DEF RunsSound
<1>10. ASSUME NEW r \in RunIds', r \notin RunIds PROVE RunSound(r)'
  <2>1. r = n /\ runs'[r] = row
    BY <1>5, <1>10 DEF Adds
  <2>2. \A op \in Operators : <<op, r>> \in todo' => op = "run"
    BY <1>2, <1>3, <1>10
  <2>3. QED
    BY <2>1, <2>2 DEF RunSound, Verified, Operators, NewRun, None
<1>11. QED
  BY <1>5, <1>8, <1>9, <1>10 DEF RunsSound, Adds

\* So does every step.
LEMMA NextSound ==
    ASSUME TypeOK, RunsSound, Next
    PROVE  TablesStep /\ RunsSound'
<1>1. CASE StartRun
  BY <1>1, StartSound
<1>2. ASSUME NEW q \in RunIds, NEW c \in FailureClasses, ContainerFails(q, c)
      PROVE  TablesStep /\ RunsSound'
  BY <1>2, FailsSound
<1>3. ASSUME NEW q \in RunIds, MetricsUnreadable(q)
      PROVE  TablesStep /\ RunsSound'
  BY <1>3, UnreadableSound
<1>4. ASSUME NEW q \in RunIds, NEW x \in Values, NEW a \in {"complete", "misnamed"},
             CaptureArtifacts(q, x, a)
      PROVE  TablesStep /\ RunsSound'
  BY <1>4, CaptureSound
<1>5. ASSUME NEW q \in RunIds, VerificationCheck(q)
      PROVE  TablesStep /\ RunsSound'
  BY <1>5, CheckSound
<1>6. ASSUME NEW q \in RunIds, GiveUp(q)
      PROVE  TablesStep /\ RunsSound'
  BY <1>6, GiveUpSound
<1>7. ASSUME NEW q \in RunIds, CreateRetry(q)
      PROVE  TablesStep /\ RunsSound'
  BY <1>7, RetrySound
<1>8. ASSUME NEW q \in RunIds, VerificationPostmortem(q)
      PROVE  TablesStep /\ RunsSound'
  BY <1>8, PostmortemSound
<1>9. ASSUME NEW q \in RunIds, SignalClassify(q)
      PROVE  TablesStep /\ RunsSound'
  BY <1>9, ClassifySound
<1>10. ASSUME NEW q \in RunIds, NEW failed \in BOOLEAN, Recommend(q, failed)
       PROVE  TablesStep /\ RunsSound'
  BY <1>10, RecommendSound
<1>11. QED
  BY <1>1, <1>2, <1>3, <1>4, <1>5, <1>6, <1>7, <1>8, <1>9, <1>10 DEF Next

\* What is completed, classified and counted by a step.
FilesStep ==
    \/ UNCHANGED <<completed, log, frontier>>
    \/ \E q \in RunIds, x \in Values, a \in {"complete", "misnamed"} :
          CaptureArtifacts(q, x, a) /\ UNCHANGED <<log, frontier>>
    \/ \E q \in RunIds : SignalClassify(q) /\ UNCHANGED completed
LEMMA NextFiles == Next => FilesStep
<1>1. StartRun => UNCHANGED <<completed, log, frontier>>
  BY DEF StartRun
<1>2. ASSUME NEW q \in RunIds
      PROVE  /\ \A c \in FailureClasses :
                   ContainerFails(q, c) => UNCHANGED <<completed, log, frontier>>
             /\ MetricsUnreadable(q) => UNCHANGED <<completed, log, frontier>>
  BY DEF ContainerFails, MetricsUnreadable
<1>3. ASSUME NEW q \in RunIds, NEW x \in Values, NEW a \in {"complete", "misnamed"},
             CaptureArtifacts(q, x, a)
      PROVE  UNCHANGED <<log, frontier>>
  BY <1>3 DEF CaptureArtifacts
<1>4. ASSUME NEW q \in RunIds
      PROVE  /\ VerificationCheck(q) => UNCHANGED <<completed, log, frontier>>
             /\ GiveUp(q) => UNCHANGED <<completed, log, frontier>>
  BY DEF VerificationCheck, GiveUp
<1>5. ASSUME NEW q \in RunIds, CreateRetry(q)
      PROVE  UNCHANGED <<completed, log, frontier>>
  BY <1>5 DEF CreateRetry
<1>6. ASSUME NEW q \in RunIds, VerificationPostmortem(q)
      PROVE  UNCHANGED <<completed, log, frontier>>
  BY <1>6 DEF VerificationPostmortem
<1>7. ASSUME NEW q \in RunIds, SignalClassify(q)
      PROVE  UNCHANGED completed
  BY <1>7 DEF SignalClassify
<1>8. ASSUME NEW q \in RunIds, NEW failed \in BOOLEAN, Recommend(q, failed)
      PROVE  UNCHANGED <<completed, log, frontier>>
  BY <1>8 DEF Recommend
<1>9. QED
  BY <1>1, <1>2, <1>3, <1>4, <1>5, <1>6, <1>7, <1>8 DEF Next, FilesStep

\* The rows of the log stay as they were classified.
LEMMA LogKept ==
    ASSUME TypeOK, RunsSound, RunsKept
    PROVE  /\ \A k \in DOMAIN log : /\ runs'[log[k]].value = runs[log[k]].value
                                    /\ runs'[log[k]].verdict = runs[log[k]].verdict
           /\ \A k \in DOMAIN completed : runs'[completed[k]].status = "completed"
<1>1. ASSUME NEW k \in DOMAIN log
      PROVE  /\ runs'[log[k]].value = runs[log[k]].value
             /\ runs'[log[k]].verdict = runs[log[k]].verdict
  <2>1. /\ log[k] \in RunIds /\ runs[log[k]].verdict \in {"passed", "inconclusive"}
        /\ RunSound(log[k])
    BY Rows DEF TypeOK, RunsSound
  <2>2. runs[log[k]].status # "pending" /\ runs[log[k]].verdict # None
    BY <2>1 DEF RunSound, None
  <2>3. QED
    BY <2>1, <2>2 DEF RunsKept, RowKept
<1>2. ASSUME NEW k \in DOMAIN completed
      PROVE  runs'[completed[k]].status = "completed"
  <2>1. completed[k] \in RunIds /\ runs[completed[k]].status = "completed"
    BY Rows DEF TypeOK
  <2>2. QED
    BY <2>1 DEF RunsKept, RowKept
<1>3. QED
  BY <1>1, <1>2

\* What a sequence is after an element was appended.
LEMMA Appended ==
    ASSUME NEW S, NEW s \in Seq(S), NEW e \in S
    PROVE  /\ Append(s, e) \in Seq(S) /\ Len(Append(s, e)) = Len(s) + 1
           /\ DOMAIN Append(s, e) = 1..(Len(s) + 1)
           /\ Append(s, e)[Len(s) + 1] = e
           /\ \A k \in DOMAIN s : Append(s, e)[k] = s[k]
BY AppendProperties

\* A run is added to the log or to the completed runs.
LEMMA Listed ==
    ASSUME TypeOK, RunIds \subseteq RunIds', NEW q \in RunIds
    PROVE  /\ log \in Seq(RunIds') /\ completed \in Seq(RunIds')
           /\ log' = Append(log, q) =>
                /\ log' \in Seq(RunIds') /\ Len(log') = Len(log) + 1
                /\ DOMAIN log' = 1..(Len(log) + 1)
                /\ log'[Len(log) + 1] = q /\ \A k \in DOMAIN log : log'[k] = log[k]
           /\ completed' = Append(completed, q) =>
                /\ completed' \in Seq(RunIds')
                /\ DOMAIN completed' = 1..(Len(completed) + 1)
                /\ completed'[Len(completed) + 1] = q
                /\ \A k \in DOMAIN completed : completed'[k] = completed[k]
<1>1. log \in Seq(RunIds) /\ completed \in Seq(RunIds)
  BY DEF TypeOK
<1>2. log \in Seq(RunIds') /\ completed \in Seq(RunIds') /\ q \in RunIds'
  BY <1>1
<1>3. ASSUME log' = Append(log, q)
      PROVE  /\ log' \in Seq(RunIds') /\ Len(log') = Len(log) + 1
             /\ DOMAIN log' = 1..(Len(log) + 1)
             /\ log'[Len(log) + 1] = q /\ \A k \in DOMAIN log : log'[k] = log[k]
  BY <1>2, <1>3, Appended
<1>4. ASSUME completed' = Append(completed, q)
      PROVE  /\ completed' \in Seq(RunIds')
             /\ DOMAIN completed' = 1..(Len(completed) + 1)
             /\ completed'[Len(completed) + 1] = q
             /\ \A k \in DOMAIN completed : completed'[k] = completed[k]
  BY <1>2, <1>4, Appended
<1>5. QED
  BY <1>2, <1>3, <1>4

\* The part of the type invariant that is about the lists and the frontier.
FilesTyped ==
    /\ completed \in Seq(RunIds)
    /\ \A k \in DOMAIN completed : runs[completed[k]].status = "completed"
    /\ log \in Seq(RunIds)
    /\ \A k \in DOMAIN log : /\ runs[log[k]].value \in Values
                             /\ runs[log[k]].verdict \in {"passed", "inconclusive"}
    /\ frontier \in FrontierType

\* upsert_frontier returns a frontier.
LEMMA FrontierIsTyped ==
    ASSUME frontier \in FrontierType, NEW r \in Nat, NEW x \in Values
    PROVE  UpsertFrontier(r, x) \in FrontierType
<1>1. CASE frontier = NoFrontier
  BY <1>1 DEF UpsertFrontier, FrontierType
<1>2. CASE frontier # NoFrontier
  <2> DEFINE counted == [frontier EXCEPT !.total = @ + 1, !.successful = @ + 1]
  <2>1. counted \in FrontierType
    <3>1. frontier.total + 1 \in Nat /\ frontier.successful + 1 \in Nat
      BY DEF FrontierType
    <3>2. ASSUME NEW i \in Nat, NEW k \in Nat
          PROVE  [frontier EXCEPT !.total = i, !.successful = k] \in FrontierType
      BY DEF FrontierType
    <3>3. QED
      BY <3>1, <3>2
  <2>2. /\ [counted EXCEPT !.best = x, !.run = r, !.since = 0] \in FrontierType
        /\ [counted EXCEPT !.since = @ + 1] \in FrontierType
    <3> HIDE DEF counted
    <3>1. counted.since + 1 \in Nat /\ x \in Values
      BY <2>1 DEF FrontierType
    <3>2. ASSUME NEW i \in Nat PROVE [counted EXCEPT !.since = i] \in FrontierType
      BY <2>1 DEF FrontierType
    <3>3. [counted EXCEPT !.best = x, !.run = r, !.since = 0] \in FrontierType
      BY <2>1, <3>1 DEF FrontierType
    <3>4. QED
      BY <3>1, <3>2, <3>3
  <2>3. \/ UpsertFrontier(r, x) = [counted EXCEPT !.best = x, !.run = r, !.since = 0]
        \/ UpsertFrontier(r, x) = [counted EXCEPT !.since = @ + 1]
    BY <1>2 DEF UpsertFrontier
  <2>4. QED
    BY <2>2, <2>3
<1>3. QED
  BY <1>1, <1>2

\* Every step keeps the lists typed.
LEMMA NextFilesTyped ==
    ASSUME TypeOK, RunsSound, RunsKept, Next
    PROVE  FilesTyped'
<1>1. /\ log \in Seq(RunIds') /\ completed \in Seq(RunIds')
      /\ \A k \in DOMAIN completed : runs'[completed[k]].status = "completed"
      /\ \A k \in DOMAIN log : /\ runs'[log[k]].value \in Values
                               /\ runs'[log[k]].verdict \in {"passed", "inconclusive"}
      /\ frontier \in FrontierType
  <2>1. RunIds \subseteq RunIds' /\ log \in Seq(RunIds) /\ completed \in Seq(RunIds)
    BY DEF RunsKept, TypeOK
  <2>2. log \in Seq(RunIds') /\ completed \in Seq(RunIds')
    BY <2>1
  <2>3. QED
    BY <2>2, LogKept DEF TypeOK
<1>2. CASE UNCHANGED <<completed, log, frontier>>
  BY <1>1, <1>2 DEF FilesTyped
<1>3. ASSUME NEW q \in RunIds, NEW x \in Values, NEW a \in {"complete", "misnamed"},
             CaptureArtifacts(q, x, a)
      PROVE  FilesTyped'
  <2>1. runs'[q].status = "completed"
    <3>1. Updates(q, CapturedRow(q, x, a)) /\ runs[q] \in RunType
      BY <1>3, CaptureWrites, Rows
    <3>2. runs'[q] = CapturedRow(q, x, a)
      BY <3>1 DEF Updates
    <3>3. QED
      BY <3>1, <3>2 DEF CapturedRow, RunType
  <2>2. completed' = Append(completed, q) /\ UNCHANGED <<log, frontier>>
    BY <1>3 DEF CaptureArtifacts
  <2>3. /\ completed' \in Seq(RunIds')
        /\ DOMAIN completed' = 1..(Len(completed) + 1)
        /\ completed'[Len(completed) + 1] = q
        /\ \A k \in DOMAIN completed : completed'[k] = completed[k]
    BY <2>2, Listed DEF RunsKept
  <2>4. Len(completed) \in Nat /\ DOMAIN completed = 1..Len(completed)
    BY Rows
  <2>5. \A k \in DOMAIN completed' : runs'[completed'[k]].status = "completed"
    BY <1>1, <2>1, <2>3, <2>4
  <2>6. QED
    BY <1>1, <2>2, <2>3, <2>5 DEF FilesTyped
<1>4. ASSUME NEW q \in RunIds, SignalClassify(q)
      PROVE  FilesTyped'
  <2>1. Updates(q, ClassifiedRow(q)) /\ <<"signal", q>> \in todo
    BY <1>4, ClassifyWrites DEF SignalClassify
  <2>2. runs[q].verdict \in {"passed", "inconclusive"} /\ runs[q].value \in Values
    BY <2>1 DEF RunsSound, RunSound, Verified
  <2>3. runs'[q].verdict = runs[q].verdict /\ runs'[q].value = runs[q].value
    BY <2>1, Rows DEF Updates, ClassifiedRow, RunType
  <2>4. /\ log' = Append(log, q) /\ UNCHANGED completed
        /\ frontier' = UpsertFrontier(q, runs[q].value)
    BY <1>4 DEF SignalClassify
  <2>5. /\ log' \in Seq(RunIds') /\ DOMAIN log' = 1..(Len(log) + 1)
        /\ log'[Len(log) + 1] = q /\ \A k \in DOMAIN log : log'[k] = log[k]
    BY <2>4, Listed DEF RunsKept
  <2>6. Len(log) \in Nat /\ DOMAIN log = 1..Len(log) /\ q \in Nat
    BY Rows
  <2>7. ASSUME NEW k \in DOMAIN log'
        PROVE  /\ runs'[log'[k]].value \in Values
               /\ runs'[log'[k]].verdict \in {"passed", "inconclusive"}
    <3>1. CASE k \in DOMAIN log
      BY <1>1, <2>5, <3>1
    <3>2. CASE k = Len(log) + 1
      BY <2>2, <2>3, <2>5, <3>2
    <3>3. QED
      BY <2>5, <2>6, <3>1, <3>2
  <2>8. frontier' \in FrontierType
    BY <1>1, <2>2, <2>4, <2>6, FrontierIsTyped
  <2>9. QED
    BY <1>1, <2>4, <2>5, <2>7, <2>8 DEF FilesTyped
<1>5. QED
  BY <1>2, <1>3, <1>4, NextFiles DEF FilesStep

\* Every step keeps the types.
LEMMA NextTyped ==
    ASSUME TypeOK, RunsSound, Next
    PROVE  TypeOK'
<1>1. TablesStep /\ RunsSound'
  BY NextSound
<1>2. RunsKept /\ ActionsKept
  BY <1>1 DEF TablesStep
<1>3. spec' \in Specs /\ bound' \in Bounds /\ repeats' \in 0..bound'.repeats
  <2>1. repeats \in Nat /\ bound.repeats \in Nat /\ repeats' \in repeats..bound.repeats
    BY <1>1, Rows, LineAssumption DEF TablesStep, TypeOK
  <2>2. QED
    BY <1>1, <2>1 DEF TablesStep, TypeOK
<1>4. runs' \in Seq(RunType) /\ \A r \in RunIds' : runs'[r].parent < r
  BY <1>2 DEF RunsKept
<1>5. actions' \in Seq(ActionType) /\ \A k \in DOMAIN actions' :
          /\ actions'[k].run \in RunIds' /\ runs'[actions'[k].run].verdict = "failed"
  <2>1. ASSUME NEW k \in DOMAIN actions'
        PROVE  actions'[k].run \in RunIds /\ runs[actions'[k].run].verdict = "failed"
    BY <1>1, <1>2 DEF TablesStep, ActionsKept, TypeOK
  <2>2. QED
    BY <1>2, <2>1 DEF RunsKept, RowKept, ActionsKept, None
<1>6. FilesTyped'
  BY <1>2, NextFilesTyped
<1>7. QED
  BY <1>1, <1>3, <1>4, <1>5, <1>6 DEF TypeOK, TablesStep, FilesTyped
-----------------------------------------------------------------------------
(* Lineages only get new runs at their ends. *)

\* Lineages unfold after a step too.
LEMMA LineagesUnfoldNext == TypeOK' => LineageUnfolds'
BY LineagesUnfold, PTL

\* The runs a run descends from are those it always descended from.
LEMMA LineageKept ==
    ASSUME TypeOK, TypeOK', RunsKept
    PROVE  \A r \in RunIds : Lineage(r)' = Lineage(r)
<1> DEFINE Bad == {r \in RunIds : Lineage(r)' # Lineage(r)}
<1>1. SUFFICES ASSUME Bad # {} PROVE FALSE
  OBVIOUS
<1>2. Bad \in SUBSET Nat
  BY Rows
<1>3. PICK m \in Bad : \A k \in Bad : ~(k < m)
  <2> HIDE DEF Bad
  <2>1. QED
    BY <1>1, <1>2, LeastIn, Zenon
<1>4. m \in RunIds /\ m \in RunIds' /\ Lineage(m)' # Lineage(m)
  BY DEF RunsKept
<1>5. LineageUnfolds /\ LineageUnfolds'
  BY LineagesUnfold, LineagesUnfoldNext
<1> DEFINE p == runs[m].parent
<1>6. runs'[m].parent = p /\ p \in 0..(m - 1) /\ m \in RunIds
  BY <1>4, Rows DEF RunsKept, RowKept
<1>7. Lineage(m) = {m} \cup (IF p = 0 THEN {} ELSE Lineage(p))
  BY <1>4, <1>5 DEF LineageUnfolds
<1> HIDE DEF p
<1>8. ASSUME NEW c, c = p
      PROVE  Lineage(m)' = {m} \cup (IF c = 0 THEN {} ELSE Lineage(c)')
  BY <1>4, <1>5, <1>6, <1>8 DEF LineageUnfolds
<1>9. PICK c : c = p
  OBVIOUS
<1>10. CASE c = 0
  BY <1>4, <1>7, <1>8, <1>9, <1>10
<1>11. CASE c # 0
  <2>1. c \in RunIds /\ c < m
    BY <1>6, <1>9, <1>11, Rows
  <2>2. Lineage(c)' = Lineage(c)
    BY <1>3, <2>1
  <2>3. QED
    BY <1>4, <1>7, <1>8, <1>9, <1>11, <2>2
<1>12. QED
  BY <1>10, <1>11

\* The actions of a lineage stay, new ones may come.
LEMMA LineageActionsKept ==
    ASSUME TypeOK, TypeOK', RunsKept, ActionsKept, NEW r \in RunIds
    PROVE  /\ LineageActions(r) \subseteq LineageActions(r)'
           /\ LineageActions(r)' \cap DOMAIN actions = LineageActions(r)
<1>1. Lineage(r)' = Lineage(r)
  BY LineageKept
<1>2. QED
  BY <1>1 DEF LineageActions, ActionsKept

\* The runs and the actions of a lineage can be counted.
LEMMA LineagesFinite ==
    TypeOK => \A r \in RunIds : /\ IsFiniteSet(Lineage(r)) /\ Cardinality(Lineage(r)) \in Nat
                                /\ IsFiniteSet(LineageActions(r))
                                /\ Cardinality(LineageActions(r)) \in Nat
<1> SUFFICES ASSUME TypeOK, NEW r \in RunIds
             PROVE  /\ IsFiniteSet(Lineage(r)) /\ Cardinality(Lineage(r)) \in Nat
                    /\ IsFiniteSet(LineageActions(r))
                    /\ Cardinality(LineageActions(r)) \in Nat
  OBVIOUS
<1>1. r \in Nat /\ Lineage(r) \in SUBSET (1..r)
  BY LineagesUnfold, Rows DEF LineageUnfolds
<1>2. LineageActions(r) \in SUBSET (1..Len(actions)) /\ Len(actions) \in Nat
  BY Rows DEF LineageActions
<1>3. IsFiniteSet(1..r) /\ IsFiniteSet(1..Len(actions))
  BY <1>1, <1>2, FS_Interval
<1>4. IsFiniteSet(Lineage(r)) /\ IsFiniteSet(LineageActions(r))
  BY <1>1, <1>2, <1>3, FS_Subset
<1>5. QED
  BY <1>4, FS_CardinalityType

\* They can be counted after a step too.
LEMMA LineagesFiniteNext ==
    TypeOK' => (\A r \in RunIds : /\ IsFiniteSet(Lineage(r)) /\ Cardinality(Lineage(r)) \in Nat
                                  /\ IsFiniteSet(LineageActions(r))
                                  /\ Cardinality(LineageActions(r)) \in Nat)'
BY LineagesFinite, PTL

\* A run that is in the lineage of another has been retried.
LEMMA AncestorsRetried ==
    ASSUME TypeOK
    PROVE  \A r \in RunIds : \A a \in Lineage(r) : a = r \/ Retried(a)
<1> DEFINE Bad == {r \in RunIds : \E a \in Lineage(r) : a # r /\ ~Retried(a)}
<1>1. SUFFICES ASSUME Bad # {} PROVE FALSE
  OBVIOUS
<1>2. Bad \in SUBSET Nat
  BY Rows
<1>3. PICK m \in Bad : \A k \in Bad : ~(k < m)
  <2> HIDE DEF Bad
  <2>1. QED
    BY <1>1, <1>2, LeastIn, Zenon
<1>4. PICK a \in Lineage(m) : a # m /\ ~Retried(a)
  OBVIOUS
<1> DEFINE p == runs[m].parent
<1>5. m \in RunIds /\ Lineage(m) = {m} \cup (IF p = 0 THEN {} ELSE Lineage(p))
  BY LineagesUnfold DEF LineageUnfolds
<1>6. p # 0 /\ a \in Lineage(p)
  BY <1>4, <1>5
<1>7. p \in RunIds /\ p < m
  BY <1>5, <1>6, Rows
<1>8. a = p \/ Retried(a)
  BY <1>3, <1>6, <1>7
<1>9. Retried(p)
  BY <1>5 DEF Retried
<1>10. QED
  BY <1>4, <1>8, <1>9

-----------------------------------------------------------------------------
(* The frontier. *)

\* A value the type allows is an integer, and better is a strict order of them.
LEMMA BetterIsOrder ==
    ASSUME NEW a \in Int, NEW b \in Int, NEW c \in Int
    PROVE  /\ ~Better(a, a)
           /\ Better(a, b) => ~Better(b, a) /\ a # b
           /\ Better(a, b) /\ ~Better(c, b) => Better(a, c)
           /\ Better(a, b) /\ ~Better(c, b) => ~Better(c, a) /\ c # a
BY DEF Better

\* SignalClassify in terms of the log: x is the value classified.
LEMMA Classification ==
    ASSUME TypeOK, RunsSound, RunsKept, NEW q \in RunIds, SignalClassify(q)
    PROVE  /\ runs[q].value \in Values
           /\ Len(log) \in Nat /\ Len(log') = Len(log) + 1
           /\ DOMAIN log = 1..Len(log) /\ DOMAIN log' = 1..(Len(log) + 1)
           /\ \A k \in DOMAIN log : LogValue(k)' = LogValue(k) /\ LogValue(k) \in Values
                                    /\ log'[k] = log[k]
           /\ log'[Len(log) + 1] = q /\ runs'[q].value = runs[q].value
           /\ frontier' = UpsertFrontier(q, runs[q].value)
           /\ UNCHANGED spec
<1>1. <<"signal", q>> \in todo /\ log' = Append(log, q) /\ UNCHANGED spec
      /\ frontier' = UpsertFrontier(q, runs[q].value)
  BY DEF SignalClassify
<1>2. runs[q].value \in Values
  BY <1>1 DEF RunsSound, RunSound, Verified
<1>3. /\ log' \in Seq(RunIds') /\ Len(log') = Len(log) + 1
      /\ DOMAIN log' = 1..(Len(log) + 1)
      /\ log'[Len(log) + 1] = q /\ \A k \in DOMAIN log : log'[k] = log[k]
  BY <1>1, Listed DEF RunsKept
<1>4. \A k \in DOMAIN log : runs'[log[k]].value = runs[log[k]].value
  BY LogKept
<1>5. \A k \in DOMAIN log : LogValue(k)' = LogValue(k) /\ LogValue(k) \in Values
  BY <1>3, <1>4 DEF LogValue, TypeOK
<1>6. runs'[q].value = runs[q].value
  BY <1>2, LineAssumption DEF RunsKept, RowKept, RunsSound, RunSound
<1>7. QED
  BY <1>1, <1>2, <1>3, <1>5, <1>6, Rows

\* A step that classifies nothing keeps what the frontier is measured by.
LEMMA FrontierStays ==
    ASSUME TypeOK, RunsSound, RunsKept, UNCHANGED <<spec, log, frontier>>, FrontierMatches
    PROVE  FrontierMatches'
<1>1. CASE log = <<>>
  BY <1>1 DEF FrontierMatches, NoFrontier
<1>2. CASE log # <<>>
  <2>1. PICK k \in DOMAIN log :
            /\ ReachesBest(k)
            /\ frontier = [best |-> LogValue(k), run |-> log[k],
                           total |-> Len(log), successful |-> Len(log),
                           since |-> Len(log) - k]
    BY <1>2 DEF FrontierMatches
  <2>2. \A i \in DOMAIN log : LogValue(i)' = LogValue(i)
    BY LogKept DEF LogValue
  <2>3. Len(log) \in Nat /\ DOMAIN log = 1..Len(log)
    BY Rows
  <2>4. ReachesBest(k)'
    <3>1. \A i \in DOMAIN log : ~Better(LogValue(i), LogValue(k))'
      BY <2>1, <2>2 DEF ReachesBest, Better
    <3>2. \A i \in 1..(k - 1) : i \in DOMAIN log
      BY <2>3
    <3>3. \A i \in 1..(k - 1) : LogValue(i)' # LogValue(k)'
      BY <2>1, <2>2, <3>2 DEF ReachesBest
    <3>4. QED
      BY <3>1, <3>3 DEF ReachesBest
  <2>5. QED
    BY <1>2, <2>1, <2>2, <2>4 DEF FrontierMatches
<1>3. QED
  BY <1>1, <1>2
\* upsert_frontier finds what a pass over the longer log would.
LEMMA FrontierFollows ==
    ASSUME TypeOK, RunsSound, RunsKept, FrontierMatches, NEW q \in RunIds, SignalClassify(q)
    PROVE  FrontierMatches'
<1> DEFINE x == runs[q].value
           n == Len(log)
<1>1. /\ x \in Values /\ n \in Nat /\ Len(log') = n + 1
      /\ DOMAIN log = 1..n /\ DOMAIN log' = 1..(n + 1)
      /\ \A k \in 1..n : LogValue(k)' = LogValue(k) /\ LogValue(k) \in Values
                         /\ log'[k] = log[k]
      /\ log'[n + 1] = q /\ runs'[q].value = x
      /\ frontier' = UpsertFrontier(q, x) /\ UNCHANGED spec
  BY Classification
<1> HIDE DEF x, n
<1>2. log' # <<>>
  BY <1>1
<1>3. \A k \in 1..(n + 1) : k = n + 1 => LogValue(k)' = x
  BY <1>1 DEF LogValue
<1>4. \A v \in Values : v \in Int
  BY LineAssumption
<1>5. SUFFICES ASSUME TRUE
      PROVE  \E k \in 1..(n + 1) :
                /\ ReachesBest(k)'
                /\ frontier' = [best |-> LogValue(k)', run |-> log'[k], total |-> n + 1,
                                successful |-> n + 1, since |-> n + 1 - k]
  BY <1>1, <1>2 DEF FrontierMatches
<1>6. PICK last : last = n + 1
  OBVIOUS
<1>7. /\ LogValue(last)' = x /\ log'[last] = q /\ last \in 1..(n + 1)
  BY <1>1, <1>3, <1>6
<1>8. CASE log = <<>>
  <2>1. n = 0 /\ frontier = NoFrontier
    BY <1>8 DEF FrontierMatches, n
  <2>2. frontier' = [best |-> x, run |-> q, total |-> 1, successful |-> 1, since |-> 0]
    BY <1>1, <2>1 DEF UpsertFrontier
  <2>3. ReachesBest(last)'
    <3>1. \A i \in DOMAIN log' : i = last
      BY <1>1, <1>6, <2>1
    <3>2. \A i \in DOMAIN log' : ~Better(LogValue(i), LogValue(last))'
      BY <1>1, <1>4, <1>7, <3>1 DEF Better
    <3>3. 1..(last - 1) = {}
      BY <1>6, <2>1
    <3>4. QED
      BY <3>2, <3>3 DEF ReachesBest
  <2>4. QED
    BY <1>6, <1>7, <2>1, <2>2, <2>3
<1>9. CASE log # <<>>
  <2>1. PICK k \in DOMAIN log :
            /\ ReachesBest(k)
            /\ frontier = [best |-> LogValue(k), run |-> log[k],
                           total |-> n, successful |-> n, since |-> n - k]
    BY <1>9 DEF FrontierMatches, n
  <2>2. /\ k \in 1..n /\ n # 0 /\ LogValue(k) \in Int /\ x \in Int
        /\ frontier # NoFrontier /\ frontier.best = LogValue(k)
    BY <1>1, <1>4, <2>1 DEF NoFrontier
  <2>3. \A i \in 1..n : /\ LogValue(i) \in Int /\ LogValue(i)' = LogValue(i)
                        /\ ~Better(LogValue(i), LogValue(k))
    BY <1>1, <1>4, <2>1 DEF ReachesBest
  <2>4. CASE IsImprovement(x, frontier.best)
    <3>1. Better(x, LogValue(k))
      BY <2>2, <2>4 DEF IsImprovement
    <3>2. frontier' = [best |-> x, run |-> q, total |-> n + 1, successful |-> n + 1, since |-> 0]
      BY <1>1, <2>1, <2>2, <2>4 DEF UpsertFrontier
    <3>3. \A i \in 1..n : ~Better(LogValue(i), x) /\ LogValue(i) # x
      BY <2>2, <2>3, <3>1, BetterIsOrder
    <3>4. ReachesBest(last)'
      <4>1. ASSUME NEW i \in DOMAIN log'
            PROVE  ~Better(LogValue(i), LogValue(last))'
        <5>1. CASE i = last
          BY <1>1, <1>4, <1>7, <5>1 DEF Better
        <5>2. CASE i # last
          <6>1. i \in 1..n
            BY <1>1, <1>6, <5>2
          <6>2. LogValue(i)' = LogValue(i) /\ ~Better(LogValue(i), x)
            BY <2>3, <3>3, <6>1
          <6>3. QED
            BY <1>1, <1>7, <6>2 DEF Better
        <5>3. QED
          BY <5>1, <5>2
      <4>2. \A i \in 1..(last - 1) : LogValue(i)' # LogValue(last)'
        BY <1>1, <1>6, <1>7, <2>3, <3>3
      <4>3. QED
        BY <4>1, <4>2 DEF ReachesBest
    <3>5. QED
      BY <1>1, <1>6, <1>7, <3>2, <3>4
  <2>5. CASE ~IsImprovement(x, frontier.best)
    <3>1. ~Better(x, LogValue(k))
      BY <2>2, <2>5 DEF IsImprovement
    <3>2. frontier' = [best |-> LogValue(k), run |-> log[k], total |-> n + 1,
                       successful |-> n + 1, since |-> n - k + 1]
      BY <1>1, <2>1, <2>2, <2>5 DEF UpsertFrontier
    <3>3. ReachesBest(k)'
      <4>1. ASSUME NEW i \in DOMAIN log'
            PROVE  ~Better(LogValue(i), LogValue(k))'
        <5>1. CASE i = last
          BY <1>1, <1>7, <2>2, <2>3, <3>1, <5>1 DEF Better
        <5>2. CASE i # last
          <6>1. i \in 1..n
            BY <1>1, <1>6, <5>2
          <6>2. QED
            BY <1>1, <2>2, <2>3, <6>1 DEF Better
        <5>3. QED
          BY <5>1, <5>2
      <4>2. \A i \in 1..(k - 1) : LogValue(i)' # LogValue(k)'
        <5>1. \A i \in 1..(k - 1) : i \in 1..n
          BY <1>1, <2>2
        <5>2. QED
          BY <2>1, <2>2, <2>3, <5>1 DEF ReachesBest
      <4>3. QED
        BY <4>1, <4>2 DEF ReachesBest
    <3>4. /\ k \in 1..(n + 1) /\ n - k + 1 = n + 1 - k
          /\ LogValue(k)' = LogValue(k) /\ log'[k] = log[k]
      BY <1>1, <2>2
    <3>5. QED
      BY <3>2, <3>3, <3>4
  <2>6. QED
    BY <2>4, <2>5
<1>10. QED
  BY <1>8, <1>9
\* Every step keeps the frontier what a pass over the log would find.
LEMMA NextFrontier ==
    ASSUME TypeOK, RunsSound, FrontierMatches, Next
    PROVE  FrontierMatches'
<1>1. RunsKept /\ UNCHANGED spec
  BY NextSound DEF TablesStep
<1>2. CASE UNCHANGED <<log, frontier>>
  BY <1>1, <1>2, FrontierStays
<1>3. ASSUME NEW q \in RunIds, SignalClassify(q) PROVE FrontierMatches'
  BY <1>1, <1>3, FrontierFollows
<1>4. QED
  BY <1>2, <1>3, NextFiles DEF FilesStep

-----------------------------------------------------------------------------
(* The signal. *)

\* A sequence without one of its elements.
LEMMA RemovedFirst ==
    ASSUME NEW S, NEW s \in Seq(S), NEW e
    PROVE  RemoveFirst(s, e) \in Seq(S)
<1>1. CASE ~\E i \in 1..Len(s) : s[i] = e
  BY <1>1 DEF RemoveFirst
<1>2. CASE \E i \in 1..Len(s) : s[i] = e
  <2> DEFINE I == {i \in 1..Len(s) : s[i] = e}
  <2>1. I # {} /\ I \in SUBSET Nat
    BY <1>2
  <2>2. \E m \in I : \A k \in I : m <= k
    <3>1. PICK m \in I : \A k \in I : ~(k < m)
      <4> HIDE DEF I
      <4>1. QED
        BY <2>1, LeastIn, Zenon
    <3>2. \A k \in I : m <= k
      BY <3>1
    <3>3. QED
      BY <3>2
  <2>3. Min(I) \in I
    <3> HIDE DEF I
    <3>1. QED
      BY <2>2 DEF Min
  <2> DEFINE i == Min(I)
  <2>4. i \in 1..Len(s) /\ Len(s) \in Nat
    BY <2>3
  <2>5. RemoveFirst(s, e) = RemoveAt(s, i)
    BY <1>2, <2>1 DEF RemoveFirst, SelectInSeq
  <2> HIDE DEF i
  <2>6. SubSeq(s, 1, i - 1) \in Seq(S) /\ SubSeq(s, i + 1, Len(s)) \in Seq(S)
    BY <2>4
  <2>7. QED
    BY <2>5, <2>6 DEF RemoveAt
<1>3. QED
  BY <1>1, <1>2

\* A new best, in a history that was classified before it, does not regress.
LEMMA SignalAgrees ==
    ASSUME TypeOK, RunsSound, FrontierMatches, NEW q \in RunIds,
           runs[q].value \in Values, Improves(runs[q].value),
           ToSet(History(q)) \subseteq ToSet(log)
    PROVE  ClassifySignal(runs[q].value, ValuesOf(History(q))) # "regressing"
<1> DEFINE x == runs[q].value
           h == History(q)
           v == ValuesOf(h)
<1>1. h \in Seq(RunIds)
  BY RemovedFirst DEF History, TypeOK
<1> HIDE DEF x, h
<1>2. v = [k \in 1..Len(h) |-> runs[h[k]].value] /\ Len(h) \in Nat /\ Len(v) = Len(h)
  BY <1>1 DEF ValuesOf
<1>3. CASE v = <<>>
  BY <1>3 DEF ClassifySignal, h
<1>4. CASE v # <<>>
  <2>1. Len(h) # 0 /\ Len(h) \in 1..Len(h) /\ Last(v) = runs[h[Len(h)]].value
    BY <1>2, <1>4 DEF Last
  <2>2. h[Len(h)] \in ToSet(log)
    <3>1. h[Len(h)] \in ToSet(h)
      BY <1>1, <2>1 DEF ToSet
    <3>2. QED
      BY <3>1 DEF h
  <2>3. PICK i \in DOMAIN log : log[i] = h[Len(h)]
    BY <2>2 DEF ToSet
  <2>4. Last(v) = LogValue(i) /\ log # <<>>
    BY <2>1, <2>3, Rows DEF LogValue
  <2>5. PICK k \in DOMAIN log : ReachesBest(k) /\ frontier.best = LogValue(k) /\ frontier.total = Len(log)
    BY <2>4 DEF FrontierMatches
  <2>6. Better(x, LogValue(k)) /\ ~Better(LogValue(i), LogValue(k))
    <3>1. frontier # NoFrontier
      BY <2>3, <2>5, Rows DEF NoFrontier
    <3>2. QED
      BY <2>5, <3>1 DEF Improves, IsImprovement, ReachesBest, x
  <2>7. x \in Int /\ LogValue(k) \in Int /\ LogValue(i) \in Int
    BY LineAssumption DEF TypeOK, LogValue, x
  <2>8. Improving(x, Last(v))
    BY <2>4, <2>6, <2>7, BetterIsOrder DEF Improving
  <2> HIDE DEF v
  <2>9. ClassifySignal(x, v) # "regressing"
    BY <1>4, <2>8 DEF ClassifySignal
  <2>10. QED
    BY <2>9 DEF x, v, h
<1>5. QED
  BY <1>3, <1>4

\* Who writes the signal, the advice and the postmortem of a run.
SignalKept(r) ==
    /\ runs'[r].signal = runs[r].signal /\ runs'[r].improved = runs[r].improved
    /\ runs'[r].comparable = runs[r].comparable
AdviceKept(r) == runs'[r].advice = runs[r].advice
PostmortemKept(r) == runs'[r].postmortem = runs[r].postmortem
Decided(r) ==
    /\ SignalKept(r) \/ SignalClassify(r)
    /\ AdviceKept(r) \/ \E failed \in BOOLEAN : Recommend(r, failed)
    /\ PostmortemKept(r) \/ VerificationPostmortem(r)
Undecided(r) ==
    /\ runs'[r].signal = None /\ runs'[r].advice = None /\ runs'[r].verdict = None
    /\ runs'[r].improved = FALSE /\ runs'[r].postmortem = FALSE
LEMMA NextDecides ==
    ASSUME TypeOK, Next
    PROVE  /\ \A r \in RunIds : Decided(r)
           /\ \A r \in RunIds' : r \notin RunIds => Undecided(r)
<1> DEFINE Goal == /\ \A r \in RunIds : Decided(r)
                   /\ \A r \in RunIds' : r \notin RunIds => Undecided(r)
<1>1. ASSUME NEW row, Adds(row), NEW p, NEW l, row = NewRun(p, l) PROVE Goal
  BY <1>1 DEF Adds, NewRun, Decided, Undecided, SignalKept, AdviceKept, PostmortemKept
<1>2. ASSUME NEW q \in RunIds, NEW row, Updates(q, row), row.signal = runs[q].signal,
             row.improved = runs[q].improved, row.comparable = runs[q].comparable,
             row.advice = runs[q].advice, row.postmortem = runs[q].postmortem
      PROVE  Goal
  BY <1>2 DEF Updates, Decided, SignalKept, AdviceKept, PostmortemKept
<1>3. \A q \in RunIds : runs[q] \in RunType
  BY Rows
<1> HIDE DEF Goal
<1>4. ASSUME StartRun PROVE Goal
  BY <1>1, <1>4, StartAdds
<1>5. ASSUME NEW q \in RunIds, NEW c \in FailureClasses, ContainerFails(q, c) PROVE Goal
  <2> DEFINE row == FailedRow(q, c)
  <2>1. Updates(q, row)
    BY <1>5, FailsWrites
  <2>2. /\ row.signal = runs[q].signal /\ row.improved = runs[q].improved
        /\ row.comparable = runs[q].comparable /\ row.advice = runs[q].advice
        /\ row.postmortem = runs[q].postmortem
    BY <1>3 DEF FailedRow, RunType
  <2> HIDE DEF row
  <2>3. QED
    BY <1>2, <2>1, <2>2
<1>6. ASSUME NEW q \in RunIds, MetricsUnreadable(q) PROVE Goal
  <2> DEFINE row == UnreadableRow(q)
  <2>1. Updates(q, row)
    BY <1>6, UnreadableWrites
  <2>2. /\ row.signal = runs[q].signal /\ row.improved = runs[q].improved
        /\ row.comparable = runs[q].comparable /\ row.advice = runs[q].advice
        /\ row.postmortem = runs[q].postmortem
    BY <1>3 DEF UnreadableRow, RunType
  <2> HIDE DEF row
  <2>3. QED
    BY <1>2, <2>1, <2>2
<1>7. ASSUME NEW q \in RunIds, NEW x \in Values, NEW a \in {"complete", "misnamed"},
             CaptureArtifacts(q, x, a)
      PROVE  Goal
  <2> DEFINE row == CapturedRow(q, x, a)
  <2>1. Updates(q, row)
    BY <1>7, CaptureWrites
  <2>2. /\ row.signal = runs[q].signal /\ row.improved = runs[q].improved
        /\ row.comparable = runs[q].comparable /\ row.advice = runs[q].advice
        /\ row.postmortem = runs[q].postmortem
    BY <1>3 DEF CapturedRow, RunType
  <2> HIDE DEF row
  <2>3. QED
    BY <1>2, <2>1, <2>2
<1>8. ASSUME NEW q \in RunIds, VerificationCheck(q) PROVE Goal
  <2> DEFINE row == CheckedRow(q)
  <2>1. Updates(q, row)
    BY <1>8, CheckWrites
  <2>2. /\ row.signal = runs[q].signal /\ row.improved = runs[q].improved
        /\ row.comparable = runs[q].comparable /\ row.advice = runs[q].advice
        /\ row.postmortem = runs[q].postmortem
    BY <1>3 DEF CheckedRow, RunType
  <2> HIDE DEF row
  <2>3. QED
    BY <1>2, <2>1, <2>2
<1>9. ASSUME NEW q \in RunIds, GiveUp(q) PROVE Goal
  BY <1>9 DEF GiveUp, Goal, Decided, SignalKept, AdviceKept, PostmortemKept, RunIds
<1>10. ASSUME NEW q \in RunIds, CreateRetry(q) PROVE Goal
  BY <1>1, <1>10, RetryActsAndAdds
<1>11. ASSUME NEW q \in RunIds, VerificationPostmortem(q) PROVE Goal
  <2> DEFINE row == PostmortemRow(q)
  <2>1. Updates(q, row)
    BY <1>11, PostmortemWrites
  <2>2. /\ row.signal = runs[q].signal /\ row.improved = runs[q].improved
        /\ row.comparable = runs[q].comparable /\ row.advice = runs[q].advice
    BY <1>3 DEF PostmortemRow, RunType
  <2> HIDE DEF row
  <2>3. QED
    BY <1>11, <2>1, <2>2 DEF Updates, Goal, Decided, SignalKept, AdviceKept, PostmortemKept
<1>12. ASSUME NEW q \in RunIds, SignalClassify(q) PROVE Goal
  <2> DEFINE row == ClassifiedRow(q)
  <2>1. Updates(q, row)
    BY <1>12, ClassifyWrites
  <2>2. row.advice = runs[q].advice /\ row.postmortem = runs[q].postmortem
    BY <1>3 DEF ClassifiedRow, RunType
  <2> HIDE DEF row
  <2>3. QED
    BY <1>12, <2>1, <2>2 DEF Updates, Goal, Decided, SignalKept, AdviceKept, PostmortemKept
<1>13. ASSUME NEW q \in RunIds, NEW failed \in BOOLEAN, Recommend(q, failed) PROVE Goal
  <2> DEFINE row == AdvisedRow(q, failed)
  <2>1. Updates(q, row)
    BY <1>13, RecommendWrites
  <2>2. /\ row.signal = runs[q].signal /\ row.improved = runs[q].improved
        /\ row.comparable = runs[q].comparable /\ row.postmortem = runs[q].postmortem
    BY <1>3 DEF AdvisedRow, RunType
  <2> HIDE DEF row
  <2>3. QED
    BY <1>13, <2>1, <2>2 DEF Updates, Goal, Decided, SignalKept, AdviceKept, PostmortemKept
<1>14. Goal
  BY <1>4, <1>5, <1>6, <1>7, <1>8, <1>9, <1>10, <1>11, <1>12, <1>13 DEF Next
<1>15. QED
  BY <1>14 DEF Goal

\* Every step keeps signals in agreement with the frontier.
LEMMA NextSignals ==
    ASSUME TypeOK, RunsSound, FrontierMatches, BestIsNoRegression, Next
    PROVE  BestIsNoRegression'
<1> SUFFICES ASSUME NEW r \in RunIds', runs'[r].improved, runs'[r].comparable
             PROVE  runs'[r].signal # "regressing"
  BY DEF BestIsNoRegression
<1>1. CASE r \notin RunIds
  BY <1>1, NextDecides DEF Undecided, None
<1>2. CASE r \in RunIds /\ SignalKept(r)
  BY <1>2 DEF SignalKept, BestIsNoRegression
<1>3. CASE r \in RunIds /\ SignalClassify(r)
  <2>1. runs'[r] = ClassifiedRow(r) /\ runs[r] \in RunType
    BY <1>3, ClassifyWrites, Rows DEF Updates
  <2>2. /\ runs'[r].signal = ClassifySignal(runs[r].value, ValuesOf(History(r)))
        /\ runs'[r].improved = Improves(runs[r].value)
        /\ runs'[r].comparable = (ToSet(History(r)) \subseteq ToSet(log))
    BY <2>1 DEF ClassifiedRow, RunType
  <2>3. runs[r].value \in Values
    BY <1>3 DEF SignalClassify, RunsSound, RunSound, Verified
  <2>4. Improves(runs[r].value) /\ ToSet(History(r)) \subseteq ToSet(log)
    BY <2>2
  <2>5. QED
    BY <1>3, <2>2, <2>3, <2>4, SignalAgrees
<1>4. QED
  BY <1>1, <1>2, <1>3, NextDecides DEF Decided

-----------------------------------------------------------------------------
(* The retries. *)

\* Who creates a run: the user, or remediation of the run it repeats.
LEMMA NewRuns ==
    ASSUME TypeOK, Next, NEW n \in RunIds', n \notin RunIds
    PROVE  /\ n = Len(runs) + 1
           /\ \/ StartRun /\ runs'[n].parent = 0 /\ UNCHANGED actions
              \/ \E q \in RunIds : \E s \in SelectStrategy(q) :
                    /\ CreateRetry(q) /\ Acts(q, s.strategy, "retry_created")
                    /\ runs'[n].parent = q /\ runs'[n].limits = s.limits
<1>1. CASE StartRun
  BY <1>1, StartAdds DEF Adds, NewRun, StartRun
<1>2. ASSUME NEW q \in RunIds, CreateRetry(q)
      PROVE  /\ n = Len(runs) + 1
             /\ \E s \in SelectStrategy(q) :
                    /\ Acts(q, s.strategy, "retry_created")
                    /\ runs'[n].parent = q /\ runs'[n].limits = s.limits
  <2>1. PICK s \in SelectStrategy(q) : /\ Acts(q, s.strategy, "retry_created")
                                       /\ Adds(NewRun(q, s.limits))
    BY <1>2, RetryActsAndAdds
  <2>2. n = Len(runs) + 1 /\ runs'[n] = NewRun(q, s.limits)
    BY <2>1 DEF Adds
  <2>3. runs'[n].parent = q /\ runs'[n].limits = s.limits
    BY <2>2 DEF NewRun
  <2>4. QED
    BY <2>1, <2>2, <2>3
<1>3. ASSUME RunIds' # RunIds PROVE StartRun \/ \E q \in RunIds : CreateRetry(q)
  <2>1. ASSUME NEW q \in RunIds, NEW row, Updates(q, row) PROVE RunIds' = RunIds
    BY <2>1 DEF Updates
  <2>2. ASSUME NEW q \in RunIds, GiveUp(q) PROVE RunIds' = RunIds
    BY <2>2 DEF GiveUp, RunIds
  <2>3. QED
    BY <1>3, <2>1, <2>2, FailsWrites, UnreadableWrites, CaptureWrites, CheckWrites,
       PostmortemWrites, ClassifyWrites, RecommendWrites DEF Next
<1>4. QED
  BY <1>1, <1>2, <1>3

\* Every step keeps the limits growing along the retries.
LEMMA NextLimits ==
    ASSUME TypeOK, RunsSound, LimitsGrow, Next
    PROVE  LimitsGrow'
<1>1. RunsKept
  BY NextSound DEF TablesStep
<1>2. \A r \in RunIds : /\ runs'[r].parent = runs[r].parent /\ runs'[r].limits = runs[r].limits
                        /\ runs[r].parent # 0 => runs[r].parent \in RunIds
  BY <1>1, Rows DEF RunsKept, RowKept
<1>3. SUFFICES ASSUME NEW r \in RunIds', runs'[r].parent # 0
               PROVE  LET old == runs'[runs'[r].parent].limits
                          new == runs'[r].limits
                      IN  /\ new.memory >= old.memory /\ new.timeout >= old.timeout
                          /\ new.memory # old.memory => new.memory <= MemoryCap
                          /\ new.timeout # old.timeout => new.timeout <= TimeoutCap
  BY DEF LimitsGrow
<1>4. CASE r \in RunIds
  BY <1>2, <1>3, <1>4 DEF LimitsGrow
<1>5. CASE r \notin RunIds
  <2>1. PICK q \in RunIds : \E s \in SelectStrategy(q) :
            runs'[r].parent = q /\ runs'[r].limits = s.limits
    BY <1>3, <1>5, NewRuns
  <2>2. PICK s \in SelectStrategy(q) : runs'[r].parent = q /\ runs'[r].limits = s.limits
    BY <2>1
  <2>3. QED
    BY <1>2, <2>2, StrategiesAreSound
<1>6. QED
  BY <1>4, <1>5
\* Who records an action: remediation, of a run that is to be remediated.
ActsFor(q, s, o) ==
    /\ Acts(q, s, o) /\ <<"remediate", q>> \in todo
    /\ s = "skip" \/ \E c \in SelectStrategy(q) : c.strategy = s
LEMMA NextActs ==
    ASSUME TypeOK, Next
    PROVE  \/ UNCHANGED actions
           \/ \E q \in RunIds : GiveUp(q) /\ \E s, o : ActsFor(q, s, o) /\ o # "retry_created"
           \/ \E q \in RunIds : CreateRetry(q) /\ \E s : ActsFor(q, s, "retry_created")
<1>1. ASSUME NEW q \in RunIds, GiveUp(q)
      PROVE  \E s, o : ActsFor(q, s, o) /\ o # "retry_created"
  BY <1>1, GiveUpActs DEF ActsFor, GiveUp
<1>2. ASSUME NEW q \in RunIds, CreateRetry(q) PROVE \E s : ActsFor(q, s, "retry_created")
  BY <1>2, RetryActsAndAdds DEF ActsFor, CreateRetry
<1>3. \/ UNCHANGED actions
      \/ \E q \in RunIds : GiveUp(q) \/ CreateRetry(q)
  BY DEF Next, StartRun, ContainerFails, MetricsUnreadable, CaptureArtifacts, VerificationCheck,
         VerificationPostmortem, SignalClassify, Recommend
<1>4. QED
  BY <1>1, <1>2, <1>3

\* The lineage of a run that is created.
LEMMA NewLineage ==
    ASSUME TypeOK, TypeOK', RunsKept, NEW n \in RunIds', n \notin RunIds
    PROVE  /\ runs'[n].parent = 0 => Lineage(n)' = {n}
           /\ \A q \in RunIds : runs'[n].parent = q =>
                 Lineage(n)' = {n} \cup Lineage(q) /\ n \notin Lineage(q)
<1>1. LineageUnfolds' /\ LineageUnfolds
  BY LineagesUnfold, LineagesUnfoldNext
<1>2. ASSUME NEW q, runs'[n].parent = q
      PROVE  Lineage(n)' = {n} \cup (IF q = 0 THEN {} ELSE Lineage(q)')
  BY <1>1, <1>2 DEF LineageUnfolds
<1>3. ASSUME NEW q \in RunIds PROVE q # 0 /\ n \notin Lineage(q)
  <2>1. q \in 1..Len(runs) /\ Len(runs) \in Nat /\ Lineage(q) \in SUBSET (1..q)
    BY <1>1, Rows DEF LineageUnfolds
  <2>2. n \notin 1..Len(runs)
    BY DEF RunIds
  <2>3. QED
    BY <2>1, <2>2
<1>4. QED
  BY <1>2, <1>3, LineageKept

\* The actions of the lineage of a retry: those of the run it repeats, and the
\* one that created it.
LEMMA NewLineageActions ==
    ASSUME TypeOK, TypeOK', RunsKept, NEW n \in RunIds', n \notin RunIds, NEW q \in RunIds,
           runs'[n].parent = q, NEW s, NEW o, Acts(q, s, o)
    PROVE  LineageActions(n)' = LineageActions(q) \cup {Len(actions) + 1}
<1>1. Lineage(n)' = {n} \cup Lineage(q) /\ q \in Lineage(q)
  BY NewLineage, LineagesUnfold DEF LineageUnfolds
<1>2. \A k \in DOMAIN actions : actions'[k].run = actions[k].run /\ actions[k].run # n
  BY Rows DEF Acts
<1>3. actions'[Len(actions) + 1].run = q
  BY DEF Acts
<1>4. QED
  BY <1>1, <1>2, <1>3 DEF LineageActions, Acts

\* A finite set has one element more with a new one.
LEMMA OneMore ==
    ASSUME NEW S, IsFiniteSet(S), NEW e, e \notin S
    PROVE  IsFiniteSet(S \cup {e}) /\ Cardinality(S \cup {e}) = Cardinality(S) + 1
BY FS_AddElement

\* Every step keeps retries paid for, and so bounded.
LEMMA NextRetries ==
    ASSUME TypeOK, TypeOK', RunsSound, RetriesPaid, RetriesBounded, Next
    PROVE  RetriesPaid' /\ RetriesBounded'
<1>1. RunsKept /\ ActionsKept
  BY NextSound DEF TablesStep
<1> DEFINE Paid(r) == /\ Cardinality(Lineage(r)) <= 1 + Cardinality(LineageActions(r))
                      /\ Cardinality(Lineage(r)) <= 1 + MaxAttempts
<1>2. \A r \in RunIds : /\ IsFiniteSet(Lineage(r)) /\ Cardinality(Lineage(r)) \in Nat
                        /\ IsFiniteSet(LineageActions(r)) /\ Cardinality(LineageActions(r)) \in Nat
                        /\ Paid(r)
  BY LineagesFinite DEF RetriesPaid, RetriesBounded
<1>3. \A r \in RunIds' : /\ IsFiniteSet(Lineage(r)') /\ Cardinality(Lineage(r)') \in Nat
                         /\ IsFiniteSet(LineageActions(r)')
                         /\ Cardinality(LineageActions(r)') \in Nat
  BY LineagesFiniteNext
<1>4. MaxAttempts \in Nat
  BY LineAssumption
<1>5. ASSUME NEW r \in RunIds PROVE Paid(r)'
  <2>1. Lineage(r)' = Lineage(r) /\ LineageActions(r) \subseteq LineageActions(r)' /\ r \in RunIds'
    BY <1>1, LineageKept, LineageActionsKept DEF RunsKept
  <2>2. Cardinality(LineageActions(r)) <= Cardinality(LineageActions(r)')
    BY <1>3, <2>1, FS_Subset
  <2>3. QED
    BY <1>2, <1>3, <2>1, <2>2
<1>6. ASSUME NEW n \in RunIds', n \notin RunIds PROVE Paid(n)'
  <2>1. CASE runs'[n].parent = 0
    <3>1. Lineage(n)' = {n}
      BY <1>1, <1>6, <2>1, NewLineage
    <3>2. Cardinality(Lineage(n)') = 1
      BY <3>1, FS_Singleton
    <3>3. QED
      BY <1>3, <1>4, <3>2
  <2>2. ASSUME NEW q \in RunIds, NEW s, CreateRetry(q), Acts(q, s, "retry_created"),
               runs'[n].parent = q
        PROVE  Paid(n)'
    <3>1. Lineage(n)' = {n} \cup Lineage(q) /\ n \notin Lineage(q)
      BY <1>1, <1>6, <2>2, NewLineage
    <3>2. LineageActions(n)' = LineageActions(q) \cup {Len(actions) + 1}
      BY <1>1, <1>6, <2>2, NewLineageActions
    <3>3. Len(actions) + 1 \notin LineageActions(q)
      BY <2>2 DEF LineageActions, Acts
    <3>4. /\ Cardinality(Lineage(n)') = Cardinality(Lineage(q)) + 1
          /\ Cardinality(LineageActions(n)') = Cardinality(LineageActions(q)) + 1
      <4>1. Lineage(n)' = Lineage(q) \cup {n}
        BY <3>1
      <4>2. /\ Cardinality(Lineage(q) \cup {n}) = Cardinality(Lineage(q)) + 1
            /\ Cardinality(LineageActions(q) \cup {Len(actions) + 1})
                  = Cardinality(LineageActions(q)) + 1
        BY <1>2, <3>1, <3>3, OneMore, Zenon
      <4>3. QED
        BY <3>2, <4>1, <4>2
    <3>5. Cardinality(LineageActions(q)) < MaxAttempts
      BY <2>2 DEF CreateRetry
    <3>6. QED
      BY <1>2, <1>4, <3>4, <3>5
  <2>3. QED
    BY <1>6, <2>1, <2>2, NewRuns
<1>7. QED
  BY <1>5, <1>6 DEF RetriesPaid, RetriesBounded
\* Every step keeps it that a retry is of a run that was acted on.
LEMMA NextParents ==
    ASSUME TypeOK, RunsSound, ParentsActed, Next
    PROVE  ParentsActed'
<1>1. RunsKept /\ ActionsKept
  BY NextSound DEF TablesStep
<1>2. SUFFICES ASSUME NEW r \in RunIds', NEW p, p = runs'[r].parent, p # 0 PROVE Acted(p)'
  BY DEF ParentsActed, Acted
<1>3. CASE r \in RunIds
  <2>1. Acted(p)
    BY <1>1, <1>2, <1>3 DEF ParentsActed, RunsKept, RowKept
  <2>2. QED
    BY <1>1, <2>1 DEF Acted, ActionsKept
<1>4. CASE r \notin RunIds
  <2>1. PICK s, o : Acts(p, s, o)
    BY <1>2, <1>4, NewRuns
  <2>2. QED
    BY <2>1 DEF Acted, Acts
<1>5. QED
  BY <1>3, <1>4

\* What a failed run is, and that it is spent, stays.
LEMMA SpentKept ==
    ASSUME TypeOK, TypeOK', RunsSound, RunsKept, ActionsKept, NEW q \in RunIds,
           runs[q].verdict # None
    PROVE  /\ ClassOf(q)' = ClassOf(q)
           /\ Spent(q) => Spent(q)'
<1>1. runs[q].status # "pending"
  BY DEF RunsSound, RunSound
<1>2. runs'[q].class = runs[q].class /\ runs'[q].manifest = runs[q].manifest
  BY <1>1 DEF RunsKept, RowKept
<1>3. ClassOf(q)' = ClassOf(q) /\ ArtifactFix(q)' = ArtifactFix(q)
  BY <1>2 DEF ClassOf, ArtifactFix
<1>4. NeedsEscalation(q) => NeedsEscalation(q)'
  <2>1. LineageActions(q) \subseteq LineageActions(q)'
    BY LineageActionsKept
  <2>2. \A k \in LineageActions(q) : actions'[k] = actions[k]
    BY DEF LineageActions, ActionsKept
  <2>3. QED
    BY <1>3, <2>1, <2>2 DEF NeedsEscalation
<1>5. QED
  BY <1>3, <1>4 DEF Spent

\* Every step keeps it that a run that was acted on is spent.
LEMMA NextSpent ==
    ASSUME TypeOK, TypeOK', RunsSound, FocusIsSpent, Next
    PROVE  FocusIsSpent'
<1>1. RunsKept /\ ActionsKept
  BY NextSound DEF TablesStep
<1>2. ASSUME NEW k \in DOMAIN actions, NEW q, q = actions[k].run
      PROVE  actions'[k].run = q /\ actions'[k].class = ClassOf(q)' /\ Spent(q)'
  <2>1. /\ q \in RunIds /\ runs[q].verdict # None /\ actions'[k] = actions[k]
        /\ actions[k].class = ClassOf(q) /\ Spent(q)
    BY <1>1, <1>2 DEF FocusIsSpent, TypeOK, None, ActionsKept
  <2>2. QED
    BY <1>1, <1>2, <2>1, SpentKept
<1>3. ASSUME NEW q \in RunIds, NEW s, NEW o, ActsFor(q, s, o), NEW k, k = Len(actions) + 1
      PROVE  actions'[k].run = q /\ actions'[k].class = ClassOf(q)' /\ Spent(q)'
  <2>1. /\ runs[q].verdict # None /\ k \in DOMAIN actions'
        /\ actions'[k] = [run |-> q, class |-> ClassOf(q), strategy |-> s, outcome |-> o]
    BY <1>3 DEF ActsFor, Acts, RunsSound, RunSound, None
  <2>2. ClassOf(q)' = ClassOf(q) /\ (Spent(q) => Spent(q)')
    BY <1>1, <2>1, SpentKept
  <2>3. CASE s = "debug_broad"
    <3>1. Spent(q)
      BY <1>3, <2>3, StrategiesAreSound DEF ActsFor
    <3>2. QED
      BY <2>1, <2>2, <3>1
  <2>4. CASE s # "debug_broad"
    <3>1. q \in Lineage(q)' /\ q \in RunIds'
      BY <1>1, LineagesUnfoldNext DEF LineageUnfolds, RunsKept
    <3>2. k \in LineageActions(q)'
      BY <2>1, <3>1 DEF LineageActions
    <3>3. NeedsEscalation(q)'
      BY <2>1, <2>2, <2>4, <3>2 DEF NeedsEscalation
    <3>4. QED
      BY <2>1, <2>2, <3>3 DEF Spent
  <2>5. QED
    BY <2>3, <2>4
<1>4. SUFFICES ASSUME NEW k \in DOMAIN actions', NEW q, q = actions'[k].run
               PROVE  actions'[k].class = ClassOf(q)' /\ Spent(q)'
  BY DEF FocusIsSpent, ClassOf, Spent, NeedsEscalation, ArtifactFix, LineageActions, Lineage
<1>5. CASE k \in DOMAIN actions
  BY <1>1, <1>2, <1>4, <1>5 DEF ActionsKept
<1>6. CASE k \notin DOMAIN actions
  <2>1. PICK p, s, o : p \in RunIds /\ ActsFor(p, s, o)
    BY <1>4, <1>6, NextActs
  <2>2. k = Len(actions) + 1
    BY <1>4, <1>6, <2>1 DEF ActsFor, Acts
  <2>3. QED
    BY <1>3, <1>4, <2>1, <2>2
<1>7. QED
  BY <1>5, <1>6
\* Every step keeps it that a focused fix is tried once per failure class.
LEMMA NextFocused ==
    ASSUME TypeOK, TypeOK', RunsSound, ParentsActed, FocusIsSpent, FocusedOnce, Next
    PROVE  FocusedOnce'
<1>1. RunsKept /\ ActionsKept
  BY NextSound DEF TablesStep
<1>2. SUFFICES ASSUME NEW r \in RunIds', NEW i \in LineageActions(r)',
                      NEW k \in LineageActions(r)', i < k,
                      actions'[i].class = actions'[k].class,
                      actions'[i].strategy \in Focused, actions'[k].strategy \in Focused
               PROVE  FALSE
  BY DEF FocusedOnce
\* Both actions were of one lineage before the step ...
<1>3. ASSUME NEW q \in RunIds, i \in LineageActions(q), k \in LineageActions(q)
      PROVE  FALSE
  <2>1. i \in DOMAIN actions /\ k \in DOMAIN actions
    BY <1>3 DEF LineageActions
  <2>2. actions'[i] = actions[i] /\ actions'[k] = actions[k]
    BY <1>1, <2>1 DEF ActionsKept
  <2>3. QED
    BY <1>2, <1>3, <2>2 DEF FocusedOnce
\* ... or the second is new, and then its run was not acted on before.
<1>4. ASSUME NEW q \in RunIds, NEW s, NEW o, ActsFor(q, s, o), k \notin DOMAIN actions
      PROVE  s \in Focused /\ ~Spent(q) /\ ~Acted(q) /\ ~Retried(q)
  <2>1. actions'[k] = [run |-> q, class |-> ClassOf(q), strategy |-> s, outcome |-> o]
    BY <1>2, <1>4 DEF ActsFor, Acts, LineageActions
  <2>2. s \in Focused
    BY <1>2, <2>1
  <2>3. ~Spent(q)
    BY <1>4, <2>2, StrategiesAreSound DEF ActsFor, Focused
  <2>4. ~Acted(q)
    BY <2>3 DEF Acted, FocusIsSpent
  <2>5. ~Retried(q)
    <3>1. q # 0
      BY Rows
    <3>2. QED
      BY <2>4, <3>1 DEF Retried, ParentsActed
  <2>6. QED
    BY <2>2, <2>3, <2>4, <2>5
<1>5. i \in DOMAIN actions' /\ k \in DOMAIN actions'
  BY DEF LineageActions
<1>6. CASE k \in DOMAIN actions
  <2>1. i \in DOMAIN actions
    <3>1. /\ DOMAIN actions = 1..Len(actions) /\ Len(actions) \in Nat
          /\ DOMAIN actions' = 1..Len(actions') /\ Len(actions') \in Nat
      BY <1>1, Rows DEF ActionsKept
    <3>2. QED
      BY <1>2, <1>5, <1>6, <3>1
  <2>2. CASE r \in RunIds
    <3>1. i \in LineageActions(r) /\ k \in LineageActions(r)
      BY <1>1, <1>2, <1>6, <2>1, <2>2, LineageActionsKept
    <3>2. QED
      BY <1>3, <2>2, <3>1
  <2>3. CASE r \notin RunIds
    <3>1. CASE runs'[r].parent = 0
      <4>1. Lineage(r)' = {r}
        BY <1>1, <1>2, <2>3, <3>1, NewLineage
      <4>2. actions'[i].run = actions[i].run /\ actions[i].run \in RunIds
        BY <1>1, <2>1, Rows DEF ActionsKept
      <4>3. QED
        BY <1>2, <2>3, <4>1, <4>2 DEF LineageActions
    <3>2. ASSUME NEW q \in RunIds, NEW s, NEW o, runs'[r].parent = q, Acts(q, s, o)
          PROVE  FALSE
      <4>1. LineageActions(r)' = LineageActions(q) \cup {Len(actions) + 1}
        BY <1>1, <1>2, <2>3, <3>2, NewLineageActions
      <4>2. i \in LineageActions(q) /\ k \in LineageActions(q)
        BY <1>2, <1>6, <2>1, <3>2, <4>1 DEF Acts
      <4>3. QED
        BY <1>3, <4>2
    <3>3. QED
      BY <1>2, <2>3, <3>1, <3>2, NewRuns
  <2>4. QED
    BY <2>2, <2>3
<1>7. CASE k \notin DOMAIN actions
  <2>1. PICK q, s, o : q \in RunIds /\ ActsFor(q, s, o)
    BY <1>5, <1>7, NextActs
  <2>2. /\ k = Len(actions) + 1 /\ actions'[k].run = q /\ actions'[k].class = ClassOf(q)
    BY <1>5, <1>7, <2>1 DEF ActsFor, Acts
  <2>3. s \in Focused /\ ~Spent(q) /\ ~Acted(q) /\ ~Retried(q)
    BY <1>4, <1>7, <2>1
  <2>4. i \in DOMAIN actions
    BY <1>2, <1>5, <2>1, <2>2 DEF ActsFor, Acts
  <2>5. i \in LineageActions(q)
    <3>1. CASE r \in RunIds
      <4>1. q \in Lineage(r)
        BY <1>1, <1>2, <2>2, <3>1, LineageKept DEF LineageActions
      <4>2. r = q
        BY <2>3, <3>1, <4>1, AncestorsRetried
      <4>3. QED
        BY <1>1, <1>2, <2>1, <2>4, <3>1, <4>2, LineageActionsKept
    <3>2. CASE r \notin RunIds
      <4>1. PICK p, t : p \in RunIds /\ runs'[r].parent = p /\ Acts(p, t, "retry_created")
        <5>1. UNCHANGED actions => FALSE
          BY <1>5, <1>7
        <5>2. QED
          BY <1>2, <3>2, <5>1, NewRuns
      <4>2. p = q
        BY <2>2, <4>1 DEF Acts
      <4>3. LineageActions(r)' = LineageActions(q) \cup {Len(actions) + 1}
        BY <1>1, <1>2, <3>2, <4>1, <4>2, NewLineageActions
      <4>4. QED
        BY <1>2, <2>2, <2>4, <4>3
    <3>3. QED
      BY <3>1, <3>2
  <2>6. actions[i].class = ClassOf(q) /\ actions[i].strategy # "debug_broad"
    <3>1. actions'[i] = actions[i]
      BY <1>1, <2>4 DEF ActionsKept
    <3>2. QED
      BY <1>2, <2>2, <3>1 DEF Focused
  <2>7. NeedsEscalation(q)
    BY <2>5, <2>6 DEF NeedsEscalation
  <2>8. QED
    BY <2>3, <2>7 DEF Spent
<1>8. QED
  BY <1>6, <1>7
-----------------------------------------------------------------------------
(* What happens once as long as no job is executed twice. *)

\* Who queues a job of a run.
Gains(r) ==
    /\ <<"remediate", r>> \in todo' \ todo => VerificationCheck(r)
    /\ <<"signal", r>> \in todo' \ todo => VerificationCheck(r)
    /\ <<"postmortem", r>> \in todo' \ todo => GiveUp(r)
    /\ <<"recommend", r>> \in todo' \ todo => SignalClassify(r)
LEMMA NextGains ==
    ASSUME TypeOK, Next, NEW r \in RunIds
    PROVE  Gains(r)
<1>1. ASSUME NEW j, todo' \subseteq todo \cup {j},
             j[1] \notin {"remediate", "signal", "postmortem", "recommend"}
      PROVE  Gains(r)
  BY <1>1 DEF Gains
<1>2. CASE StartRun
  <2>1. todo' \subseteq todo \cup {<<"run", Len(runs) + 1>>}
    BY <1>2 DEF StartRun
  <2>2. QED
    BY <1>1, <2>1
<1>3. ASSUME NEW q \in RunIds, NEW c \in FailureClasses, ContainerFails(q, c) PROVE Gains(r)
  <2>1. todo' \subseteq todo \cup {<<"check", q>>}
    BY <1>3 DEF ContainerFails
  <2>2. QED
    BY <1>1, <2>1
<1>4. ASSUME NEW q \in RunIds, MetricsUnreadable(q) PROVE Gains(r)
  <2>1. todo' \subseteq todo \cup {<<"check", q>>}
    BY <1>4 DEF MetricsUnreadable
  <2>2. QED
    BY <1>1, <2>1
<1>5. ASSUME NEW q \in RunIds, NEW x \in Values, NEW a \in {"complete", "misnamed"},
             CaptureArtifacts(q, x, a)
      PROVE  Gains(r)
  <2>1. todo' \subseteq todo \cup {<<"check", q>>}
    BY <1>5 DEF CaptureArtifacts
  <2>2. QED
    BY <1>1, <2>1
<1>6. ASSUME NEW q \in RunIds, VerificationCheck(q) PROVE Gains(r)
  <2>1. todo' \subseteq todo \cup {<<"remediate", q>>, <<"signal", q>>}
    BY <1>6 DEF VerificationCheck
  <2>2. QED
    BY <1>6, <2>1 DEF Gains
<1>7. ASSUME NEW q \in RunIds, GiveUp(q) PROVE Gains(r)
  <2>1. Hand(<<"remediate", q>>, {<<"postmortem", q>>})
    BY <1>7 DEF GiveUp
  <2>2. todo' \subseteq todo \cup {<<"postmortem", q>>}
    BY <2>1, Handing
  <2>3. QED
    BY <1>7, <2>2 DEF Gains
<1>8. ASSUME NEW q \in RunIds, CreateRetry(q) PROVE Gains(r)
  <2>1. Hand(<<"remediate", q>>, {<<"run", Len(runs) + 1>>})
    BY <1>8 DEF CreateRetry
  <2>2. todo' \subseteq todo \cup {<<"run", Len(runs) + 1>>}
    BY <2>1, Handing
  <2>3. QED
    BY <1>1, <2>2
<1>9. ASSUME NEW q \in RunIds, VerificationPostmortem(q) PROVE Gains(r)
  <2>1. Hand(<<"postmortem", q>>, {<<"recommend_failed", q>>})
    BY <1>9 DEF VerificationPostmortem
  <2>2. todo' \subseteq todo \cup {<<"recommend_failed", q>>}
    BY <2>1, Handing
  <2>3. QED
    BY <1>1, <2>2
<1>10. ASSUME NEW q \in RunIds, SignalClassify(q) PROVE Gains(r)
  <2>1. Hand(<<"signal", q>>, {<<"recommend", q>>})
    BY <1>10 DEF SignalClassify
  <2>2. todo' \subseteq todo \cup {<<"recommend", q>>}
    BY <2>1, Handing
  <2>3. QED
    BY <1>10, <2>2 DEF Gains
<1>11. ASSUME NEW q \in RunIds, NEW failed \in BOOLEAN, Recommend(q, failed) PROVE Gains(r)
  <2>1. PICK j : Hand(j, {})
    BY <1>11 DEF Recommend
  <2>2. todo' \subseteq todo
    BY <2>1, Handing
  <2>3. QED
    BY <2>2 DEF Gains
<1>12. QED
  BY <1>2, <1>3, <1>4, <1>5, <1>6, <1>7, <1>8, <1>9, <1>10, <1>11 DEF Next

\* What DoneOnce says of a run.
Once(r) ==
    /\ <<"remediate", r>> \in todo => ~Acted(r) /\ ~Retried(r) /\ ~GivenUp(r)
    /\ Retried(r) => ~GivenUp(r)
    /\ <<"recommend", r>> \in todo \/ runs[r].advice # None => <<"signal", r>> \notin todo

\* Nothing was done yet to a run without a verdict.
LEMMA NothingDone ==
    TypeOK /\ RunsSound /\ ParentsActed =>
        \A r \in RunIds : runs[r].verdict = None =>
            /\ ~Acted(r) /\ ~Retried(r) /\ ~GivenUp(r)
            /\ <<"remediate", r>> \notin todo /\ <<"recommend", r>> \notin todo
            /\ runs[r].advice = None
<1> SUFFICES ASSUME TypeOK, RunsSound, ParentsActed, NEW r \in RunIds, runs[r].verdict = None
             PROVE  /\ ~Acted(r) /\ ~Retried(r) /\ ~GivenUp(r)
                    /\ <<"remediate", r>> \notin todo /\ <<"recommend", r>> \notin todo
                    /\ runs[r].advice = None
  OBVIOUS
<1>1. RunSound(r) /\ r # 0
  BY Rows DEF RunsSound
<1>2. ~Acted(r)
  BY DEF Acted, TypeOK, None
<1>3. ~Retried(r)
  BY <1>1, <1>2 DEF Retried, ParentsActed
<1>4. ~GivenUp(r)
  BY <1>1, <1>2 DEF GivenUp, RunSound, Acted, None
<1>5. QED
  BY <1>1, <1>2, <1>3, <1>4 DEF RunSound, Verified, None

\* Nor after a step.
LEMMA NothingDoneNext ==
    TypeOK' /\ RunsSound' /\ ParentsActed' =>
        (\A r \in RunIds : runs[r].verdict = None =>
            /\ ~Acted(r) /\ ~Retried(r) /\ ~GivenUp(r)
            /\ <<"remediate", r>> \notin todo /\ <<"recommend", r>> \notin todo
            /\ runs[r].advice = None)'
BY NothingDone, PTL
\* An operator that is not executed again leaves its job.
LEMMA Leaves ==
    ASSUME TypeOK, repeats' = repeats, NEW q \in RunIds
    PROVE  /\ GiveUp(q) \/ CreateRetry(q) => <<"remediate", q>> \notin todo'
           /\ SignalClassify(q) => <<"signal", q>> \notin todo'
<1>1. repeats \in Nat /\ repeats' # repeats + 1
  BY Rows
<1>2. ASSUME GiveUp(q) PROVE <<"remediate", q>> \notin todo'
  <2>1. Hand(<<"remediate", q>>, {<<"postmortem", q>>})
    BY <1>2 DEF GiveUp
  <2>2. QED
    BY <1>1, <2>1, Handing
<1>3. ASSUME CreateRetry(q) PROVE <<"remediate", q>> \notin todo'
  <2>1. Hand(<<"remediate", q>>, {<<"run", Len(runs) + 1>>})
    BY <1>3 DEF CreateRetry
  <2>2. QED
    BY <1>1, <2>1, Handing
<1>4. ASSUME SignalClassify(q) PROVE <<"signal", q>> \notin todo'
  <2>1. Hand(<<"signal", q>>, {<<"recommend", q>>})
    BY <1>4 DEF SignalClassify
  <2>2. QED
    BY <1>1, <2>1, Handing
<1>5. QED
  BY <1>2, <1>3, <1>4

\* Who acts on a run, gives it up or retries it.
LEMMA NextHandles ==
    ASSUME TypeOK, RunsSound, Next, NEW r \in RunIds
    PROVE  /\ Acted(r)' /\ ~Acted(r) => GiveUp(r) \/ CreateRetry(r)
           /\ Retried(r)' /\ ~Retried(r) => CreateRetry(r)
           /\ GivenUp(r)' /\ ~GivenUp(r) => GiveUp(r)
<1>1. RunsKept /\ ActionsKept
  BY NextSound DEF TablesStep
<1>2. ASSUME NEW k \in DOMAIN actions', k \notin DOMAIN actions, actions'[k].run = r
      PROVE  \/ GiveUp(r)
             \/ CreateRetry(r) /\ actions'[k].outcome = "retry_created"
  <2>1. ASSUME NEW q, NEW s, NEW o, ActsFor(q, s, o)
        PROVE  q = r /\ actions'[k].outcome = o
    BY <1>2, <2>1 DEF ActsFor, Acts
  <2>2. QED
    BY <1>2, <2>1, NextActs
<1>3. ASSUME Acted(r)', ~Acted(r) PROVE GiveUp(r) \/ CreateRetry(r)
  <2>1. PICK k \in DOMAIN actions' : actions'[k].run = r
    BY <1>3 DEF Acted
  <2>2. k \notin DOMAIN actions
    BY <1>1, <1>3, <2>1 DEF Acted, ActionsKept
  <2>3. QED
    BY <1>2, <2>1, <2>2
<1>4. ASSUME Retried(r)', ~Retried(r) PROVE CreateRetry(r)
  <2>1. PICK c \in RunIds' : runs'[c].parent = r
    BY <1>4 DEF Retried
  <2>2. c \notin RunIds
    BY <1>1, <1>4, <2>1 DEF Retried, RunsKept, RowKept
  <2>3. r # 0
    BY Rows
  <2>4. QED
    BY <2>1, <2>2, <2>3, NewRuns
<1>5. ASSUME GivenUp(r)', ~GivenUp(r) PROVE GiveUp(r)
  <2>1. CASE <<"postmortem", r>> \in todo'
    BY <1>5, <2>1, NextGains DEF GivenUp, Gains
  <2>2. CASE runs'[r].postmortem
    <3>1. PostmortemKept(r) \/ VerificationPostmortem(r)
      BY NextDecides DEF Decided
    <3>2. QED
      BY <1>5, <2>2, <3>1 DEF GivenUp, PostmortemKept, VerificationPostmortem
  <2>3. CASE \E k \in DOMAIN actions' : actions'[k].run = r /\ actions'[k].outcome = "exhausted"
    <3>1. PICK k \in DOMAIN actions' : actions'[k].run = r /\ actions'[k].outcome = "exhausted"
      BY <2>3
    <3>2. k \notin DOMAIN actions
      BY <1>1, <1>5, <3>1 DEF GivenUp, ActionsKept
    <3>3. QED
      BY <1>2, <3>1, <3>2
  <2>4. QED
    BY <1>5, <2>1, <2>2, <2>3 DEF GivenUp
<1>6. QED
  BY <1>3, <1>4, <1>5

\* Every step keeps it that a run is handled once.
LEMMA NextOnce ==
    ASSUME TypeOK, TypeOK', RunsSound, RunsSound', ParentsActed, ParentsActed', DoneOnce, Next
    PROVE  DoneOnce'
<1>1. RunsKept /\ ActionsKept /\ repeats' \in repeats..bound.repeats
  BY NextSound DEF TablesStep
<1>2. SUFFICES ASSUME repeats' = 0, NEW r \in RunIds' PROVE Once(r)'
  BY DEF DoneOnce, Once
<1>3. repeats = 0 /\ repeats' = repeats
  <2>1. repeats \in Nat /\ bound.repeats \in Nat
    BY Rows, LineAssumption DEF TypeOK
  <2>2. QED
    BY <1>1, <1>2, <2>1
<1>4. CASE runs'[r].verdict = None
  BY <1>2, <1>4, NothingDoneNext DEF Once
<1>5. CASE r \in RunIds /\ runs'[r].verdict # None
  <2>1. Once(r) /\ Gains(r)
    BY <1>3, <1>5, NextGains DEF DoneOnce, Once
  <2>2. VerificationCheck(r) => runs[r].verdict = None
    BY <1>5 DEF VerificationCheck, RunsSound, RunSound
  <2>3. /\ GiveUp(r) \/ CreateRetry(r) => <<"remediate", r>> \in todo /\ <<"remediate", r>> \notin todo'
        /\ SignalClassify(r) => <<"signal", r>> \notin todo'
    BY <1>3, <1>5, Leaves DEF GiveUp, CreateRetry
  <2>4. /\ Acted(r)' /\ ~Acted(r) => GiveUp(r) \/ CreateRetry(r)
        /\ Retried(r)' /\ ~Retried(r) => CreateRetry(r)
        /\ GivenUp(r)' /\ ~GivenUp(r) => GiveUp(r)
    BY <1>5, NextHandles
  <2>5. VerificationCheck(r) => ~GiveUp(r) /\ ~CreateRetry(r) /\ ~SignalClassify(r)
    <3>1. VerificationCheck(r) => /\ <<"remediate", r>> \notin todo /\ <<"signal", r>> \notin todo
      BY <1>5, <2>2 DEF RunsSound, RunSound, Verified, None
    <3>2. QED
      BY <3>1 DEF GiveUp, CreateRetry, SignalClassify
  <2>6. VerificationCheck(r) => /\ ~Acted(r) /\ ~Retried(r) /\ ~GivenUp(r)
                                /\ <<"recommend", r>> \notin todo /\ runs[r].advice = None
    BY <1>5, <2>2, NothingDone
  <2>7. ASSUME <<"remediate", r>> \in todo'
        PROVE  ~Acted(r)' /\ ~Retried(r)' /\ ~GivenUp(r)'
    <3>1. ~Acted(r) /\ ~Retried(r) /\ ~GivenUp(r)
      BY <2>1, <2>6, <2>7 DEF Once, Gains
    <3>2. QED
      BY <2>3, <2>4, <2>7, <3>1
  <2>8. ASSUME Retried(r)' PROVE ~GivenUp(r)'
    <3>1. CASE Retried(r)
      BY <2>1, <2>3, <2>4, <3>1 DEF Once
    <3>2. CASE ~Retried(r)
      <4>1. CreateRetry(r) /\ ~GivenUp(r)
        BY <2>1, <2>3, <2>4, <2>8, <3>2 DEF Once
      <4>2. ~GiveUp(r)
        BY <4>1 DEF CreateRetry, GiveUp, RunIds, TypeOK
      <4>3. QED
        BY <2>4, <4>1, <4>2
    <3>3. QED
      BY <3>1, <3>2
  <2>9. ASSUME <<"recommend", r>> \in todo' \/ runs'[r].advice # None, <<"signal", r>> \in todo'
        PROVE  FALSE
    <3>1. <<"recommend", r>> \notin todo /\ runs[r].advice = None
      BY <2>1, <2>6, <2>9 DEF Once, Gains
    <3>2. <<"recommend", r>> \notin todo'
      BY <2>1, <2>3, <2>9, <3>1 DEF Gains
    <3>3. PICK failed \in BOOLEAN : Recommend(r, failed)
      BY <1>5, <2>9, <3>1, <3>2, NextDecides DEF Decided, AdviceKept
    <3>4. <<"recommend_failed", r>> \in todo
      BY <3>1, <3>3 DEF Recommend
    <3>5. runs[r].verdict = "failed" /\ <<"signal", r>> \in todo
      BY <1>5, <2>1, <2>2, <2>9, <3>4 DEF Gains, RunsSound, RunSound, None
    <3>6. QED
      BY <1>5, <3>5 DEF RunsSound, RunSound, Verified
  <2>10. QED
    BY <2>7, <2>8, <2>9 DEF Once
<1>6. r \in RunIds \/ runs'[r].verdict = None
  BY <1>2, NextDecides DEF Undecided
<1>7. QED
  BY <1>4, <1>5, <1>6
\* As long as no job is executed twice, nothing that is unresolved is in the
\* lineage of a run that was verified.
LEMMA VerifiedIsResolved ==
    ASSUME TypeOK, RunsSound, DoneOnce, repeats = 0, NEW r \in RunIds, Verified(r)
    PROVE  ~Exhausted(r) /\ ~HasUnresolved(r, FALSE)
<1>1. ASSUME NEW a \in Lineage(r), a # r PROVE a \in RunIds /\ ~GivenUp(a)
  <2>1. Retried(a) /\ a \in 1..r
    BY <1>1, AncestorsRetried, LineagesUnfold DEF LineageUnfolds
  <2>2. a \in RunIds
    BY <2>1, Rows
  <2>3. QED
    BY <2>1, <2>2 DEF DoneOnce
<1>2. runs[r].verdict # "failed"
  BY DEF Verified
<1>3. ~GivenUp(r)
  BY <1>2 DEF GivenUp, RunsSound, RunSound, TypeOK
<1>4. \A a \in Lineage(r) : ~GivenUp(a)
  BY <1>1, <1>3
<1>5. ~Exhausted(r)
  BY <1>4 DEF Exhausted, LineageActions, GivenUp
<1>6. \A a \in Lineage(r) : ~runs[a].postmortem
  BY <1>4 DEF GivenUp
<1>7. QED
  BY <1>5, <1>6 DEF HasUnresolved

\* Every step keeps it that repaired failures are not held against a run.
LEMMA NextRecovery ==
    ASSUME TypeOK, RunsSound, DoneOnce, RecoveryCounts, Next
    PROVE  RecoveryCounts'
<1>1. repeats' \in repeats..bound.repeats
  BY NextSound DEF TablesStep
<1>2. SUFFICES ASSUME NEW r \in RunIds', repeats' = 0, runs'[r].signal = "advancing",
                      runs'[r].advice # None
               PROVE  runs'[r].advice = "continue_current"
  BY DEF RecoveryCounts
<1>3. repeats = 0
  <2>1. repeats \in Nat /\ bound.repeats \in Nat
    BY Rows, LineAssumption DEF TypeOK
  <2>2. QED
    BY <1>1, <1>2, <2>1
<1>4. r \in RunIds /\ Decided(r)
  BY <1>2, NextDecides DEF Undecided
<1>5. ASSUME SignalClassify(r) PROVE FALSE
  <2>1. <<"signal", r>> \in todo
    BY <1>5 DEF SignalClassify
  <2>2. runs[r].advice = None
    BY <1>3, <1>4, <2>1 DEF DoneOnce
  <2>3. runs'[r].advice = runs[r].advice
    <3>1. runs'[r] = ClassifiedRow(r) /\ runs[r] \in RunType
      BY <1>4, <1>5, ClassifyWrites, Rows DEF Updates
    <3>2. QED
      BY <3>1 DEF ClassifiedRow, RunType
  <2>4. QED
    BY <1>2, <2>2, <2>3
<1>6. runs[r].signal = "advancing"
  BY <1>2, <1>4, <1>5 DEF Decided, SignalKept
<1>7. CASE AdviceKept(r)
  BY <1>2, <1>3, <1>4, <1>6, <1>7 DEF AdviceKept, RecoveryCounts
<1>8. ASSUME NEW failed \in BOOLEAN, Recommend(r, failed)
      PROVE  runs'[r].advice = "continue_current"
  <2>1. Verified(r)
    BY <1>4, <1>6 DEF RunsSound, RunSound, None
  <2>2. failed = FALSE
    BY <1>4, <1>8, <2>1 DEF Recommend, RunsSound, RunSound, Verified
  <2>3. ~HasUnresolved(r, FALSE)
    BY <1>3, <1>4, <2>1, VerifiedIsResolved
  <2>4. runs'[r].advice = Recommendation(FALSE, Exhausted(r), HasUnresolved(r, FALSE), runs[r].signal)
    <3>1. runs'[r] = AdvisedRow(r, FALSE) /\ runs[r] \in RunType
      BY <1>4, <1>8, <2>2, RecommendWrites, Rows DEF Updates
    <3>2. QED
      BY <3>1 DEF AdvisedRow, RunType
  <2>5. QED
    BY <1>6, <2>3, <2>4 DEF Recommendation
<1>9. QED
  BY <1>4, <1>7, <1>8 DEF Decided

-----------------------------------------------------------------------------
(* Repeated classifications, and what a pivot rests on. *)

\* The repeated classifications can be counted.
LEMMA RepeatsFinite ==
    TypeOK => /\ IsFiniteSet(Again) /\ Cardinality(Again) \in Nat
              /\ IsFiniteSet(ToComeAgain) /\ Cardinality(ToComeAgain) \in Nat
<1> SUFFICES ASSUME TypeOK
             PROVE  IsFiniteSet(Again) /\ IsFiniteSet(ToComeAgain)
  BY FS_CardinalityType
<1>1. Len(log) \in Nat /\ Len(runs) \in Nat
  BY Rows
<1>2. Again \in SUBSET (1..Len(log)) /\ ToComeAgain \in SUBSET (1..Len(runs))
  BY Rows DEF Again, ToComeAgain, ToSet
<1>3. IsFiniteSet(1..Len(log)) /\ IsFiniteSet(1..Len(runs))
  BY <1>1, FS_Interval
<1>4. QED
  BY <1>2, <1>3, FS_Subset

\* After a step too.
LEMMA RepeatsFiniteNext ==
    TypeOK' => (/\ IsFiniteSet(Again) /\ Cardinality(Again) \in Nat
                /\ IsFiniteSet(ToComeAgain) /\ Cardinality(ToComeAgain) \in Nat)'
BY RepeatsFinite, PTL

\* Every step counts the classifications that are repeated.
LEMMA NextRepeats ==
    ASSUME TypeOK, TypeOK', RunsSound, RepeatsCounted, Next
    PROVE  RepeatsCounted'
<1>1. RunsKept /\ repeats' \in repeats..bound.repeats
  BY NextSound DEF TablesStep
<1>2. /\ repeats \in Nat /\ repeats' \in Nat /\ repeats <= repeats'
      /\ IsFiniteSet(Again) /\ Cardinality(Again) \in Nat
      /\ IsFiniteSet(ToComeAgain) /\ Cardinality(ToComeAgain) \in Nat
      /\ IsFiniteSet(Again') /\ Cardinality(Again') \in Nat
      /\ IsFiniteSet(ToComeAgain') /\ Cardinality(ToComeAgain') \in Nat
      /\ Cardinality(Again) + Cardinality(ToComeAgain) <= repeats
  <2>1. repeats \in Nat /\ bound.repeats \in Nat
    BY Rows, LineAssumption DEF TypeOK
  <2>2. repeats' \in Nat /\ repeats <= repeats'
    BY <1>1, <2>1
  <2>3. QED
    BY <2>1, <2>2, RepeatsFinite, RepeatsFiniteNext DEF RepeatsCounted
<1>3. CASE UNCHANGED log
  <2>1. Again' = Again
    BY <1>3 DEF Again
  <2>2. ToComeAgain' \in SUBSET ToComeAgain
    <3>1. ASSUME NEW r \in ToSet(log), <<"signal", r>> \in todo'
          PROVE  <<"signal", r>> \in todo
      <4>1. r \in RunIds /\ runs[r].verdict \in {"passed", "inconclusive"}
        BY Rows DEF ToSet, TypeOK
      <4>2. ~VerificationCheck(r)
        BY <4>1 DEF VerificationCheck, RunsSound, RunSound, None
      <4>3. QED
        BY <3>1, <4>1, <4>2, NextGains DEF Gains
    <3>2. QED
      BY <1>3, <3>1 DEF ToComeAgain
  <2>3. Cardinality(ToComeAgain') <= Cardinality(ToComeAgain)
    BY <1>2, <2>2, FS_Subset
  <2>4. QED
    BY <1>2, <2>1, <2>3 DEF RepeatsCounted
<1>4. ASSUME NEW q \in RunIds, SignalClassify(q) PROVE RepeatsCounted'
  <2> DEFINE n == Len(log)
  <2>1. /\ n \in Nat /\ DOMAIN log = 1..n /\ DOMAIN log' = 1..(n + 1)
        /\ \A k \in 1..n : log'[k] = log[k]
        /\ log'[n + 1] = q
    BY <1>1, <1>4, Classification
  <2> HIDE DEF n
  <2>2. ToSet(log') = ToSet(log) \cup {q}
    <3>1. DOMAIN log' = DOMAIN log \cup {n + 1}
      BY <2>1
    <3>2. ToSet(log') = {log'[k] : k \in DOMAIN log \cup {n + 1}}
      BY <3>1 DEF ToSet
    <3>3. QED
      BY <2>1, <3>2 DEF ToSet
  <2>3. Again' = Again \cup (IF q \in ToSet(log) THEN {n + 1} ELSE {}) /\ n + 1 \notin Again
    <3>1. ASSUME NEW k \in 1..n PROVE (k \in Again') <=> (k \in Again)
      BY <2>1, <3>1 DEF Again
    <3>2. (n + 1 \in Again') <=> q \in ToSet(log)
      BY <2>1 DEF Again, ToSet
    <3>3. Again \in SUBSET (1..n) /\ Again' \in SUBSET (1..(n + 1))
      BY <2>1 DEF Again
    <3>4. n + 1 \notin 1..n /\ \A k \in 1..(n + 1) : k \in 1..n \/ k = n + 1
      BY <2>1
    <3>5. CASE q \in ToSet(log)
      BY <3>1, <3>2, <3>3, <3>4, <3>5, Zenon
    <3>6. CASE q \notin ToSet(log)
      <4>1. \A k \in Again' : k \in Again
        BY <3>1, <3>2, <3>3, <3>4, <3>6
      <4>2. \A k \in Again : k \in Again'
        BY <3>1, <3>3
      <4>3. QED
        BY <3>3, <3>4, <3>6, <4>1, <4>2
    <3>7. QED
      BY <3>5, <3>6
  <2>4. Hand(<<"signal", q>>, {<<"recommend", q>>}) /\ <<"signal", q>> \in todo
    BY <1>4 DEF SignalClassify
  <2>5. CASE todo' = (todo \ {<<"signal", q>>}) \cup {<<"recommend", q>>} /\ repeats' = repeats
    <3>1. ToComeAgain' = ToComeAgain \ {q}
      BY <2>2, <2>5 DEF ToComeAgain
    <3>2. CASE q \in ToSet(log)
      <4>1. q \in ToComeAgain
        BY <2>4, <3>2 DEF ToComeAgain
      <4>2. Cardinality(ToComeAgain') = Cardinality(ToComeAgain) - 1
        BY <1>2, <3>1, <4>1, FS_RemoveElement
      <4>3. Cardinality(Again') = Cardinality(Again) + 1
        BY <1>2, <2>3, <3>2, OneMore
      <4>4. QED
        BY <1>2, <2>5, <4>2, <4>3 DEF RepeatsCounted
    <3>3. CASE q \notin ToSet(log)
      <4>1. ToComeAgain' = ToComeAgain /\ Again' = Again
        BY <2>3, <3>1, <3>3 DEF ToComeAgain
      <4>2. QED
        BY <2>5, <4>1 DEF RepeatsCounted
    <3>4. QED
      BY <3>2, <3>3
  <2>6. CASE todo' = todo \cup {<<"recommend", q>>} /\ repeats' = repeats + 1
    <3>1. ToComeAgain' = ToComeAgain \cup {q}
      BY <2>2, <2>4, <2>6 DEF ToComeAgain
    <3>2. CASE q \in ToSet(log)
      <4>1. q \in ToComeAgain
        BY <2>4, <3>2 DEF ToComeAgain
      <4>2. ToComeAgain' = ToComeAgain
        BY <3>1, <4>1
      <4>3. Cardinality(Again') = Cardinality(Again) + 1
        BY <1>2, <2>3, <3>2, OneMore
      <4>4. QED
        BY <1>2, <2>6, <4>2, <4>3 DEF RepeatsCounted
    <3>3. CASE q \notin ToSet(log)
      <4>1. q \notin ToComeAgain /\ Again' = Again
        BY <2>3, <3>3 DEF ToComeAgain
      <4>2. Cardinality(ToComeAgain') = Cardinality(ToComeAgain) + 1
        BY <1>2, <3>1, <4>1, OneMore
      <4>3. QED
        BY <1>2, <2>6, <4>1, <4>2 DEF RepeatsCounted
    <3>4. QED
      BY <3>2, <3>3
  <2>7. QED
    BY <2>4, <2>5, <2>6 DEF Hand
<1>5. QED
  BY <1>3, <1>4, NextFiles DEF FilesStep
\* The runs since the best one can be counted.
LEMMA RunsSinceBestFinite ==
    ASSUME TypeOK
    PROVE  IsFiniteSet(RunsSinceBest) /\ Cardinality(RunsSinceBest) \in Nat
<1>1. RunsSinceBest \in SUBSET (1..Len(runs)) /\ Len(runs) \in Nat
  BY Rows DEF RunsSinceBest
<1>2. IsFiniteSet(RunsSinceBest)
  <2>1. IsFiniteSet(1..Len(runs))
    BY <1>1, FS_Interval
  <2>2. QED
    BY <1>1, <2>1, FS_Subset
<1>3. QED
  BY <1>2, FS_CardinalityType

\* A count of classifications since the best one is a count of runs, but for
\* the repeated ones.
LEMMA RunsSinceBestCounted ==
    ASSUME TypeOK, RepeatsCounted, NEW b \in DOMAIN log, ReachesBest(b)
    PROVE  Len(log) - b <= Cardinality(RunsSinceBest) + repeats
<1> DEFINE n == Len(log)
           After == (b + 1)..n
           First == After \ Again
<1>1. n \in Nat /\ DOMAIN log = 1..n /\ b \in 1..n /\ Len(runs) \in Nat
  BY Rows
<1>2. /\ IsFiniteSet(Again) /\ Cardinality(Again) \in Nat /\ Cardinality(ToComeAgain) \in Nat
      /\ repeats \in Nat /\ Cardinality(Again) <= repeats
  BY RepeatsFinite, Rows DEF RepeatsCounted
<1> HIDE DEF n
<1>3. IsFiniteSet(After) /\ Cardinality(After) = n - b
  <2>1. b + 1 \in Int /\ n \in Int /\ (b + 1 > n => n - b = 0) /\ n - (b + 1) + 1 = n - b
    BY <1>1
  <2>2. QED
    BY <2>1, FS_Interval
<1> HIDE DEF After
<1>4. IsFiniteSet(First) /\ Cardinality(After) <= Cardinality(First) + Cardinality(Again)
  <2>1. IsFiniteSet(First) /\ Cardinality(First) = Cardinality(After) - Cardinality(After \cap Again)
    BY <1>3, FS_Difference
  <2>2. IsFiniteSet(After \cap Again) /\ Cardinality(After \cap Again) <= Cardinality(Again)
    BY <1>2, FS_Subset
  <2>3. Cardinality(First) \in Nat /\ Cardinality(After \cap Again) \in Nat /\ Cardinality(After) \in Nat
    BY <1>3, <2>1, <2>2, FS_CardinalityType
  <2>4. QED
    BY <1>2, <2>1, <2>2, <2>3
<1>5. IsFiniteSet(RunsSinceBest)
  BY RunsSinceBestFinite
<1>6. Cardinality(First) <= Cardinality(RunsSinceBest)
  <2> DEFINE f == [k \in First |-> log[k]]
  <2>1. \A k \in First : k \in DOMAIN log /\ b \in 1..(k - 1) /\ k \notin Again /\ k \in Nat
    BY <1>1 DEF After
  <2>2. f \in [First -> RunsSinceBest]
    BY <2>1 DEF RunsSinceBest
  <2>3. ASSUME NEW i \in First, NEW k \in First, i < k PROVE log[i] # log[k]
    <3>1. i \in 1..(k - 1)
      BY <1>1, <2>1, <2>3
    <3>2. QED
      BY <2>1, <3>1 DEF Again
  <2>4. \A i, k \in First : f[i] = f[k] => i = k
    BY <2>1, <2>3
  <2> HIDE DEF f, First
  <2>5. f \in Injection(First, RunsSinceBest)
    BY <2>2, <2>4 DEF Injection, IsInjective
  <2>6. QED
    BY <1>5, <2>5, FS_Injection
<1>7. Cardinality(First) \in Nat /\ Cardinality(RunsSinceBest) \in Nat
  BY <1>4, <1>5, FS_CardinalityType
<1>8. QED
  BY <1>1, <1>2, <1>3, <1>4, <1>6, <1>7 DEF n

\* What a step that abandons the line rests on.
LEMMA StepPivotEarned ==
    ASSUME TypeOK, RunsSound, FrontierMatches, RepeatsCounted, Next, NEW r \in RunIds,
           runs'[r].advice = "hypothesis_pivot", runs[r].advice # "hypothesis_pivot"
    PROVE  \/ log = <<>> /\ Exhausted(r)
           \/ Cardinality(RunsSinceBest) + repeats >= StallThreshold
<1>1. PICK failed \in BOOLEAN : Recommend(r, failed)
  BY NextDecides DEF Decided, AdviceKept
<1>2. Recommendation(failed, Exhausted(r), HasUnresolved(r, failed), runs[r].signal)
         = "hypothesis_pivot"
  <2>1. runs'[r] = AdvisedRow(r, failed) /\ runs[r] \in RunType
    BY <1>1, RecommendWrites, Rows DEF Updates
  <2>2. QED
    BY <2>1 DEF AdvisedRow, RunType
<1>3. ASSUME log # <<>>
      PROVE  \E b \in DOMAIN log :
                /\ ReachesBest(b) /\ frontier.since = Len(log) - b
                /\ frontier.successful = Len(log) /\ Len(log) > 0
  <2>1. PICK b \in DOMAIN log : /\ ReachesBest(b)
                                /\ frontier = [best |-> LogValue(b), run |-> log[b],
                                               total |-> Len(log), successful |-> Len(log),
                                               since |-> Len(log) - b]
    BY <1>3 DEF FrontierMatches
  <2>2. Len(log) > 0
    BY Rows
  <2>3. QED
    BY <2>1, <2>2
<1>4. CASE failed
  <2>1. Exhausted(r) /\ (frontier = NoFrontier \/ frontier.successful = 0)
    BY <1>2, <1>4 DEF Recommendation
  <2>2. log = <<>>
    BY <1>3, <2>1, Rows DEF NoFrontier
  <2>3. QED
    BY <2>1, <2>2
<1>5. CASE ~failed
  <2>1. frontier.since >= StallThreshold
    BY <1>2, <1>5 DEF Recommendation
  <2>2. log # <<>>
    BY <2>1 DEF FrontierMatches, NoFrontier, StallThreshold
  <2>3. PICK b \in DOMAIN log : ReachesBest(b) /\ frontier.since = Len(log) - b
    BY <1>3, <2>2
  <2>4. Len(log) - b <= Cardinality(RunsSinceBest) + repeats
    BY <2>3, RunsSinceBestCounted
  <2>5. Len(log) \in Nat /\ b \in Nat /\ Cardinality(RunsSinceBest) + repeats \in Int
    BY RunsSinceBestFinite, Rows
  <2>6. QED
    BY <2>1, <2>3, <2>4, <2>5 DEF StallThreshold
<1>6. QED
  BY <1>4, <1>5
-----------------------------------------------------------------------------
(* The theorems. *)

\* The invariant holds of an empty line.
LEMMA InitEstablishesInv == Init => Inv
<1> SUFFICES ASSUME Init PROVE Inv
  OBVIOUS
<1>1. /\ runs = <<>> /\ actions = <<>> /\ completed = <<>> /\ log = <<>> /\ todo = {}
      /\ RunIds = {} /\ DOMAIN actions = {} /\ DOMAIN log = {} /\ DOMAIN completed = {}
      /\ repeats = 0 /\ frontier = NoFrontier
  BY DEF Init, RunIds
<1>2. TypeOK
  <2>1. bound.repeats \in Nat
    BY LineAssumption DEF Init
  <2>2. NoFrontier \in FrontierType
    BY DEF NoFrontier, FrontierType
  <2>3. QED
    BY <1>1, <2>1, <2>2 DEF Init, TypeOK
<1>3. RepeatsCounted
  <2>1. Again = {} /\ ToComeAgain = {}
    BY <1>1 DEF Again, ToComeAgain
  <2>2. QED
    BY <1>1, <2>1, FS_EmptySet DEF RepeatsCounted
<1>4. QED
  BY <1>1, <1>2, <1>3 DEF Inv, RunsSound, FrontierMatches, BestIsNoRegression, LimitsGrow,
     RetriesPaid, RetriesBounded, ParentsActed, FocusIsSpent, FocusedOnce, DoneOnce, RecoveryCounts

\* Every step keeps it.
LEMMA NextPreservesInv == Inv /\ Next => Inv'
<1> SUFFICES ASSUME Inv, Next PROVE Inv'
  OBVIOUS
<1>1. TypeOK /\ RunsSound
  BY DEF Inv
<1>2. TypeOK' /\ RunsSound'
  BY <1>1, NextTyped, NextSound
<1>3. FrontierMatches' /\ BestIsNoRegression'
  BY <1>1, NextFrontier, NextSignals DEF Inv
<1>4. LimitsGrow'
  BY <1>1, NextLimits DEF Inv
<1>5. RetriesPaid' /\ RetriesBounded'
  BY <1>1, <1>2, NextRetries DEF Inv
<1>6. ParentsActed'
  BY <1>1, NextParents DEF Inv
<1>7. FocusIsSpent' /\ FocusedOnce'
  BY <1>1, <1>2, NextSpent, NextFocused DEF Inv
<1>8. DoneOnce' /\ RecoveryCounts'
  BY <1>1, <1>2, <1>6, NextOnce, NextRecovery DEF Inv
<1>9. RepeatsCounted'
  BY <1>1, <1>2, NextRepeats DEF Inv
<1>10. QED
  BY <1>2, <1>3, <1>4, <1>5, <1>6, <1>7, <1>8, <1>9 DEF Inv

\* So does a step that changes nothing.
LEMMA StutterPreservesInv == Inv /\ UNCHANGED vars => Inv'
<1> SUFFICES ASSUME Inv, UNCHANGED vars PROVE Inv'
  OBVIOUS
<1>1. /\ UNCHANGED <<spec, runs, actions, completed, frontier, todo, log, bound, repeats>>
      /\ RunIds' = RunIds
  BY DEF vars, RunIds
<1>2. TypeOK' /\ RunsSound'
  BY <1>1 DEF Inv, TypeOK, RunsSound, RunSound, Verified
<1>3. RunsKept
  BY <1>1 DEF Inv, TypeOK, RunsKept, RowKept
<1>4. \A r \in RunIds : Lineage(r)' = Lineage(r) /\ LineageActions(r)' = LineageActions(r)
  <2>1. \A r \in RunIds : Lineage(r)' = Lineage(r)
    BY <1>2, <1>3, LineageKept DEF Inv
  <2>2. QED
    BY <1>1, <2>1 DEF LineageActions
<1>5. FrontierMatches'
  BY <1>1, <1>3, FrontierStays DEF Inv
<1>6. BestIsNoRegression' /\ LimitsGrow' /\ RecoveryCounts'
  BY <1>1 DEF Inv, BestIsNoRegression, LimitsGrow, RecoveryCounts
<1>7. RetriesPaid' /\ RetriesBounded'
  BY <1>1, <1>4 DEF Inv, RetriesPaid, RetriesBounded
<1>8. ParentsActed' /\ DoneOnce'
  BY <1>1 DEF Inv, ParentsActed, Acted, DoneOnce, Retried, GivenUp
<1>9. FocusIsSpent'
  <2>1. \A k \in DOMAIN actions : actions[k].run \in RunIds
    BY Rows DEF Inv
  <2>2. QED
    BY <1>1, <1>4, <2>1 DEF Inv, FocusIsSpent, Spent, NeedsEscalation, ClassOf, ArtifactFix
<1>10. FocusedOnce'
  BY <1>1, <1>4 DEF Inv, FocusedOnce
<1>11. RepeatsCounted'
  BY <1>1 DEF Inv, RepeatsCounted, Again, ToComeAgain
<1>12. QED
  BY <1>2, <1>5, <1>6, <1>7, <1>8, <1>9, <1>10, <1>11 DEF Inv

\* The invariant holds throughout, for any specs, limits and bounds.
THEOREM LineInvariant == Spec => []Inv
<1>1. Inv /\ [Next]_vars => Inv'
  BY NextPreservesInv, StutterPreservesInv
<1>2. QED
  BY <1>1, InitEstablishesInv, PTL DEF Spec

\* Every variable keeps its type; what was classified had been verified with a
\* metric, and what was remediated had failed.
THEOREM LineTypeOK == Spec => []TypeOK
<1>1. Inv => TypeOK
  BY DEF Inv
<1>2. QED
  BY <1>1, LineInvariant, PTL

\* upsert_frontier keeps what a pass over all classifications would find.
THEOREM LineFrontierMatches == Spec => []FrontierMatches
<1>1. Inv => FrontierMatches
  BY DEF Inv
<1>2. QED
  BY <1>1, LineInvariant, PTL

\* classify_signal agrees with upsert_frontier on a new best.
THEOREM LineBestIsNoRegression == Spec => []BestIsNoRegression
<1>1. Inv => BestIsNoRegression
  BY DEF Inv
<1>2. QED
  BY <1>1, LineInvariant, PTL

\* select_strategy gives a retry no less than its run had, and no more than the
\* caps, for any hardware profile.
THEOREM LineLimitsGrow == Spec => []LimitsGrow
<1>1. Inv => LimitsGrow
  BY DEF Inv
<1>2. QED
  BY <1>1, LineInvariant, PTL

\* auto_remediate tries a focused fix once per failure class of a lineage,
\* however often it is executed.
THEOREM LineFocusedOnce == Spec => []FocusedOnce
<1>1. Inv => FocusedOnce
  BY DEF Inv
<1>2. QED
  BY <1>1, LineInvariant, PTL

\* No chain of retries outgrows DEFAULT_MAX_ATTEMPTS, whatever it is and
\* however often auto_remediate is executed.
THEOREM LineRetriesBounded == Spec => []RetriesBounded
<1>1. Inv => RetriesBounded
  BY DEF Inv
<1>2. QED
  BY <1>1, LineInvariant, PTL

\* recommend does not hold failures that were repaired against a run.
THEOREM LineRecoveryCounts == Spec => []RecoveryCounts
<1>1. Inv => RecoveryCounts
  BY DEF Inv
<1>2. QED
  BY <1>1, LineInvariant, PTL

\* compute_recommendation abandons a line only for a reason.
THEOREM LinePivotEarned == Spec => PivotEarned
<1> DEFINE Earned ==
        \A r \in RunIds :
          runs'[r].advice = "hypothesis_pivot" /\ runs[r].advice # "hypothesis_pivot"
              => \/ log = <<>> /\ Exhausted(r)
                 \/ Cardinality(RunsSinceBest) + repeats >= StallThreshold
<1>1. Inv /\ Next => Earned
  BY StepPivotEarned DEF Inv
<1>2. Inv /\ [Next]_vars => [Earned]_vars
  BY <1>1
<1>3. QED
  BY <1>2, LineInvariant, PTL DEF Spec, PivotEarned
=============================================================================
