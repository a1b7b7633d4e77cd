------------------------- MODULE PatternMemoryProofs -------------------------
(***************************************************************************)
(* Theorems about the pattern memory, for any number of workers, any       *)
(* artifacts of any cycles and charters, any staleness windows and any     *)
(* requests: what a pattern row claims is backed by its observations, and  *)
(* what enters a prompt is backed or approved.                             *)
(***************************************************************************)
EXTENDS PatternMemory, FiniteSetTheorems, SequenceTheorems, TLAPS

ChartersOf(S) == {CharterOfArtifact(a) : a \in S}

\* What a row claims is backed by the artifacts S: their number, their charters,
\* and the confidence these give.
RowBacked(row, S) ==
    /\ row.evidence \in 1..Cardinality(S)
    /\ row.charters \subseteq ChartersOf(S)
    /\ row.confidence <= ComputeConfidence(Cardinality(S), ChartersOf(S))

PatternBacked == pattern # None => RowBacked(pattern, observed)

\* A consolidation in flight has artifacts to store, and the row it will write
\* is backed by them and the ones stored already.  It updates a row only if
\* there is one, and a decay writes nothing but the tier.
UnitBacked(w) ==
    /\ worker[w].at \in {"upsert", "store"} => worker[w].found # {}
    /\ worker[w].at = "store" =>
           /\ worker[w].new # None
           /\ IF worker[w].read = None THEN RowBacked(worker[w].new, worker[w].found)
              ELSE pattern # None /\ RowBacked(worker[w].new, observed \union worker[w].found)
    /\ worker[w].at = "demote" /\ worker[w].read # None =>
           /\ pattern # None /\ worker[w].new # None
           /\ worker[w].new = [worker[w].read EXCEPT !.tier = worker[w].new.tier]
UnitsBacked == \A w \in Workers : UnitBacked(w)

\* An operator between finding the row and using it.
ConsultBacked ==
    consult # None => /\ pattern # None /\ RowBacked(consult.row, observed)
                      /\ \E a \in observed : CycleOf[a] # consult.cycle

Inv ==
    /\ TypeOK
    /\ PatternBacked /\ UnitsBacked /\ ConsultBacked
    /\ InjectionBacked

-----------------------------------------------------------------------------
(* Confidence. *)

\* The smaller and the larger of two numbers.
LEMMA MinMax ==
    ASSUME NEW m \in Int, NEW n \in Int
    PROVE  /\ Min({m, n}) = IF m <= n THEN m ELSE n
           /\ Max({m, n}) = IF m >= n THEN m ELSE n
<1>1. Min({m, n}) = IF m <= n THEN m ELSE n
  BY DEF Min
<1>2. Max({m, n}) = IF m >= n THEN m ELSE n
  BY DEF Max
<1>3. QED
  BY <1>1, <1>2

\* The confidence that n artifacts give, of one charter and of several.
Base(n) == IF n >= 6 THEN 800 ELSE 250 + 100 * n

\* The confidence, without minima.
LEMMA ConfidenceMeans ==
    ASSUME NEW n \in Nat, NEW charters
    PROVE  ComputeConfidence(n, charters) =
               IF Cardinality(charters) > 1 THEN Base(n) + 100 ELSE Base(n)
<1>1. Min({350 + 100 * (n - 1), 800}) = Base(n)
  BY MinMax DEF Base
<1>2. Base(n) \in Int /\ Base(n) + 100 <= 950
  BY DEF Base
<1>3. Min({Base(n) + 100, 950}) = Base(n) + 100
  BY <1>2, MinMax
<1>4. QED
  BY <1>1, <1>3 DEF ComputeConfidence

Confidences == {350 + 50 * i : i \in 0..12}

\* Confidences are the multiples of 0.05 from 0.35 to 0.95.
LEMMA ConfidenceType ==
    ASSUME NEW n \in Nat \ {0}, NEW charters
    PROVE  ComputeConfidence(n, charters) \in Confidences
<1>1. Base(n) \in {350, 450, 550, 650, 750, 800}
  BY DEF Base
<1>2. \A i \in 0..12 : 350 + 50 * i \in Confidences
  BY DEF Confidences
<1>3. {350, 450, 550, 650, 750, 800, 850, 900} \subseteq Confidences
  <2>1. /\ 350 = 350 + 50 * 0 /\ 450 = 350 + 50 * 2 /\ 550 = 350 + 50 * 4
        /\ 650 = 350 + 50 * 6 /\ 750 = 350 + 50 * 8 /\ 800 = 350 + 50 * 9
        /\ 850 = 350 + 50 * 10 /\ 900 = 350 + 50 * 11
    OBVIOUS
  <2>2. 0 \in 0..12 /\ 2 \in 0..12 /\ 4 \in 0..12 /\ 6 \in 0..12 /\ 8 \in 0..12
        /\ 9 \in 0..12 /\ 10 \in 0..12 /\ 11 \in 0..12
    OBVIOUS
  <2>3. 350 \in Confidences /\ 450 \in Confidences /\ 550 \in Confidences
    BY <1>2, <2>1, <2>2
  <2>4. 650 \in Confidences /\ 750 \in Confidences /\ 800 \in Confidences
    BY <1>2, <2>1, <2>2
  <2>5. 850 \in Confidences /\ 900 \in Confidences
    BY <1>2, <2>1, <2>2
  <2>6. QED
    BY <2>3, <2>4, <2>5
<1>4. ComputeConfidence(n, charters) \in {Base(n), Base(n) + 100}
  BY ConfidenceMeans
<1>5. QED
  BY <1>1, <1>3, <1>4

\* More artifacts of more charters give no less confidence.
LEMMA ConfidenceGrows ==
    ASSUME NEW m \in Nat, NEW n \in Nat, m <= n, NEW C, NEW D,
           Cardinality(C) > 1 => Cardinality(D) > 1
    PROVE  ComputeConfidence(m, C) <= ComputeConfidence(n, D)
<1>1. Base(m) \in Int /\ Base(n) \in Int /\ Base(m) <= Base(n)
  BY DEF Base
<1>2. QED
  BY <1>1, ConfidenceMeans

-----------------------------------------------------------------------------
(* Artifacts and charters. *)

\* Sets of artifacts, and their charters, can be counted.
LEMMA Counted ==
    ASSUME NEW S \in SUBSET Artifacts
    PROVE  /\ IsFiniteSet(S) /\ Cardinality(S) \in Nat
           /\ S # {} => Cardinality(S) >= 1
           /\ IsFiniteSet(ChartersOf(S)) /\ Cardinality(ChartersOf(S)) \in Nat
           /\ ChartersOf(S) \subseteq Charters
           /\ S # {} => ChartersOf(S) # {}
<1>1. Len(CycleOf) \in Nat /\ \A a \in Artifacts : CycleOf[a] \in Cycles
  BY MemoryAssumption DEF Artifacts
<1>2. IsFiniteSet(Artifacts)
  BY <1>1, FS_Interval DEF Artifacts
<1>3. IsFiniteSet(S) /\ Cardinality(S) \in Nat
  BY <1>2, FS_Subset, FS_CardinalityType
<1>4. S # {} => Cardinality(S) >= 1
  BY <1>3, FS_EmptySet
<1>5. IsFiniteSet(ChartersOf(S))
  <2>1. DEFINE f == [a \in S |-> CharterOfArtifact(a)]
  <2>2. f \in Surjection(S, ChartersOf(S))
    BY DEF Surjection, ChartersOf
  <2>3. QED
    BY <1>3, <2>2, FS_Surjection
<1>6. Cardinality(ChartersOf(S)) \in Nat
  BY <1>5, FS_CardinalityType
<1>7. ChartersOf(S) \subseteq Charters
  BY <1>1 DEF ChartersOf, CharterOfArtifact, Charters
<1>8. S # {} => ChartersOf(S) # {}
  BY DEF ChartersOf
<1>9. QED
  BY <1>3, <1>4, <1>5, <1>6, <1>7, <1>8

\* A row stays backed when more artifacts are observed.
LEMMA BackedGrows ==
    ASSUME NEW S \in SUBSET Artifacts, NEW T \in SUBSET Artifacts, S \subseteq T,
           NEW row, row.confidence \in Int, RowBacked(row, S)
    PROVE  RowBacked(row, T)
<1>1. /\ IsFiniteSet(T) /\ Cardinality(S) \in Nat /\ Cardinality(T) \in Nat
      /\ Cardinality(S) <= Cardinality(T)
  BY Counted, FS_Subset
<1>2. /\ IsFiniteSet(ChartersOf(T)) /\ ChartersOf(S) \subseteq ChartersOf(T)
      /\ Cardinality(ChartersOf(S)) \in Nat /\ Cardinality(ChartersOf(T)) \in Nat
  BY Counted DEF ChartersOf
<1>3. Cardinality(ChartersOf(S)) <= Cardinality(ChartersOf(T))
  BY <1>2, FS_Subset
<1>4. ComputeConfidence(Cardinality(S), ChartersOf(S))
        <= ComputeConfidence(Cardinality(T), ChartersOf(T))
  BY <1>1, <1>2, <1>3, ConfidenceGrows
<1>5. /\ ComputeConfidence(Cardinality(S), ChartersOf(S)) \in Int
      /\ ComputeConfidence(Cardinality(T), ChartersOf(T)) \in Int
  BY <1>1, ConfidenceMeans DEF Base
<1>6. QED
  BY <1>1, <1>2, <1>4, <1>5 DEF RowBacked

-----------------------------------------------------------------------------
(* Rows. *)

\* The columns of a row.
LEMMA RowColumns ==
    ASSUME NEW row \in Rows
    PROVE  /\ row.tier \in Tiers /\ row.evidence \in Nat /\ row.confidence \in Confidences
           /\ row.confidence \in Int /\ row.confidence >= 0
           /\ row.charters \in (SUBSET Charters) \ {{}} /\ row.age \in 0..OldAge
           /\ DOMAIN row = {"tier", "evidence", "confidence", "charters", "age"}
           /\ row # None
<1>1. /\ row.tier \in Tiers /\ row.evidence \in Nat /\ row.confidence \in Confidences
      /\ row.charters \in (SUBSET Charters) \ {{}} /\ row.age \in 0..OldAge
      /\ DOMAIN row = {"tier", "evidence", "confidence", "charters", "age"}
  BY DEF Rows, Confidences
<1>2. row.confidence \in Int /\ row.confidence >= 0
  BY <1>1 DEF Confidences
<1>3. row # None
  BY <1>1 DEF None, Tiers
<1>4. QED
  BY <1>1, <1>2, <1>3

\* Columns of their types make a row.
LEMMA ColumnsRow ==
    ASSUME NEW t \in Tiers, NEW e \in Nat, NEW c \in Confidences,
           NEW h \in (SUBSET Charters) \ {{}}, NEW g \in 0..OldAge
    PROVE  [tier |-> t, evidence |-> e, confidence |-> c, charters |-> h, age |-> g] \in Rows
BY DEF Rows, Confidences

\* The row a first consolidation inserts is backed by the artifacts it found.
LEMMA NewPatternBacked ==
    ASSUME NEW S \in SUBSET Artifacts, S # {}
    PROVE  /\ NewPattern(Cardinality(S), ChartersOf(S)) \in Rows
           /\ RowBacked(NewPattern(Cardinality(S), ChartersOf(S)), S)
<1>1. Cardinality(S) \in Nat \ {0} /\ ChartersOf(S) \in (SUBSET Charters) \ {{}}
  BY Counted
<1>2. ComputeConfidence(Cardinality(S), ChartersOf(S)) \in Confidences
  BY <1>1, ConfidenceType
<1>3. "auto" \in Tiers /\ 0 \in 0..OldAge
  BY MemoryAssumption DEF Tiers
<1>4. NewPattern(Cardinality(S), ChartersOf(S)) \in Rows
  BY <1>1, <1>2, <1>3, ColumnsRow DEF NewPattern
<1>5. ComputeConfidence(Cardinality(S), ChartersOf(S)) \in Int
  BY <1>2 DEF Confidences
<1>6. RowBacked(NewPattern(Cardinality(S), ChartersOf(S)), S)
  BY <1>1, <1>5 DEF NewPattern, RowBacked
<1>7. QED
  BY <1>4, <1>6

\* A row merged with the artifacts found is backed by the artifacts that backed
\* it and these.
LEMMA ReinforcedBacked ==
    ASSUME NEW S \in SUBSET Artifacts, NEW T \in SUBSET Artifacts, S # {},
           NEW row \in Rows, RowBacked(row, T)
    PROVE  /\ Reinforced(row, Cardinality(S), ChartersOf(S)) \in Rows
           /\ RowBacked(Reinforced(row, Cardinality(S), ChartersOf(S)), T \union S)
<1> DEFINE n == Cardinality(S)
           c == ComputeConfidence(n, ChartersOf(S))
           new == NewPattern(n, ChartersOf(S))
           merged == Reinforced(row, n, ChartersOf(S))
           U == T \union S
<1>1. new \in Rows /\ RowBacked(new, S)
  BY NewPatternBacked
<1>2. RowBacked(new, U)
  <2>1. new.confidence \in Int /\ U \in SUBSET Artifacts /\ S \subseteq U
    BY <1>1, RowColumns
  <2>2. QED
    BY <1>1, <2>1, BackedGrows
<1>3. RowBacked(row, U)
  <2>1. row.confidence \in Int /\ U \in SUBSET Artifacts /\ T \subseteq U
    BY RowColumns
  <2>2. QED
    BY <2>1, BackedGrows
<1>4. new.evidence = n /\ new.confidence = c /\ new.charters = ChartersOf(S)
  BY DEF NewPattern
<1>5. /\ row.tier \in Tiers /\ row.evidence \in Nat /\ row.confidence \in Confidences
      /\ row.confidence \in Int /\ row.charters \in (SUBSET Charters) \ {{}}
      /\ n \in Nat /\ c \in Confidences /\ c \in Int /\ ChartersOf(S) \in (SUBSET Charters) \ {{}}
  BY <1>1, <1>4, RowColumns
<1>6. /\ merged.tier \in Tiers
      /\ merged.evidence \in {row.evidence, n} /\ merged.confidence \in {row.confidence, c}
      /\ merged.charters = row.charters \union ChartersOf(S) /\ merged.age = 0
      /\ merged = [tier |-> merged.tier, evidence |-> merged.evidence,
                   confidence |-> merged.confidence, charters |-> merged.charters, age |-> merged.age]
  <2>1. Max({row.evidence, n}) \in {row.evidence, n} /\ Max({row.confidence, c}) \in {row.confidence, c}
    <3>1. row.evidence \in Int /\ n \in Int /\ row.confidence \in Int /\ c \in Int
      BY <1>5
    <3>2. \A m, k \in Int : Max({m, k}) \in {m, k}
      BY MinMax
    <3> HIDE DEF n, c
    <3>3. QED
      BY <3>1, <3>2
  <2>2. QED
    BY <1>5, <2>1 DEF Reinforced, Tiers
<1>7. merged \in Rows
  <2>1. /\ merged.evidence \in Nat /\ merged.confidence \in Confidences
        /\ merged.charters \in (SUBSET Charters) \ {{}} /\ merged.age \in 0..OldAge
    BY <1>5, <1>6, MemoryAssumption
  <2>2. QED
    BY <1>6, <2>1, ColumnsRow
<1>8. RowBacked(merged, U)
  <2>1. merged.evidence \in 1..Cardinality(U)
    BY <1>2, <1>3, <1>4, <1>6 DEF RowBacked
  <2>2. merged.charters \subseteq ChartersOf(U)
    BY <1>2, <1>3, <1>4, <1>6 DEF RowBacked
  <2>3. merged.confidence <= ComputeConfidence(Cardinality(U), ChartersOf(U))
    BY <1>2, <1>3, <1>4, <1>6 DEF RowBacked
  <2>4. QED
    BY <2>1, <2>2, <2>3 DEF RowBacked
<1>9. QED
  BY <1>7, <1>8

\* A decay changes nothing but the tier.
LEMMA EvaluateTier ==
    ASSUME NEW row \in Rows, NEW window
    PROVE  /\ Evaluate(row, window) \in Rows
           /\ Evaluate(row, window) = [row EXCEPT !.tier = Evaluate(row, window).tier]
<1>1. PICK t \in Tiers : Evaluate(row, window) = [row EXCEPT !.tier = t]
  <2>1. row.tier \in Tiers
    BY RowColumns
  <2>2. QED
    BY <2>1 DEF Evaluate, Tiers
<1>2. [row EXCEPT !.tier = t] \in Rows /\ [row EXCEPT !.tier = t].tier = t
  BY <1>1 DEF Rows
<1>3. QED
  BY <1>1, <1>2

\* What a commit leaves of the row: each column is the committed one or the one
\* the unit of work computed.
LEMMA WrittenColumns ==
    ASSUME pattern \in Rows, NEW read \in Rows, NEW new \in Rows
    PROVE  /\ Written(read, new) \in Rows
           /\ Written(read, new).evidence \in {pattern.evidence, new.evidence}
           /\ Written(read, new).confidence \in {pattern.confidence, new.confidence}
           /\ Written(read, new).charters \in {pattern.charters, new.charters}
           /\ read.evidence = new.evidence => Written(read, new).evidence = pattern.evidence
           /\ read.confidence = new.confidence => Written(read, new).confidence = pattern.confidence
           /\ read.charters = new.charters => Written(read, new).charters = pattern.charters
<1> DEFINE kept(x) == IF new[x] = read[x] THEN pattern[x] ELSE new[x]
           written == [tier |-> kept("tier"), evidence |-> kept("evidence"),
                       confidence |-> kept("confidence"), charters |-> kept("charters"),
                       age |-> kept("age")]
<1>1. Written(read, new) = written
  <2>1. DOMAIN new = {"tier", "evidence", "confidence", "charters", "age"}
    BY RowColumns
  <2>2. QED
    BY <2>1 DEF Written
<1>2. written \in Rows
  <2>1. /\ kept("tier") \in Tiers /\ kept("evidence") \in Nat /\ kept("confidence") \in Confidences
        /\ kept("charters") \in (SUBSET Charters) \ {{}} /\ kept("age") \in 0..OldAge
    BY RowColumns
  <2>2. QED
    BY <2>1, ColumnsRow
<1>3. QED
  BY <1>1, <1>2

-----------------------------------------------------------------------------
(* Injection. *)

\* A row whose confidence passes the threshold on its own is backed by three
\* artifacts, and by five if they are all of one charter.
LEMMA ConfidentBacked ==
    ASSUME NEW S \in SUBSET Artifacts, NEW row \in Rows, RowBacked(row, S), Confident(row)
    PROVE  Cardinality(S) >= (IF Cardinality(ChartersOf(S)) > 1 THEN 3 ELSE 5)
<1> DEFINE n == Cardinality(S)
           several == Cardinality(ChartersOf(S)) > 1
           fresh == Window - Min({row.age, Window})
           boost == IF Cardinality(row.charters) > 1 THEN 115 ELSE 100
<1>1. row.confidence * fresh * boost >= 700 * 100 * Window
  BY DEF Confident
<1>2. fresh \in 0..Window /\ Window \in Nat \ {0} /\ row.confidence \in Nat
  <2>1. row.age \in Int /\ row.age >= 0 /\ Window \in Nat \ {0} /\ row.confidence \in Nat
    BY RowColumns, MemoryAssumption
  <2>2. QED
    BY <2>1, MinMax
<1>3. row.confidence * boost >= 70000
  <2> HIDE DEF fresh, boost
  <2>1. boost \in {100, 115}
    BY DEF boost
  <2>2. \A c \in Nat : \A f \in 0..Window : c * f <= c * Window
    BY <1>2
  <2>3. row.confidence * fresh <= row.confidence * Window
    BY <1>2, <2>2
  <2>4. CASE boost = 100
    <3>1. row.confidence * fresh >= 700 * Window
      BY <1>1, <1>2, <2>4
    <3>2. row.confidence * Window >= 700 * Window
      BY <1>2, <2>3, <3>1
    <3>3. row.confidence >= 700
      BY <1>2, <3>2
    <3>4. QED
      BY <1>2, <2>4, <3>3
  <2>5. CASE boost = 115
    <3>1. row.confidence * fresh * 115 >= 70000 * Window
      BY <1>1, <1>2, <2>5
    <3>2. (row.confidence * 115) * Window >= 70000 * Window
      BY <1>2, <2>3, <3>1
    <3>3. row.confidence * 115 >= 70000
      BY <1>2, <3>2
    <3>4. QED
      BY <1>2, <2>5, <3>3
  <2>6. QED
    BY <2>1, <2>4, <2>5
<1>4. Cardinality(row.charters) > 1 => several
  <2>1. IsFiniteSet(ChartersOf(S)) /\ row.charters \subseteq ChartersOf(S)
    BY Counted DEF RowBacked
  <2>2. /\ Cardinality(row.charters) \in Nat /\ Cardinality(ChartersOf(S)) \in Nat
        /\ Cardinality(row.charters) <= Cardinality(ChartersOf(S))
    BY <2>1, FS_Subset, FS_CardinalityType
  <2>3. QED
    BY <2>2
<1>5. row.confidence <= IF several THEN Base(n) + 100 ELSE Base(n)
  BY Counted, ConfidenceMeans DEF RowBacked
<1>6. n \in Nat
  BY Counted
<1>7. CASE several
  <2>1. row.confidence * 115 >= 70000
    BY <1>2, <1>3
  <2>2. row.confidence >= 609
    BY <1>2, <2>1
  <2>3. n >= 3
    BY <1>2, <1>5, <1>6, <1>7, <2>2 DEF Base
  <2>4. QED
    BY <1>7, <2>3
<1>8. CASE ~several
  <2>1. boost = 100
    BY <1>4, <1>8
  <2>2. row.confidence >= 700
    BY <1>2, <1>3, <2>1
  <2>3. n >= 5
    BY <1>2, <1>5, <1>6, <1>8, <2>2 DEF Base
  <2>4. QED
    BY <1>8, <2>3
<1>9. QED
  BY <1>7, <1>8

-----------------------------------------------------------------------------
(* Types. *)

\* The jobs that are enqueued, and what there is before and after them.
LEMMA JobTypes ==
    /\ \A window \in Windows \union {Window} : DecayJob(window) \in Jobs
    /\ \A scope \in Charters \union {Global} : ConsolidateJob(scope) \in Jobs
    /\ \A j \in Jobs : /\ j # None /\ j.kind \in {"consolidate", "decay"}
                       /\ j.reclaims < MaxReclaims => [j EXCEPT !.reclaims = @ + 1] \in Jobs
<1>1. ASSUME NEW window \in Windows \union {Window} PROVE DecayJob(window) \in Jobs
  BY MemoryAssumption DEF DecayJob, Jobs
<1>2. ASSUME NEW scope \in Charters \union {Global} PROVE ConsolidateJob(scope) \in Jobs
  BY MemoryAssumption DEF ConsolidateJob, Jobs
<1>3. ASSUME NEW j \in Jobs
      PROVE  /\ j # None /\ j.kind \in {"consolidate", "decay"}
             /\ j.reclaims < MaxReclaims => [j EXCEPT !.reclaims = @ + 1] \in Jobs
  <2> DEFINE C == [kind : {"consolidate"}, scope : Charters \union {Global}, reclaims : 0..MaxReclaims]
             D == [kind : {"decay"}, window : Nat, reclaims : 0..MaxReclaims]
  <2>1. j \in C \/ j \in D
    BY DEF Jobs
  <2>2. j.kind \in {"consolidate", "decay"} /\ j.reclaims \in 0..MaxReclaims
    BY <2>1
  <2>3. j # None
    <3>1. "kind" \in DOMAIN j
      BY <2>1
    <3>2. "kind" \notin DOMAIN None
      BY DEF None
    <3>3. QED
      BY <3>1, <3>2
  <2>4. ASSUME j.reclaims < MaxReclaims PROVE [j EXCEPT !.reclaims = @ + 1] \in Jobs
    <3>1. j.reclaims + 1 \in 0..MaxReclaims
      BY <2>2, <2>4, MemoryAssumption
    <3>2. CASE j \in C
      <4>1. [j EXCEPT !.reclaims = j.reclaims + 1] \in C
        BY <3>1, <3>2
      <4>2. QED
        BY <4>1 DEF Jobs
    <3>3. CASE j \in D
      <4>1. [j EXCEPT !.reclaims = j.reclaims + 1] \in D
        BY <3>1, <3>3
      <4>2. QED
        BY <4>1 DEF Jobs
    <3>4. QED
      BY <2>1, <3>2, <3>3
  <2>5. QED
    BY <2>2, <2>3, <2>4
<1>4. QED
  BY <1>1, <1>2, <1>3

\* What is left alone keeps its type.
LEMMA UnchangedTypes ==
    /\ MemoryTypeOK /\ UNCHANGED <<sources, memory, approvals, budget>> => MemoryTypeOK'
    /\ JobsTypeOK /\ UNCHANGED <<gate, jobs, recent, budget>> => JobsTypeOK'
    /\ PromptsTypeOK /\ UNCHANGED prompts => PromptsTypeOK'
    /\ \A w : WorkerTypeOK(w) /\ worker'[w] = worker[w] => WorkerTypeOK(w)'
BY DEF MemoryTypeOK, JobsTypeOK, PromptsTypeOK, WorkerTypeOK, memory, jobs, prompts

\* A step of worker w leaves the other workers where they are.
Moves(w) ==
    /\ DOMAIN worker' = Workers
    /\ \A v \in Workers \ {w} : worker'[v] = worker[v]

\* A step of one worker keeps the types if its own state has its type.
LEMMA MovesType ==
    ASSUME TypeOK, NEW w \in Workers, Moves(w), WorkerTypeOK(w)',
           MemoryTypeOK', JobsTypeOK', PromptsTypeOK'
    PROVE  TypeOK'
<1>1. \A v \in Workers : WorkerTypeOK(v)'
  <2> TAKE v \in Workers
  <2>1. CASE v = w
    BY <2>1
  <2>2. CASE v # w
    BY <2>2, UnchangedTypes DEF TypeOK, Moves
  <2>3. QED
    BY <2>1, <2>2
<1>2. QED
  BY <1>1 DEF TypeOK, Moves

\* A worker without a job, and one that has finished its unit of work.
LEMMA RestingType ==
    ASSUME TypeOK, NEW w \in Workers, NEW at
    PROVE  /\ worker' = [worker EXCEPT ![w] = [Idle EXCEPT !.at = at]]
                  /\ at \in {"off", "idle", "claim"} => Moves(w) /\ WorkerTypeOK(w)' /\ worker'[w].at = at
           /\ worker' = [worker EXCEPT ![w] = Idle] =>
                  Moves(w) /\ WorkerTypeOK(w)' /\ worker'[w].at = "idle"
           /\ Finish(w) /\ worker[w].job # None =>
                  Moves(w) /\ WorkerTypeOK(w)' /\ worker'[w].at = "settle"
<1>1. DOMAIN worker = Workers /\ WorkerTypeOK(w)
  BY DEF TypeOK
<1>2. None \notin Jobs
  BY JobTypes
<1>3. ASSUME worker' = [worker EXCEPT ![w] = [Idle EXCEPT !.at = at]],
             at \in {"off", "idle", "claim"}
      PROVE  Moves(w) /\ WorkerTypeOK(w)' /\ worker'[w].at = at
  <2>1. Moves(w) /\ worker'[w] = [Idle EXCEPT !.at = at]
    BY <1>1, <1>3 DEF Moves
  <2>2. /\ worker'[w].at = at /\ worker'[w].job = None /\ worker'[w].found = {}
        /\ DOMAIN worker'[w] = DOMAIN Idle
    BY <2>1 DEF Idle
  <2>3. QED
    BY <1>3, <2>1, <2>2 DEF WorkerTypeOK, Phases
<1>4. ASSUME worker' = [worker EXCEPT ![w] = Idle]
      PROVE  Moves(w) /\ WorkerTypeOK(w)' /\ worker'[w].at = "idle"
  <2>1. Moves(w) /\ worker'[w] = Idle
    BY <1>1, <1>4 DEF Moves
  <2>2. worker'[w].at = "idle" /\ worker'[w].job = None /\ worker'[w].found = {}
    BY <2>1 DEF Idle
  <2>3. QED
    BY <2>1, <2>2 DEF WorkerTypeOK, Phases
<1>5. ASSUME Finish(w), worker[w].job # None
      PROVE  Moves(w) /\ WorkerTypeOK(w)' /\ worker'[w].at = "settle"
  <2>1. Moves(w) /\ worker'[w] = [Idle EXCEPT !.at = "settle", !.job = worker[w].job]
    BY <1>1, <1>5 DEF Moves, Finish
  <2>2. /\ worker'[w].at = "settle" /\ worker'[w].job = worker[w].job /\ worker'[w].found = {}
        /\ DOMAIN worker'[w] = DOMAIN Idle
    BY <2>1 DEF Idle
  <2>3. QED
    BY <1>1, <1>5, <2>1, <2>2 DEF WorkerTypeOK, Phases
<1>6. QED
  BY <1>3, <1>4, <1>5

\* Spending of the budget leaves a budget.
LEMMA SpendType ==
    ASSUME JobsTypeOK, NEW k, Spend(k), k \in DOMAIN budget
    PROVE  /\ DOMAIN budget' = DOMAIN budget /\ \A x \in DOMAIN budget : budget'[x] \in Nat
           /\ budget'[k] = budget[k] - 1 /\ \A x \in DOMAIN budget \ {k} : budget'[x] = budget[x]
<1>1. /\ DOMAIN budget' = DOMAIN budget /\ budget'[k] = budget[k] - 1
      /\ \A x \in DOMAIN budget \ {k} : budget'[x] = budget[x]
  BY DEF Spend
<1>2. budget[k] \in Nat /\ budget[k] > 0 /\ \A x \in DOMAIN budget : budget[x] \in Nat
  BY DEF JobsTypeOK, Spend
<1>3. QED
  BY <1>1, <1>2

-----------------------------------------------------------------------------
(* What a growing memory keeps. *)

\* No step forgets an observation or deletes the row.
Grows ==
    /\ observed \subseteq observed' /\ observed' \subseteq Artifacts
    /\ pattern # None => pattern' # None

\* The units of work that do not move stay backed.
LEMMA UnitKept ==
    ASSUME TypeOK, Grows, NEW v \in Workers, UnitBacked(v), worker'[v] = worker[v]
    PROVE  UnitBacked(v)'
<1>1. CASE worker[v].at # "store"
  BY <1>1 DEF UnitBacked, Grows
<1>2. CASE worker[v].at = "store"
  <2>1. /\ worker[v].new \in Rows /\ worker[v].found \subseteq Artifacts
        /\ observed \subseteq Artifacts
    BY <1>2 DEF TypeOK, WorkerTypeOK, MemoryTypeOK, UnitBacked
  <2>2. CASE worker[v].read = None
    BY <1>2, <2>2 DEF UnitBacked
  <2>3. CASE worker[v].read # None
    <3>1. RowBacked(worker[v].new, observed \union worker[v].found) /\ pattern # None
      BY <1>2, <2>3 DEF UnitBacked
    <3>2. worker[v].new.confidence \in Int
      BY <2>1, RowColumns
    <3>3. RowBacked(worker[v].new, observed' \union worker[v].found)
      BY <2>1, <3>1, <3>2, BackedGrows DEF Grows
    <3>4. worker[v].found # {} /\ worker[v].new # None
      BY <1>2 DEF UnitBacked
    <3>5. QED
      BY <1>2, <2>3, <3>1, <3>3, <3>4 DEF UnitBacked, Grows
  <2>4. QED
    BY <2>2, <2>3
<1>3. QED
  BY <1>1, <1>2

\* A step of one worker keeps the units of work backed if its own is.
LEMMA UnitsMove ==
    ASSUME TypeOK, UnitsBacked, Grows, NEW w \in Workers, Moves(w), UnitBacked(w)'
    PROVE  UnitsBacked'
<1>1. ASSUME NEW v \in Workers PROVE UnitBacked(v)'
  <2>1. CASE v = w
    BY <2>1
  <2>2. CASE v # w
    BY <2>2, UnitKept DEF UnitsBacked, Moves
  <2>3. QED
    BY <2>1, <2>2
<1>2. QED
  BY <1>1 DEF UnitsBacked

\* What was read for a prompt, or has entered one, stays backed.
LEMMA PromptsKept ==
    ASSUME TypeOK, Grows, ConsultBacked, InjectionBacked, UNCHANGED prompts
    PROVE  ConsultBacked' /\ InjectionBacked'
<1>1. observed \in SUBSET Artifacts /\ observed' \in SUBSET Artifacts
  BY DEF TypeOK, MemoryTypeOK, Grows
<1>2. ConsultBacked'
  <2>1. CASE consult = None
    BY <2>1 DEF ConsultBacked, prompts
  <2>2. CASE consult # None
    <3>1. RowBacked(consult.row, observed) /\ pattern # None
      BY <2>2 DEF ConsultBacked
    <3>2. consult.row.confidence \in Int
      BY <2>2, RowColumns DEF TypeOK, PromptsTypeOK
    <3>3. RowBacked(consult.row, observed')
      BY <1>1, <3>1, <3>2, BackedGrows DEF Grows
    <3>4. QED
      BY <2>2, <3>1, <3>3 DEF ConsultBacked, Grows, prompts
  <2>3. QED
    BY <2>1, <2>2
<1>3. InjectionBacked'
  <2>1. Cardinality(observed) <= Cardinality(observed')
    BY <1>1, Counted, FS_Subset DEF Grows
  <2>2. Cardinality(ChartersOf(observed)) <= Cardinality(ChartersOf(observed'))
    <3>1. IsFiniteSet(ChartersOf(observed')) /\ ChartersOf(observed) \subseteq ChartersOf(observed')
      BY <1>1, Counted DEF ChartersOf, Grows
    <3>2. QED
      BY <3>1, FS_Subset
  <2>3. /\ Cardinality(observed) \in Nat /\ Cardinality(observed') \in Nat
        /\ Cardinality(ChartersOf(observed)) \in Nat /\ Cardinality(ChartersOf(observed')) \in Nat
    BY <1>1, Counted
  <2>4. ASSUME NEW e \in applied, e.tier = "auto"
        PROVE  Cardinality(observed') >= IF Cardinality(ChartersOf(observed')) > 1 THEN 3 ELSE 5
    <3>1. Cardinality(observed) >= IF Cardinality(ChartersOf(observed)) > 1 THEN 3 ELSE 5
      BY <2>4 DEF InjectionBacked, ChartersOf
    <3>2. QED
      BY <2>1, <2>2, <2>3, <3>1
  <2>5. \A e \in applied : \E a \in observed' : CycleOf[a] # e.cycle
    BY DEF InjectionBacked, Grows
  <2>6. QED
    BY <2>4, <2>5 DEF InjectionBacked, ChartersOf, prompts
<1>4. QED
  BY <1>2, <1>3

\* A step of one worker that changes neither the row nor its observations.
LEMMA MoveStep ==
    ASSUME Inv, NEW w \in Workers, Moves(w), WorkerTypeOK(w)', UnitBacked(w)',
           MemoryTypeOK', JobsTypeOK', UNCHANGED <<memory, prompts>>
    PROVE  Inv'
<1>1. TypeOK'
  BY MovesType, UnchangedTypes DEF Inv, TypeOK
<1>2. Grows
  BY DEF Inv, TypeOK, MemoryTypeOK, Grows, memory
<1>3. UnitsBacked' /\ ConsultBacked' /\ InjectionBacked'
  BY <1>2, UnitsMove, PromptsKept DEF Inv
<1>4. PatternBacked'
  BY DEF Inv, PatternBacked, memory
<1>5. QED
  BY <1>1, <1>3, <1>4 DEF Inv

\* A step of no worker that changes neither the row nor its observations.
LEMMA StillStep ==
    ASSUME Inv, MemoryTypeOK', JobsTypeOK', UNCHANGED <<memory, worker, prompts>>
    PROVE  Inv'
<1>1. TypeOK'
  BY UnchangedTypes DEF Inv, TypeOK
<1>2. Grows
  BY DEF Inv, TypeOK, MemoryTypeOK, Grows, memory
<1>3. UnitsBacked'
  BY <1>2, UnitKept DEF Inv, UnitsBacked
<1>4. ConsultBacked' /\ InjectionBacked'
  BY <1>2, PromptsKept DEF Inv
<1>5. PatternBacked'
  BY DEF Inv, PatternBacked, memory
<1>6. QED
  BY <1>1, <1>3, <1>4, <1>5 DEF Inv

-----------------------------------------------------------------------------
(* The workers' steps. *)

\* Scheduling, claiming and settling jobs, and crashes, leave no unit of work
\* on the row behind.
LEMMA LoopSteps ==
    ASSUME Inv, NEW w \in Workers,
           OpenGate(w) \/ EnqueueDecay(w) \/ Claim(w) \/ Settle(w) \/ Crash(w)
    PROVE  Inv'
<1>a. /\ TypeOK /\ MemoryTypeOK /\ JobsTypeOK /\ PromptsTypeOK
      /\ DOMAIN worker = Workers /\ WorkerTypeOK(w)
  BY DEF Inv, TypeOK
<1>b. /\ queue \in Seq(Jobs) /\ orphans \in Seq(Jobs) /\ gate \in Gates
      /\ recent \in [0..Interval-1 -> Nat]
  BY <1>a DEF JobsTypeOK
<1>c. 0 \in Gates /\ 0 \in 0..Interval-1
  BY MemoryAssumption DEF Gates
<1>1. ASSUME OpenGate(w) PROVE Inv'
  <2>1. Moves(w) /\ worker'[w] = [worker[w] EXCEPT !.at = "gate", !.read = gate]
    BY <1>1, <1>a DEF OpenGate, Moves
  <2>2. /\ worker'[w].at = "gate" /\ worker'[w].read = gate /\ worker'[w].job = worker[w].job
        /\ worker'[w].found = worker[w].found /\ DOMAIN worker'[w] = DOMAIN Idle
    BY <2>1, <1>a DEF WorkerTypeOK, Idle
  <2>3. WorkerTypeOK(w)'
    BY <1>1, <1>a, <1>b, <2>2 DEF OpenGate, WorkerTypeOK, Phases
  <2>4. UnitBacked(w)'
    BY <2>2 DEF UnitBacked
  <2>5. UNCHANGED <<sources, memory, approvals, gate, jobs, prompts, recent, budget>>
    BY <1>1 DEF OpenGate
  <2>6. QED
    BY <1>a, <2>1, <2>3, <2>4, <2>5, UnchangedTypes, MoveStep
<1>2. ASSUME EnqueueDecay(w) PROVE Inv'
  <2>1. worker' = [worker EXCEPT ![w] = [Idle EXCEPT !.at = "claim"]]
    BY <1>2 DEF EnqueueDecay
  <2>2. Moves(w) /\ WorkerTypeOK(w)' /\ worker'[w].at = "claim"
    BY <1>a, <2>1, RestingType
  <2>3. UnitBacked(w)'
    BY <2>2 DEF UnitBacked
  <2>4. UNCHANGED <<sources, memory, approvals, orphans, prompts, budget>>
    BY <1>2 DEF EnqueueDecay
  <2>5. gate' \in Gates /\ queue' \in Seq(Jobs) /\ recent' \in [0..Interval-1 -> Nat]
    <3>1. DecayJob(Window) \in Jobs
      BY JobTypes
    <3>2. Append(queue, DecayJob(Window)) \in Seq(Jobs)
      BY <1>b, <3>1, AppendProperties
    <3>3. [recent EXCEPT ![0] = recent[0] + 1] \in [0..Interval-1 -> Nat]
      BY <1>b, <1>c
    <3>4. QED
      BY <1>2, <1>b, <1>c, <3>2, <3>3 DEF EnqueueDecay, Enqueue
  <2>6. JobsTypeOK'
    BY <1>a, <2>4, <2>5 DEF JobsTypeOK
  <2>7. QED
    BY <1>a, <2>2, <2>3, <2>4, <2>6, UnchangedTypes, MoveStep
<1>3. ASSUME Claim(w) PROVE Inv'
  <2>1. UNCHANGED <<sources, memory, approvals, gate, orphans, prompts, recent, budget>>
    BY <1>3 DEF Claim
  <2>2. CASE queue # << >> /\ worker' = [worker EXCEPT ![w].at = Head(queue).kind, ![w].job = Head(queue)]
             /\ queue' = Tail(queue)
    <3>1. Head(queue) \in Jobs /\ Tail(queue) \in Seq(Jobs)
      BY <1>b, <2>2, HeadTailProperties
    <3>2. Head(queue) # None /\ Head(queue).kind \in {"consolidate", "decay"}
      BY <3>1, JobTypes
    <3>3. Moves(w) /\ worker'[w] = [worker[w] EXCEPT !.at = Head(queue).kind, !.job = Head(queue)]
      BY <1>a, <2>2 DEF Moves
    <3>4. /\ worker'[w].at = Head(queue).kind /\ worker'[w].job = Head(queue)
          /\ worker'[w].found = worker[w].found /\ DOMAIN worker'[w] = DOMAIN Idle
      BY <3>3, <1>a DEF WorkerTypeOK, Idle
    <3>5. WorkerTypeOK(w)'
      BY <1>a, <3>1, <3>2, <3>4 DEF WorkerTypeOK, Phases
    <3>6. UnitBacked(w)'
      BY <3>2, <3>4 DEF UnitBacked
    <3>7. JobsTypeOK'
      BY <1>a, <2>1, <2>2, <3>1 DEF JobsTypeOK
    <3>8. QED
      BY <1>a, <2>1, <3>3, <3>5, <3>6, <3>7, UnchangedTypes, MoveStep
  <2>3. CASE worker' = [worker EXCEPT ![w] = Idle] /\ UNCHANGED queue
    <3>1. Moves(w) /\ WorkerTypeOK(w)' /\ worker'[w].at = "idle"
      BY <1>a, <2>3, RestingType
    <3>2. UnitBacked(w)'
      BY <3>1 DEF UnitBacked
    <3>3. QED
      BY <1>a, <2>1, <2>3, <3>1, <3>2, UnchangedTypes, MoveStep DEF jobs
  <2>4. QED
    BY <1>3, <2>2, <2>3 DEF Claim
<1>4. ASSUME Settle(w) PROVE Inv'
  <2>1. Moves(w) /\ WorkerTypeOK(w)' /\ worker'[w].at = "idle"
    BY <1>4, <1>a, RestingType DEF Settle
  <2>2. UnitBacked(w)'
    BY <2>1 DEF UnitBacked
  <2>3. UNCHANGED <<sources, memory, approvals, gate, jobs, prompts, recent, budget>>
    BY <1>4 DEF Settle
  <2>4. QED
    BY <1>a, <2>1, <2>2, <2>3, UnchangedTypes, MoveStep
<1>5. ASSUME Crash(w) PROVE Inv'
  <2>1. Moves(w) /\ WorkerTypeOK(w)' /\ worker'[w].at = "idle"
    BY <1>5, <1>a, RestingType DEF Crash
  <2>2. UnitBacked(w)'
    BY <2>1 DEF UnitBacked
  <2>3. UNCHANGED <<sources, memory, approvals, gate, queue, prompts, recent>> /\ Spend("crash")
    BY <1>5 DEF Crash
  <2>4. orphans' \in Seq(Jobs)
    <3>1. CASE worker[w].job = None
      BY <1>5, <1>b, <3>1 DEF Crash
    <3>2. CASE worker[w].job # None
      <4>1. worker[w].job \in Jobs
        BY <1>a, <3>2 DEF WorkerTypeOK
      <4>2. Append(orphans, worker[w].job) \in Seq(Jobs)
        BY <1>b, <4>1, AppendProperties
      <4>3. QED
        BY <1>5, <3>2, <4>2 DEF Crash
    <3>3. QED
      BY <3>1, <3>2
  <2>5. /\ DOMAIN budget' = DOMAIN budget /\ \A x \in DOMAIN budget : budget'[x] \in Nat
        /\ budget'["artifact"] = budget["artifact"]
    BY <1>a, <2>3, SpendType DEF JobsTypeOK
  <2>6. JobsTypeOK' /\ MemoryTypeOK'
    BY <1>a, <2>3, <2>4, <2>5 DEF JobsTypeOK, MemoryTypeOK, memory
  <2>7. QED
    BY <2>1, <2>2, <2>3, <2>6, MoveStep
<1>6. QED
  BY <1>1, <1>2, <1>3, <1>4, <1>5

\* A unit of work reads the artifacts and the row without changing them.
LEMMA ReadSteps ==
    ASSUME Inv, NEW w \in Workers, ConsolidateRead(w) \/ UpsertPattern(w) \/ DecayRead(w)
    PROVE  Inv'
<1>a. /\ TypeOK /\ MemoryTypeOK /\ JobsTypeOK /\ PromptsTypeOK
      /\ DOMAIN worker = Workers /\ WorkerTypeOK(w) /\ UnitBacked(w)
  BY DEF Inv, TypeOK, UnitsBacked
<1>b. UNCHANGED <<sources, memory, approvals, gate, jobs, prompts, recent, budget>>
  BY DEF ConsolidateRead, UpsertPattern, DecayRead
<1>c. MemoryTypeOK' /\ JobsTypeOK' /\ UNCHANGED <<memory, prompts>>
  BY <1>a, <1>b, UnchangedTypes
<1>d. pattern \in Rows \union {None} /\ observed \in SUBSET Artifacts /\ PatternBacked
  BY <1>a DEF MemoryTypeOK, Inv
<1>1. ASSUME ConsolidateRead(w) PROVE Inv'
  <2>1. worker[w].at = "consolidate" /\ worker[w].job # None
    BY <1>1, <1>a DEF ConsolidateRead, WorkerTypeOK
  <2>2. CASE Finish(w)
    <3>1. Moves(w) /\ WorkerTypeOK(w)' /\ worker'[w].at = "settle"
      BY <1>a, <2>1, <2>2, RestingType
    <3>2. UnitBacked(w)'
      BY <3>1 DEF UnitBacked
    <3>3. QED
      BY <1>c, <3>1, <3>2, MoveStep
  <2>3. CASE ~Finish(w)
    <3> DEFINE found == Gathered(worker[w].job)
    <3>1. found # {} /\ worker' = [worker EXCEPT ![w].at = "upsert", ![w].found = found]
      BY <1>1, <2>3 DEF ConsolidateRead
    <3>2. found \subseteq Artifacts
      <4>1. budget["artifact"] \in Nat
        BY <1>a DEF JobsTypeOK
      <4>2. sources \in 0..Len(CycleOf) /\ Len(CycleOf) \in Nat
        BY <1>a, <4>1, MemoryAssumption DEF MemoryTypeOK
      <4>3. QED
        BY <4>2 DEF Gathered, Artifacts
    <3> HIDE DEF found
    <3>3. Moves(w) /\ worker'[w] = [worker[w] EXCEPT !.at = "upsert", !.found = found]
      BY <1>a, <3>1 DEF Moves
    <3>4. /\ worker'[w].at = "upsert" /\ worker'[w].found = found
          /\ worker'[w].job = worker[w].job /\ DOMAIN worker'[w] = DOMAIN Idle
      BY <3>3, <1>a DEF WorkerTypeOK, Idle
    <3>5. WorkerTypeOK(w)' /\ UnitBacked(w)'
      BY <1>a, <2>1, <3>1, <3>2, <3>4 DEF WorkerTypeOK, UnitBacked, Phases
    <3>6. QED
      BY <1>c, <3>3, <3>5, MoveStep
  <2>4. QED
    BY <2>2, <2>3
<1>2. ASSUME UpsertPattern(w) PROVE Inv'
  <2> DEFINE found == worker[w].found
             n == Cardinality(found)
             new == IF pattern = None THEN NewPattern(n, ChartersOf(found))
                    ELSE Reinforced(pattern, n, ChartersOf(found))
  <2>1. worker[w].at = "upsert" /\ found # {} /\ found \in SUBSET Artifacts /\ worker[w].job # None
    BY <1>2, <1>a DEF UpsertPattern, UnitBacked, WorkerTypeOK
  <2>2. worker' = [worker EXCEPT ![w].at = "store", ![w].read = pattern, ![w].new = new]
    BY <1>2 DEF UpsertPattern, ChartersOf
  <2>3. /\ new \in Rows
        /\ pattern = None => RowBacked(new, found)
        /\ pattern # None => RowBacked(new, observed \union found)
    <3>1. CASE pattern = None
      BY <2>1, <3>1, NewPatternBacked
    <3>2. CASE pattern # None
      BY <1>d, <2>1, <3>2, ReinforcedBacked DEF PatternBacked
    <3>3. QED
      BY <3>1, <3>2
  <2>4. new # None
    BY <2>3, RowColumns
  <2> HIDE DEF new
  <2>5. Moves(w) /\ worker'[w] = [worker[w] EXCEPT !.at = "store", !.read = pattern, !.new = new]
    BY <1>a, <2>2 DEF Moves
  <2>6. /\ worker'[w].at = "store" /\ worker'[w].read = pattern /\ worker'[w].new = new
        /\ worker'[w].found = found /\ worker'[w].job = worker[w].job
        /\ DOMAIN worker'[w] = DOMAIN Idle
    BY <2>5, <1>a DEF WorkerTypeOK, Idle
  <2>7. WorkerTypeOK(w)'
    BY <1>a, <1>d, <2>1, <2>3, <2>6 DEF WorkerTypeOK, Phases
  <2>8. UnitBacked(w)'
    BY <1>b, <2>1, <2>3, <2>4, <2>6 DEF UnitBacked, memory
  <2>9. QED
    BY <1>c, <2>5, <2>7, <2>8, MoveStep
<1>3. ASSUME DecayRead(w) PROVE Inv'
  <2> DEFINE new == IF pattern = None THEN None ELSE Evaluate(pattern, worker[w].job.window)
  <2>1. worker[w].at = "decay" /\ worker[w].job # None
    BY <1>3, <1>a DEF DecayRead, WorkerTypeOK
  <2>2. worker' = [worker EXCEPT ![w].at = "demote", ![w].read = pattern, ![w].new = new]
    BY <1>3 DEF DecayRead
  <2>3. /\ new \in Rows \union {None}
        /\ pattern # None => new \in Rows /\ new = [pattern EXCEPT !.tier = new.tier]
    BY <1>d, EvaluateTier
  <2>4. pattern # None => new # None
    BY <2>3, RowColumns
  <2> HIDE DEF new
  <2>5. Moves(w) /\ worker'[w] = [worker[w] EXCEPT !.at = "demote", !.read = pattern, !.new = new]
    BY <1>a, <2>2 DEF Moves
  <2>6. /\ worker'[w].at = "demote" /\ worker'[w].read = pattern /\ worker'[w].new = new
        /\ worker'[w].found = worker[w].found /\ worker'[w].job = worker[w].job
        /\ DOMAIN worker'[w] = DOMAIN Idle
    BY <2>5, <1>a DEF WorkerTypeOK, Idle
  <2>7. WorkerTypeOK(w)'
    BY <1>a, <1>d, <2>1, <2>3, <2>6 DEF WorkerTypeOK, Phases
  <2>8. UnitBacked(w)'
    BY <1>b, <2>3, <2>4, <2>6 DEF UnitBacked, memory
  <2>9. QED
    BY <1>c, <2>5, <2>7, <2>8, MoveStep
<1>4. QED
  BY <1>1, <1>2, <1>3

\* Writing a backed row keeps the invariant.
LEMMA WriteStep ==
    ASSUME Inv, observed \subseteq observed', observed' \subseteq Artifacts,
           pattern' \in Rows, RowBacked(pattern', observed'),
           \/ UNCHANGED worker
           \/ \E w \in Workers : Moves(w) /\ WorkerTypeOK(w)' /\ worker'[w].at = "settle",
           sources' \in 0..Len(CycleOf) - budget'["artifact"], approvals' \in Seq(Verdicts),
           JobsTypeOK', UNCHANGED prompts
    PROVE  Inv'
<1>1. Grows
  BY RowColumns DEF Grows
<1>2. MemoryTypeOK' /\ PromptsTypeOK' /\ PatternBacked'
  BY UnchangedTypes DEF MemoryTypeOK, Inv, TypeOK, PatternBacked
<1>3. TypeOK /\ UnitsBacked /\ ConsultBacked /\ InjectionBacked
  BY DEF Inv
<1>4. ConsultBacked' /\ InjectionBacked'
  BY <1>1, <1>3, PromptsKept
<1>5. TypeOK' /\ UnitsBacked'
  <2>1. CASE UNCHANGED worker
    <3>1. TypeOK'
      BY <1>2, <1>3, <2>1, UnchangedTypes DEF TypeOK
    <3>2. UnitsBacked'
      BY <1>1, <1>3, <2>1, UnitKept DEF UnitsBacked
    <3>3. QED
      BY <3>1, <3>2
  <2>2. ASSUME NEW w \in Workers, Moves(w), WorkerTypeOK(w)', worker'[w].at = "settle"
        PROVE  TypeOK' /\ UnitsBacked'
    <3>1. TypeOK'
      BY <1>2, <1>3, <2>2, MovesType
    <3>2. UnitBacked(w)'
      BY <2>2 DEF UnitBacked
    <3>3. QED
      BY <1>1, <1>3, <2>2, <3>1, <3>2, UnitsMove
  <2>3. QED
    BY <2>1, <2>2
<1>6. QED
  BY <1>2, <1>4, <1>5 DEF Inv

\* A commit of a consolidation or of a decay writes a row its observations back.
LEMMA CommitSteps ==
    ASSUME Inv, NEW w \in Workers, StorePattern(w) \/ Demote(w)
    PROVE  Inv'
<1> DEFINE read == worker[w].read
           new == worker[w].new
           found == worker[w].found
<1>a. /\ TypeOK /\ MemoryTypeOK /\ JobsTypeOK /\ PromptsTypeOK
      /\ DOMAIN worker = Workers /\ WorkerTypeOK(w) /\ UnitBacked(w)
  BY DEF Inv, TypeOK, UnitsBacked
<1>b. UNCHANGED <<sources, approvals, jobs, prompts, recent, budget>> /\ Finish(w)
  BY DEF StorePattern, Demote
<1>c. /\ worker[w].at \in {"store", "demote"} /\ worker[w].job # None
      /\ read \in Rows \union {None} /\ new \in Rows \union {None} /\ found \in SUBSET Artifacts
  BY <1>a DEF StorePattern, Demote, WorkerTypeOK
<1>d. Moves(w) /\ WorkerTypeOK(w)' /\ worker'[w].at = "settle"
  BY <1>a, <1>b, <1>c, RestingType
<1>e. UnitBacked(w)'
  BY <1>d DEF UnitBacked
<1>f. /\ pattern \in Rows \union {None} /\ observed \in SUBSET Artifacts /\ PatternBacked
      /\ sources' \in 0..Len(CycleOf) - budget'["artifact"] /\ approvals' \in Seq(Verdicts)
  BY <1>a, <1>b DEF MemoryTypeOK, Inv
<1>g. Missing \in Gates /\ Never \in Gates /\ gate \in Gates
  BY <1>a DEF Gates, JobsTypeOK
<1>1. ASSUME StorePattern(w) PROVE Inv'
  <2>1. worker[w].at = "store" /\ gate' = gate
    BY <1>1 DEF StorePattern
  <2>2. JobsTypeOK'
    BY <1>a, <1>b, <2>1, UnchangedTypes
  <2>3. new \in Rows /\ found # {}
    BY <1>a, <1>c, <2>1 DEF UnitBacked
  <2>4. CASE read = None /\ pattern # None
    <3>1. UNCHANGED memory
      BY <1>1, <2>4 DEF StorePattern
    <3>2. MemoryTypeOK'
      BY <1>a, <1>b, <3>1, UnchangedTypes
    <3>3. QED
      BY <1>b, <1>d, <1>e, <2>2, <3>1, <3>2, MoveStep
  <2>5. CASE ~(read = None /\ pattern # None)
    <3>1. /\ observed' = observed \union found
          /\ pattern' = IF read = None THEN new ELSE [Written(read, new) EXCEPT !.age = new.age]
      BY <1>1, <2>5 DEF StorePattern
    <3>2. observed \subseteq observed' /\ observed' \in SUBSET Artifacts
      BY <1>c, <1>f, <3>1
    <3>3. pattern' \in Rows /\ RowBacked(pattern', observed')
      <4>1. CASE read = None
        <5>1. RowBacked(new, found)
          BY <1>a, <2>1, <4>1 DEF UnitBacked
        <5>2. new.confidence \in Int /\ found \subseteq observed'
          BY <2>3, <3>1, RowColumns
        <5>3. RowBacked(new, observed')
          BY <1>c, <3>2, <5>1, <5>2, BackedGrows
        <5>4. QED
          BY <2>3, <3>1, <4>1, <5>3
      <4>2. CASE read # None
        <5>1. /\ pattern \in Rows /\ read \in Rows /\ RowBacked(new, observed')
              /\ RowBacked(pattern, observed)
          BY <1>a, <1>c, <1>f, <2>1, <3>1, <4>2 DEF UnitBacked, PatternBacked
        <5>2. RowBacked(pattern, observed')
          <6>1. pattern.confidence \in Int
            BY <5>1, RowColumns
          <6>2. QED
            BY <1>f, <3>2, <5>1, <6>1, BackedGrows
        <5> DEFINE written == Written(read, new)
        <5>3. /\ written \in Rows
              /\ written.evidence \in {pattern.evidence, new.evidence}
              /\ written.confidence \in {pattern.confidence, new.confidence}
              /\ written.charters \in {pattern.charters, new.charters}
          BY <2>3, <5>1, WrittenColumns
        <5> HIDE DEF written
        <5>4. new.age \in 0..OldAge
          BY <2>3, RowColumns
        <5>5. pattern' = [written EXCEPT !.age = new.age]
          BY <3>1, <4>2 DEF written
        <5>6. /\ pattern' \in Rows /\ pattern'.evidence = written.evidence
              /\ pattern'.confidence = written.confidence /\ pattern'.charters = written.charters
          BY <5>3, <5>4, <5>5 DEF Rows
        <5>7. RowBacked(pattern', observed')
          BY <5>1, <5>2, <5>3, <5>6 DEF RowBacked
        <5>8. QED
          BY <5>6, <5>7
      <4>3. QED
        BY <4>1, <4>2
    <3>4. QED
      BY <1>b, <1>d, <1>f, <2>2, <3>2, <3>3, WriteStep
  <2>6. QED
    BY <2>4, <2>5
<1>2. ASSUME Demote(w) PROVE Inv'
  <2>1. worker[w].at = "demote" /\ gate' \in Gates /\ observed' = observed
    BY <1>2, <1>g DEF Demote
  <2>2. JobsTypeOK'
    BY <1>a, <1>b, <2>1 DEF JobsTypeOK, jobs
  <2>3. CASE read = None
    <3>1. UNCHANGED memory
      BY <1>2, <2>1, <2>3 DEF Demote, memory
    <3>2. MemoryTypeOK'
      BY <1>a, <1>b, <3>1, UnchangedTypes
    <3>3. QED
      BY <1>b, <1>d, <1>e, <2>2, <3>1, <3>2, MoveStep
  <2>4. CASE read # None
    <3>1. /\ pattern \in Rows /\ read \in Rows /\ new \in Rows /\ RowBacked(pattern, observed)
          /\ new = [read EXCEPT !.tier = new.tier]
      BY <1>a, <1>c, <1>f, <2>1, <2>4 DEF UnitBacked, PatternBacked
    <3>2. /\ read.evidence = new.evidence /\ read.confidence = new.confidence
          /\ read.charters = new.charters
      BY <3>1 DEF Rows
    <3>3. pattern' = Written(read, new)
      BY <1>2, <2>4 DEF Demote
    <3>4. /\ pattern' \in Rows /\ pattern'.evidence = pattern.evidence
          /\ pattern'.confidence = pattern.confidence /\ pattern'.charters = pattern.charters
      BY <3>1, <3>2, <3>3, WrittenColumns
    <3>5. RowBacked(pattern', observed')
      BY <2>1, <3>1, <3>4 DEF RowBacked
    <3>6. QED
      BY <1>b, <1>d, <1>f, <2>1, <2>2, <3>4, <3>5, WriteStep
  <2>5. QED
    BY <2>3, <2>4
<1>3. QED
  BY <1>1, <1>2

-----------------------------------------------------------------------------
(* Requests, other components and time. *)

\* A job is enqueued, taken back, or a verdict or an artifact stored: no worker
\* moves and the row is left alone.
LEMMA RequestSteps ==
    ASSUME Inv,
           \/ ReclaimStale \/ StoreArtifact
           \/ \E scope \in Charters \union {Global} :
                 RequestConsolidation(scope) \/ ApprovePattern(scope) \/ RejectPattern(scope)
           \/ \E window \in Windows : RequestDecay(window)
    PROVE  Inv'
<1>a. MemoryTypeOK /\ JobsTypeOK
  BY DEF Inv, TypeOK
<1>b. /\ queue \in Seq(Jobs) /\ orphans \in Seq(Jobs) /\ gate \in Gates /\ approvals \in Seq(Verdicts)
      /\ sources \in 0..Len(CycleOf) - budget["artifact"] /\ budget["artifact"] \in Nat
      /\ Len(CycleOf) \in Nat
  BY <1>a, MemoryAssumption DEF JobsTypeOK, MemoryTypeOK
<1>c. ASSUME NEW k \in {"consolidate", "decay", "verdict"}, Spend(k)
      PROVE  /\ DOMAIN budget' = DOMAIN budget /\ \A x \in DOMAIN budget : budget'[x] \in Nat
             /\ budget'["artifact"] = budget["artifact"]
  BY <1>a, <1>c, SpendType DEF JobsTypeOK
<1>1. ASSUME ReclaimStale PROVE Inv'
  <2>1. /\ orphans # << >> /\ orphans' = Tail(orphans)
        /\ UNCHANGED <<sources, memory, approvals, gate, worker, prompts, recent, budget>>
    BY <1>1 DEF ReclaimStale
  <2>2. Head(orphans) \in Jobs /\ Tail(orphans) \in Seq(Jobs)
    BY <1>b, <2>1, HeadTailProperties
  <2>3. queue' \in Seq(Jobs)
    <3> DEFINE job == Head(orphans)
               again == [job EXCEPT !.reclaims = @ + 1]
    <3>1. CASE job.reclaims < MaxReclaims
      <4>1. again \in Jobs
        BY <2>2, <3>1, JobTypes
      <4>2. queue' = <<again>> \o queue
        BY <1>1, <3>1 DEF ReclaimStale
      <4> HIDE DEF again
      <4>3. <<again>> \in Seq(Jobs)
        BY <4>1
      <4>4. QED
        BY <1>b, <4>2, <4>3, ConcatProperties
    <3>2. CASE ~(job.reclaims < MaxReclaims)
      BY <1>1, <1>b, <3>2 DEF ReclaimStale
    <3>3. QED
      BY <3>1, <3>2
  <2>4. JobsTypeOK' /\ MemoryTypeOK'
    BY <1>a, <2>1, <2>2, <2>3, UnchangedTypes DEF JobsTypeOK
  <2>5. QED
    BY <2>1, <2>4, StillStep
<1>2. ASSUME StoreArtifact PROVE Inv'
  <2>1. /\ Spend("artifact") /\ sources' = sources + 1
        /\ UNCHANGED <<memory, approvals, gate, jobs, worker, prompts, recent>>
    BY <1>2 DEF StoreArtifact
  <2>2. /\ DOMAIN budget' = DOMAIN budget /\ \A x \in DOMAIN budget : budget'[x] \in Nat
        /\ budget'["artifact"] = budget["artifact"] - 1
    BY <1>a, <2>1, SpendType DEF JobsTypeOK
  <2>3. sources' \in 0..Len(CycleOf) - budget'["artifact"]
    BY <1>b, <2>1, <2>2
  <2>4. JobsTypeOK' /\ MemoryTypeOK'
    BY <1>a, <2>1, <2>2, <2>3 DEF JobsTypeOK, MemoryTypeOK, memory, jobs
  <2>5. QED
    BY <2>1, <2>4, StillStep
<1>3. ASSUME NEW scope \in Charters \union {Global}, RequestConsolidation(scope) PROVE Inv'
  <2>1. /\ Spend("consolidate") /\ queue' = Append(queue, ConsolidateJob(scope))
        /\ UNCHANGED <<sources, memory, approvals, gate, orphans, worker, prompts, recent>>
    BY <1>3 DEF RequestConsolidation, Enqueue
  <2>2. queue' \in Seq(Jobs)
    BY <1>b, <2>1, JobTypes, AppendProperties
  <2>3. JobsTypeOK' /\ MemoryTypeOK'
    BY <1>a, <1>c, <2>1, <2>2 DEF JobsTypeOK, MemoryTypeOK, memory
  <2>4. QED
    BY <2>1, <2>3, StillStep
<1>4. ASSUME NEW window \in Windows, RequestDecay(window) PROVE Inv'
  <2>1. /\ Spend("decay") /\ queue' = Append(queue, DecayJob(window))
        /\ UNCHANGED <<sources, memory, approvals, gate, orphans, worker, prompts, recent>>
    BY <1>4 DEF RequestDecay, Enqueue
  <2>2. queue' \in Seq(Jobs)
    BY <1>b, <2>1, JobTypes, AppendProperties
  <2>3. JobsTypeOK' /\ MemoryTypeOK'
    BY <1>a, <1>c, <2>1, <2>2 DEF JobsTypeOK, MemoryTypeOK, memory
  <2>4. QED
    BY <2>1, <2>3, StillStep
<1>5. ASSUME NEW scope \in Charters \union {Global}, ApprovePattern(scope) \/ RejectPattern(scope)
      PROVE  Inv'
  <2>1. PICK decision \in {"approve", "reject"}, left \in -1..1 : Verdict(scope, decision, left)
    BY <1>5 DEF ApprovePattern, RejectPattern
  <2> DEFINE v == [scope |-> scope, decision |-> decision, left |-> left]
  <2>2. /\ Spend("verdict") /\ approvals' = Append(approvals, v)
        /\ UNCHANGED <<sources, memory, gate, jobs, worker, prompts, recent>>
    BY <2>1 DEF Verdict
  <2>3. v \in Verdicts
    BY DEF Verdicts
  <2> HIDE DEF v
  <2>4. approvals' \in Seq(Verdicts)
    BY <1>b, <2>2, <2>3, AppendProperties
  <2>5. JobsTypeOK' /\ MemoryTypeOK'
    BY <1>a, <1>c, <2>2, <2>4 DEF JobsTypeOK, MemoryTypeOK, memory, jobs
  <2>6. QED
    BY <2>2, <2>5, StillStep
<1>6. QED
  BY <1>1, <1>2, <1>3, <1>4, <1>5

\* A user's new tier and the passing of time leave the row's claims alone.
LEMMA RowSteps ==
    ASSUME Inv, Tick \/ \E tier \in Tiers : UpdateTrustTier(tier)
    PROVE  Inv'
<1>a. MemoryTypeOK /\ JobsTypeOK
  BY DEF Inv, TypeOK
<1>b. /\ pattern \in Rows \union {None} /\ observed \in SUBSET Artifacts /\ PatternBacked
      /\ approvals \in Seq(Verdicts) /\ gate \in Gates /\ recent \in [0..Interval-1 -> Nat]
      /\ sources \in 0..Len(CycleOf) - budget["artifact"]
  BY <1>a DEF MemoryTypeOK, JobsTypeOK, Inv
<1>1. ASSUME NEW tier \in Tiers, UpdateTrustTier(tier) PROVE Inv'
  <2>1. /\ pattern \in Rows /\ pattern' = [pattern EXCEPT !.tier = tier] /\ Spend("tier")
        /\ UNCHANGED <<sources, observed, approvals, gate, jobs, worker, prompts, recent>>
    BY <1>1, <1>b DEF UpdateTrustTier
  <2>2. /\ pattern' \in Rows /\ pattern'.evidence = pattern.evidence
        /\ pattern'.confidence = pattern.confidence /\ pattern'.charters = pattern.charters
    BY <2>1 DEF Rows
  <2>3. RowBacked(pattern, observed)
    BY <1>1, <1>b DEF UpdateTrustTier, PatternBacked
  <2>4. RowBacked(pattern', observed')
    BY <2>1, <2>2, <2>3 DEF RowBacked
  <2>5. /\ DOMAIN budget' = DOMAIN budget /\ \A x \in DOMAIN budget : budget'[x] \in Nat
        /\ budget'["artifact"] = budget["artifact"]
    BY <1>a, <2>1, SpendType DEF JobsTypeOK
  <2>6. JobsTypeOK'
    BY <1>a, <2>1, <2>5 DEF JobsTypeOK, jobs
  <2>7. QED
    BY <1>b, <2>1, <2>2, <2>4, <2>5, <2>6, WriteStep
<1>2. ASSUME Tick PROVE Inv'
  <2>1. UNCHANGED <<sources, observed, jobs, worker, prompts, budget>>
    BY <1>2 DEF Tick
  <2>2. approvals' \in Seq(Verdicts)
    <3> DEFINE later(i) == [approvals[i] EXCEPT !.left = IF @ > 0 THEN @ - 1 ELSE @]
    <3>1. approvals' = [i \in 1..Len(approvals) |-> later(i)] /\ Len(approvals) \in Nat
      BY <1>2, <1>b DEF Tick
    <3>2. \A i \in 1..Len(approvals) : later(i) \in Verdicts
      <4> TAKE i \in 1..Len(approvals)
      <4>1. approvals[i] \in Verdicts
        BY <1>b
      <4>2. approvals[i].left \in -1..1
        BY <4>1 DEF Verdicts
      <4>3. (IF approvals[i].left > 0 THEN approvals[i].left - 1 ELSE approvals[i].left) \in -1..1
        BY <4>2
      <4>4. QED
        BY <4>1, <4>3 DEF Verdicts
    <3> HIDE DEF later
    <3>3. QED
      BY <3>1, <3>2
  <2>3. gate' \in Gates
    <3>1. CASE gate \in {Missing, Never, Interval}
      BY <1>2, <1>b, <3>1 DEF Tick
    <3>2. CASE gate \notin {Missing, Never, Interval}
      <4>1. gate \in 0..Interval /\ gate # Interval /\ Interval \in Nat
        BY <1>b, <3>2, MemoryAssumption DEF Gates
      <4>2. gate' = gate + 1
        BY <1>2, <3>2 DEF Tick
      <4>3. QED
        BY <4>1, <4>2 DEF Gates
    <3>3. QED
      BY <3>1, <3>2
  <2>4. recent' \in [0..Interval-1 -> Nat]
    <3>1. Interval \in Nat
      BY MemoryAssumption
    <3>2. \A a \in 0..Interval-1 : (IF a = 0 THEN 0 ELSE recent[a - 1]) \in Nat
      BY <1>b, <3>1
    <3>3. recent' = [a \in 0..Interval-1 |-> IF a = 0 THEN 0 ELSE recent[a - 1]]
      BY <1>2, <1>b DEF Tick
    <3>4. QED
      BY <3>2, <3>3
  <2>5. JobsTypeOK'
    BY <1>a, <2>1, <2>3, <2>4 DEF JobsTypeOK, jobs
  <2>6. CASE pattern = None
    <3>1. UNCHANGED memory
      BY <1>2, <2>1, <2>6 DEF Tick, memory
    <3>2. MemoryTypeOK'
      BY <1>a, <2>1, <2>2, <3>1 DEF MemoryTypeOK, memory
    <3>3. QED
      BY <2>1, <2>5, <3>1, <3>2, StillStep
  <2>7. CASE pattern # None
    <3>1. /\ pattern \in Rows /\ RowBacked(pattern, observed)
          /\ pattern' = [pattern EXCEPT !.age = Min({pattern.age + 1, OldAge})]
      BY <1>2, <1>b, <2>7 DEF Tick, PatternBacked
    <3>2. Min({pattern.age + 1, OldAge}) \in 0..OldAge
      <4>1. pattern.age \in 0..OldAge /\ OldAge \in Nat
        BY <3>1, RowColumns, MemoryAssumption
      <4>2. QED
        BY <4>1, MinMax
    <3>3. /\ pattern' \in Rows /\ pattern'.evidence = pattern.evidence
          /\ pattern'.confidence = pattern.confidence /\ pattern'.charters = pattern.charters
      BY <3>1, <3>2 DEF Rows
    <3>4. RowBacked(pattern', observed')
      BY <2>1, <3>1, <3>3 DEF RowBacked
    <3>5. QED
      BY <1>b, <2>1, <2>2, <2>5, <3>3, <3>4, WriteStep
  <2>8. QED
    BY <2>6, <2>7
<1>3. QED
  BY <1>1, <1>2

\* Finding the row for a prompt, and taking it into the prompt.
LEMMA PromptSteps ==
    ASSUME Inv, InjectPatterns \/ \E cycle \in Cycles : FindRelevant(cycle)
    PROVE  Inv'
<1>a. /\ TypeOK /\ MemoryTypeOK /\ JobsTypeOK /\ PromptsTypeOK
      /\ DOMAIN worker = Workers /\ \A w \in Workers : WorkerTypeOK(w)
      /\ PatternBacked /\ UnitsBacked /\ ConsultBacked /\ InjectionBacked
  BY DEF Inv, TypeOK
<1>b. observed \in SUBSET Artifacts /\ pattern \in Rows \union {None}
  BY <1>a DEF MemoryTypeOK
<1>c. UNCHANGED <<sources, memory, approvals, gate, jobs, worker, recent>>
  BY DEF InjectPatterns, FindRelevant
<1>d. PatternBacked' /\ UnitsBacked'
  BY <1>a, <1>c DEF PatternBacked, UnitsBacked, UnitBacked, memory
<1>e. \A w \in Workers : WorkerTypeOK(w)'
  BY <1>a, <1>c, UnchangedTypes
<1>1. ASSUME NEW cycle \in Cycles, FindRelevant(cycle) PROVE Inv'
  <2>1. /\ Spend("consult") /\ applied' = applied /\ Relevant(cycle)
        /\ consult' = [tier |-> "found", cycle |-> cycle, row |-> pattern]
    BY <1>1 DEF FindRelevant
  <2>2. /\ DOMAIN budget' = DOMAIN budget /\ \A x \in DOMAIN budget : budget'[x] \in Nat
        /\ budget'["artifact"] = budget["artifact"]
    BY <1>a, <2>1, SpendType DEF JobsTypeOK
  <2>3. JobsTypeOK' /\ MemoryTypeOK'
    BY <1>a, <1>c, <2>2 DEF JobsTypeOK, MemoryTypeOK, memory, jobs
  <2>4. consult'.cycle = cycle /\ consult'.row = pattern /\ pattern \in Rows /\ pattern # None
    BY <1>b, <2>1 DEF Relevant
  <2>5. PromptsTypeOK'
    BY <1>a, <2>1, <2>4 DEF PromptsTypeOK
  <2>6. ConsultBacked'
    BY <1>a, <1>c, <2>1, <2>4 DEF ConsultBacked, PatternBacked, Relevant, memory
  <2>7. InjectionBacked'
    BY <1>a, <1>c, <2>1 DEF InjectionBacked, memory
  <2>8. QED
    BY <1>a, <1>c, <1>d, <1>e, <2>3, <2>5, <2>6, <2>7 DEF Inv, TypeOK
<1>2. ASSUME InjectPatterns PROVE Inv'
  <2> DEFINE row == consult.row
             e == [cycle |-> consult.cycle, tier |-> row.tier]
             takes == \/ row.tier = "auto" /\ Confident(row)
                      \/ row.tier = "curated" /\ HasValidApproval(CharterOf[consult.cycle])
  <2>1. /\ consult # None /\ consult' = None /\ UNCHANGED budget
        /\ applied' = IF takes THEN applied \union {e} ELSE applied
    BY <1>2 DEF InjectPatterns
  <2>2. /\ consult.cycle \in Cycles /\ row \in Rows /\ RowBacked(row, observed)
        /\ \E a \in observed : CycleOf[a] # consult.cycle
    BY <1>a, <2>1 DEF PromptsTypeOK, ConsultBacked
  <2>3. JobsTypeOK' /\ MemoryTypeOK'
    BY <1>a, <1>c, <2>1, UnchangedTypes
  <2>4. ConsultBacked'
    BY <2>1 DEF ConsultBacked
  <2>5. takes => e \in [cycle : Cycles, tier : {"auto", "curated"}]
    BY <2>2
  <2>6. PromptsTypeOK'
    BY <1>a, <2>1, <2>5 DEF PromptsTypeOK
  <2>7. takes => /\ \E a \in observed : CycleOf[a] # e.cycle
                 /\ e.tier = "auto" => Cardinality(observed) >=
                        (IF Cardinality(ChartersOf(observed)) > 1 THEN 3 ELSE 5)
    <3>1. ASSUME takes, e.tier = "auto"
          PROVE  Cardinality(observed) >= (IF Cardinality(ChartersOf(observed)) > 1 THEN 3 ELSE 5)
      <4>1. Confident(row)
        BY <3>1
      <4>2. QED
        BY <1>b, <2>2, <4>1, ConfidentBacked
    <3>2. QED
      BY <2>2, <3>1
  <2>8. InjectionBacked'
    <3> HIDE DEF takes, e
    <3>1. \A f \in applied \union (IF takes THEN {e} ELSE {}) :
             /\ \E a \in observed : CycleOf[a] # f.cycle
             /\ f.tier = "auto" => Cardinality(observed) >=
                    (IF Cardinality(ChartersOf(observed)) > 1 THEN 3 ELSE 5)
      BY <1>a, <2>7 DEF InjectionBacked, ChartersOf
    <3>2. observed' = observed /\ applied' \subseteq applied \union (IF takes THEN {e} ELSE {})
      BY <1>c, <2>1 DEF memory
    <3>3. QED
      BY <3>1, <3>2 DEF InjectionBacked, ChartersOf
  <2>9. QED
    BY <1>a, <1>c, <1>d, <1>e, <2>3, <2>4, <2>6, <2>8 DEF Inv, TypeOK
<1>3. QED
  BY <1>1, <1>2

-----------------------------------------------------------------------------
(* Theorems. *)

\* The memory starts with a backed row or none, and no unit of work.
LEMMA InitInv == Init => Inv
<1> SUFFICES ASSUME Init PROVE Inv
  OBVIOUS
<1>1. /\ budget \in [{"workers", "known", "artifact", "consolidate", "decay", "consult", "verdict",
                      "tier", "crash"} -> 0..Len(CycleOf)]
      /\ Len(CycleOf) \in Nat
  BY MemoryAssumption DEF Init
<1>2. budget["artifact"] \in 0..Len(CycleOf) /\ budget["known"] \in 0..Len(CycleOf)
  BY <1>1
<1>3. observed \in SUBSET Artifacts
  BY <1>1, <1>2 DEF Init, Artifacts
<1>4. pattern \in Rows \union {None} /\ PatternBacked
  <2>1. CASE observed = {}
    BY <2>1 DEF Init, PatternBacked
  <2>2. CASE observed # {}
    <3>1. pattern = NewPattern(Cardinality(observed), ChartersOf(observed))
      BY <2>2 DEF Init, ChartersOf
    <3>2. QED
      BY <1>3, <2>2, <3>1, NewPatternBacked DEF PatternBacked
  <2>3. QED
    BY <2>1, <2>2
<1>5. MemoryTypeOK
  <2>1. sources \in 0..Len(CycleOf) - budget["artifact"]
    BY <1>1, <1>2 DEF Init
  <2>2. approvals \in Seq(Verdicts)
    BY DEF Init
  <2>3. QED
    BY <1>3, <1>4, <2>1, <2>2 DEF MemoryTypeOK
<1>6. JobsTypeOK
  <2>1. queue \in Seq(Jobs) /\ orphans \in Seq(Jobs) /\ gate \in Gates
    BY DEF Init, Gates
  <2>2. recent \in [0..Interval-1 -> Nat]
    BY DEF Init
  <2>3. QED
    BY <1>1, <2>1, <2>2 DEF JobsTypeOK
<1>7. PromptsTypeOK
  BY DEF Init, PromptsTypeOK
<1>8. DOMAIN worker = Workers /\ \A w \in Workers : WorkerTypeOK(w) /\ worker[w].at \in {"off", "idle"}
  <2>1. DOMAIN worker = Workers /\ \A w \in Workers : worker[w] \in {Idle, Off}
    BY DEF Init
  <2>2. ASSUME NEW w \in Workers PROVE WorkerTypeOK(w) /\ worker[w].at \in {"off", "idle"}
    <3>1. worker[w] \in {Idle, Off}
      BY <2>1
    <3>2. /\ worker[w].at \in {"off", "idle"} /\ worker[w].job = None /\ worker[w].found = {}
          /\ DOMAIN worker[w] = DOMAIN Idle
      BY <3>1 DEF Idle, Off
    <3>3. QED
      BY <3>2 DEF WorkerTypeOK, Phases
  <2>3. QED
    BY <2>1, <2>2
<1>9. UnitsBacked
  BY <1>8 DEF UnitsBacked, UnitBacked
<1>10. ConsultBacked /\ InjectionBacked
  BY DEF Init, ConsultBacked, InjectionBacked
<1>11. QED
  BY <1>4, <1>5, <1>6, <1>7, <1>8, <1>9, <1>10 DEF Inv, TypeOK

\* The invariant holds in every state, for any workers, artifacts and windows.
THEOREM MemoryInvariant == Spec => []Inv
<1>1. Init => Inv
  BY InitInv
<1>2. Inv /\ [Next]_vars => Inv'
  <2> SUFFICES ASSUME Inv, [Next]_vars PROVE Inv'
    OBVIOUS
  <2>1. ASSUME NEW w \in Workers, WorkerStep(w) \/ Crash(w) PROVE Inv'
    BY <2>1, LoopSteps, ReadSteps, CommitSteps DEF WorkerStep
  <2>2. ASSUME UNCHANGED vars PROVE Inv'
    <3>1. UNCHANGED <<sources, memory, approvals, gate, jobs, worker, prompts, recent, budget>>
      BY <2>2 DEF vars, prompts
    <3>2. MemoryTypeOK' /\ JobsTypeOK'
      BY <3>1, UnchangedTypes DEF Inv, TypeOK
    <3>3. QED
      BY <3>1, <3>2, StillStep
  <2>3. QED
    BY <2>1, <2>2, RequestSteps, RowSteps, PromptSteps DEF Next
<1>3. QED
  BY <1>1, <1>2, PTL DEF Spec

\* Every column, job, verdict and unit of work has its type; in particular a
\* commit of stale columns never leaves a row that is none.
THEOREM MemoryIsTyped == Spec => []TypeOK
<1>1. Inv => TypeOK
  BY DEF Inv
<1>2. QED
  BY <1>1, MemoryInvariant, PTL

\* evidence_count and source_charter_ids are backed by the observations, however
\* consolidations, decay runs and users' changes of one row overlap and repeat.
THEOREM MemoryEvidenceBacked == Spec => []EvidenceBacked
<1>1. Inv => EvidenceBacked
  BY DEF Inv, PatternBacked, RowBacked, EvidenceBacked, ChartersOf
<1>2. QED
  BY <1>1, MemoryInvariant, PTL

\* Under the default policy, a pattern enters a prompt on its own strength only
\* with three artifacts behind it, five if of one charter, and never with the
\* cycle's own alone.
THEOREM MemoryInjectionBacked == Spec => []InjectionBacked
<1>1. Inv => InjectionBacked
  BY DEF Inv
<1>2. QED
  BY <1>1, MemoryInvariant, PTL

\* A curated pattern enters a prompt only while an approval stands: the latest
\* verdict of a scope being an approval means that no rejection came after it.
THEOREM MemoryInjectionApproved == Spec => InjectionApproved
<1>1. ASSUME NEW charter, HasValidApproval(charter) PROVE Stands(charter)
  <2>1. PICK scope \in {charter, Global} : Approved(scope)
    BY <1>1 DEF HasValidApproval
  <2>2. QED
    BY <2>1 DEF Approved, Stands
<1>2. [Next]_vars =>
        [applied' # applied /\ consult.row.tier = "curated" => Stands(CharterOf[consult.cycle])]_vars
  <2> SUFFICES ASSUME Next, applied' # applied, consult.row.tier = "curated"
               PROVE  Stands(CharterOf[consult.cycle])
    BY Zenon DEF vars
  <2>1. InjectPatterns
    BY Zenon DEF Next, WorkerStep, OpenGate, EnqueueDecay, Claim, Settle, ConsolidateRead, UpsertPattern,
           StorePattern, DecayRead, Demote, Crash, ReclaimStale, StoreArtifact, Tick,
           RequestConsolidation, ApprovePattern, RejectPattern, Verdict, RequestDecay, FindRelevant,
           UpdateTrustTier, prompts
  <2>2. HasValidApproval(CharterOf[consult.cycle])
    BY <2>1 DEF InjectPatterns
  <2>3. QED
    BY <1>1, <2>2
<1>3. QED
  BY <1>2, PTL DEF Spec, InjectionApproved

-----------------------------------------------------------------------------
(* The decay schedule. *)

\* The workers that found the gate open and have not committed yet.
AtGate == {w \in Workers : worker[w].at = "gate"}

\* Decay jobs younger than the interval are as old as the gate's stamp; they and
\* the workers still to commit are no more than there are workers, and no
\* worker is still to commit once a tick has passed.
GateCounts ==
    /\ \A a \in DOMAIN recent : a # gate => recent[a] = 0
    /\ gate \in 0..Interval-1 => recent[gate] + Cardinality(AtGate) <= Cardinality(Workers)
    /\ gate \in 1..Interval-1 => AtGate = {}

\* The workers at the gate can be counted.
LEMMA AtGateFinite ==
    /\ IsFiniteSet(AtGate) /\ Cardinality(AtGate) \in Nat
    /\ Cardinality(AtGate) <= Cardinality(Workers) /\ Cardinality(Workers) \in Nat
<1>1. AtGate \subseteq Workers /\ IsFiniteSet(Workers)
  BY MemoryAssumption DEF AtGate
<1>2. QED
  BY <1>1, FS_Subset, FS_CardinalityType

\* Nothing happens to the schedule as long as no worker comes to the gate.
LEMMA GateStill ==
    ASSUME GateCounts, gate' = gate \/ (gate \notin 0..Interval-1 /\ gate' \notin 0..Interval-1),
           recent' = recent, TypeOK,
           gate \in 0..Interval-1 => \A w \in Workers : worker'[w].at = "gate" => worker[w].at = "gate"
    PROVE  GateCounts'
<1>1. \A a \in DOMAIN recent' : a # gate' => recent'[a] = 0
  BY DEF GateCounts, TypeOK, JobsTypeOK
<1>2. ASSUME gate' \in 0..Interval-1
      PROVE  /\ gate' = gate /\ AtGate' \subseteq AtGate
             /\ Cardinality(AtGate') \in Nat /\ Cardinality(AtGate') <= Cardinality(AtGate)
  <2>1. gate' = gate /\ AtGate' \subseteq AtGate
    BY <1>2 DEF AtGate
  <2>2. QED
    BY <2>1, AtGateFinite, FS_Subset, FS_CardinalityType
<1>3. ASSUME gate' \in 0..Interval-1
      PROVE  recent'[gate'] + Cardinality(AtGate') <= Cardinality(Workers)
  <2>1. recent[gate] \in Nat /\ recent[gate] + Cardinality(AtGate) <= Cardinality(Workers)
    BY <1>2, <1>3 DEF GateCounts, TypeOK, JobsTypeOK
  <2>2. QED
    BY <1>2, <1>3, <2>1, AtGateFinite
<1>4. gate' \in 1..Interval-1 => AtGate' = {}
  <2>1. 1..Interval-1 \subseteq 0..Interval-1
    BY MemoryAssumption
  <2>2. QED
    BY <1>2, <2>1 DEF GateCounts
<1>5. QED
  BY <1>1, <1>3, <1>4 DEF GateCounts

\* A worker enqueues one decay and is no longer at the gate.
LEMMA GateEnqueues ==
    ASSUME GateCounts, TypeOK, NEW w \in Workers, EnqueueDecay(w)
    PROVE  GateCounts'
<1>1. /\ worker[w].at = "gate"
      /\ \A v \in Workers : worker'[v].at = "gate" <=> v # w /\ worker[v].at = "gate"
  BY Zenon DEF EnqueueDecay, TypeOK, Idle
<1>2. AtGate' = AtGate \ {w} /\ w \in AtGate
  BY <1>1 DEF AtGate
<1>3. Cardinality(AtGate') = Cardinality(AtGate) - 1
  BY <1>2, AtGateFinite, FS_RemoveElement
<1>4. CASE UNCHANGED <<gate, queue, recent>>
  BY <1>1, <1>4, GateStill
<1>5. CASE gate' = 0 /\ recent' = [recent EXCEPT ![0] = @ + 1]
  <2>1. /\ 0 \in 0..Interval-1 /\ gate \notin 1..Interval-1
        /\ recent \in [0..Interval-1 -> Nat] /\ Interval \in Nat
    BY <1>2, MemoryAssumption DEF GateCounts, TypeOK, JobsTypeOK
  <2>2. recent[0] + Cardinality(AtGate) <= Cardinality(Workers)
    <3>1. CASE gate = 0
      BY <2>1, <3>1 DEF GateCounts
    <3>2. CASE gate # 0
      BY <2>1, <3>2, AtGateFinite DEF GateCounts
    <3>3. QED
      BY <3>1, <3>2
  <2>3. recent'[gate'] = recent[0] + 1 /\ \A a \in DOMAIN recent' : a # gate' => recent'[a] = 0
    BY <1>5, <2>1 DEF GateCounts
  <2>4. recent'[gate'] + Cardinality(AtGate') <= Cardinality(Workers)
    BY <1>3, <2>1, <2>2, <2>3, AtGateFinite
  <2>5. gate' \notin 1..Interval-1
    BY <1>5
  <2>6. QED
    BY <2>3, <2>4, <2>5 DEF GateCounts
<1>6. QED
  BY <1>4, <1>5 DEF EnqueueDecay

\* A tick finds no worker at the gate, and the stamp and the jobs age together.
LEMMA GateTicks ==
    ASSUME GateCounts, TypeOK, Tick
    PROVE  GateCounts'
<1>1. /\ gate \in Gates /\ Interval \in Nat \ {0} /\ recent \in [0..Interval-1 -> Nat]
      /\ recent' = [a \in 0..Interval-1 |-> IF a = 0 THEN 0 ELSE recent[a - 1]]
      /\ gate' = IF gate \in {Missing, Never, Interval} THEN gate ELSE gate + 1
  BY MemoryAssumption DEF Tick, TypeOK, JobsTypeOK
<1>2. AtGate' = {} /\ Cardinality(AtGate') = 0
  BY FS_EmptySet, Zenon DEF Tick, AtGate
<1>3. ASSUME NEW a \in 0..Interval-1 PROVE a # gate' => recent'[a] = 0
  <2>1. CASE a = 0
    BY <1>1, <2>1
  <2>2. CASE a # 0
    <3>1. a - 1 \in 0..Interval-1 /\ recent'[a] = recent[a - 1]
      BY <1>1, <2>2
    <3>2. a - 1 # gate => recent[a - 1] = 0
      BY <1>1, <3>1 DEF GateCounts
    <3>3. a - 1 = gate => gate' = a
      BY <1>1, <3>1 DEF Missing, Never
    <3>4. QED
      BY <3>1, <3>2, <3>3
  <2>3. QED
    BY <2>1, <2>2
<1>4. ASSUME gate' \in 0..Interval-1
      PROVE  recent'[gate'] <= Cardinality(Workers)
  <2>1. gate \in 0..Interval-1 /\ gate' = gate + 1
    BY <1>1, <1>4 DEF Gates, Missing, Never
  <2>2. recent'[gate'] = recent[gate]
    BY <1>1, <1>4, <2>1
  <2>3. recent[gate] \in Nat /\ recent[gate] + Cardinality(AtGate) <= Cardinality(Workers)
    BY <1>1, <2>1 DEF GateCounts
  <2>4. QED
    BY <2>2, <2>3, AtGateFinite
<1>5. DOMAIN recent' = 0..Interval-1 /\ recent' \in [0..Interval-1 -> Nat]
  <2>1. \A a \in 0..Interval-1 : a # 0 => a - 1 \in 0..Interval-1
    BY <1>1
  <2>2. QED
    BY <1>1, <2>1
<1>6. ASSUME gate' \in 0..Interval-1
      PROVE  recent'[gate'] + Cardinality(AtGate') <= Cardinality(Workers)
  <2>1. recent'[gate'] \in Nat
    BY <1>5, <1>6
  <2>2. QED
    BY <1>2, <1>4, <1>6, <2>1
<1>7. QED
  BY <1>2, <1>3, <1>5, <1>6 DEF GateCounts

\* The other steps leave the schedule alone, or bring workers only to a gate
\* that is open.
LEMMA GateOthers ==
    ASSUME GateCounts, TypeOK, Next, ~Tick, \A w \in Workers : ~EnqueueDecay(w)
    PROVE  GateCounts'
<1>1. ASSUME NEW w \in Workers, OpenGate(w) PROVE GateCounts'
  <2>1. gate \notin 0..Interval-1 /\ gate' = gate /\ recent' = recent
    BY <1>1 DEF OpenGate
  <2>2. QED
    BY <2>1, GateStill
<1>2. ASSUME NEW w \in Workers,
             \/ Claim(w) \/ Settle(w) \/ Crash(w) \/ ConsolidateRead(w)
             \/ UpsertPattern(w) \/ StorePattern(w) \/ DecayRead(w) \/ Demote(w)
      PROVE  GateCounts'
  <2>1. recent' = recent /\ (gate' = gate \/ (gate = Missing /\ gate' = Never))
    BY <1>2, Zenon DEF Claim, Settle, Crash, ConsolidateRead, UpsertPattern, StorePattern,
                       DecayRead, Demote
  <2>2. \E r : /\ worker' = [worker EXCEPT ![w] = r]
               /\ r.at # "gate"
    <3>1. CASE Claim(w) /\ queue # << >> /\ worker' = [worker EXCEPT ![w].at = Head(queue).kind, ![w].job = Head(queue)]
      <4>1. Head(queue) \in Jobs
        BY <3>1 DEF TypeOK, JobsTypeOK
      <4>2. Head(queue).kind # "gate"
        BY <4>1 DEF Jobs
      <4>3. [worker[w] EXCEPT !.at = Head(queue).kind, !.job = Head(queue)].at # "gate"
        BY <4>2, Zenon DEF TypeOK, WorkerTypeOK, Idle
      <4>4. QED
        BY <3>1, <4>3
    <3>2. CASE worker' = [worker EXCEPT ![w] = Idle]
      <4>1. Idle.at # "gate"
        BY DEF Idle
      <4>2. QED
        BY <3>2, <4>1, Zenon
    <3>3. CASE Finish(w)
      <4>1. [Idle EXCEPT !.at = "settle", !.job = worker[w].job].at # "gate"
        BY DEF Idle
      <4>2. QED
        BY <3>3, <4>1, Zenon DEF Finish
    <3>4. CASE ConsolidateRead(w) \/ UpsertPattern(w) \/ DecayRead(w)
      <4>1. DOMAIN worker[w] = {"at", "job", "found", "read", "new"}
        BY DEF TypeOK, WorkerTypeOK, Idle
      <4>2. QED
        BY <3>3, <3>4, <4>1 DEF ConsolidateRead, UpsertPattern, DecayRead
    <3>5. QED
      BY <1>2, <3>1, <3>2, <3>3, <3>4 DEF Claim, Settle, Crash, StorePattern, Demote
  <2>3. \A v \in Workers : worker'[v].at = "gate" => worker[v].at = "gate"
    BY <2>2 DEF TypeOK
  <2>4. gate' = gate \/ (gate \notin 0..Interval-1 /\ gate' \notin 0..Interval-1)
    BY <2>1, MemoryAssumption DEF Missing, Never
  <2>5. QED
    BY <2>1, <2>3, <2>4, GateStill
<1>3. ASSUME UNCHANGED <<gate, worker, recent>> PROVE GateCounts'
  BY <1>3, GateStill
<1>4. QED
  BY <1>1, <1>2, <1>3, Zenon DEF Next, WorkerStep, ReclaimStale, StoreArtifact, RequestConsolidation,
     ApprovePattern, RejectPattern, Verdict, RequestDecay, InjectPatterns, FindRelevant, UpdateTrustTier

\* The decay jobs of one interval are of one tick, and no more than there are
\* workers: a worker that has enqueued one finds the gate closed, and no worker
\* carries an open gate over a tick.
THEOREM MemoryDecayPerInterval == Spec => []DecayPerInterval
<1>1. Init => GateCounts
  <2> SUFFICES ASSUME Init PROVE GateCounts
    OBVIOUS
  <2>1. gate = Missing /\ recent = [a \in 0..Interval-1 |-> 0]
    BY DEF Init
  <2>2. gate \notin 0..Interval-1 /\ gate \notin 1..Interval-1
    BY <2>1, MemoryAssumption DEF Missing
  <2>3. QED
    BY <2>1, <2>2 DEF GateCounts
<1>2. GateCounts /\ Inv /\ [Next]_vars => GateCounts'
  <2> SUFFICES ASSUME GateCounts, Inv, [Next]_vars PROVE GateCounts'
    OBVIOUS
  <2>1. TypeOK
    BY DEF Inv
  <2>2. CASE UNCHANGED vars
    BY <2>1, <2>2, GateStill DEF vars
  <2>3. QED
    BY <2>1, <2>2, GateEnqueues, GateTicks, GateOthers
<1>3. Inv /\ GateCounts => DecayPerInterval
  <2> SUFFICES ASSUME Inv, GateCounts PROVE DecayPerInterval
    OBVIOUS
  <2>1. DOMAIN recent = 0..Interval-1 /\ \A a \in DOMAIN recent : recent[a] \in Nat
    BY DEF Inv, TypeOK, JobsTypeOK
  <2>2. ASSUME NEW a \in DOMAIN recent PROVE recent[a] <= Cardinality(Workers)
    <3>1. CASE a = gate
      BY <2>1, <2>2, <3>1, AtGateFinite DEF GateCounts
    <3>2. CASE a # gate
      BY <2>1, <3>2, AtGateFinite DEF GateCounts
    <3>3. QED
      BY <3>1, <3>2
  <2>3. \A a \in DOMAIN recent : recent[a] > 0 => a = gate
    BY <2>1 DEF GateCounts
  <2>4. QED
    BY <2>2, <2>3 DEF DecayPerInterval
<1>4. QED
  BY <1>1, <1>2, <1>3, MemoryInvariant, PTL DEF Spec

=============================================================================
