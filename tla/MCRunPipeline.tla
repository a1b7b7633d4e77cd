--------------------------- MODULE MCRunPipeline ---------------------------
(* Instances of RunPipeline for TLC: the control requests a user may send,   *)
(* and the scenarios.                                                        *)
EXTENDS RunPipeline

NoControls  == {}
AllControls == {"cancel", "pause", "resume", "retry"}

Crew     == {"w1", "w2"}
Scenario(crew, attempts, n) ==
    [crew |-> crew, attempts |-> attempts, faults |-> n]

\* The real number of remediation attempts; a fault anywhere; two workers.
Lone     == {Scenario({"w1"}, 0, 0)}
Troubles == {Scenario({"w1"}, 3, 0), Scenario({"w1"}, 0, 1), Scenario(Crew, 0, 0)}

\* One worker against the user's requests; two workers, and a fault anywhere.
Overlaps   == {Scenario(Crew, 0, 1)}
Contention == Lone \cup Overlaps

\* Where the search for overlapping classifications stops: nothing is cancelled,
\* paused or retried, all runs are asked for before a worker begins, they
\* succeed, one worker at a time takes them as far as their verification, and
\* only a classification is executed again.
Busy == {w \in Workers : pc[w] # "idle"}
Gathered ==
    /\ \A q \in api : q.op = "start"
    /\ Len(runs) < MaxRequests => Busy = {}
    /\ (\E r \in RunIds : runs[r].reports = 0) => Cardinality(Busy) <= 1
    /\ \A r \in RunIds : runs[r].status # "failed"
    /\ \A j \in JobIds :
          /\ jobs[j].op # "auto_remediate"
          /\ jobs[j].reclaims > 0 => jobs[j].op = "signal_classify"

\* One worker against the user: what it dies on is not put back.
NotReclaimed == \A j \in JobIds : jobs[j].reclaims = 0

Contested == IF scenario \in Overlaps THEN Gathered ELSE NotReclaimed
=============================================================================
