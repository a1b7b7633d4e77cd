----------------------------- MODULE MCJobQueue -----------------------------
(* Instances of JobQueue for TLC: priorities of the rows and the worker      *)
(* slots' symmetry.                                                          *)
EXTENDS JobQueue, TLC

\* Rows of the pipelines are created with priority 10, the loop's with 5 and
\* maintenance with 0; the later of two rows outranks the first.
LaterIsUrgent == [j \in 1..MaxJobs |-> IF j = 1 THEN 5 ELSE 10]

WorkerSymmetry == Permutations(Workers)
=============================================================================
