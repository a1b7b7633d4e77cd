--------------------------- MODULE MCPatternMemory ---------------------------
\* Artifacts, cycles and budgets for model checking the pattern memory.
EXTENDS PatternMemory

TwoCharters == [y1 |-> "c1", y2 |-> "c2"]
Mined       == <<"y1", "y2", "y2">>

Quiet == [workers |-> 1, known |-> 0, artifact |-> 0, consolidate |-> 0, decay |-> 0, consult |-> 0,
          verdict |-> 0, tier |-> 0, crash |-> 0]

\* Two inserts of the row; two updates of it; a pattern that grows into use; a
\* lost worker; a curated pattern.
Mixes == {[Quiet EXCEPT !.workers = 2, !.consolidate = 2],
          [Quiet EXCEPT !.workers = 2, !.known = 1, !.artifact = 1, !.consolidate = 2],
          [Quiet EXCEPT !.artifact = 3, !.consolidate = 1, !.consult = 1],
          [Quiet EXCEPT !.consolidate = 1, !.decay = 1, !.tier = 1, !.crash = 1],
          [Quiet EXCEPT !.known = 2, !.verdict = 2, !.consult = 1]}
=============================================================================
