--------------------------- MODULE MCAutonomyLoop ---------------------------
\* Policies for model checking the autonomous loop.
EXTENDS AutonomyLoop

Limit(n) ==
    [max_total_runs |-> n, max_runs_per_hypothesis |-> None, wall |-> FALSE,
     after_every_run |-> FALSE, after_every_n_runs |-> None,
     before_hardware_escalation |-> FALSE, before_result_promotion |-> FALSE,
     before_network_execution |-> FALSE]

Shared     == Limit(2)
RunLimit   == [Limit(2) EXCEPT !.wall = TRUE]
PerCard    == [Limit(None) EXCEPT !.max_runs_per_hypothesis = 2]
EveryRun   == [Limit(2) EXCEPT !.after_every_run = TRUE]
EveryOther == [Limit(4) EXCEPT !.after_every_n_runs = 2,
                               !.before_hardware_escalation = TRUE]
Promotion  == [Limit(4) EXCEPT !.before_result_promotion = TRUE]
Network    == [Limit(2) EXCEPT !.before_network_execution = TRUE]
Masked     == [EveryRun EXCEPT !.before_network_execution = TRUE]

SomePolicies == {Shared, RunLimit, PerCard, EveryRun, EveryOther, Promotion, Network, Masked}
NetworkOnly  == {Network}

\* A stop where the limits are at stake, a crash at the gates after a run and
\* before the network, and two workers whose decisions meet once a job is
\* executed again; long undisturbed loops for the gates that need several
\* decisions to fire.
Undisturbed ==
    [approvals |-> 2, stops |-> 0, crashes |-> 0, crew |-> {CHOOSE w \in Workers : TRUE},
     advice |-> Advice, compiled |-> Cards]
SomeBounds == [p \in Policies |->
    CASE p = Shared   -> [Undisturbed EXCEPT !.crew = Workers, !.compiled = {1},
                                             !.advice = {"continue_current"}]
      [] p = RunLimit -> [Undisturbed EXCEPT !.stops = 1]
      [] p = EveryRun -> [Undisturbed EXCEPT !.crashes = 1,
                                !.advice = {"continue_current", "hypothesis_pivot"}]
      [] p = Network  -> [Undisturbed EXCEPT !.approvals = 1, !.crashes = 1,
                                !.compiled = {NCards},
                                !.advice = {"continue_current", "hypothesis_pivot"}]
      [] p = Masked   -> [Undisturbed EXCEPT !.compiled = {1},
                                !.advice = {"parameter_variation"}]
      [] OTHER        -> Undisturbed]

\* Nothing goes wrong.
QuietBounds == [p \in Policies |-> Undisturbed]
=============================================================================
