-------------------------- MODULE MCHypothesisLine --------------------------
(* An instance of HypothesisLine for TLC: metric values either side of zero  *)
(* and of the noise band, profiles below, near and above the caps, and       *)
(* behaviours that are long, overlapping or full of failures.                *)
EXTENDS HypothesisLine

Metrics == {0, 100, 101}

Metric(direction, threshold, sane, memory, timeout) ==
    [direction |-> direction, threshold |-> threshold, sane |-> sane,
     limits |-> [memory |-> memory, timeout |-> timeout]]

Declared == {Metric("maximize", NoMetric, Metrics, 16, 3600),
             Metric("minimize", NoMetric, Metrics, 48, 12000),
             Metric("maximize", 100, Metrics, 128, 1),
             Metric("minimize", 100, {100, 101}, 48, 20000)}

Mixes == {[runs |-> 7, open |-> 1, failures |-> 0, repeats |-> 0],
          [runs |-> 3, open |-> 2, failures |-> 0, repeats |-> 1],
          [runs |-> 1, open |-> 1, failures |-> 4, repeats |-> 0],
          [runs |-> 1, open |-> 1, failures |-> 2, repeats |-> 1]}
=============================================================================
