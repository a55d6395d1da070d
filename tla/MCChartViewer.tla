---------------------------- MODULE MCChartViewer ----------------------------
(* Instances of ChartViewer for TLC. *)
EXTENDS ChartViewer

\* n samples two hours apart, the newest first (--sort desc), with values of
\* every magnitude and sign, near the next power of ten or not: the tenth is the
\* largest negative one a label of eleven characters can hold.
Samples(n) ==
  [i \in 1 .. n |-> [time |-> 120 * (n - i), exp |-> (7 * i) % 18,
                     carry |-> 3 * ((i + 1) % 6), neg |-> i % 5 = 0]]

SomeInputs == {Samples(n) : n \in {1, 2, 3, 21}}

SomeTerminals == {[width |-> 80, height |-> 6], [width |-> 200, height |-> 50]}
==============================================================================
