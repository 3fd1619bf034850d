----------------------------- MODULE MCPlotView -----------------------------
(* Lines, limits and thresholds of the runs of PlotView.                    *)
EXTENDS PlotView

\* A long flat line with single-sample spikes at the places in Up and Down and
\* gaps at the places in Holes; x grows by 50, with one wide step.
Wave(n, Up, Down, Holes) ==
    [i \in 1..n |-> << 50 * i + (IF i > 15 THEN 200 ELSE 0),
                       IF i \in Holes THEN NaN
                       ELSE IF i \in Up THEN 9 - (i % 3)
                       ELSE IF i \in Down THEN (i % 3) - 9 ELSE i % 2 >>]

MCDatasets == { Wave(5, {2}, {4}, {}),
                Wave(13, {4, 10}, {7}, {6, 9}),
                Wave(17, {5, 14, 16}, {11}, {}),
                Wave(17, {2, 14}, {12, 17}, {8, 16}) }
\* On disk with buckets of three: fourteen of two samples, and thirteen that the
\* store folds into the last one.
MCTailDatasets == { Wave(41, {27}, {28}, {}) }
MCThresholds == { [bounds |-> <<0>>, vals |-> <<5>>, end |-> 0, up |-> TRUE],
                  [bounds |-> <<50, 250, 400, 700>>, vals |-> <<6, NaN, -5, -8>>,
                   end |-> 1400, up |-> FALSE] }
MCTailLimits == { <<0, 3000>> }
MCLimits == { <<0, 2000>>, <<150, 650>>, <<770, 900>> }
=============================================================================
