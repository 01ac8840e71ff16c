----------------------------- MODULE MCCsvMerge -----------------------------
(* Model-checking instance of CsvMerge: two streams, times -2..3 ns (so    *)
(* st &^ mask also meets negative times), window widths 1 and 2 (point    *)
(* widths 0 and 1), up to three records a channel.                        *)
EXTENDS CsvMerge

MCTimes == -2..3
==============================================================================
