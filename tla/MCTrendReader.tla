----------------------------- MODULE MCTrendReader ------------------------------
(***************************************************************************)
(* The publishers of MCTrendBundles, and one reader at the event time of either  *)
(* window.                                                                    *)
(***************************************************************************)
EXTENDS TrendReader, MCTrendBundles
================================================================================
