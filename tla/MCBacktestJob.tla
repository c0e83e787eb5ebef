--------------------------- MODULE MCBacktestJob ---------------------------
(* Small instances of BacktestJob for TLC. *)
EXTENDS BacktestJob, TLC

BacktestSymmetry == Permutations(Backtests)
=============================================================================
