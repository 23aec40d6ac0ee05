------------------------------ MODULE MCTrades ------------------------------
(* Trades of the largest volume, so that two of them take a bar to its     *)
(* limit, of a company with a bar of its own and of the two that share one.*)
EXTENDS Trades, TLC
=============================================================================
