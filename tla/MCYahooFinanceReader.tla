------------------------ MODULE MCYahooFinanceReader ------------------------
(* Two processes that want the same table, which arrives in SIZE portions. *)
EXTENDS YahooFinanceReader, TLC
=============================================================================
