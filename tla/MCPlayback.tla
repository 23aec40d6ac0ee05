----------------------------- MODULE MCPlayback -----------------------------
(* Archives of every length up to three records and five trades, replayed  *)
(* well past the end of the longest.                                       *)
EXTENDS Playback, TLC
=============================================================================
