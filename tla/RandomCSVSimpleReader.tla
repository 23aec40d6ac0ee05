----------------------- MODULE RandomCSVSimpleReader ------------------------
(***************************************************************************)
(* SourceReaders/RandomCSVSimpleReader.cpp: the source of the live charts. *)
(* After a header it makes up a line per portion, without end, so that a   *)
(* reader never comes to a NULL.  Each line is a whole portion: nothing is *)
(* left in the buffer of the reader between two rows.                      *)
(***************************************************************************)
EXTENDS Integers

CONSTANTS
  Companies,
  BuyCosts, SellCosts,    \* 91 + (rand() % 15) and 119 - (rand() % 15)
  Volumes                 \* rand() % 10 + 1

ASSUME CostsInRange == BuyCosts \subseteq 91 .. 105 /\ SellCosts \subseteq 105 .. 119
ASSUME VolumesInRange == Volumes \subseteq 1 .. 10

Rows ==
  [type : {"buy"}, company : Companies, cost : BuyCosts, volume : Volumes] \cup
  [type : {"sell"}, company : Companies, cost : SellCosts, volume : Volumes]
=============================================================================
