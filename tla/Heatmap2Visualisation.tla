----------------------- MODULE Heatmap2Visualisation ------------------------
(***************************************************************************)
(* DataPrograms/Heatmap2Visualisation.cpp: how each price of a company     *)
(* moved from one recorded retail state to the next.  The replay starts    *)
(* with the second record, to have one to compare with.                    *)
(***************************************************************************)
EXTENDS Integers

CONSTANTS
  Companies,
  UPDATE_CYCLE_CNT     \* 60

VARIABLES
  retailStatesCnt,     \* [company -> how many records its archive holds]
  currentIdx,
  currentCycle,
  shown                \* [company -> the two records compared on its row]

Blank == <<>>

(* A bug to compare with: the first record is compared with none. *)
InitAtFirst ==
  /\ currentIdx = 0
  /\ currentCycle = 0
  /\ shown = Blank

Init ==
  /\ currentIdx = 0
  /\ currentCycle = 1
  /\ shown = Blank

(* The record with index i, or the last one when there are not so many. *)
AtMostLast(c, i) ==
  IF i < retailStatesCnt[c] THEN i ELSE retailStatesCnt[c] - 1

(* A bug to compare with: two records back from where the replay stands. *)
RecordsApart(c) ==
  [prev |-> AtMostLast(c, currentCycle - 2), curr |-> AtMostLast(c, currentCycle)]

Records(c) ==
  [prev |-> AtMostLast(c, currentCycle - 1), curr |-> AtMostLast(c, currentCycle)]

last == \A c \in Companies : currentCycle >= retailStatesCnt[c]

Tick ==
  /\ currentIdx' = currentIdx + 1
  /\ currentCycle' = currentCycle + IF currentIdx' % UPDATE_CYCLE_CNT = 0 THEN 1 ELSE 0

Advance ==
  \/ ~ last /\ Tick
  \/ last /\ UNCHANGED <<currentIdx, currentCycle>>

Render ==
  /\ shown' = [c \in Companies |-> Records(c)]
  /\ Advance
=============================================================================
