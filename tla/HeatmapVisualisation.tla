------------------------ MODULE HeatmapVisualisation ------------------------
(***************************************************************************)
(* DataPrograms/HeatmapVisualisation.cpp: the spread between every bid and *)
(* every ask of a company, a row per company, replayed from the recorded   *)
(* retail states at one record per UPDATE_CYCLE_CNT passes.  A company     *)
(* whose records run out stays at its last one, and when all have run out  *)
(* the replay stops.                                                       *)
(***************************************************************************)
EXTENDS Integers

CONSTANTS
  Companies,
  UPDATE_CYCLE_CNT     \* 60

VARIABLES
  retailStatesCnt,     \* [company -> how many records its archive holds]
  currentIdx,
  currentCycle,
  shown                \* [company -> the record on its row]

Blank == <<>>          \* what is shown before the first pass

Init ==
  /\ currentIdx = 0
  /\ currentCycle = 0
  /\ shown = Blank

(* A bug to compare with: the index after the last one. *)
RecordAtCnt(c) ==
  IF currentCycle < retailStatesCnt[c] THEN currentCycle ELSE retailStatesCnt[c]

(* A bug to compare with: a company whose records ran out starts again. *)
RecordAgain(c) == currentCycle % retailStatesCnt[c]

(* The index of the record that Render reads for company c. *)
Record(c) ==
  IF currentCycle < retailStatesCnt[c] THEN currentCycle ELSE retailStatesCnt[c] - 1

last == \A c \in Companies : currentCycle >= retailStatesCnt[c]

(* A bug to compare with: the period is tested before the pass is counted. *)
TickTestedFirst ==
  /\ currentIdx' = currentIdx + 1
  /\ currentCycle' = currentCycle + IF currentIdx % UPDATE_CYCLE_CNT = 0 THEN 1 ELSE 0

Tick ==
  /\ currentIdx' = currentIdx + 1
  /\ currentCycle' = currentCycle + IF currentIdx' % UPDATE_CYCLE_CNT = 0 THEN 1 ELSE 0

(* A bug to compare with: the replay stops where the shortest archive ends. *)
AdvanceUntilOneEnds ==
  \/ \A c \in Companies : currentCycle < retailStatesCnt[c] /\ Tick
  \/ /\ \E c \in Companies : currentCycle >= retailStatesCnt[c]
     /\ UNCHANGED <<currentIdx, currentCycle>>

Advance ==
  \/ ~ last /\ Tick
  \/ last /\ UNCHANGED <<currentIdx, currentCycle>>

Render ==
  /\ shown' = [c \in Companies |-> Record(c)]
  /\ Advance
=============================================================================
