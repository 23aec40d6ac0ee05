------------------------------ MODULE Graph3D -------------------------------
(***************************************************************************)
(* DataPrograms/Graph3D.cpp: the trades done in one company as a stair of  *)
(* blocks, each drawn from a trade and the one before it.  Every           *)
(* UPDATE_CYCLE_CNT passes the newest block is one trade later, and no     *)
(* more than SHOW_CNT + 1 blocks stand at a time.                          *)
(***************************************************************************)
EXTENDS Integers

CONSTANTS
  UPDATE_CYCLE_CNT,    \* 60
  SHOW_CNT             \* 50

VARIABLES
  lastDoneCnt,         \* how many trades the archive holds
  currentIdx,
  currentCycle,
  shown                \* the indices of the trades drawn as blocks

Init ==
  /\ currentIdx = 0
  /\ currentCycle = 0
  /\ shown = {}

(* A bug to compare with: one trade further than the archive goes. *)
StartAtCnt == IF lastDoneCnt < currentCycle THEN lastDoneCnt ELSE currentCycle

start == IF lastDoneCnt - 1 < currentCycle THEN lastDoneCnt - 1 ELSE currentCycle

oldest == IF start - SHOW_CNT > 1 THEN start - SHOW_CNT ELSE 1

(* The pass first sums up the prices of the trades 0 .. start, which lie   *)
(* in the archive if the newest block does; they are not kept.             *)
Render ==
  /\ shown' = oldest .. start
  /\ currentIdx' = currentIdx + 1
  /\ currentCycle' = currentCycle + IF currentIdx' % UPDATE_CYCLE_CNT = 0 THEN 1 ELSE 0
=============================================================================
