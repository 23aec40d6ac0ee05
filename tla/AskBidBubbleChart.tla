------------------------- MODULE AskBidBubbleChart --------------------------
(***************************************************************************)
(* DataPrograms/AskBidBubbleChart.cpp: a bubble per company, placed by the *)
(* best bid and ask of a recorded retail state.  The chart counts passes   *)
(* and, once in PERIOD of them, moves every bubble to the record with that *)
(* number; the positions stay as they are in between.                      *)
(***************************************************************************)
EXTENDS Integers

CONSTANTS
  Companies,
  PERIOD               \* the 20 of Render

VARIABLES
  retailStateCounts,   \* [company -> how many records its archive holds]
  cycle,               \* how many passes there have been
  cycle2,              \* how many since the bubbles moved
  shown                \* [company -> the record its bubble stands for]

Blank == <<>>          \* no record yet: the positions are all 0

Init ==
  /\ cycle = 0
  /\ cycle2 = 0
  /\ shown = Blank

(* The index of the record a bubble moves to: past the end of the records  *)
(* it is their count, which is one more than the index of the last.        *)
index(c) == IF retailStateCounts[c] <= cycle THEN retailStateCounts[c] ELSE cycle

(* A bug to compare with: nothing stops the bubbles at the end. *)
ComputeChangeOnwards == shown' = [c \in Companies |-> cycle]

ComputeChange == shown' = [c \in Companies |-> index(c)]

(* A bug to compare with: the pass after a move moves the bubbles as well. *)
RenderMovingTwice ==
  /\ \/ cycle2 <= 1 /\ ComputeChange
     \/ cycle2 > 1 /\ shown' = shown
  /\ cycle' = cycle + 1
  /\ cycle2' = (cycle2 + 1) % PERIOD

Render ==
  /\ \/ cycle2 = 0 /\ ComputeChange
     \/ cycle2 # 0 /\ shown' = shown
  /\ cycle' = cycle + 1
  /\ cycle2' = (cycle2 + 1) % PERIOD
=============================================================================
