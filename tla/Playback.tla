------------------------------ MODULE Playback ------------------------------
(***************************************************************************)
(* The charts that replay the archive of 2014.01.02, driven by RunDisplay  *)
(* (gui/Display.cpp): while the window is open, a frame is a pass for the  *)
(* first eye and a pass for the second, and a pass calls Render of each    *)
(* chart once.  The charts keep the names the display gives them: visA is  *)
(* the Graph3D, visB the bubbles, visC the second heatmap, visF the first. *)
(* They share nothing but the archive and the pace of the passes.          *)
(***************************************************************************)
EXTENDS Integers

CONSTANTS
  Companies,          \* of the heatmaps
  BubbleCompanies,    \* of the bubble chart
  RecordCounts,       \* how many retail states the archive may hold of one
  TradeCounts,        \* how many trades it may hold of the Graph3D's company
  UPDATE_CYCLE_CNT, SHOW_CNT, PERIOD,
  INT_MAX             \* how far the counters go

ASSUME BubblesHaveRows == BubbleCompanies \subseteq Companies
(* Nothing guards against an archive without retail states. *)
ASSUME SomeRecords == RecordCounts \subseteq Nat \ {0}
ASSUME TradesCounted == TradeCounts \subseteq Nat
(* 60 and 20: as there are two eyes, the properties below need them even. *)
ASSUME EvenPeriods ==
  /\ UPDATE_CYCLE_CNT \in Nat \ {0} /\ UPDATE_CYCLE_CNT % 2 = 0
  /\ PERIOD \in Nat \ {0} /\ PERIOD % 2 = 0
ASSUME Bounds == SHOW_CNT \in Nat /\ INT_MAX \in Nat

VARIABLES
  open,                      \* the window has not been asked to close
  eye,                       \* the eye the next pass is for
  retailStatesCnt,           \* the archive; every reader opens the same files
  lastDoneCnt,
  idxA, cycleA, shownA,      \* Graph3D
  cycleB, cycle2B, shownB,   \* AskBidBubbleChart
  idxC, cycleC, shownC,      \* Heatmap2Visualisation
  idxF, cycleF, shownF       \* HeatmapVisualisation

archive == <<retailStatesCnt, lastDoneCnt>>
varsA == <<idxA, cycleA, shownA>>
varsB == <<cycleB, cycle2B, shownB>>
varsC == <<idxC, cycleC, shownC>>
varsF == <<idxF, cycleF, shownF>>
vars == <<open, eye, archive, varsA, varsB, varsC, varsF>>

visA == INSTANCE Graph3D
          WITH currentIdx <- idxA, currentCycle <- cycleA, shown <- shownA
visB == INSTANCE AskBidBubbleChart
          WITH Companies <- BubbleCompanies, retailStateCounts <- retailStatesCnt,
               cycle <- cycleB, cycle2 <- cycle2B, shown <- shownB
visC == INSTANCE Heatmap2Visualisation
          WITH currentIdx <- idxC, currentCycle <- cycleC, shown <- shownC
visF == INSTANCE HeatmapVisualisation
          WITH currentIdx <- idxF, currentCycle <- cycleF, shown <- shownF

Init ==
  /\ open = TRUE
  /\ eye = 0
  /\ retailStatesCnt \in [Companies -> RecordCounts]
  /\ lastDoneCnt \in TradeCounts
  /\ visA!Init /\ visB!Init /\ visC!Init /\ visF!Init

(* The window is looked at between two frames only. *)
Pass ==
  /\ eye = 0 => open
  /\ cycleB < INT_MAX
  /\ eye' = 1 - eye
  /\ visA!Render /\ visB!Render /\ visC!Render /\ visF!Render
  /\ UNCHANGED <<open, archive>>

(* glfwPollEvents, at the end of a frame, finds that the user closed it. *)
Close ==
  /\ open /\ eye = 0
  /\ open' = FALSE
  /\ UNCHANGED <<eye, archive, varsA, varsB, varsC, varsF>>

Next == Pass \/ Close

(* The loop goes on as long as the window is open. *)
Spec == Init /\ [][Next]_vars /\ WF_vars(Pass)

-----------------------------------------------------------------------------
Drawn == shownF # visF!Blank     \* there has been a pass

TypeOK ==
  /\ open \in BOOLEAN
  /\ eye \in {0, 1}
  /\ retailStatesCnt \in [Companies -> RecordCounts]
  /\ lastDoneCnt \in TradeCounts
  /\ idxA \in Nat /\ cycleA \in Nat /\ shownA \in SUBSET Nat
  /\ cycleB \in 0 .. INT_MAX /\ cycle2B \in 0 .. PERIOD - 1
  /\ shownB \in [BubbleCompanies -> Nat] \cup {visB!Blank}
  /\ idxC \in Nat /\ cycleC \in Nat \ {0}
  /\ shownC \in [Companies -> [prev : Int, curr : Int]] \cup {visC!Blank}
  /\ idxF \in Nat /\ cycleF \in Nat
  /\ shownF \in [Companies -> Int] \cup {visF!Blank}

(***************************************************************************)
(* No Render reads outside the archive: every record a heatmap draws, and  *)
(* every trade of the Graph3D with the one before it, is there, however    *)
(* long the display runs after the shortest archive has run out.           *)
(***************************************************************************)
RecordsInBounds ==
  /\ Drawn => \A c \in Companies :
       /\ shownF[c] \in 0 .. retailStatesCnt[c] - 1
       /\ shownC[c].prev \in 0 .. retailStatesCnt[c] - 1
       /\ shownC[c].curr \in 0 .. retailStatesCnt[c] - 1
  /\ \A i \in shownA : {i - 1, i} \subseteq 0 .. lastDoneCnt - 1

(***************************************************************************)
(* The two heatmaps stay together, although each counts its passes for     *)
(* itself and they stop a record apart: the moves that visC shows start    *)
(* from the very record whose spreads visF shows, company by company.      *)
(***************************************************************************)
BaselineIsSpread ==
  Drawn => \A c \in Companies : shownC[c].prev = shownF[c]

(***************************************************************************)
(* Why they do: visC is a record ahead and keeps the same count of passes  *)
(* until it stops, and visF catches up with it once and stops there.       *)
(***************************************************************************)
HeatmapsTogether ==
  \/ cycleC = cycleF + 1 /\ (~ visC!last => idxC = idxF)
  \/ cycleC = cycleF /\ visF!last

(***************************************************************************)
(* Every chart is a Visualisation: it changes what it shows between two    *)
(* frames only, so the two eyes of a frame see the same data.              *)
(***************************************************************************)
FrameA == INSTANCE Visualisation WITH shown <- shownA
FrameB == INSTANCE Visualisation WITH shown <- shownB
FrameC == INSTANCE Visualisation WITH shown <- shownC
FrameF == INSTANCE Visualisation WITH shown <- shownF

EyesAgree == FrameA!Spec /\ FrameB!Spec /\ FrameC!Spec /\ FrameF!Spec

(***************************************************************************)
(* Why they do: every count of passes has the parity of the eye, so that   *)
(* no period ends between the eyes, and what the first eye was shown is    *)
(* what the second is about to be.                                         *)
(***************************************************************************)
PeriodsEndWithFrames ==
  /\ idxA % 2 = eye /\ cycle2B % 2 = eye
  /\ ~ visC!last => idxC % 2 = eye
  /\ ~ visF!last => idxF % 2 = eye
  /\ eye = 1 =>
       /\ shownA = visA!oldest .. visA!start
       /\ shownC = [c \in Companies |-> visC!Records(c)]
       /\ shownF = [c \in Companies |-> visF!Record(c)]

(***************************************************************************)
(* The replay leaves nothing out and never goes back: from one pass to the *)
(* next each heatmap row and the newest trade of the Graph3D move by one   *)
(* at most, and a trade that leaves the Graph3D is older than all it keeps.*)
(***************************************************************************)
NoRecordSkipped ==
  [][ Drawn =>
        /\ \A c \in Companies :
             /\ shownF'[c] \in {shownF[c], shownF[c] + 1}
             /\ shownC'[c].curr \in {shownC[c].curr, shownC[c].curr + 1}
        /\ \A i \in shownA' \ shownA :
             i = 1 \/ (i - 1 \in shownA /\ \A j \in shownA : j < i)
        /\ \A i \in shownA \ shownA' : shownA' # {} /\ \A j \in shownA' : i < j
    ]_<<shownA, shownC, shownF>>

(***************************************************************************)
(* The bubbles show one moment: all stand at the record of the same number *)
(* unless their records have run out.  Past their end they stand at an     *)
(* index that is one too far, and no further.                              *)
(***************************************************************************)
BubblesShowOneMoment ==
  shownB # visB!Blank =>
    \E t \in 0 .. cycleB :
      /\ t % PERIOD = 0 /\ cycleB - t <= PERIOD
      /\ \A c \in BubbleCompanies :
           shownB[c] = IF t < retailStatesCnt[c] THEN t ELSE retailStatesCnt[c]

(***************************************************************************)
(* A bubble is "based on bid and ask price" (AskBidBubbleChart.cpp) of a   *)
(* record of its company.  Past the end of the records it is based on      *)
(* whatever lies after them in memory.                                     *)
(***************************************************************************)
BubblesInBounds ==
  shownB # visB!Blank =>
    \A c \in BubbleCompanies : shownB[c] < retailStatesCnt[c]

(***************************************************************************)
(* If the window stays open the replay comes to its end on every chart and *)
(* stays there: the last record of each company, no more moves on visC,    *)
(* and the last trade.                                                     *)
(***************************************************************************)
AtTheEnd ==
  /\ \A c \in Companies :
       /\ shownF[c] = retailStatesCnt[c] - 1
       /\ shownC[c] = [prev |-> shownF[c], curr |-> shownF[c]]
  /\ lastDoneCnt > 1 => lastDoneCnt - 1 \in shownA

PlaybackEnds == []open => <>[](Drawn /\ AtTheEnd)
=============================================================================
