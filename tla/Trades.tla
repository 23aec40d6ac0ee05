------------------------------- MODULE Trades -------------------------------
(***************************************************************************)
(* The two live charts, visD (BuySellBarVisualisation) and visE (LineGraph)*)
(* of gui/Display.cpp, each with a CSV reader over a random source of its  *)
(* own, driven by the passes of RunDisplay.  Beside their state the module *)
(* keeps what an onlooker would: the side of the last trade of each        *)
(* company, and which eyes have seen the prices as they now are.           *)
(***************************************************************************)
EXTENDS RandomCSVSimpleReader, Sequences

CONSTANTS
  PERIOD,      \* 50, in both charts
  POINTS       \* 20

(* A trade of MSFT colours the bar of AMZN. *)
ASSUME CompaniesKnown ==
  /\ Companies \subseteq {"GOOG", "FB", "AAPL", "MSFT", "AMZN"}
  /\ "MSFT" \in Companies => "AMZN" \in Companies
ASSUME PeriodOK == PERIOD \in Nat \ {0, 1, 2} /\ PERIOD % 2 = 0
ASSUME PointsOK == POINTS \in Nat \ {0}

VARIABLES
  eye,
  companyScales, companyColours, cycleD,   \* BuySellBarVisualisation
  companyPrice, cycleE,                    \* LineGraph
  lastType,                                \* [company -> its last trade]
  seenBy                                   \* the eyes that saw companyPrice

vars == <<eye, companyScales, companyColours, cycleD, companyPrice, cycleE,
          lastType, seenBy>>

visD == INSTANCE BuySellBarVisualisation WITH cycle <- cycleD
visE == INSTANCE LineGraph WITH cycle <- cycleE

Init ==
  /\ eye = 0
  /\ visD!Init /\ visE!Init
  /\ lastType = [c \in Companies |-> "none"]
  /\ seenBy = {0, 1}

(* A pass of RunDisplay; a row that a chart does not ask for has no effect. *)
Pass ==
  \E rowD, rowE \in Rows :
    /\ visD!Render(rowD)
    /\ visE!Render(rowE)
    /\ eye' = 1 - eye
    /\ lastType' = IF cycleD = 0 THEN [lastType EXCEPT ![rowD.company] = rowD.type]
                   ELSE lastType
    /\ seenBy' = IF cycleE = 0 THEN {eye} ELSE seenBy \cup {eye}

(* The loop of RunDisplay goes on. *)
Spec == Init /\ [][Pass]_vars /\ WF_vars(Pass)

-----------------------------------------------------------------------------
Lengths == -1500 .. 1500
Prices == -27 .. 57
Colours == [x : {0, 8, 10}, y : {0, 8}, z : {0, 2, 4}]

TypeOK ==
  /\ eye \in {0, 1}
  /\ companyScales \in [Companies -> Lengths]
  /\ companyColours \in [Companies -> Colours]
  /\ cycleD \in 0 .. PERIOD - 1 /\ cycleE \in 0 .. PERIOD - 1
  /\ companyPrice \in [1 .. POINTS -> Prices]
  /\ lastType \in [Companies -> {"none", "buy", "sell"}]
  /\ seenBy \in SUBSET {0, 1}

(***************************************************************************)
(* visD is a Visualisation: bars and colours change between two frames, so *)
(* the two eyes of a frame see the same bars.                              *)
(***************************************************************************)
FrameD == INSTANCE Visualisation WITH shown <- <<companyScales, companyColours>>
BarsAgree == FrameD!Spec

(***************************************************************************)
(* A bar is as long as it gets only after a trade to that side, in its own *)
(* company: clamping never turns a bar round, and no other company's trade *)
(* takes it to the limit.                                                  *)
(***************************************************************************)
BarsFollowTrades ==
  \A c \in Companies :
    /\ companyScales[c] = 1500 => lastType[c] = "buy"
    /\ companyScales[c] = -1500 => lastType[c] = "sell"

(***************************************************************************)
(* ComputeChange has to "Calculate offset and colour" of the company that  *)
(* traded (BuySellBarVisualisation.cpp).  Red and green are set again by   *)
(* every Render, so that blue alone tells the last trade of a company.     *)
(***************************************************************************)
BlueTells(c) ==
  lastType[c] # "none" => companyColours[c].z = visD!boxb(lastType[c])

(* It does for every company but MSFT, whose trades colour the bar of AMZN. *)
BlueTellsOfTheOthers == \A c \in Companies \ {"MSFT", "AMZN"} : BlueTells(c)
BlueTellsOfAll == \A c \in Companies : BlueTells(c)

(***************************************************************************)
(* A price stays on the graph for both eyes to see: new ones arrive only   *)
(* after a pass for each eye with the prices as they were.                 *)
(***************************************************************************)
SeenByBothEyes == [][companyPrice' # companyPrice => seenBy = {0, 1}]_vars

(***************************************************************************)
(* What RunDisplay "need[s] to render twice, once for each eye" is one     *)
(* graph.  It is not in every frame: from one price to the next there are  *)
(* 49 passes, an odd number, so every second price arrives between the two *)
(* eyes of a frame.                                                        *)
(***************************************************************************)
FrameE == INSTANCE Visualisation WITH shown <- companyPrice
GraphsAgree == FrameE!Spec
=============================================================================
