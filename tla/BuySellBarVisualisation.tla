---------------------- MODULE BuySellBarVisualisation -----------------------
(***************************************************************************)
(* DataPrograms/BuySellBarVisualisation.cpp: a bar per company that every  *)
(* trade lengthens to the side it was on.  A trade arrives once in PERIOD  *)
(* passes.  Lengths are in thousandths, parts of a colour in tenths.       *)
(***************************************************************************)
EXTENDS Integers

CONSTANTS
  Companies,          \* some of those the code names
  PERIOD              \* the 50 of Render

VARIABLES companyScales, companyColours, cycle

Init ==
  /\ companyScales = [c \in Companies |-> 0]
  /\ companyColours = [c \in Companies |-> [x |-> 10, y |-> 0, z |-> 0]]
  /\ cycle = 0

AtMost(n, v) == IF v > n THEN n ELSE v

(* A bug to compare with: only one end of the bar is limited. *)
ClampedAbove(v) == AtMost(1500, v)

Clamped(v) == IF v < -1500 THEN -1500 ELSE AtMost(1500, v)

(* How much the trade of a row moves the bar of its company. *)
scalex(row) ==
  LET totalcost == AtMost(1000, row.cost * row.volume)
  IN  IF row.type = "buy" THEN totalcost ELSE - totalcost

boxb(type) == IF type = "buy" THEN 2 ELSE 4

(* A bug to compare with: a trade in GOOG sets the blue of MSFT. *)
BlueOfAnother(c) == IF c = "GOOG" THEN "MSFT" ELSE c

(* The company whose blue a trade in c sets. *)
BlueOf(c) == IF c = "MSFT" THEN "AMZN" ELSE c

(* A bug to compare with: the branch of GOOG adds to the bar of AMZN. *)
ScaledInto(row) ==
  [companyScales EXCEPT ![IF row.company = "GOOG" THEN "AMZN" ELSE row.company] =
     Clamped(@ + scalex(row))]

Scaled(row) ==
  [companyScales EXCEPT ![row.company] = Clamped(@ + scalex(row))]

Blued(row) ==
  [companyColours EXCEPT ![BlueOf(row.company)].z = boxb(row.type)]

(* Red and green follow the side a bar stands on, blue stays as it was. *)
Recoloured(scales, colours) ==
  [c \in Companies |->
     IF scales[c] < 0 THEN [x |-> 0, y |-> 8, z |-> colours[c].z]
     ELSE [x |-> 8, y |-> 0, z |-> colours[c].z]]

(* A bug to compare with: the pass a trade arrives in is counted twice. *)
RenderCountingTwice(row) ==
  \/ /\ cycle = 0
     /\ companyScales' = Scaled(row)
     /\ companyColours' = Recoloured(Scaled(row), Blued(row))
     /\ cycle' = (cycle + 2) % PERIOD
  \/ /\ cycle # 0
     /\ companyScales' = companyScales
     /\ companyColours' = Recoloured(companyScales, companyColours)
     /\ cycle' = (cycle + 1) % PERIOD

(* A pass, with `row' what GetNextData would give it; the red and green    *)
(* that ComputeChange gives the company are set again by the loop over the *)
(* bars.                                                                   *)
Render(row) ==
  /\ \/ /\ cycle = 0
        /\ companyScales' = Scaled(row)
        /\ companyColours' = Recoloured(Scaled(row), Blued(row))
     \/ /\ cycle # 0
        /\ companyScales' = companyScales
        /\ companyColours' = Recoloured(companyScales, companyColours)
  /\ cycle' = (cycle + 1) % PERIOD
=============================================================================
