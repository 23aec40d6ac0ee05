----------------------------- MODULE LineGraph ------------------------------
(***************************************************************************)
(* DataPrograms/LineGraph.cpp: the last POINTS prices, of whatever company *)
(* they were, as a line that moves to the left when a new one arrives.     *)
(* ComputeChange counts the pass it belongs to, and Render counts it once  *)
(* more: from one price to the next there are PERIOD - 1 passes.           *)
(***************************************************************************)
EXTENDS Integers, Sequences

CONSTANTS
  POINTS,    \* 20
  PERIOD     \* the 50 of Render

VARIABLES
  companyPrice,    \* in hundredths
  cycle

Init ==
  /\ companyPrice = [i \in 1 .. POINTS |-> 50]
  /\ cycle = 0

newPrice(row) == 3 * (row.cost - 100)

Shifted(row) == Append(Tail(companyPrice), newPrice(row))

(* A bug to compare with: the test for the end of the period is missing. *)
RenderAlwaysMoving(row) ==
  /\ companyPrice' = Shifted(row)
  /\ cycle' = (cycle + 2) % PERIOD

(* A pass, with `row' what GetNextData would give it. *)
Render(row) ==
  \/ /\ cycle = 0
     /\ companyPrice' = Shifted(row)
     /\ cycle' = (cycle + 2) % PERIOD
  \/ /\ cycle # 0
     /\ companyPrice' = companyPrice
     /\ cycle' = (cycle + 1) % PERIOD
=============================================================================
