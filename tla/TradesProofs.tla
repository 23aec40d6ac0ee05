---------------------------- MODULE TradesProofs ----------------------------
(***************************************************************************)
(* The live charts, for all companies of the code, all the rows its source *)
(* can make up, every even period above 2 and any number of points.        *)
(***************************************************************************)
EXTENDS Trades, SequenceTheorems, TLAPS

(* What a row is, and how far it moves its bar. *)
LEMMA RowsInRange ==
  ASSUME NEW row \in Rows
  PROVE  /\ row.type \in {"buy", "sell"} /\ row.company \in Companies
         /\ row.cost \in 91 .. 119 /\ row.volume \in 1 .. 10
<1>1. \/ row \in [type : {"buy"}, company : Companies, cost : BuyCosts, volume : Volumes]
      \/ row \in [type : {"sell"}, company : Companies, cost : SellCosts, volume : Volumes]
  BY DEF Rows
<1>2. /\ row.type \in {"buy", "sell"} /\ row.company \in Companies
      /\ row.cost \in BuyCosts \/ row.cost \in SellCosts
      /\ row.volume \in Volumes
  BY <1>1
<1>3. 91 .. 105 \subseteq 91 .. 119 /\ 105 .. 119 \subseteq 91 .. 119
  OBVIOUS
<1> QED BY <1>2, <1>3, CostsInRange, VolumesInRange

LEMMA MovesABar ==
  ASSUME NEW row \in Rows
  PROVE  /\ row.type = "buy" => visD!scalex(row) \in 1 .. 1000
         /\ row.type # "buy" => visD!scalex(row) \in -1000 .. -1
<1>1. row.cost \in 91 .. 119 /\ row.volume \in 1 .. 10
  BY RowsInRange
<1>2. ASSUME NEW a \in 91 .. 119, NEW b \in 1 .. 10 PROVE a * b \in Nat \ {0}
  OBVIOUS
<1>3. PICK n \in Nat \ {0} : n = row.cost * row.volume
  BY <1>1, <1>2
<1>4. CASE row.type = "buy"
  <2>1. visD!scalex(row) = visD!AtMost(1000, n)
    BY <1>3, <1>4 DEF visD!scalex
  <2>2. visD!scalex(row) \in 1 .. 1000
    BY <2>1 DEF visD!AtMost
  <2> QED BY <1>4, <2>2
<1>5. CASE row.type # "buy"
  <2>1. visD!scalex(row) = - visD!AtMost(1000, n)
    BY <1>3, <1>5 DEF visD!scalex
  <2>2. visD!scalex(row) \in -1000 .. -1
    BY <2>1 DEF visD!AtMost
  <2> QED BY <1>5, <2>2
<1> QED BY <1>4, <1>5

(* A limited bar points to the side it is pushed to only if it gets there. *)
LEMMA ClampedBar ==
  ASSUME NEW v \in Lengths, NEW row \in Rows, NEW w, w = visD!Clamped(v + visD!scalex(row))
  PROVE  /\ w \in Lengths
         /\ w = 1500 => row.type = "buy"
         /\ w = -1500 => row.type = "sell"
<1>1. row.type \in {"buy", "sell"}
  BY RowsInRange
<1>2. ASSUME NEW m \in 1 .. 1000
      PROVE  visD!Clamped(v + m) \in Lengths /\ visD!Clamped(v + m) # -1500
  BY DEF visD!Clamped, visD!AtMost, Lengths
<1>3. ASSUME NEW m \in -1000 .. -1
      PROVE  visD!Clamped(v + m) \in Lengths /\ visD!Clamped(v + m) # 1500
  BY DEF visD!Clamped, visD!AtMost, Lengths
<1>4. CASE row.type = "buy"
  <2>1. visD!scalex(row) \in 1 .. 1000
    BY <1>4, MovesABar
  <2>2. w \in Lengths /\ w # -1500
    BY <1>2, <2>1
  <2> QED BY <1>4, <2>2
<1>5. CASE row.type = "sell"
  <2>1. visD!scalex(row) \in -1000 .. -1
    BY <1>5, MovesABar
  <2>2. w \in Lengths /\ w # 1500
    BY <1>3, <2>1
  <2> QED BY <1>5, <2>2
<1> QED BY <1>1, <1>4, <1>5

LEMMA NextCount ==
  ASSUME NEW n \in 0 .. PERIOD - 1
  PROVE  /\ (n + 1) % PERIOD = IF n + 1 < PERIOD THEN n + 1 ELSE 0
         /\ (n + 1) % PERIOD \in 0 .. PERIOD - 1
<1>1. CASE n + 1 < PERIOD
  BY <1>1, PeriodOK
<1>2. CASE n + 1 = PERIOD
  BY <1>2, PeriodOK
<1> QED BY <1>1, <1>2, PeriodOK

-----------------------------------------------------------------------------
LEMMA TypesOfD ==
  ASSUME TypeOK, NEW row \in Rows, visD!Render(row)
  PROVE  /\ companyScales' \in [Companies -> Lengths]
         /\ companyColours' \in [Companies -> Colours]
         /\ cycleD' \in 0 .. PERIOD - 1
<1>1. cycleD' \in 0 .. PERIOD - 1
  BY NextCount DEF visD!Render, TypeOK
<1>2. visD!Scaled(row) \in [Companies -> Lengths]
  <2>1. companyScales \in [Companies -> Lengths]
    BY DEF TypeOK
  <2>2. \A c \in Companies : visD!Clamped(companyScales[c] + visD!scalex(row)) \in Lengths
    BY <2>1, ClampedBar
  <2> QED BY <2>1, <2>2 DEF visD!Scaled
<1>3. visD!Blued(row) \in [Companies -> Colours]
  <2>1. visD!boxb(row.type) \in {0, 2, 4}
    BY DEF visD!boxb
  <2>2. ASSUME NEW colour \in Colours, NEW z \in {0, 2, 4}
        PROVE  [colour EXCEPT !.z = z] \in Colours
    BY <2>2 DEF Colours
  <2>3. companyColours \in [Companies -> Colours]
    BY DEF TypeOK
  <2>4. \A c \in Companies : [companyColours[c] EXCEPT !.z = visD!boxb(row.type)] \in Colours
    BY <2>1, <2>2, <2>3
  <2> QED BY <2>3, <2>4 DEF visD!Blued
<1>4. ASSUME NEW scales, NEW colours \in [Companies -> Colours]
      PROVE  visD!Recoloured(scales, colours) \in [Companies -> Colours]
  BY <1>4 DEF visD!Recoloured, Colours
<1>5. companyScales \in [Companies -> Lengths] /\ companyColours \in [Companies -> Colours]
  BY DEF TypeOK
<1> QED BY <1>1, <1>2, <1>3, <1>4, <1>5 DEF visD!Render

LEMMA TypesOfE ==
  ASSUME TypeOK, NEW row \in Rows, visE!Render(row)
  PROVE  companyPrice' \in [1 .. POINTS -> Prices] /\ cycleE' \in 0 .. PERIOD - 1
<1>1. cycleE' \in 0 .. PERIOD - 1
  <2>1. 2 % PERIOD \in 0 .. PERIOD - 1
    BY PeriodOK
  <2>2. cycleE \in 0 .. PERIOD - 1 /\ (0 + 2) % PERIOD = 2 % PERIOD
    BY DEF TypeOK
  <2> QED BY <2>1, <2>2, NextCount DEF visE!Render
<1>2. CASE cycleE = 0
  <2>1. companyPrice \in Seq(Prices) /\ Len(companyPrice) = POINTS
    BY PointsOK DEF TypeOK
  <2>2. visE!newPrice(row) \in Prices
    <3>1. row.cost \in 91 .. 119
      BY RowsInRange
    <3>2. ASSUME NEW n \in 91 .. 119 PROVE 3 * (n - 100) \in Prices
      BY DEF Prices
    <3> QED BY <3>1, <3>2 DEF visE!newPrice
  <2>3. Tail(companyPrice) \in Seq(Prices) /\ Len(Tail(companyPrice)) = POINTS - 1
    BY <2>1, PointsOK
  <2>4. visE!Shifted(row) \in Seq(Prices) /\ Len(visE!Shifted(row)) = POINTS
    BY <2>2, <2>3, PointsOK DEF visE!Shifted
  <2>5. visE!Shifted(row) \in [1 .. POINTS -> Prices]
    BY <2>4, LenProperties
  <2> QED BY <1>1, <1>2, <2>5 DEF visE!Render
<1>3. companyPrice \in [1 .. POINTS -> Prices]
  BY DEF TypeOK
<1> QED BY <1>1, <1>2, <1>3 DEF visE!Render

LEMMA Typing == ASSUME TypeOK, [Pass]_vars PROVE TypeOK'
<1>1. CASE Pass
  <2>1. PICK rowD \in Rows, rowE \in Rows :
          /\ visD!Render(rowD) /\ visE!Render(rowE)
          /\ eye' = 1 - eye
          /\ lastType' = IF cycleD = 0 THEN [lastType EXCEPT ![rowD.company] = rowD.type]
                         ELSE lastType
          /\ seenBy' = IF cycleE = 0 THEN {eye} ELSE seenBy \cup {eye}
    BY <1>1 DEF Pass
  <2>2. lastType' \in [Companies -> {"none", "buy", "sell"}]
    BY <2>1, RowsInRange DEF TypeOK
  <2>3. eye' \in {0, 1} /\ seenBy' \in SUBSET {0, 1}
    BY <2>1 DEF TypeOK
  <2>4. /\ companyScales' \in [Companies -> Lengths]
        /\ companyColours' \in [Companies -> Colours]
        /\ cycleD' \in 0 .. PERIOD - 1
    BY <2>1, TypesOfD
  <2>5. companyPrice' \in [1 .. POINTS -> Prices] /\ cycleE' \in 0 .. PERIOD - 1
    BY <2>1, TypesOfE
  <2> QED BY <2>2, <2>3, <2>4, <2>5 DEF TypeOK, Colours
<1>2. CASE UNCHANGED vars
  BY <1>2 DEF vars, TypeOK, Colours
<1> QED BY <1>1, <1>2

(* The type invariant of the two charts. *)
THEOREM TypeInvariant == Spec => []TypeOK
<1>1. Init => TypeOK
  <2> SUFFICES ASSUME Init PROVE TypeOK
    OBVIOUS
  <2>1. companyColours \in [Companies -> Colours]
    BY DEF Init, visD!Init, Colours
  <2>2. companyPrice \in [1 .. POINTS -> Prices]
    <3>1. companyPrice = [i \in 1 .. POINTS |-> 50] /\ 50 \in Prices
      BY DEF Init, visE!Init, Prices
    <3> QED BY <3>1
  <2>3. companyScales \in [Companies -> Lengths]
    <3>1. companyScales = [c \in Companies |-> 0] /\ 0 \in Lengths
      BY DEF Init, visD!Init, Lengths
    <3> QED BY <3>1
  <2> QED BY <2>3, <2>1, <2>2, PeriodOK DEF Init, visD!Init, visE!Init, TypeOK
<1> QED BY <1>1, Typing, PTL DEF Spec

-----------------------------------------------------------------------------
LEMMA LimitsFollow ==
  ASSUME TypeOK, BarsFollowTrades, [Pass]_vars PROVE BarsFollowTrades'
<1>1. CASE Pass
  <2>1. PICK rowD \in Rows :
          /\ visD!Render(rowD)
          /\ lastType' = IF cycleD = 0 THEN [lastType EXCEPT ![rowD.company] = rowD.type]
                         ELSE lastType
    BY <1>1 DEF Pass
  <2>2. CASE cycleD = 0
    <3> SUFFICES ASSUME NEW c \in Companies
                 PROVE  /\ companyScales'[c] = 1500 => lastType'[c] = "buy"
                        /\ companyScales'[c] = -1500 => lastType'[c] = "sell"
      BY DEF BarsFollowTrades
    <3>1. companyScales' = visD!Scaled(rowD)
      BY <2>1, <2>2 DEF visD!Render
    <3>2. CASE c = rowD.company
      <4>1. companyScales'[c] = visD!Clamped(companyScales[c] + visD!scalex(rowD))
        BY <3>1, <3>2 DEF visD!Scaled, TypeOK
      <4>2. lastType'[c] = rowD.type
        BY <2>1, <2>2, <3>2 DEF TypeOK
      <4>3. companyScales[c] \in Lengths
        BY DEF TypeOK
      <4> QED BY <4>1, <4>2, <4>3, ClampedBar
    <3>3. CASE c # rowD.company
      <4>1. companyScales'[c] = companyScales[c] /\ lastType'[c] = lastType[c]
        BY <2>1, <2>2, <3>1, <3>3 DEF visD!Scaled, TypeOK
      <4> QED BY <4>1 DEF BarsFollowTrades
    <3> QED BY <3>2, <3>3
  <2>3. CASE cycleD # 0
    BY <2>1, <2>3 DEF visD!Render, BarsFollowTrades
  <2> QED BY <2>2, <2>3
<1>2. CASE UNCHANGED vars
  BY <1>2 DEF vars, BarsFollowTrades
<1> QED BY <1>1, <1>2

(* A bar at its limit got there by its own company's trade to that side. *)
THEOREM LimitsAreTrades == Spec => []BarsFollowTrades
<1>1. Init => BarsFollowTrades
  <2> SUFFICES ASSUME Init, NEW c \in Companies
               PROVE  /\ companyScales[c] = 1500 => lastType[c] = "buy"
                      /\ companyScales[c] = -1500 => lastType[c] = "sell"
    BY DEF BarsFollowTrades
  <2>1. companyScales[c] = 0
    BY DEF Init, visD!Init
  <2> QED BY <2>1
<1> QED BY <1>1, LimitsFollow, TypeInvariant, PTL DEF Spec

LEMMA BluesFollow ==
  ASSUME TypeOK, BlueTellsOfTheOthers, [Pass]_vars PROVE BlueTellsOfTheOthers'
<1>1. CASE Pass
  <2>1. PICK rowD \in Rows :
          /\ visD!Render(rowD)
          /\ lastType' = IF cycleD = 0 THEN [lastType EXCEPT ![rowD.company] = rowD.type]
                         ELSE lastType
    BY <1>1 DEF Pass
  <2> SUFFICES ASSUME NEW c \in Companies \ {"MSFT", "AMZN"}, lastType'[c] # "none"
               PROVE  companyColours'[c].z = visD!boxb(lastType'[c])
    BY DEF BlueTellsOfTheOthers, BlueTells, visD!boxb
  <2>1a. lastType[c] # "none" => companyColours[c].z = visD!boxb(lastType[c])
    BY DEF BlueTellsOfTheOthers, BlueTells
  <2>2. CASE cycleD = 0
    <3>1. companyColours'[c].z = visD!Blued(rowD)[c].z
      BY <2>1, <2>2 DEF visD!Render, visD!Recoloured
    <3>2. CASE c = rowD.company
      <4>1. visD!BlueOf(rowD.company) = c
        BY <3>2 DEF visD!BlueOf
      <4>2. visD!Blued(rowD)[c].z = visD!boxb(rowD.type)
        BY <4>1 DEF visD!Blued, TypeOK, Colours
      <4>3. lastType'[c] = rowD.type
        BY <2>1, <2>2, <3>2 DEF TypeOK
      <4> QED BY <3>1, <4>2, <4>3
    <3>3. CASE c # rowD.company
      <4>1. visD!BlueOf(rowD.company) # c
        BY <3>3 DEF visD!BlueOf
      <4>2. visD!Blued(rowD)[c] = companyColours[c]
        BY <4>1 DEF visD!Blued, TypeOK
      <4>3. lastType'[c] = lastType[c]
        BY <2>1, <2>2, <3>3 DEF TypeOK
      <4> QED BY <2>1a, <3>1, <4>2, <4>3
    <3> QED BY <3>2, <3>3
  <2>3. CASE cycleD # 0
    BY <2>1, <2>1a, <2>3 DEF visD!Render, visD!Recoloured
  <2> QED BY <2>2, <2>3
<1>2. CASE UNCHANGED vars
  BY <1>2 DEF vars, BlueTellsOfTheOthers, BlueTells
<1> QED BY <1>1, <1>2

(* Every other company's blue is its own last trade's. *)
THEOREM BluesAreTrades == Spec => []BlueTellsOfTheOthers
<1>1. Init => BlueTellsOfTheOthers
  BY DEF Init, BlueTellsOfTheOthers, BlueTells
<1> QED BY <1>1, BluesFollow, TypeInvariant, PTL DEF Spec

-----------------------------------------------------------------------------
(* The first eye's passes have an even count and the second eye's an odd   *)
(* one, and from the first pass with a trade on, the colours are those of  *)
(* the bars: coloured again they are the same.                             *)
Painted ==
  /\ cycleD % 2 = eye
  /\ cycleD # 0 => companyColours = visD!Recoloured(companyScales, companyColours)

LEMMA StaysPainted == ASSUME TypeOK, Painted, [Pass]_vars PROVE Painted'
<1>1. CASE Pass
  <2>1. PICK rowD \in Rows : visD!Render(rowD)
    BY <1>1 DEF Pass
  <2>2. cycleD' % 2 = eye'
    <3>1. eye' = 1 - eye /\ cycleD' = IF cycleD + 1 < PERIOD THEN cycleD + 1 ELSE 0
      BY <1>1, <2>1, NextCount DEF Pass, visD!Render, TypeOK
    <3>2. cycleD \in 0 .. PERIOD - 1 /\ cycleD % 2 = eye /\ eye \in {0, 1}
      BY DEF Painted, TypeOK
    <3> QED BY <3>1, <3>2, PeriodOK
  <2>3. ASSUME NEW scales, NEW colours
        PROVE  visD!Recoloured(scales, visD!Recoloured(scales, colours)) =
                 visD!Recoloured(scales, colours)
    BY DEF visD!Recoloured
  <2>4. \E colours : companyColours' = visD!Recoloured(companyScales', colours)
    BY <2>1 DEF visD!Render
  <2>5. companyColours' = visD!Recoloured(companyScales', companyColours')
    BY <2>3, <2>4
  <2>6. Painted' = (/\ cycleD' % 2 = eye'
                    /\ cycleD' # 0 => companyColours' =
                         visD!Recoloured(companyScales', companyColours'))
    BY DEF Painted, visD!Recoloured
  <2> QED BY <2>2, <2>5, <2>6
<1>2. CASE UNCHANGED vars
  BY <1>2 DEF vars, Painted, visD!Recoloured
<1> QED BY <1>1, <1>2

(* Both eyes of every frame see the same bars. *)
THEOREM BothEyesSeeTheSameBars == Spec => BarsAgree
<1>1. Init => Painted /\ FrameD!Init
  BY DEF Init, visD!Init, Painted, FrameD!Init
<1>2. TypeOK /\ Painted /\ [Pass]_vars => [FrameD!Render]_(FrameD!frameVars)
  <2> SUFFICES ASSUME TypeOK, Painted, [Pass]_vars
               PROVE  [FrameD!Render]_(FrameD!frameVars)
    OBVIOUS
  <2>1. CASE Pass
    <3>1. PICK rowD \in Rows : visD!Render(rowD)
      BY <2>1 DEF Pass
    <3>2. ASSUME eye = 1
          PROVE  companyScales' = companyScales /\ companyColours' = companyColours
      <4>1. cycleD # 0
        BY <3>2 DEF Painted
      <4> QED BY <3>1, <4>1 DEF visD!Render, Painted
    <3> QED BY <2>1, <3>2 DEF Pass, FrameD!Render
  <2>2. CASE UNCHANGED vars
    BY <2>2 DEF vars, FrameD!frameVars
  <2> QED BY <2>1, <2>2
<1> QED BY <1>1, <1>2, StaysPainted, TypeInvariant, PTL DEF Spec, BarsAgree, FrameD!Spec

(* The pass of a new price is counted twice, so that the count after it is *)
(* 2, and one eye has seen it then.  At any other count both have.         *)
SeenLately ==
  /\ cycleE = 2 => 1 - eye \in seenBy
  /\ cycleE # 2 => seenBy = {0, 1}

LEMMA StaysSeen == ASSUME TypeOK, SeenLately, [Pass]_vars PROVE SeenLately'
<1>1. CASE Pass
  <2>1. PICK rowE \in Rows : visE!Render(rowE)
    BY <1>1 DEF Pass
  <2>2. CASE cycleE = 0
    <3>1. cycleE' = 2
      <4>1. 2 % PERIOD = 2
        BY PeriodOK
      <4> QED BY <2>1, <2>2, <4>1 DEF visE!Render
    <3> QED BY <1>1, <2>2, <3>1 DEF Pass, SeenLately, TypeOK
  <2>3. CASE cycleE # 0
    <3>1. cycleE' = IF cycleE + 1 < PERIOD THEN cycleE + 1 ELSE 0
      BY <2>1, <2>3, NextCount DEF visE!Render, TypeOK
    <3>2. seenBy' = seenBy \cup {eye} /\ eye' = 1 - eye
      BY <1>1, <2>3 DEF Pass
    <3>3. seenBy' = {0, 1}
      <4>1. CASE cycleE = 2
        <5>1. 1 - eye \in seenBy /\ eye \in {0, 1} /\ seenBy \in SUBSET {0, 1}
          BY <4>1 DEF SeenLately, TypeOK
        <5>2. {eye, 1 - eye} = {0, 1}
          BY <5>1
        <5> QED BY <3>2, <5>1, <5>2
      <4>2. CASE cycleE # 2
        <5>1. seenBy = {0, 1} /\ eye \in {0, 1}
          BY <4>2 DEF SeenLately, TypeOK
        <5> QED BY <3>2, <5>1
      <4> QED BY <4>1, <4>2
    <3> QED BY <3>2, <3>3 DEF SeenLately, TypeOK
  <2> QED BY <2>2, <2>3
<1>2. CASE UNCHANGED vars
  BY <1>2 DEF vars, SeenLately
<1> QED BY <1>1, <1>2

(* No price leaves the screen before both eyes have seen it. *)
THEOREM PricesAreSeen == Spec => SeenByBothEyes
<1>1. Init => SeenLately
  BY DEF Init, visE!Init, SeenLately
<1>2. SeenLately /\ [Pass]_vars => [companyPrice' # companyPrice => seenBy = {0, 1}]_vars
  BY DEF Pass, visE!Render, SeenLately
<1> QED BY <1>1, <1>2, StaysSeen, TypeInvariant, PTL DEF Spec, SeenByBothEyes
=============================================================================
