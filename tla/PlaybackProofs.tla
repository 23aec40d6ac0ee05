--------------------------- MODULE PlaybackProofs ---------------------------
(***************************************************************************)
(* The charts that replay the archive, for every set of companies, every   *)
(* length of their archives, every pair of even periods and however long   *)
(* the display runs.                                                       *)
(***************************************************************************)
EXTENDS Playback, TLAPS

USE DEF archive, varsA, varsB, varsC, varsF

(* An odd number of passes never ends an even period. *)
LEMMA OddEndsNoPeriod ==
  ASSUME NEW n \in Nat, NEW u \in Nat \ {0}, u % 2 = 0, n % 2 = 1
  PROVE  n % u # 0
<1> SUFFICES ASSUME n % u = 0 PROVE FALSE
  OBVIOUS
<1>1. PICK h \in Nat : u = 2 * h
  OBVIOUS
<1>2. PICK q \in Nat : n = u * q
  <2>1. n = u * (n \div u) + (n % u)
    OBVIOUS
  <2>2. n \div u \in Nat
    OBVIOUS
  <2>3. ASSUME NEW q \in Nat, n = u * q + 0 PROVE n = u * q
    BY <2>3
  <2> QED BY <2>1, <2>2, <2>3
<1>3. n = 2 * (h * q) /\ h * q \in Nat
  BY <1>1, <1>2
<1>4. ASSUME NEW k \in Nat PROVE (2 * k) % 2 = 0
  OBVIOUS
<1> QED BY <1>3, <1>4

(* Every archive holds a record of each company. *)
LEMMA ArchiveHolds ==
  ASSUME TypeOK PROVE \A c \in Companies : retailStatesCnt[c] \in Nat \ {0}
BY SomeRecords DEF TypeOK

-----------------------------------------------------------------------------
(* What a pass does to each chart, as far as types go. *)
LEMMA TypesOfA ==
  ASSUME TypeOK, visA!Render
  PROVE  idxA' \in Nat /\ cycleA' \in Nat /\ shownA' \in SUBSET Nat
<1>1. lastDoneCnt \in Nat /\ SHOW_CNT \in Nat
  BY TradesCounted, Bounds DEF TypeOK
<1>2. visA!start \in Int /\ visA!oldest \in Nat
  BY <1>1 DEF TypeOK, visA!start, visA!oldest
<1>3. shownA' \in SUBSET Nat
  BY <1>2 DEF visA!Render
<1> QED BY <1>3, EvenPeriods DEF TypeOK, visA!Render

LEMMA TypesOfB ==
  ASSUME TypeOK, visB!Render, cycleB < INT_MAX
  PROVE  /\ cycleB' \in 0 .. INT_MAX /\ cycle2B' \in 0 .. PERIOD - 1
         /\ shownB' \in [BubbleCompanies -> Nat] \cup {visB!Blank}
<1>1. cycleB' \in 0 .. INT_MAX
  BY Bounds DEF TypeOK, visB!Render
<1>2. cycle2B' \in 0 .. PERIOD - 1
  BY EvenPeriods DEF TypeOK, visB!Render
<1>3. CASE cycle2B = 0
  <2>1. \A c \in BubbleCompanies : visB!index(c) \in Nat
    <3>1. cycleB \in Nat /\ \A c \in Companies : retailStatesCnt[c] \in Nat \ {0}
      BY ArchiveHolds, Bounds DEF TypeOK
    <3> QED BY <3>1, BubblesHaveRows DEF visB!index
  <2> QED BY <1>1, <1>2, <1>3, <2>1 DEF visB!Render, visB!ComputeChange
<1>4. CASE cycle2B # 0
  BY <1>1, <1>2, <1>4 DEF TypeOK, visB!Render
<1> QED BY <1>3, <1>4

LEMMA TypesOfC ==
  ASSUME TypeOK, visC!Render
  PROVE  /\ idxC' \in Nat /\ cycleC' \in Nat \ {0}
         /\ shownC' \in [Companies -> [prev : Int, curr : Int]]
<1>1. idxC' \in Nat /\ cycleC' \in Nat \ {0}
  BY EvenPeriods DEF TypeOK, visC!Render, visC!Advance, visC!Tick
<1>2. \A c \in Companies : visC!Records(c) \in [prev : Int, curr : Int]
  <2>1. cycleC \in Nat /\ \A c \in Companies : retailStatesCnt[c] \in Nat \ {0}
    BY ArchiveHolds DEF TypeOK
  <2>2. ASSUME NEW c \in Companies, NEW i \in Int PROVE visC!AtMostLast(c, i) \in Int
    <3>1. retailStatesCnt[c] \in Int
      BY <2>1
    <3> QED BY <3>1 DEF visC!AtMostLast
  <2> TAKE c \in Companies
  <2>3. cycleC \in Int /\ cycleC - 1 \in Int
    BY <2>1
  <2>4. visC!AtMostLast(c, cycleC - 1) \in Int
    BY <2>2, <2>3
  <2>5. visC!AtMostLast(c, cycleC) \in Int
    BY <2>2, <2>3
  <2> QED BY <2>4, <2>5 DEF visC!Records
<1> QED BY <1>1, <1>2 DEF visC!Render

LEMMA TypesOfF ==
  ASSUME TypeOK, visF!Render
  PROVE  /\ idxF' \in Nat /\ cycleF' \in Nat
         /\ shownF' \in [Companies -> Int]
<1>1. idxF' \in Nat /\ cycleF' \in Nat
  BY EvenPeriods DEF TypeOK, visF!Render, visF!Advance, visF!Tick
<1>2. \A c \in Companies : visF!Record(c) \in Int
  <2>1. cycleF \in Nat /\ \A c \in Companies : retailStatesCnt[c] \in Nat \ {0}
    BY ArchiveHolds DEF TypeOK
  <2> TAKE c \in Companies
  <2>2. retailStatesCnt[c] \in Int
    BY <2>1
  <2> QED BY <2>1, <2>2 DEF visF!Record
<1> QED BY <1>1, <1>2 DEF visF!Render

LEMMA Typing == ASSUME TypeOK, [Next]_vars PROVE TypeOK'
<1>1. CASE Pass
  <2>1. /\ open' \in BOOLEAN /\ eye' \in {0, 1}
        /\ retailStatesCnt' \in [Companies -> RecordCounts]
        /\ lastDoneCnt' \in TradeCounts
    BY <1>1 DEF TypeOK, Pass
  <2> QED BY <1>1, <2>1, TypesOfA, TypesOfB, TypesOfC, TypesOfF DEF TypeOK, Pass
<1>2. CASE Close
  BY <1>2 DEF TypeOK, Close
<1>3. CASE UNCHANGED vars
  BY <1>3 DEF TypeOK, vars
<1> QED BY <1>1, <1>2, <1>3 DEF Next

LEMMA Starts == Init => TypeOK
<1> SUFFICES ASSUME Init PROVE TypeOK
  OBVIOUS
<1>1. 0 \in 0 .. INT_MAX /\ 0 \in 0 .. PERIOD - 1
  BY Bounds, EvenPeriods
<1> QED BY <1>1 DEF Init, TypeOK, visA!Init, visB!Init, visC!Init, visF!Init

(* The type invariant of the display of the archive. *)
THEOREM TypeInvariant == Spec => []TypeOK
<1>1. TypeOK /\ [Next]_vars => TypeOK'
  BY Typing
<1> QED BY <1>1, Starts, PTL DEF Spec

-----------------------------------------------------------------------------
(* What the indices that a pass computes point at. *)
LEMMA RecordIsThere ==
  ASSUME TypeOK, NEW c \in Companies
  PROVE  visF!Record(c) \in 0 .. retailStatesCnt[c] - 1
<1>1. cycleF \in Nat /\ retailStatesCnt[c] \in Nat \ {0}
  BY ArchiveHolds DEF TypeOK
<1> QED BY <1>1 DEF visF!Record

LEMMA RecordsAreThere ==
  ASSUME TypeOK, NEW c \in Companies
  PROVE  /\ visC!Records(c).prev \in 0 .. retailStatesCnt[c] - 1
         /\ visC!Records(c).curr \in 0 .. retailStatesCnt[c] - 1
<1>1. cycleC \in Nat \ {0} /\ retailStatesCnt[c] \in Nat \ {0}
  BY ArchiveHolds DEF TypeOK
<1>2. ASSUME NEW i \in Nat
      PROVE  visC!AtMostLast(c, i) \in 0 .. retailStatesCnt[c] - 1
  BY <1>1 DEF visC!AtMostLast
<1>3. cycleC - 1 \in Nat /\ cycleC \in Nat
  BY <1>1
<1>4. visC!AtMostLast(c, cycleC - 1) \in 0 .. retailStatesCnt[c] - 1
  BY <1>2, <1>3
<1>5. visC!AtMostLast(c, cycleC) \in 0 .. retailStatesCnt[c] - 1
  BY <1>2, <1>3
<1> QED BY <1>4, <1>5 DEF visC!Records

LEMMA TradesAreThere ==
  ASSUME TypeOK
  PROVE  \A i \in visA!oldest .. visA!start : {i - 1, i} \subseteq 0 .. lastDoneCnt - 1
<1>1. lastDoneCnt \in Nat /\ cycleA \in Nat /\ SHOW_CNT \in Nat
  BY TradesCounted, Bounds DEF TypeOK
<1>2. visA!start \in Int /\ visA!start <= lastDoneCnt - 1
  BY <1>1 DEF visA!start
<1>3. visA!oldest \in Nat /\ visA!oldest >= 1
  BY <1>1, <1>2 DEF visA!oldest
<1> QED BY <1>1, <1>2, <1>3

LEMMA StaysInBounds ==
  ASSUME TypeOK, RecordsInBounds, [Next]_vars PROVE RecordsInBounds'
<1>1. CASE Pass
  <2>1. UNCHANGED archive
    BY <1>1 DEF Pass
  <2>2. /\ shownF' = [c \in Companies |-> visF!Record(c)]
        /\ shownC' = [c \in Companies |-> visC!Records(c)]
        /\ shownA' = visA!oldest .. visA!start
    BY <1>1 DEF Pass, visA!Render, visC!Render, visF!Render
  <2> QED BY <2>1, <2>2, RecordIsThere, RecordsAreThere, TradesAreThere
          DEF RecordsInBounds
<1>2. CASE Close
  BY <1>2 DEF RecordsInBounds, Drawn, Close, visF!Blank
<1>3. CASE UNCHANGED vars
  BY <1>3 DEF RecordsInBounds, Drawn, vars, visF!Blank
<1> QED BY <1>1, <1>2, <1>3 DEF Next

(* No pass of any chart reads outside the archive, whatever the lengths of *)
(* its parts and however long it is replayed.                              *)
THEOREM NoReadOutOfBounds == Spec => []RecordsInBounds
<1>1. Init => RecordsInBounds
  BY DEF Init, RecordsInBounds, Drawn, visA!Init, visF!Init
<1>2. TypeOK /\ RecordsInBounds /\ [Next]_vars => RecordsInBounds'
  BY StaysInBounds
<1> QED BY <1>1, <1>2, TypeInvariant, PTL DEF Spec

-----------------------------------------------------------------------------
(* How far apart the two heatmaps are.  Both count while visC does; then   *)
(* visF counts alone until it has caught up, and both have stopped.        *)
LEMMA CountsAreNumbers ==
  ASSUME TypeOK
  PROVE  /\ cycleC \in Nat \ {0} /\ cycleF \in Nat /\ idxC \in Nat /\ idxF \in Nat
         /\ \A c \in Companies : retailStatesCnt[c] \in Nat \ {0}
BY ArchiveHolds DEF TypeOK

LEMMA PassKeepsTogether ==
  ASSUME TypeOK, HeatmapsTogether, visC!Advance, visF!Advance, UNCHANGED archive
  PROVE  HeatmapsTogether'
<1>1. cycleC \in Nat \ {0} /\ cycleF \in Nat
  BY CountsAreNumbers
<1>2. \A c \in Companies : retailStatesCnt[c] \in Nat \ {0}
  BY CountsAreNumbers
<1>3. UNCHANGED retailStatesCnt
  OBVIOUS
<1>4. CASE cycleC = cycleF + 1 /\ ~ visC!last
  <2>1. ~ visF!last
    BY <1>1, <1>2, <1>4 DEF visC!last, visF!last
  <2>2. visC!Tick /\ visF!Tick /\ idxC = idxF
    BY <1>1, <1>4, <2>1 DEF visC!Advance, visF!Advance, HeatmapsTogether
  <2>3. idxC' = idxF'
    BY <2>2 DEF visC!Tick, visF!Tick
  <2>4. cycleC' = cycleF' + 1
    BY <1>1, <1>4, <2>2, <2>3 DEF visC!Tick, visF!Tick
  <2> QED BY <2>3, <2>4 DEF HeatmapsTogether
<1>5. CASE cycleC = cycleF + 1 /\ visC!last
  <2>1. cycleC' = cycleC /\ visC!last'
    BY <1>3, <1>5 DEF visC!Advance, visC!last
  <2>2. CASE cycleF' = cycleF
    BY <1>5, <2>1, <2>2 DEF HeatmapsTogether
  <2>3. CASE cycleF' # cycleF
    <3>1. cycleF' = cycleF + 1
      BY <1>1, <2>3 DEF visF!Advance, visF!Tick
    <3>2. cycleC' = cycleF'
      BY <1>5, <2>1, <3>1
    <3>3. visF!last'
      BY <2>1, <3>2 DEF visC!last, visF!last
    <3> QED BY <3>2, <3>3 DEF HeatmapsTogether
  <2> QED BY <2>2, <2>3
<1>6. CASE cycleC = cycleF /\ visF!last
  <2>1. visC!last
    BY <1>6 DEF visC!last, visF!last
  <2>2. cycleC' = cycleC /\ cycleF' = cycleF
    BY <1>6, <2>1 DEF visC!Advance, visF!Advance
  <2>3. visF!last'
    BY <1>3, <1>6, <2>2 DEF visF!last
  <2> QED BY <1>6, <2>2, <2>3 DEF HeatmapsTogether
<1> QED BY <1>4, <1>5, <1>6 DEF HeatmapsTogether

LEMMA StayTogether ==
  ASSUME TypeOK, HeatmapsTogether, [Next]_vars PROVE HeatmapsTogether'
<1>1. CASE Pass
  BY <1>1, PassKeepsTogether DEF Pass, visC!Render, visF!Render
<1>2. CASE UNCHANGED <<archive, varsC, varsF>>
  BY <1>2 DEF HeatmapsTogether, visC!last, visF!last
<1> QED BY <1>1, <1>2 DEF Next, Close, vars

(* The two heatmaps never drift apart, however long the archives are. *)
THEOREM NeverApart == Spec => []HeatmapsTogether
<1>1. Init => HeatmapsTogether
  BY DEF Init, HeatmapsTogether, visC!Init, visF!Init
<1>2. TypeOK /\ HeatmapsTogether /\ [Next]_vars => HeatmapsTogether'
  BY StayTogether
<1> QED BY <1>1, <1>2, TypeInvariant, PTL DEF Spec

LEMMA SameBaseline ==
  ASSUME TypeOK, HeatmapsTogether, NEW c \in Companies
  PROVE  visC!Records(c).prev = visF!Record(c)
<1>1. cycleC \in Nat \ {0} /\ cycleF \in Nat /\ retailStatesCnt[c] \in Nat \ {0}
  BY CountsAreNumbers
<1>2. visC!Records(c).prev = visC!AtMostLast(c, cycleC - 1)
  BY DEF visC!Records
<1>3. CASE cycleC = cycleF + 1
  BY <1>1, <1>2, <1>3 DEF visC!AtMostLast, visF!Record
<1>4. CASE cycleC = cycleF /\ visF!last
  <2>1. cycleF >= retailStatesCnt[c]
    BY <1>4 DEF visF!last
  <2> QED BY <1>1, <1>2, <1>4, <2>1 DEF visC!AtMostLast, visF!Record
<1> QED BY <1>3, <1>4 DEF HeatmapsTogether

LEMMA StaysOneBaseline ==
  ASSUME TypeOK, HeatmapsTogether, BaselineIsSpread, [Next]_vars
  PROVE  BaselineIsSpread'
<1>1. CASE Pass
  BY <1>1, SameBaseline DEF BaselineIsSpread, Pass, visC!Render, visF!Render
<1>2. CASE UNCHANGED <<shownC, shownF>>
  BY <1>2 DEF BaselineIsSpread, Drawn, visF!Blank
<1> QED BY <1>1, <1>2 DEF Next, Close, vars

(* The moves one heatmap shows start from the records the other shows. *)
THEOREM OneBaseline == Spec => []BaselineIsSpread
<1>1. Init => BaselineIsSpread
  BY DEF Init, BaselineIsSpread, Drawn, visF!Init
<1>2. TypeOK /\ HeatmapsTogether /\ BaselineIsSpread /\ [Next]_vars => BaselineIsSpread'
  BY StaysOneBaseline
<1> QED BY <1>1, <1>2, TypeInvariant, NeverApart, PTL DEF Spec

-----------------------------------------------------------------------------
(* A frame is two passes, so what is counted by passes has the parity of   *)
(* the eye, and a count that a first eye makes odd ends no period.         *)
LEMMA OneMore ==
  ASSUME NEW n \in Nat, NEW e \in {0, 1}, n % 2 = e
  PROVE  (n + 1) % 2 = 1 - e
OBVIOUS

LEMMA OneMoreOf ==
  ASSUME NEW u \in Nat \ {0}, u % 2 = 0, NEW n \in 0 .. u - 1, NEW e \in {0, 1}, n % 2 = e
  PROVE  ((n + 1) % u) % 2 = 1 - e
<1>1. n \in Nat /\ (n + 1) % 2 = 1 - e
  BY OneMore
<1>2. CASE n + 1 < u
  <2>1. (n + 1) % u = n + 1
    BY <1>2
  <2> QED BY <1>1, <2>1
<1>3. CASE n + 1 = u
  <2>1. (n + 1) % u = 0 /\ 1 - e = 0
    BY <1>1, <1>3
  <2> QED BY <2>1
<1> QED BY <1>2, <1>3

LEMMA FirstEyeEndsNoPeriod ==
  ASSUME NEW n \in Nat, n % 2 = 1 PROVE n % UPDATE_CYCLE_CNT # 0
BY OddEndsNoPeriod, EvenPeriods

LEMMA PeriodA ==
  ASSUME TypeOK, PeriodsEndWithFrames, visA!Render, UNCHANGED archive
  PROVE  /\ idxA' % 2 = 1 - eye
         /\ eye = 0 => shownA' = (visA!oldest .. visA!start)'
         /\ eye = 1 => shownA' = shownA
<1>1. idxA \in Nat /\ eye \in {0, 1} /\ idxA % 2 = eye /\ cycleA \in Nat
  BY DEF TypeOK, PeriodsEndWithFrames
<1>2. idxA' = idxA + 1 /\ idxA' % 2 = 1 - eye
  BY <1>1, OneMore DEF visA!Render
<1>3. ASSUME eye = 0 PROVE shownA' = (visA!oldest .. visA!start)'
  <2>1. idxA' % UPDATE_CYCLE_CNT # 0
    <3>1. idxA' \in Nat
      BY <1>1, <1>2
    <3>2. idxA' % 2 = 1
      BY <1>2, <1>3
    <3> QED BY <3>1, <3>2, FirstEyeEndsNoPeriod
  <2>2. cycleA' = cycleA
    BY <1>1, <2>1 DEF visA!Render
  <2> QED BY <2>2 DEF visA!Render, visA!oldest, visA!start
<1>4. ASSUME eye = 1 PROVE shownA' = shownA
  BY <1>4 DEF PeriodsEndWithFrames, visA!Render
<1> QED BY <1>2, <1>3, <1>4

LEMMA PeriodB ==
  ASSUME TypeOK, PeriodsEndWithFrames, visB!Render
  PROVE  /\ cycle2B' % 2 = 1 - eye
         /\ eye = 1 => shownB' = shownB
<1>1. cycle2B \in 0 .. PERIOD - 1 /\ eye \in {0, 1} /\ cycle2B % 2 = eye
  BY DEF TypeOK, PeriodsEndWithFrames
<1>2. cycle2B' % 2 = 1 - eye
  BY <1>1, OneMoreOf, EvenPeriods DEF visB!Render
<1>3. ASSUME eye = 1 PROVE shownB' = shownB
  <2>1. cycle2B # 0
    BY <1>1, <1>3
  <2> QED BY <2>1 DEF visB!Render
<1> QED BY <1>2, <1>3

LEMMA PeriodC ==
  ASSUME TypeOK, PeriodsEndWithFrames, visC!Render, UNCHANGED archive
  PROVE  /\ ~ visC!last' => idxC' % 2 = 1 - eye
         /\ eye = 0 => shownC' = [c \in Companies |-> visC!Records(c)]'
         /\ eye = 1 => shownC' = shownC
<1>1. idxC \in Nat /\ cycleC \in Nat /\ eye \in {0, 1}
  BY DEF TypeOK
<1>2. CASE visC!last
  <2>1. cycleC' = cycleC
    BY <1>2 DEF visC!Render, visC!Advance
  <2> QED BY <1>2, <2>1
          DEF visC!Render, visC!last, visC!Records, visC!AtMostLast, PeriodsEndWithFrames
<1>3. CASE ~ visC!last
  <2>1. visC!Tick /\ idxC % 2 = eye
    BY <1>3 DEF visC!Render, visC!Advance, PeriodsEndWithFrames
  <2>2. idxC' = idxC + 1 /\ idxC' % 2 = 1 - eye
    BY <1>1, <2>1, OneMore DEF visC!Tick
  <2>3. ASSUME eye = 0 PROVE shownC' = [c \in Companies |-> visC!Records(c)]'
    <3>1. idxC' % UPDATE_CYCLE_CNT # 0
      <4>1. idxC' \in Nat
        BY <1>1, <2>2
      <4>2. idxC' % 2 = 1
        BY <2>2, <2>3
      <4> QED BY <4>1, <4>2, FirstEyeEndsNoPeriod
    <3>2. cycleC' = cycleC
      BY <1>1, <2>1, <3>1 DEF visC!Tick
    <3> QED BY <3>2 DEF visC!Render, visC!Records, visC!AtMostLast
  <2>4. ASSUME eye = 1 PROVE shownC' = shownC
    BY <2>4 DEF visC!Render, PeriodsEndWithFrames
  <2> QED BY <2>2, <2>3, <2>4
<1> QED BY <1>2, <1>3

LEMMA PeriodF ==
  ASSUME TypeOK, PeriodsEndWithFrames, visF!Render, UNCHANGED archive
  PROVE  /\ ~ visF!last' => idxF' % 2 = 1 - eye
         /\ eye = 0 => shownF' = [c \in Companies |-> visF!Record(c)]'
         /\ eye = 1 => shownF' = shownF
<1>1. idxF \in Nat /\ cycleF \in Nat /\ eye \in {0, 1}
  BY DEF TypeOK
<1>2. CASE visF!last
  <2>1. cycleF' = cycleF
    BY <1>2 DEF visF!Render, visF!Advance
  <2> QED BY <1>2, <2>1 DEF visF!Render, visF!last, visF!Record, PeriodsEndWithFrames
<1>3. CASE ~ visF!last
  <2>1. visF!Tick /\ idxF % 2 = eye
    BY <1>3 DEF visF!Render, visF!Advance, PeriodsEndWithFrames
  <2>2. idxF' = idxF + 1 /\ idxF' % 2 = 1 - eye
    BY <1>1, <2>1, OneMore DEF visF!Tick
  <2>3. ASSUME eye = 0 PROVE shownF' = [c \in Companies |-> visF!Record(c)]'
    <3>1. idxF' % UPDATE_CYCLE_CNT # 0
      <4>1. idxF' \in Nat
        BY <1>1, <2>2
      <4>2. idxF' % 2 = 1
        BY <2>2, <2>3
      <4> QED BY <4>1, <4>2, FirstEyeEndsNoPeriod
    <3>2. cycleF' = cycleF
      BY <1>1, <2>1, <3>1 DEF visF!Tick
    <3> QED BY <3>2 DEF visF!Render, visF!Record
  <2>4. ASSUME eye = 1 PROVE shownF' = shownF
    BY <2>4 DEF visF!Render, PeriodsEndWithFrames
  <2> QED BY <2>2, <2>3, <2>4
<1> QED BY <1>2, <1>3

LEMMA PeriodsStay ==
  ASSUME TypeOK, PeriodsEndWithFrames, [Next]_vars PROVE PeriodsEndWithFrames'
<1>1. CASE Pass
  <2>1. eye \in {0, 1} /\ eye' = 1 - eye /\ UNCHANGED archive
    BY <1>1 DEF TypeOK, Pass
  <2>2. visA!Render /\ visB!Render /\ visC!Render /\ visF!Render
    BY <1>1 DEF Pass
  <2>3. eye' = 1 => eye = 0
    BY <2>1
  <2>4. idxA' % 2 = eye' /\ (eye' = 1 => shownA' = (visA!oldest .. visA!start)')
    BY <2>1, <2>2, <2>3, PeriodA
  <2>5. cycle2B' % 2 = eye'
    BY <2>1, <2>2, PeriodB
  <2>6. /\ ~ visC!last' => idxC' % 2 = eye'
        /\ eye' = 1 => shownC' = [c \in Companies |-> visC!Records(c)]'
    BY <2>1, <2>2, <2>3, PeriodC
  <2>7. /\ ~ visF!last' => idxF' % 2 = eye'
        /\ eye' = 1 => shownF' = [c \in Companies |-> visF!Record(c)]'
    BY <2>1, <2>2, <2>3, PeriodF
  <2> QED BY <2>4, <2>5, <2>6, <2>7 DEF PeriodsEndWithFrames
<1>2. CASE UNCHANGED <<eye, archive, varsA, varsB, varsC, varsF>>
  BY <1>2 DEF PeriodsEndWithFrames, visA!oldest, visA!start, visC!last,
     visC!Records, visC!AtMostLast, visF!last, visF!Record
<1> QED BY <1>1, <1>2 DEF Next, Close, vars

(* The parity argument, for every pair of even periods. *)
THEOREM PeriodsAreFrames == Spec => []PeriodsEndWithFrames
<1>1. Init => PeriodsEndWithFrames
  BY DEF Init, PeriodsEndWithFrames, visA!Init, visB!Init, visC!Init, visF!Init
<1>2. TypeOK /\ PeriodsEndWithFrames /\ [Next]_vars => PeriodsEndWithFrames'
  BY PeriodsStay
<1> QED BY <1>1, <1>2, TypeInvariant, PTL DEF Spec

(* Each chart implements Visualisation: a step of the display is a pass of *)
(* the chart or leaves it alone.                                           *)
LEMMA PassIsRender ==
  ASSUME TypeOK, PeriodsEndWithFrames, [Next]_vars
  PROVE  /\ [FrameA!Render]_<<eye, shownA>> /\ [FrameB!Render]_<<eye, shownB>>
         /\ [FrameC!Render]_<<eye, shownC>> /\ [FrameF!Render]_<<eye, shownF>>
<1>1. CASE Pass
  <2>1. eye' = 1 - eye /\ UNCHANGED archive
    BY <1>1 DEF Pass
  <2>2. visA!Render /\ visB!Render /\ visC!Render /\ visF!Render
    BY <1>1 DEF Pass
  <2>3. eye = 1 => shownA' = shownA
    BY <2>1, <2>2, PeriodA
  <2>4. eye = 1 => shownB' = shownB
    BY <2>2, PeriodB
  <2>5. eye = 1 => shownC' = shownC
    BY <2>1, <2>2, PeriodC
  <2>6. eye = 1 => shownF' = shownF
    BY <2>1, <2>2, PeriodF
  <2> QED BY <2>1, <2>3, <2>4, <2>5, <2>6
          DEF FrameA!Render, FrameB!Render, FrameC!Render, FrameF!Render
<1>2. CASE UNCHANGED <<eye, shownA, shownB, shownC, shownF>>
  BY <1>2
<1> QED BY <1>1, <1>2 DEF Next, Close, vars

(* Both eyes of every frame see the same data on each of these charts. *)
THEOREM BothEyesSeeTheSame == Spec => EyesAgree
<1>1. Init => FrameA!Init /\ FrameB!Init /\ FrameC!Init /\ FrameF!Init
  BY DEF Init, FrameA!Init, FrameB!Init, FrameC!Init, FrameF!Init
<1>2. TypeOK /\ PeriodsEndWithFrames /\ [Next]_vars =>
        /\ [FrameA!Render]_(FrameA!frameVars) /\ [FrameB!Render]_(FrameB!frameVars)
        /\ [FrameC!Render]_(FrameC!frameVars) /\ [FrameF!Render]_(FrameF!frameVars)
  BY PassIsRender DEF FrameA!frameVars, FrameB!frameVars, FrameC!frameVars, FrameF!frameVars
<1> QED BY <1>1, <1>2, TypeInvariant, PeriodsAreFrames, PTL
        DEF Spec, EyesAgree, FrameA!Spec, FrameB!Spec, FrameC!Spec, FrameF!Spec
-----------------------------------------------------------------------------
(* The bubbles moved last in the pass whose count is a multiple of the     *)
(* period: the last such count before the present one.                     *)
Moved == cycleB - (IF cycle2B = 0 THEN PERIOD ELSE cycle2B)

BubblesMoved ==
  /\ cycle2B <= cycleB /\ (cycleB - cycle2B) % PERIOD = 0
  /\ shownB # visB!Blank =>
       /\ Moved >= 0
       /\ \A c \in BubbleCompanies :
            shownB[c] = IF Moved < retailStatesCnt[c] THEN Moved ELSE retailStatesCnt[c]

LEMMA WholePeriods ==
  ASSUME NEW u \in Nat \ {0}, NEW n \in Nat, n % u = 0
  PROVE  (n + u) % u = 0 /\ (n >= u => (n - u) % u = 0)
<1>1. PICK q \in Nat : n = u * q
  <2>1. n = u * (n \div u) + (n % u) /\ n \div u \in Nat
    OBVIOUS
  <2>2. n = u * (n \div u)
    BY <2>1
  <2> QED BY <2>1, <2>2
<1>2. ASSUME NEW k \in Nat PROVE (u * k) % u = 0
  OBVIOUS
<1>3. n + u = u * (q + 1) /\ q + 1 \in Nat
  BY <1>1
<1>4. (n + u) % u = 0
  <2>1. (u * (q + 1)) % u = 0
    BY <1>2, <1>3
  <2> QED BY <1>3, <2>1
<1>5. ASSUME n >= u PROVE (n - u) % u = 0
  <2>1. n - u = u * (q - 1)
    BY <1>1
  <2>2. q - 1 \in Nat
    <3>1. q # 0
      BY <1>1, <1>5
    <3> QED BY <3>1
  <2> QED BY <1>2, <2>1, <2>2
<1> QED BY <1>4, <1>5

LEMMA RenderMovesBubbles ==
  ASSUME TypeOK, BubblesMoved, visB!Render, UNCHANGED archive
  PROVE  BubblesMoved'
<1>1. cycleB \in Nat /\ cycle2B \in 0 .. PERIOD - 1 /\ PERIOD \in Nat /\ PERIOD > 1
  BY EvenPeriods, Bounds DEF TypeOK
<1>2. cycleB' = cycleB + 1 /\ cycle2B' = (cycle2B + 1) % PERIOD
  BY DEF visB!Render
<1>3. CASE cycle2B = 0
  <2>1. cycle2B' = 1
    BY <1>1, <1>2, <1>3
  <2>2. Moved' = cycleB
    BY <1>1, <1>2, <2>1 DEF Moved
  <2>3. shownB' = [c \in BubbleCompanies |-> visB!index(c)]
    BY <1>3 DEF visB!Render, visB!ComputeChange
  <2>4. \A c \in BubbleCompanies :
          visB!index(c) = IF cycleB < retailStatesCnt[c] THEN cycleB ELSE retailStatesCnt[c]
    BY <1>1, ArchiveHolds, BubblesHaveRows DEF visB!index
  <2>5. cycleB' - cycle2B' = cycleB - cycle2B
    BY <1>1, <1>2, <1>3, <2>1
  <2> QED BY <1>1, <1>2, <2>1, <2>2, <2>3, <2>4, <2>5 DEF BubblesMoved
<1>4. CASE cycle2B # 0
  <2>1. shownB' = shownB
    BY <1>4 DEF visB!Render
  <2>2. CASE cycle2B + 1 < PERIOD
    <3>1. cycle2B' = cycle2B + 1
      BY <1>1, <1>2, <2>2
    <3>2. Moved' = Moved /\ cycleB' - cycle2B' = cycleB - cycle2B
      BY <1>1, <1>2, <1>4, <3>1 DEF Moved
    <3> QED BY <1>1, <1>2, <2>1, <3>1, <3>2 DEF BubblesMoved, visB!Blank
  <2>3. CASE cycle2B + 1 = PERIOD
    <3>1. cycle2B' = 0
      BY <1>1, <1>2, <2>3
    <3>2. Moved' = Moved
      BY <1>1, <1>2, <1>4, <2>3, <3>1 DEF Moved
    <3>3. (cycleB' - cycle2B') % PERIOD = 0
      <4>1. cycleB' - cycle2B' = (cycleB - cycle2B) + PERIOD
        BY <1>1, <1>2, <2>3, <3>1
      <4>2. cycleB - cycle2B \in Nat /\ (cycleB - cycle2B) % PERIOD = 0
        BY <1>1 DEF BubblesMoved
      <4>3. PERIOD \in Nat \ {0}
        BY <1>1
      <4>4. ((cycleB - cycle2B) + PERIOD) % PERIOD = 0
        BY <4>2, <4>3, WholePeriods
      <4> QED BY <4>1, <4>4
    <3> QED BY <1>1, <1>2, <2>1, <3>1, <3>2, <3>3 DEF BubblesMoved, visB!Blank
  <2> QED BY <1>1, <2>2, <2>3
<1> QED BY <1>3, <1>4

LEMMA BubblesStayMoved ==
  ASSUME TypeOK, BubblesMoved, [Next]_vars PROVE BubblesMoved'
<1>1. CASE Pass
  BY <1>1, RenderMovesBubbles DEF Pass
<1>2. CASE UNCHANGED <<archive, varsB>>
  BY <1>2 DEF BubblesMoved, Moved, visB!Blank
<1> QED BY <1>1, <1>2 DEF Next, Close, vars

LEMMA MovedAtOneMoment ==
  ASSUME TypeOK, BubblesMoved PROVE BubblesShowOneMoment
<1> SUFFICES ASSUME shownB # visB!Blank
             PROVE  \E t \in 0 .. cycleB :
                      /\ t % PERIOD = 0 /\ cycleB - t <= PERIOD
                      /\ \A c \in BubbleCompanies :
                           shownB[c] = IF t < retailStatesCnt[c] THEN t ELSE retailStatesCnt[c]
  BY DEF BubblesShowOneMoment
<1>1. cycleB \in Nat /\ cycle2B \in 0 .. PERIOD - 1 /\ PERIOD \in Nat \ {0}
  BY EvenPeriods, Bounds DEF TypeOK
<1>2. cycle2B <= cycleB /\ Moved >= 0 /\ (cycleB - cycle2B) % PERIOD = 0
  BY DEF BubblesMoved
<1>3. Moved \in 0 .. cycleB /\ cycleB - Moved <= PERIOD
  BY <1>1, <1>2 DEF Moved
<1>4. Moved % PERIOD = 0
  <2>1. CASE cycle2B = 0
    <3>1. cycleB % PERIOD = 0 /\ cycleB >= PERIOD /\ Moved = cycleB - PERIOD
      BY <1>1, <1>2, <2>1 DEF Moved
    <3> QED BY <1>1, <3>1, WholePeriods
  <2>2. CASE cycle2B # 0
    BY <1>1, <1>2, <2>2 DEF Moved
  <2> QED BY <2>1, <2>2
<1>5. \A c \in BubbleCompanies :
        shownB[c] = IF Moved < retailStatesCnt[c] THEN Moved ELSE retailStatesCnt[c]
  BY DEF BubblesMoved
<1> QED BY <1>3, <1>4, <1>5

(* All bubbles stand at the record of one number, or one past their last,  *)
(* whatever the lengths of their archives.                                 *)
THEOREM BubblesAtOneMoment == Spec => []BubblesShowOneMoment
<1>1. Init => BubblesMoved
  <2> SUFFICES ASSUME Init PROVE BubblesMoved
    OBVIOUS
  <2>1. cycleB = 0 /\ cycle2B = 0 /\ shownB = visB!Blank
    BY DEF Init, visB!Init
  <2> QED BY <2>1, EvenPeriods DEF BubblesMoved
<1>2. TypeOK /\ BubblesMoved /\ [Next]_vars => BubblesMoved'
  BY BubblesStayMoved
<1>3. TypeOK /\ BubblesMoved => BubblesShowOneMoment
  BY MovedAtOneMoment
<1> QED BY <1>1, <1>2, <1>3, TypeInvariant, PTL DEF Spec

-----------------------------------------------------------------------------
(* What a pass showed, its successor shows again or moves on by one: the   *)
(* counts were what they are, or one less.                                 *)
RecordAt(c, k) == IF k < retailStatesCnt[c] THEN k ELSE retailStatesCnt[c] - 1
StartAt(k) == IF lastDoneCnt - 1 < k THEN lastDoneCnt - 1 ELSE k
OldestAt(k) == IF StartAt(k) - SHOW_CNT > 1 THEN StartAt(k) - SHOW_CNT ELSE 1

ShownLately ==
  Drawn =>
    /\ \E k \in Nat : cycleF \in {k, k + 1} /\ \A c \in Companies : shownF[c] = RecordAt(c, k)
    /\ \E k \in Nat : cycleC \in {k, k + 1} /\ \A c \in Companies : shownC[c].curr = RecordAt(c, k)
    /\ \E k \in Nat : cycleA \in {k, k + 1} /\ shownA = OldestAt(k) .. StartAt(k)

LEMMA PassShows ==
  ASSUME TypeOK, Pass
  PROVE  /\ cycleF' \in {cycleF, cycleF + 1} /\ cycleC' \in {cycleC, cycleC + 1}
         /\ cycleA' \in {cycleA, cycleA + 1}
         /\ \A c \in Companies : shownF'[c] = RecordAt(c, cycleF)
         /\ \A c \in Companies : shownC'[c].curr = RecordAt(c, cycleC)
         /\ shownA' = OldestAt(cycleA) .. StartAt(cycleA)
<1>1. visA!Render /\ visC!Render /\ visF!Render
  BY DEF Pass
<1>2. cycleA \in Nat /\ cycleC \in Nat /\ cycleF \in Nat
  BY DEF TypeOK
<1>3. cycleF' \in {cycleF, cycleF + 1} /\ \A c \in Companies : shownF'[c] = RecordAt(c, cycleF)
  BY <1>1, <1>2 DEF visF!Render, visF!Advance, visF!Tick, visF!Record, RecordAt
<1>4. cycleC' \in {cycleC, cycleC + 1}
  BY <1>1, <1>2 DEF visC!Render, visC!Advance, visC!Tick
<1>5. \A c \in Companies : shownC'[c].curr = RecordAt(c, cycleC)
  BY <1>1 DEF visC!Render, visC!Records, visC!AtMostLast, RecordAt
<1>6. cycleA' \in {cycleA, cycleA + 1} /\ shownA' = OldestAt(cycleA) .. StartAt(cycleA)
  BY <1>1, <1>2 DEF visA!Render, visA!oldest, visA!start, OldestAt, StartAt
<1> QED BY <1>3, <1>4, <1>5, <1>6

LEMMA ShownLatelyStays ==
  ASSUME TypeOK, ShownLately, [Next]_vars PROVE ShownLately'
<1>1. CASE Pass
  <2>1. UNCHANGED archive /\ cycleA \in Nat /\ cycleC \in Nat /\ cycleF \in Nat
    BY <1>1 DEF Pass, TypeOK
  <2> QED BY <1>1, <2>1, PassShows DEF ShownLately, RecordAt, StartAt, OldestAt
<1>2. CASE UNCHANGED <<archive, varsA, varsC, varsF>>
  BY <1>2 DEF ShownLately, Drawn, visF!Blank, RecordAt, StartAt, OldestAt
<1> QED BY <1>1, <1>2 DEF Next, Close, vars

LEMMA NextRecord ==
  ASSUME TypeOK, NEW c \in Companies, NEW k \in Nat, NEW n \in {k, k + 1}
  PROVE  RecordAt(c, n) \in {RecordAt(c, k), RecordAt(c, k) + 1}
<1>1. retailStatesCnt[c] \in Nat \ {0}
  BY ArchiveHolds
<1> QED BY <1>1 DEF RecordAt

LEMMA NextTrades ==
  ASSUME TypeOK, NEW k \in Nat, NEW n \in {k, k + 1}
  PROVE  /\ \A i \in (OldestAt(n) .. StartAt(n)) \ (OldestAt(k) .. StartAt(k)) :
              i = 1 \/ (/\ i - 1 \in OldestAt(k) .. StartAt(k)
                        /\ \A j \in OldestAt(k) .. StartAt(k) : j < i)
         /\ \A i \in (OldestAt(k) .. StartAt(k)) \ (OldestAt(n) .. StartAt(n)) :
              OldestAt(n) .. StartAt(n) # {} /\ \A j \in OldestAt(n) .. StartAt(n) : i < j
<1>1. lastDoneCnt \in Nat /\ SHOW_CNT \in Nat
  BY TradesCounted, Bounds DEF TypeOK
<1>2. StartAt(k) \in Int /\ StartAt(n) \in {StartAt(k), StartAt(k) + 1}
  BY <1>1 DEF StartAt
<1>3. StartAt(n) \in Int /\ OldestAt(k) \in Nat \ {0} /\ OldestAt(n) \in {OldestAt(k), OldestAt(k) + 1}
  BY <1>1, <1>2 DEF OldestAt
<1>4. OldestAt(k) = 1 \/ OldestAt(k) = StartAt(k) - SHOW_CNT
  BY DEF OldestAt
<1>5. OldestAt(n) = OldestAt(k) + 1 => StartAt(n) >= OldestAt(n)
  BY <1>1, <1>2, <1>3 DEF OldestAt
<1> QED BY <1>1, <1>2, <1>3, <1>4, <1>5
LEMMA StepSkipsNothing ==
  ASSUME TypeOK, ShownLately, [Next]_vars, Drawn
  PROVE  /\ \A c \in Companies :
              /\ shownF'[c] \in {shownF[c], shownF[c] + 1}
              /\ shownC'[c].curr \in {shownC[c].curr, shownC[c].curr + 1}
         /\ \A i \in shownA' \ shownA :
              i = 1 \/ (i - 1 \in shownA /\ \A j \in shownA : j < i)
         /\ \A i \in shownA \ shownA' : shownA' # {} /\ \A j \in shownA' : i < j
<1>1. CASE Pass
  <2>1. \A c \in Companies : shownF'[c] \in {shownF[c], shownF[c] + 1}
    <3>1. PICK k \in Nat : cycleF \in {k, k + 1} /\ \A c \in Companies : shownF[c] = RecordAt(c, k)
      BY DEF ShownLately
    <3> QED BY <1>1, <3>1, PassShows, NextRecord
  <2>2. \A c \in Companies : shownC'[c].curr \in {shownC[c].curr, shownC[c].curr + 1}
    <3>1. PICK k \in Nat :
            cycleC \in {k, k + 1} /\ \A c \in Companies : shownC[c].curr = RecordAt(c, k)
      BY DEF ShownLately
    <3> QED BY <1>1, <3>1, PassShows, NextRecord
  <2>3. PICK k \in Nat : cycleA \in {k, k + 1} /\ shownA = OldestAt(k) .. StartAt(k)
    BY DEF ShownLately
  <2>4. shownA' = OldestAt(cycleA) .. StartAt(cycleA)
    BY <1>1, PassShows
  <2> QED BY <2>1, <2>2, <2>3, <2>4, NextTrades
<1>2. CASE UNCHANGED <<shownA, shownC, shownF>>
  BY <1>2
<1> QED BY <1>1, <1>2 DEF Next, Close, vars

(* No record and no trade is left out, and none comes back, whatever the   *)
(* archive holds and however long it is replayed.                          *)
THEOREM NothingSkipped == Spec => NoRecordSkipped
<1>1. Init => ShownLately
  BY DEF Init, ShownLately, Drawn, visF!Init
<1>2. TypeOK /\ ShownLately /\ [Next]_vars => ShownLately'
  BY ShownLatelyStays
<1>3. TypeOK /\ ShownLately /\ [Next]_vars =>
        [ Drawn =>
            /\ \A c \in Companies :
                 /\ shownF'[c] \in {shownF[c], shownF[c] + 1}
                 /\ shownC'[c].curr \in {shownC[c].curr, shownC[c].curr + 1}
            /\ \A i \in shownA' \ shownA :
                 i = 1 \/ (i - 1 \in shownA /\ \A j \in shownA : j < i)
            /\ \A i \in shownA \ shownA' : shownA' # {} /\ \A j \in shownA' : i < j
        ]_<<shownA, shownC, shownF>>
  BY StepSkipsNothing
<1> QED BY <1>1, <1>2, <1>3, TypeInvariant, PTL DEF Spec, NoRecordSkipped
=============================================================================
