------------------------- MODULE SensorDeviceProofs -------------------------
(***************************************************************************)
(* The tracker's messages and the fusion, for every clock, every loss of   *)
(* reports, any number of reports and of reference points.                 *)
(***************************************************************************)
EXTENDS SensorDevice, SequenceTheorems, WellFoundedInduction, TLAPS

Deltas == Nat \ {0}

(* A report is handed over in four messages at most: one for what was lost *)
(* before it and three samples.  Their sum, term by term.                  *)
Short(s) == s \in Seq(Deltas) /\ Len(s) <= 4

SumOf(s, n, total) ==
  /\ n \in 0 .. 4
  /\ \A i \in 1 .. n : s[i] \in Nat
  /\ n = 0 => total = 0
  /\ n = 1 => total = s[1]
  /\ n = 2 => total = s[1] + s[2]
  /\ n = 3 => total = s[1] + s[2] + s[3]
  /\ n = 4 => total = s[1] + s[2] + s[3] + s[4]

LEMMA TotalOfFour ==
  ASSUME NEW s, Short(s)
  PROVE  SumOf(s, Len(s), TotalOf(s))
<1> DEFINE Equation(sum) ==
             sum = [i \in 0 .. Len(s) |-> IF i = 0 THEN 0 ELSE sum[i - 1] + s[i]]
           first == [i \in 0 .. Len(s) |->
                       CASE i = 0 -> 0
                         [] i = 1 -> s[1]
                         [] i = 2 -> s[1] + s[2]
                         [] i = 3 -> s[1] + s[2] + s[3]
                         [] i = 4 -> s[1] + s[2] + s[3] + s[4]]
<1>1. Len(s) \in 0 .. 4 /\ \A i \in 1 .. Len(s) : s[i] \in Nat
  <2>1. Len(s) \in Nat /\ Len(s) <= 4
    BY LenProperties DEF Short
  <2>2. \A i \in 1 .. Len(s) : s[i] \in Deltas
    BY ElementOfSeq DEF Short
  <2>3. Len(s) \in 0 .. 4
    <3>1. \A n \in Nat : n <= 4 => n \in 0 .. 4
      OBVIOUS
    <3> QED BY <2>1, <3>1
  <2>4. Deltas \subseteq Nat
    BY DEF Deltas
  <2> QED BY <2>2, <2>3, <2>4
<1>2. Equation(first)
  <2>1. \A i \in 0 .. Len(s) : first[i] = IF i = 0 THEN 0 ELSE first[i - 1] + s[i]
    BY <1>1
  <2> QED BY <2>1
<1> DEFINE sum == CHOOSE g : Equation(g)
<1>3. Equation(sum)
  <2> HIDE DEF Equation, first
  <2> QED BY <1>2
<1>4. TotalOf(s) = sum[Len(s)]
  BY DEF TotalOf
<1>5. /\ sum[0] = 0
      /\ \A i \in 1 .. Len(s) : sum[i] = sum[i - 1] + s[i]
  <2> HIDE DEF sum
  <2> QED BY <1>1, <1>3
<1> HIDE DEF sum
<1>6. /\ 1 <= Len(s) => sum[1] = s[1]
      /\ 2 <= Len(s) => sum[2] = s[1] + s[2]
      /\ 3 <= Len(s) => sum[3] = s[1] + s[2] + s[3]
      /\ 4 <= Len(s) => sum[4] = s[1] + s[2] + s[3] + s[4]
  <2>1. 1 <= Len(s) => sum[1] = s[1]
    BY <1>1, <1>5
  <2>2. 2 <= Len(s) => sum[2] = s[1] + s[2]
    BY <1>1, <1>5, <2>1
  <2>3. 3 <= Len(s) => sum[3] = s[1] + s[2] + s[3]
    BY <1>1, <1>5, <2>2
  <2>4. 4 <= Len(s) => sum[4] = s[1] + s[2] + s[3] + s[4]
    BY <1>1, <1>5, <2>3
  <2> QED BY <2>1, <2>2, <2>3, <2>4
<1>7. /\ Len(s) = 0 => sum[Len(s)] = 0
      /\ Len(s) = 1 => sum[Len(s)] = s[1]
      /\ Len(s) = 2 => sum[Len(s)] = s[1] + s[2]
      /\ Len(s) = 3 => sum[Len(s)] = s[1] + s[2] + s[3]
      /\ Len(s) = 4 => sum[Len(s)] = s[1] + s[2] + s[3] + s[4]
  <2>1. CASE Len(s) = 0  BY <2>1, <1>5
  <2>2. CASE Len(s) = 1  BY <2>2, <1>6
  <2>3. CASE Len(s) = 2  BY <2>3, <1>6
  <2>4. CASE Len(s) = 3  BY <2>4, <1>6
  <2>5. CASE Len(s) = 4  BY <2>5, <1>6
  <2> QED BY <1>1, <2>1, <2>2, <2>3, <2>4, <2>5
<1> QED BY <1>1, <1>4, <1>7 DEF SumOf

(* What a step of the fusion takes off the sum. *)
LEMMA HeadAndTail ==
  ASSUME NEW s, Short(s), s # <<>>
  PROVE  /\ Head(s) \in Nat \ {0}
         /\ Short(Tail(s))
         /\ TotalOf(s) \in Nat /\ TotalOf(Tail(s)) \in Nat
         /\ TotalOf(s) = Head(s) + TotalOf(Tail(s))
<1>1. /\ Short(Tail(s)) /\ Len(Tail(s)) = Len(s) - 1
      /\ \A i \in 1 .. Len(Tail(s)) : Tail(s)[i] = s[i + 1]
      /\ Len(s) # 0
  BY HeadTailProperties, LenProperties, EmptySeq DEF Short
<1>2. Head(s) = s[1] /\ Head(s) \in Nat \ {0}
  BY HeadTailProperties DEF Short, Deltas
<1>3. SumOf(s, Len(s), TotalOf(s)) /\ SumOf(Tail(s), Len(Tail(s)), TotalOf(Tail(s)))
  BY <1>1, TotalOfFour
<1>4. ASSUME NEW n \in Int, NEW t, NEW a, NEW b, SumOf(s, n, a), SumOf(t, n - 1, b),
             \A i \in 1 .. n - 1 : t[i] = s[i + 1]
      PROVE  a \in Nat /\ b \in Nat /\ a = s[1] + b
  <2>1. n \in 1 .. 4
    BY <1>4 DEF SumOf
  <2>2. CASE n = 1
    BY <1>4, <2>2 DEF SumOf
  <2>3. CASE n = 2
    BY <1>4, <2>3 DEF SumOf
  <2>4. CASE n = 3
    BY <1>4, <2>4 DEF SumOf
  <2>5. CASE n = 4
    BY <1>4, <2>5 DEF SumOf
  <2> QED BY <2>1, <2>2, <2>3, <2>4, <2>5
<1>5. Len(s) \in Int
  BY LenProperties DEF Short
<1>6. \A i \in 1 .. Len(s) - 1 : Tail(s)[i] = s[i + 1]
  BY <1>1
<1>7. SumOf(Tail(s), Len(s) - 1, TotalOf(Tail(s)))
  BY <1>1, <1>3
<1>8. TotalOf(s) \in Nat /\ TotalOf(Tail(s)) \in Nat /\ TotalOf(s) = s[1] + TotalOf(Tail(s))
  BY <1>3, <1>4, <1>5, <1>6, <1>7
<1> QED BY <1>1, <1>2, <1>8

(* What was lost, if that is handed over, and the samples of a report. *)
Lost(r) == IF r = 0 THEN <<>> ELSE <<r>>

Follows(s, c, l, h, u) == \A i \in 1 .. c : s[i] = IF i <= h THEN l[i] ELSE u[i - h]

LEMMA ReportAddsUp ==
  ASSUME NEW r \in Nat, NEW count \in 1 .. 255
  PROVE  /\ Short(Lost(r) \o Samples(count))
         /\ TotalOf(Lost(r) \o Samples(count)) = r + count
<1>1. /\ Lost(r) \in Seq(Deltas)
      /\ r = 0 => Len(Lost(r)) = 0
      /\ r # 0 => Len(Lost(r)) = 1 /\ Lost(r)[1] = r
  <2>1. CASE r = 0
    BY <2>1 DEF Lost
  <2>2. CASE r # 0
    <3>1. r \in Deltas
      BY <2>2 DEF Deltas
    <3> QED BY <2>2, <3>1 DEF Lost
  <2> QED BY <2>1, <2>2
<1>2. /\ Samples(count) \in Seq(Deltas) /\ Len(Samples(count)) \in 1 .. 3
      /\ SumOf(Samples(count), Len(Samples(count)), count)
  <2>1. CASE count > 3
    <3>1. Samples(count) = <<count - 2, 1, 1>>
      BY <2>1 DEF Samples
    <3>2. count - 2 \in Deltas /\ 1 \in Deltas
      BY <2>1 DEF Deltas
    <3>3. <<count - 2, 1, 1>> \in Seq(Deltas)
      BY <3>2
    <3> QED BY <2>1, <3>1, <3>3 DEF SumOf
  <2>2. CASE ~(count > 3)
    <3>1. Samples(count) = [i \in 1 .. count |-> 1]
      BY <2>2 DEF Samples
    <3>2. 1 \in Deltas
      BY DEF Deltas
    <3>3. [i \in 1 .. count |-> 1] \in Seq(Deltas)
      BY <3>2, IsASeq
    <3>4. Len([i \in 1 .. count |-> 1]) = count /\ count \in 1 .. 3
      BY <2>2
    <3> QED BY <2>2, <3>1, <3>3, <3>4 DEF SumOf
  <2> QED BY <2>1, <2>2
<1>3. /\ Lost(r) \o Samples(count) \in Seq(Deltas)
      /\ Len(Lost(r) \o Samples(count)) = Len(Lost(r)) + Len(Samples(count))
      /\ \A i \in 1 .. Len(Lost(r)) + Len(Samples(count)) :
           (Lost(r) \o Samples(count))[i] =
             IF i <= Len(Lost(r)) THEN Lost(r)[i] ELSE Samples(count)[i - Len(Lost(r))]
  BY <1>1, <1>2, ConcatProperties
<1>4. ASSUME NEW l, NEW u, NEW s, NEW total, NEW k \in 1 .. 3, NEW h \in Int, NEW c,
             SumOf(u, k, count),
             r = 0 => h = 0, r # 0 => h = 1 /\ l[1] = r,
             c = h + k, Follows(s, c, l, h, u),
             SumOf(s, c, total)
      PROVE  total = r + count
  <2>1. CASE r = 0
    <3>1. \A i \in 1 .. k : s[i] = u[i]
      BY <1>4, <2>1 DEF Follows
    <3> QED BY <1>4, <2>1, <3>1 DEF SumOf
  <2>2. CASE r # 0
    <3>1. s[1] = r /\ \A i \in 1 .. k : s[i + 1] = u[i]
      BY <1>4, <2>2 DEF Follows
    <3>2. CASE k = 1  BY <1>4, <2>2, <3>1, <3>2 DEF SumOf
    <3>3. CASE k = 2  BY <1>4, <2>2, <3>1, <3>3 DEF SumOf
    <3>4. CASE k = 3  BY <1>4, <2>2, <3>1, <3>4 DEF SumOf
    <3> QED BY <3>2, <3>3, <3>4
  <2> QED BY <2>1, <2>2
<1>5. Len(Lost(r)) \in Int
  BY <1>1
<1>6. Len(Lost(r) \o Samples(count)) <= 4
  <2>1. ASSUME NEW h \in Int, NEW k \in 1 .. 3, r = 0 => h = 0, r # 0 => h = 1
        PROVE  h + k <= 4
    BY <2>1
  <2> QED BY <1>1, <1>2, <1>3, <1>5, <2>1
<1>7. Short(Lost(r) \o Samples(count))
  BY <1>3, <1>6 DEF Short
<1>8. SumOf(Lost(r) \o Samples(count), Len(Lost(r) \o Samples(count)),
            TotalOf(Lost(r) \o Samples(count)))
  BY <1>7, TotalOfFour
<1>9. ASSUME NEW total,
             SumOf(Lost(r) \o Samples(count), Len(Lost(r) \o Samples(count)), total)
      PROVE  total = r + count
  <2>1. Follows(Lost(r) \o Samples(count), Len(Lost(r) \o Samples(count)),
                Lost(r), Len(Lost(r)), Samples(count))
    BY <1>3 DEF Follows
  <2> QED BY <1>1, <1>2, <1>3, <1>4, <1>5, <1>9, <2>1
<1> QED BY <1>7, <1>8, <1>9

-----------------------------------------------------------------------------
(* The clock. *)

IsWrapped(x, m) == m \in UInt16 /\ \E q \in Int : x = 65536 * q + m

LEMMA Widths == UInt16 \subseteq Nat /\ Int16 \subseteq Int
  BY DEF UInt16, Int16

LEMMA Wraps ==
  ASSUME NEW x \in Int
  PROVE  IsWrapped(x, x % 2^16)
  BY DEF IsWrapped, UInt16

(* However the clock wraps, the time between two stamps is found short of  *)
(* the true one or not at all, if it is little.                            *)
LEMMA DeltaIsNotMore ==
  ASSUME NEW a \in Int, NEW b \in Int, NEW m, NEW n, b <= a,
         IsWrapped(a, m), IsWrapped(b, n), LastTimestamp = SInt16(n)
  PROVE  /\ timestampDelta(m) \in Nat
         /\ timestampDelta(m) <= 254 => timestampDelta(m) <= a - b
<1>1. m \in UInt16 /\ n \in UInt16
  BY DEF IsWrapped
<1>2. PICK p \in Int : a = 65536 * p + m
  BY DEF IsWrapped
<1>3. PICK q \in Int : b = 65536 * q + n
  BY DEF IsWrapped
<1>4. LastTimestamp = IF n < 32768 THEN n ELSE n - 65536
  BY DEF SInt16
<1>5. LastTimestamp \in Int
  BY <1>1, <1>4 DEF UInt16
<1>6. ASSUME NEW j \in Int, timestampDelta(m) = (a - b) + 65536 * j,
             timestampDelta(m) \in Nat
      PROVE  timestampDelta(m) <= 254 => timestampDelta(m) <= a - b
  <2>1. ASSUME NEW d \in Nat, d = (a - b) + 65536 * j, d <= 254
        PROVE  d <= a - b
    BY <2>1
  <2> QED BY <1>6, <2>1
<1>7. CASE m < LastTimestamp
  <2>1. n < 32768 /\ LastTimestamp = n
    <3>1. ASSUME ~(n < 32768) PROVE FALSE
      <4>1. LastTimestamp = n - 65536
        BY <1>4, <3>1
      <4>2. m < n - 65536
        BY <1>7, <4>1
      <4>3. m \in Int /\ n \in Int /\ 0 <= m /\ n <= 65535
        BY <1>1 DEF UInt16
      <4> QED BY <4>2, <4>3
    <3> QED BY <1>4, <3>1
  <2>2. timestampDelta(m) = m + 65536 - n
    BY <1>7, <2>1 DEF timestampDelta
  <2>3. timestampDelta(m) = (a - b) + 65536 * (q - p + 1) /\ timestampDelta(m) \in Nat
    BY <1>1, <1>2, <1>3, <2>2 DEF UInt16
  <2>4. q - p + 1 \in Int
    OBVIOUS
  <2> QED BY <1>6, <2>3, <2>4
<1>8. CASE ~(m < LastTimestamp) /\ n < 32768
  <2>1. timestampDelta(m) = m - n
    BY <1>4, <1>8 DEF timestampDelta
  <2>2. timestampDelta(m) = (a - b) + 65536 * (q - p) /\ timestampDelta(m) \in Nat
    BY <1>1, <1>2, <1>3, <1>4, <1>8, <2>1 DEF UInt16
  <2>3. q - p \in Int
    OBVIOUS
  <2> QED BY <1>6, <2>2, <2>3
<1>9. CASE ~(m < LastTimestamp) /\ ~(n < 32768)
  <2>1. timestampDelta(m) = m - (n - 65536)
    BY <1>4, <1>9 DEF timestampDelta
  <2>2. timestampDelta(m) = (a - b) + 65536 * (q - p + 1) /\ timestampDelta(m) \in Nat
    BY <1>1, <1>2, <1>3, <2>1 DEF UInt16
  <2>3. q - p + 1 \in Int
    OBVIOUS
  <2> QED BY <1>6, <2>2, <2>3
<1> QED BY <1>6, <1>7, <1>8, <1>9

-----------------------------------------------------------------------------
(* The reference points. *)

(* A set of numbers has a least one. *)
Below == {ss \in Nat \X Nat : ss[1] < ss[2]}

LEMMA LeastOf ==
  ASSUME NEW T, T \subseteq Nat, T # {}
  PROVE  \E x \in T : \A y \in T : x <= y
<1>1. OpToRel(<, Nat) = Below
  BY DEF OpToRel, Below
<1>2. IsWellFoundedOn(Below, Nat)
  BY <1>1, NatLessThanWellFounded
<1>3. PICK x \in T : \A y \in T : <<y, x>> \notin Below
  BY <1>2, WFMin
<1>4. \A y \in T : x <= y
  <2> SUFFICES ASSUME NEW y \in T PROVE x <= y
    OBVIOUS
  <2>1. x \in Nat /\ y \in Nat /\ <<y, x>> \notin Below
    BY <1>3
  <2>2. y < x => <<y, x>> \in Below
    BY <2>1 DEF Below
  <2> QED BY <2>1, <2>2
<1> QED BY <1>4

LEMMA DistanceIsNatural ==
  ASSUME NEW p \in Int, NEW q \in Int
  PROVE  Distance(p, q) \in Nat /\ Distance(p, q) = Distance(q, p)
  BY DEF Distance

(* There is a nearest point, as soon as there is one near enough. *)
LEMMA NearestIsNear ==
  ASSUME NEW points \in Seq(Int), NEW calMag \in Int, Near(points, calMag) # {}
  PROVE  Nearest(points, calMag) \in Near(points, calMag)
<1> DEFINE near == Near(points, calMag)
           far(i) == Distance(calMag, points[i])
<1>1. near \subseteq Nat /\ near # {} /\ \A i \in near : far(i) \in Nat
  <2>1. \A i \in 1 .. Len(points) : points[i] \in Int
    BY ElementOfSeq
  <2>2. near \subseteq 1 .. Len(points)
    BY DEF Near
  <2>3. \A i \in near : points[i] \in Int
    BY <2>1, <2>2
  <2>4. \A i \in near : far(i) \in Nat
    BY <2>3, DistanceIsNatural
  <2>5. near \subseteq Nat
    BY <2>2
  <2> QED BY <2>4, <2>5
<1> HIDE DEF near, far
<1>2. PICK d \in {far(i) : i \in near} : \A e \in {far(i) : i \in near} : d <= e
  BY <1>1, LeastOf
<1> DEFINE least == {i \in near : far(i) = d}
<1>3. PICK i \in least : \A j \in least : i <= j
  <2>1. least # {} /\ least \subseteq Nat
    BY <1>1, <1>2
  <2> HIDE DEF least
  <2> QED BY <2>1, LeastOf
<1>4. \A j \in near : far(i) < far(j) \/ (far(i) = far(j) /\ i <= j)
  <2> SUFFICES ASSUME NEW j \in near
               PROVE  far(i) < far(j) \/ (far(i) = far(j) /\ i <= j)
    OBVIOUS
  <2>1. far(i) = d /\ d <= far(j) /\ d \in Nat /\ far(j) \in Nat
    BY <1>1, <1>2, <1>3
  <2>2. far(j) = d => i <= j
    BY <1>3
  <2> QED BY <2>1, <2>2
<1>5. \E k \in near : \A j \in near : far(k) < far(j) \/ (far(k) = far(j) /\ k <= j)
  BY <1>3, <1>4
<1> QED BY <1>5 DEF Nearest, near, far

(* What the list of points keeps to. *)
Apart(points) ==
  /\ \A i, j \in 1 .. Len(points) : i # j => Distance(points[i], points[j]) >= maxMagRefDist
  /\ Len(points) <= MagMaxReferences

References == [points : Seq(Points), idx : Nat, score : Int]

LEMMA DistanceOfPoints ==
  ASSUME NEW p \in Points, NEW q \in Points
  PROVE  Distance(p, q) \in Nat /\ Distance(p, q) = Distance(q, p)
  BY FieldsAreOnALine, DistanceIsNatural

LEMMA WithoutBadApart ==
  ASSUME NEW m \in References, m.idx <= Len(m.points), Apart(m.points)
  PROVE  WithoutBad(m) \in Seq(Points) /\ Apart(WithoutBad(m))
<1> DEFINE s == m.points
           n == Len(s)
           b == m.idx
           e == [s EXCEPT ![b] = s[n]]
           f == SubSeq(e, 1, n - 1)
<1>1. s \in Seq(Points) /\ n \in Nat /\ b \in Nat /\ b <= n
  BY LenProperties DEF References
<1>2. CASE ~(b > 0 /\ m.score < 0)
  BY <1>1, <1>2 DEF WithoutBad
<1>3. CASE b > 0 /\ m.score < 0
  <2>1. WithoutBad(m) = f
    BY <1>3 DEF WithoutBad, Front, Last
  <2> HIDE DEF n, b, e, f, s
  <2>2. b \in 1 .. n /\ n \in 1 .. n
    BY <1>1, <1>3
  <2>3. \A k \in 1 .. n : s[k] \in Points
    BY <1>1, ElementOfSeq DEF n
  <2>4. /\ e \in Seq(Points) /\ Len(e) = n
        /\ \A k \in 1 .. n : e[k] = IF k = b THEN s[n] ELSE s[k]
    BY <1>1, <2>2, <2>3, ExceptSeq DEF e, n
  <2>5. \A k \in 1 .. n - 1 : e[k] \in Points
    BY <1>1, <2>3, <2>4
  <2>6. /\ f \in Seq(Points) /\ Len(f) = n - 1
        /\ \A k \in 1 .. n - 1 : f[k] = e[k]
    <3>1. /\ 1 \in Int /\ n - 1 \in Int /\ 1 - 1 = 0
          /\ (IF 1 <= n - 1 THEN (n - 1) - 1 + 1 ELSE 0) = n - 1
          /\ (n - 1) - 1 + 1 = n - 1
          /\ \A k \in 1 .. n - 1 : 1 + k - 1 = k
      BY <1>1, <2>2
    <3> QED BY <2>5, <3>1, SubSeqProperties DEF f
  <2>7. ASSUME NEW k \in 1 .. n - 1, NEW l \in 1 .. n - 1, k # l
        PROVE  Distance(f[k], f[l]) >= maxMagRefDist
    <3>1. f[k] = (IF k = b THEN s[n] ELSE s[k]) /\ f[l] = (IF l = b THEN s[n] ELSE s[l])
      BY <1>1, <2>4, <2>6
    <3>2. k \in 1 .. n /\ l \in 1 .. n /\ k # n /\ l # n
      BY <1>1
    <3>3. \A x, y \in 1 .. n : x # y => Distance(s[x], s[y]) >= maxMagRefDist
      BY DEF Apart, s, n
    <3> QED BY <2>2, <2>7, <3>1, <3>2, <3>3
  <2>8. n <= MagMaxReferences
    BY DEF Apart, n, s
  <2>9. Len(f) <= MagMaxReferences
    BY <1>1, <2>6, <2>8, ReferencesBounded
  <2> QED BY <2>1, <2>6, <2>7, <2>9 DEF Apart
<1> QED BY <1>2, <1>3

(* What is found is a reference for the field just measured. *)
Fits(m, calMag) ==
  /\ m.idx <= Len(m.points)
  /\ m.idx > 0 => Distance(calMag, m.points[m.idx]) <= maxMagRefDist

LEMMA FoundFits ==
  ASSUME NEW points \in Seq(Points), Apart(points), NEW calMag \in Points
  PROVE  /\ Found(points, calMag) \in References
         /\ Apart(Found(points, calMag).points)
         /\ Fits(Found(points, calMag), calMag)
<1> DEFINE n == Len(points)
<1>1. /\ n \in Nat
      /\ \A i \in 1 .. n : points[i] \in Points
      /\ points \in Seq(Int) /\ calMag \in Int
  BY LenProperties, ElementOfSeq, FieldsAreOnALine, SeqMonotonic
<1>2. CASE Near(points, calMag) # {}
  <2>1. Found(points, calMag)
          = [points |-> points, idx |-> Nearest(points, calMag), score |-> FirstScore]
    BY <1>2 DEF Found
  <2>2. Nearest(points, calMag) \in Near(points, calMag)
    BY <1>1, <1>2, NearestIsNear
  <2>3. /\ Nearest(points, calMag) \in 1 .. n
        /\ Distance(calMag, points[Nearest(points, calMag)]) < maxMagRefDist
    BY <2>2 DEF Near
  <2>4. Distance(calMag, points[Nearest(points, calMag)]) \in Nat
    BY <1>1, <2>3, DistanceOfPoints
  <2> QED BY <1>1, <2>1, <2>3, <2>4, ReferencesBounded DEF Fits, References
<1>3. CASE Near(points, calMag) = {} /\ n < MagMaxReferences
  <2> DEFINE a == Append(points, calMag)
  <2>1. Found(points, calMag) = [points |-> a, idx |-> n + 1, score |-> FirstScore]
    BY <1>3 DEF Found
  <2>2. /\ a \in Seq(Points) /\ Len(a) = n + 1 /\ a[n + 1] = calMag
        /\ \A i \in 1 .. n : a[i] = points[i]
    OBVIOUS
  <2>3. \A i \in 1 .. n : Distance(calMag, points[i]) >= maxMagRefDist
    <3>1. \A i \in 1 .. n : ~(Distance(calMag, points[i]) < maxMagRefDist)
      BY <1>3 DEF Near
    <3>2. \A i \in 1 .. n : Distance(calMag, points[i]) \in Nat
      BY <1>1, DistanceOfPoints
    <3> QED BY <3>1, <3>2, ReferencesBounded
  <2> HIDE DEF a
  <2>4. ASSUME NEW i \in 1 .. n + 1, NEW j \in 1 .. n + 1, i # j
        PROVE  Distance(a[i], a[j]) >= maxMagRefDist
    <3>1. CASE i = n + 1
      <4>1. j \in 1 .. n
        BY <1>1, <2>4, <3>1
      <4> QED BY <2>2, <2>3, <3>1, <4>1
    <3>2. CASE j = n + 1
      <4>1. i \in 1 .. n
        BY <1>1, <2>4, <3>2
      <4>2. Distance(a[i], a[j]) = Distance(calMag, points[i])
        BY <1>1, <2>2, <3>2, <4>1, DistanceOfPoints
      <4> QED BY <2>3, <4>1, <4>2
    <3>3. CASE i # n + 1 /\ j # n + 1
      <4>1. i \in 1 .. n /\ j \in 1 .. n
        BY <1>1, <3>3
      <4> QED BY <2>2, <2>4, <4>1 DEF Apart
    <3> QED BY <3>1, <3>2, <3>3
  <2>5. n + 1 <= MagMaxReferences
    BY <1>1, <1>3, ReferencesBounded
  <2>6. Apart(a)
    BY <2>2, <2>4, <2>5 DEF Apart
  <2>7. Distance(calMag, calMag) <= maxMagRefDist
    BY <1>1, ReferencesBounded DEF Distance
  <2> QED BY <1>1, <2>1, <2>2, <2>6, <2>7, ReferencesBounded DEF Fits, References
<1>4. CASE Near(points, calMag) = {} /\ ~(n < MagMaxReferences)
  <2>1. Found(points, calMag) = [points |-> points, idx |-> 0, score |-> FirstScore]
    BY <1>4 DEF Found
  <2> QED BY <1>1, <2>1, ReferencesBounded DEF Fits, References
<1> QED BY <1>2, <1>3, <1>4

LEMMA UpdatedFits ==
  ASSUME NEW m \in References, m.idx <= Len(m.points), Apart(m.points),
         NEW calMag \in Points, NEW agrees \in BOOLEAN
  PROVE  /\ Updated(m, calMag, agrees) \in References
         /\ Apart(Updated(m, calMag, agrees).points)
         /\ Fits(Updated(m, calMag, agrees), calMag)
<1> DEFINE u == IF TooFar(m, calMag) THEN Found(WithoutBad(m), calMag) ELSE m
<1>1. u \in References /\ Apart(u.points) /\ Fits(u, calMag)
  <2>1. CASE TooFar(m, calMag)
    BY <2>1, WithoutBadApart, FoundFits
  <2>2. CASE ~TooFar(m, calMag)
    <3>1. m.idx # 0 /\ ~(Distance(calMag, m.points[m.idx]) > maxMagRefDist)
      BY <2>2 DEF TooFar
    <3>2. m.idx \in 1 .. Len(m.points) /\ m.points \in Seq(Points)
      BY <3>1 DEF References
    <3>3. Distance(calMag, m.points[m.idx]) \in Nat
      BY <3>2, ElementOfSeq, DistanceOfPoints
    <3>4. Distance(calMag, m.points[m.idx]) <= maxMagRefDist
      BY <3>1, <3>3, ReferencesBounded
    <3> QED BY <2>2, <3>4 DEF Fits
  <2> QED BY <2>1, <2>2
<1> HIDE DEF u
<1>2. Scored(u, agrees) \in References /\ Scored(u, agrees).points = u.points
                                      /\ Scored(u, agrees).idx = u.idx
  BY <1>1, ReferencesBounded DEF Scored, References
<1>3. Updated(m, calMag, agrees) = Scored(u, agrees)
  BY DEF Updated, u
<1> QED BY <1>1, <1>2, <1>3 DEF Fits

-----------------------------------------------------------------------------
(* The invariant.  Messages are pending only for an installed handler, and *)
(* the fusion looks at the field only when its calibration can no longer   *)
(* change; the stamp of the last report tells when it began, unless the    *)
(* tracker has been unplugged since.                                       *)

Handed ==
  /\ Len(messages) <= 4
  /\ messages # <<>> => handler
  /\ handler <=> pc \in {"installed", "attached"}
  /\ gapless => handler

Settled ==
  /\ mag.idx <= Len(mag.points)
  /\ mag.idx > 0 => handler /\ MagCalibrated /\ RunningTime > SettleTime

Stamped ==
  SequenceValid /\ away = 0 =>
    \E m : IsWrapped(start + time - LastSampleCount, m) /\ LastTimestamp = SInt16(m)

Inv ==
  /\ TypeOK /\ Handed /\ Settled /\ Stamped
  /\ TimeNotInvented /\ TimeKeptWithoutLoss /\ ReferencesFit

(* The type invariant, by what changes together. *)
DeviceTyped ==
  time \in Nat /\ start \in UInt16 /\ away \in {0, Away} /\ reports \in 0 .. MaxReports

SequenceTyped ==
  SequenceValid \in BOOLEAN /\ LastTimestamp \in Int16 /\ LastSampleCount \in 0 .. 255

DeskTyped ==
  /\ handler \in BOOLEAN
  /\ pc \in {"out", "calibrated", "invalidated", "installed", "attached"}
  /\ MagCalibrated \in BOOLEAN
  /\ resetAt \in Nat /\ gapless \in BOOLEAN

FusionTyped ==
  /\ messages \in Seq(Nat \ {0})
  /\ RunningTime \in Nat /\ CalMag \in Points /\ mag \in References

LEMMA TypeParts == TypeOK <=> DeviceTyped /\ SequenceTyped /\ DeskTyped /\ FusionTyped
  BY Zenon DEF TypeOK, DeviceTyped, SequenceTyped, DeskTyped, FusionTyped, References

LEMMA TypePartsNext ==
  ASSUME DeviceTyped', SequenceTyped', DeskTyped', FusionTyped'
  PROVE  TypeOK'
  BY Zenon DEF TypeOK, DeviceTyped, SequenceTyped, DeskTyped, FusionTyped, References

LEMMA ShortMessages == TypeOK /\ Handed => Short(messages)
  BY DEF TypeOK, Handed, Short, Deltas

LEMMA TotalOfNone == TotalOf(<<>>) = 0
<1>1. Short(<<>>) /\ Len(<<>>) = 0
  BY EmptySeq DEF Short, Deltas
<1> QED BY <1>1, TotalOfFour DEF SumOf

LEMMA Started == Init => Inv
<1> SUFFICES ASSUME Init PROVE Inv
  OBVIOUS
<1>1. messages = <<>> /\ Len(<<>>) = 0 /\ <<>> \in Seq(Nat \ {0}) /\ <<>> \in Seq(Points)
  BY EmptySeq DEF Init
<1>2. Pending = 0
  BY <1>1, TotalOfNone DEF Pending
<1>3. TypeOK
  <2>1. DeviceTyped
    <3>1. 0 \in Nat /\ 0 \in 0 .. MaxReports
      BY ReportsBounded
    <3>2. start \in UInt16
      BY ClockIs16Bit DEF Init
    <3> QED BY <3>1, <3>2 DEF Init, DeviceTyped
  <2>2. SequenceTyped
    <3>1. 0 \in Int16 /\ 0 \in 0 .. 255
      BY DEF Int16
    <3> QED BY <3>1 DEF Init, SequenceTyped
  <2>3. DeskTyped
    BY DEF Init, DeskTyped
  <2>4. FusionTyped
    BY <1>1, FieldsAreOnALine DEF Init, FusionTyped, References, NoReferences
  <2> QED BY <2>1, <2>2, <2>3, <2>4, TypeParts
<1>4. Handed /\ Settled /\ Stamped
  BY <1>1 DEF Init, Handed, Settled, Stamped, NoReferences
<1>5. TimeNotInvented /\ TimeKeptWithoutLoss
  BY <1>2 DEF Init, TimeNotInvented, TimeKeptWithoutLoss
<1>6. ReferencesFit
  BY <1>1, ReferencesBounded DEF Init, ReferencesFit, NoReferences
<1> QED BY <1>3, <1>4, <1>5, <1>6 DEF Inv

-----------------------------------------------------------------------------
(* A report. *)

LEMMA StampIs16Bit ==
  ASSUME NEW m \in UInt16
  PROVE  SInt16(m) \in Int16
<1>1. m \in Int /\ 0 <= m /\ m <= 65535
  BY DEF UInt16
<1>2. CASE m < 32768
  <2>1. SInt16(m) = m
    BY <1>2 DEF SInt16
  <2>2. m \in Int16
    BY <1>1, <1>2 DEF Int16
  <2> QED BY <2>1, <2>2
<1>3. CASE ~(m < 32768)
  <2>1. SInt16(m) = m - 65536
    BY <1>3 DEF SInt16
  <2>2. m - 65536 \in Int16
    BY <1>1, <1>3 DEF Int16
  <2> QED BY <2>1, <2>2
<1> QED BY <1>2, <1>3

(* What was lost is replicated for no longer than it took, and nothing is  *)
(* when nothing was lost.                                                  *)
LEMMA ReplicatedIsLost ==
  ASSUME TypeOK, Stamped, NEW gap \in Nat, NEW stamp,
         IsWrapped(start + time + away + gap, stamp)
  PROVE  \E r \in Nat :
           /\ Replicated(stamp) = Lost(r)
           /\ r <= away + gap
           /\ SequenceValid /\ gap + away = 0 => r = 0
<1> DEFINE a == start + time + away + gap
           b == start + time - LastSampleCount
           d == timestampDelta(stamp)
           c == LastSampleCount
<1>1. /\ time \in Nat /\ start \in Nat /\ away \in {0, Away} /\ c \in Nat
      /\ LastTimestamp \in Int /\ stamp \in Nat
  <2>1. 0 .. 255 \subseteq Nat
    OBVIOUS
  <2>2. stamp \in UInt16
    BY DEF IsWrapped
  <2>3. DeviceTyped /\ SequenceTyped
    BY TypeParts
  <2> QED BY <2>1, <2>2, <2>3, Widths DEF DeviceTyped, SequenceTyped
<1>2. away \in Nat /\ Away \in Nat /\ Away > 254
  BY <1>1, AwayIsLongerThanARepeat
<1>3. a \in Int /\ b \in Int /\ b <= a
  BY <1>1, <1>2
<1>4. CASE ~(SequenceValid /\ d > c /\ d <= 254)
  <2>1. Replicated(stamp) = Lost(0)
    BY <1>4 DEF Replicated, Lost
  <2> QED BY <1>2, <2>1
<1>5. CASE SequenceValid /\ d > c /\ d <= 254
  <2>1. Replicated(stamp) = <<d - c>>
    BY <1>5 DEF Replicated
  <2>2. CASE away = 0
    <3>1. PICK m : IsWrapped(b, m) /\ LastTimestamp = SInt16(m)
      BY <1>5, <2>2 DEF Stamped
    <3>2. a - b = gap + c
      BY <1>1, <1>2, <2>2
    <3>3. IsWrapped(a, stamp)
      OBVIOUS
    <3> HIDE DEF a, b, d, c
    <3>4. d \in Nat /\ (d <= 254 => d <= a - b)
      BY <1>3, <3>1, <3>3, DeltaIsNotMore DEF d
    <3>5. d - c \in Nat /\ d - c # 0 /\ d - c <= away + gap /\ gap + away # 0
      BY <1>1, <1>5, <2>2, <3>2, <3>4
    <3>6. Lost(d - c) = <<d - c>>
      BY <3>5 DEF Lost
    <3> QED BY <2>1, <3>5, <3>6
  <2>3. CASE away # 0
    <3>1. away = Away
      BY <1>1, <2>3
    <3>2. d \in Int
      BY <1>1 DEF timestampDelta
    <3> HIDE DEF a, b, d, c
    <3>3. d - c \in Nat /\ d - c # 0 /\ d - c <= away + gap /\ gap + away # 0
      BY <1>1, <1>2, <1>5, <3>1, <3>2
    <3>4. Lost(d - c) = <<d - c>>
      BY <3>3 DEF Lost
    <3> QED BY <2>1, <3>3, <3>4
  <2> QED BY <2>2, <2>3
<1> QED BY <1>4, <1>5

LEMMA ReportStep ==
  ASSUME Inv, NEW gap \in Gaps, NEW count \in Counts, onTrackerMessage(gap, count)
  PROVE  Inv'
<1> DEFINE stamp == (start + time + away + gap) % 2^16
<1>1. /\ time \in Nat /\ start \in Nat /\ away \in Nat /\ resetAt \in Nat /\ RunningTime \in Nat
      /\ gap \in Nat /\ count \in 1 .. 255 /\ reports \in Nat /\ MaxReports \in Nat
      /\ DeviceTyped /\ SequenceTyped /\ DeskTyped /\ FusionTyped
  <2>1. DeviceTyped /\ SequenceTyped /\ DeskTyped /\ FusionTyped
    BY TypeParts DEF Inv
  <2>2. away \in Nat /\ reports \in Nat
    BY <2>1, AwayIsLongerThanARepeat, ReportsBounded DEF DeviceTyped
  <2>3. gap \in Nat /\ count \in 1 .. 255
    BY ReportsStandForSamples
  <2> QED BY <2>1, <2>2, <2>3, Widths, ReportsBounded
          DEF DeviceTyped, DeskTyped, FusionTyped
<1>2. IsWrapped(start + time + away + gap, stamp)
  BY <1>1, Wraps
<1>3. /\ messages' = IF handler THEN Replicated(stamp) \o Samples(count) ELSE <<>>
      /\ LastTimestamp' = SInt16(stamp)
  BY DEF onTrackerMessage
<1> HIDE DEF stamp
<1>4. PICK r \in Nat : /\ Replicated(stamp) = Lost(r)
                       /\ r <= away + gap
                       /\ SequenceValid /\ gap + away = 0 => r = 0
  BY <1>1, <1>2, ReplicatedIsLost DEF Inv
<1>5. /\ Short(messages')
      /\ Pending' = IF handler THEN r + count ELSE 0
  <2>1. CASE handler
    BY <1>1, <1>3, <1>4, <2>1, ReportAddsUp DEF Pending
  <2>2. CASE ~handler
    <3>1. messages' = <<>>
      BY <1>3, <2>2
    <3>2. Short(<<>>)
      BY EmptySeq DEF Short, Deltas
    <3> QED BY <2>2, <3>1, <3>2, TotalOfNone DEF Pending
  <2> QED BY <2>1, <2>2
<1>6. Pending = 0
  BY TotalOfNone DEF Pending, onTrackerMessage
<1>7. TypeOK'
  <2>1. DeviceTyped'
    <3>1. time' \in Nat
      BY <1>1 DEF onTrackerMessage
    <3>2. reports' \in 0 .. MaxReports
      BY <1>1 DEF onTrackerMessage
    <3> QED BY <1>1, <3>1, <3>2 DEF onTrackerMessage, DeviceTyped
  <2>2. SequenceTyped'
    <3>1. LastTimestamp' \in Int16
      BY <1>2, <1>3, StampIs16Bit DEF IsWrapped
    <3>2. count \in 0 .. 255
      BY <1>1
    <3> QED BY <3>1, <3>2 DEF onTrackerMessage, SequenceTyped
  <2>3. DeskTyped'
    BY <1>1 DEF onTrackerMessage, DeskTyped, fusion, SequenceTyped
  <2>4. FusionTyped'
    BY <1>1, <1>5 DEF onTrackerMessage, FusionTyped, fusion, Short, Deltas
  <2> QED BY <2>1, <2>2, <2>3, <2>4, TypePartsNext
<1>8. Handed'
  <2>1. messages' # <<>> => handler
    BY <1>3
  <2>2. Len(messages') <= 4
    BY <1>5 DEF Short
  <2>3. handler' = handler /\ pc' = pc /\ (gapless' => gapless)
    BY Zenon DEF onTrackerMessage
  <2> QED BY <2>1, <2>2, <2>3 DEF Handed, Inv
<1>9. Settled'
  BY DEF onTrackerMessage, Settled, Inv, fusion
<1>10. Stamped'
  <2>1. start' + time' - LastSampleCount' = start + time + away + gap
    BY <1>1 DEF onTrackerMessage
  <2> QED BY <1>2, <1>3, <2>1 DEF Stamped
<1>11. TimeNotInvented'
  <2>1. RunningTime <= time - resetAt
    BY <1>1, <1>6 DEF Inv, TimeNotInvented
  <2>2. RunningTime' = RunningTime /\ resetAt' = resetAt /\ time' = time + away + gap + count
    BY DEF onTrackerMessage, fusion
  <2> QED BY <1>1, <1>4, <1>5, <2>1, <2>2 DEF TimeNotInvented
<1>12. TimeKeptWithoutLoss'
  <2> SUFFICES ASSUME gapless' PROVE (RunningTime + Pending = time - resetAt)'
    BY DEF TimeKeptWithoutLoss
  <2>1. gapless /\ gap + away = 0 /\ SequenceValid /\ handler
    <3>1. gapless /\ gap + away = 0 /\ SequenceValid
      BY Zenon DEF onTrackerMessage
    <3> QED BY <3>1 DEF Inv, Handed
  <2>2. RunningTime = time - resetAt
    BY <1>1, <1>6, <2>1 DEF Inv, TimeKeptWithoutLoss
  <2>3. RunningTime' = RunningTime /\ resetAt' = resetAt /\ time' = time + away + gap + count
    BY DEF onTrackerMessage, fusion
  <2>4. Pending' = count
    BY <1>1, <1>4, <1>5, <2>1
  <2> QED BY <1>1, <2>1, <2>2, <2>3, <2>4
<1>13. ReferencesFit'
  BY DEF onTrackerMessage, ReferencesFit, Inv, fusion
<1> QED BY <1>7, <1>8, <1>9, <1>10, <1>11, <1>12, <1>13 DEF Inv

-----------------------------------------------------------------------------
(* A message. *)

(* The list of points is one the lemmas on it are about. *)
LEMMA PointsApart ==
  ASSUME FusionTyped, ReferencesFit
  PROVE  mag \in References /\ Apart(mag.points)
  BY DEF FusionTyped, ReferencesFit, Apart

LEMMA FusionStep ==
  ASSUME Inv, handleMessage
  PROVE  mag' \in References /\ CalMag' \in Points /\ Settled' /\ ReferencesFit'
<1>1. /\ handler /\ handler' = handler /\ MagCalibrated' = MagCalibrated
      /\ CalMag' \in Points /\ RunningTime' = RunningTime + Head(messages)
  BY DEF handleMessage, Inv, Handed
<1>2. /\ mag \in References /\ Apart(mag.points) /\ mag.idx <= Len(mag.points)
      /\ RunningTime \in Nat /\ Head(messages) \in Nat
  <2>1. FusionTyped
    BY TypeParts DEF Inv
  <2>2. Head(messages) \in Nat
    BY HeadAndTail, ShortMessages DEF Inv, handleMessage
  <2> QED BY <2>1, <2>2, PointsApart DEF Inv, Settled, FusionTyped
<1>3. CASE MagCalibrated /\ RunningTime' > SettleTime
  <2>1. PICK agrees \in BOOLEAN : mag' = Updated(mag, CalMag', agrees)
    BY <1>3 DEF handleMessage
  <2>2. mag' \in References /\ Apart(mag'.points) /\ Fits(mag', CalMag')
    BY <1>1, <1>2, <2>1, UpdatedFits
  <2> QED BY <1>1, <1>3, <2>2 DEF Settled, ReferencesFit, Apart, Fits
<1>4. CASE ~(MagCalibrated /\ RunningTime' > SettleTime)
  <2>1. mag' = mag
    BY <1>4 DEF handleMessage
  <2>2. mag.idx = 0
    <3>1. RunningTime > SettleTime => RunningTime' > SettleTime
      BY <1>1, <1>2, SettleTimeIsNatural
    <3>2. ~(mag.idx > 0)
      BY <1>4, <3>1 DEF Inv, Settled
    <3> QED BY <1>2, <3>2 DEF References
  <2>3. Settled'
    BY <1>2, <2>1, <2>2 DEF Settled
  <2>4. ReferencesFit'
    BY <1>2, <2>1, <2>2 DEF ReferencesFit, Apart
  <2> QED BY <1>1, <1>2, <2>1, <2>3, <2>4
<1> QED BY <1>3, <1>4

LEMMA MessageStep ==
  ASSUME Inv, handleMessage
  PROVE  Inv'
<1>1. DeviceTyped /\ SequenceTyped /\ DeskTyped /\ FusionTyped
  BY TypeParts DEF Inv
<1>2. /\ Head(messages) \in Nat /\ Short(Tail(messages))
      /\ Pending = Head(messages) + TotalOf(Tail(messages))
      /\ TotalOf(Tail(messages)) \in Nat
      /\ handler
  BY HeadAndTail, ShortMessages DEF Inv, handleMessage, Pending, Handed
<1>3. /\ messages' = Tail(messages) /\ RunningTime' = RunningTime + Head(messages)
      /\ UNCHANGED <<device, sequence, handler, pc, MagCalibrated, resetAt, gapless>>
  BY DEF handleMessage
<1>4. RunningTime' + Pending' = RunningTime + Pending
  BY <1>1, <1>2, <1>3 DEF Pending, FusionTyped
<1>5. TypeOK'
  <2>1. DeviceTyped' /\ SequenceTyped' /\ DeskTyped'
    BY <1>1, <1>3 DEF DeviceTyped, SequenceTyped, DeskTyped, device, sequence
  <2>2. FusionTyped'
    BY <1>1, <1>2, <1>3, FusionStep DEF FusionTyped, Short, Deltas
  <2> QED BY <2>1, <2>2, TypePartsNext
<1>6. Handed'
  BY <1>2, <1>3 DEF Inv, Handed, Short
<1>7. Stamped'
  BY <1>3 DEF Inv, Stamped, device, sequence
<1>8. TimeNotInvented'
  BY <1>3, <1>4 DEF Inv, TimeNotInvented, device
<1>9. TimeKeptWithoutLoss'
  BY <1>3, <1>4 DEF Inv, TimeKeptWithoutLoss, device
<1> QED BY <1>5, <1>6, <1>7, <1>8, <1>9, FusionStep DEF Inv

-----------------------------------------------------------------------------
(* The other steps. *)

LEMMA ReplugStep ==
  ASSUME Inv, Replug
  PROVE  Inv'
<1>1. DeviceTyped /\ SequenceTyped /\ DeskTyped /\ FusionTyped
  BY TypeParts DEF Inv
<1>2. away' = Away /\ UNCHANGED <<time, reports, sequence, handler, messages, pc, fusion, resetAt, gapless>>
  BY DEF Replug
<1>3. start' \in UInt16
  <2>1. PICK s \in Starts : start' = (s - time - away') % 2^16
    BY DEF Replug
  <2>2. s \in Int
    BY ClockIs16Bit, Widths
  <2>3. s - time - away' \in Int
    BY <1>1, <1>2, <2>2, AwayIsLongerThanARepeat DEF DeviceTyped
  <2> QED BY <2>1, <2>3, Wraps DEF IsWrapped
<1>4. TypeOK'
  <2>1. DeviceTyped'
    BY <1>1, <1>2, <1>3 DEF DeviceTyped
  <2>2. SequenceTyped' /\ DeskTyped' /\ FusionTyped'
    BY <1>1, <1>2 DEF SequenceTyped, DeskTyped, FusionTyped, sequence, fusion
  <2> QED BY <2>1, <2>2, TypePartsNext
<1>5. Handed' /\ Settled' /\ ReferencesFit'
  BY <1>2 DEF Inv, Handed, Settled, ReferencesFit, fusion
<1>6. Stamped'
  BY <1>2, AwayIsLongerThanARepeat DEF Stamped
<1>7. TimeNotInvented' /\ TimeKeptWithoutLoss'
  BY <1>2 DEF Inv, TimeNotInvented, TimeKeptWithoutLoss, Pending, fusion
<1> QED BY <1>4, <1>5, <1>6, <1>7 DEF Inv

LEMMA LoadStep ==
  ASSUME Inv, LoadMagCalibration
  PROVE  Inv'
<1>1. DeviceTyped /\ SequenceTyped /\ DeskTyped /\ FusionTyped
  BY TypeParts DEF Inv
<1>2. /\ pc = "out" /\ MagCalibrated' \in BOOLEAN /\ pc' = "calibrated"
      /\ UNCHANGED <<device, sequence, handler, messages, RunningTime, CalMag, mag, resetAt, gapless>>
  BY DEF LoadMagCalibration
<1>3. ~handler /\ ~(mag.idx > 0)
  BY <1>2 DEF Inv, Handed, Settled
<1>4. TypeOK'
  <2>1. DeviceTyped' /\ SequenceTyped' /\ DeskTyped' /\ FusionTyped'
    BY <1>1, <1>2 DEF DeviceTyped, SequenceTyped, DeskTyped, FusionTyped, device, sequence
  <2> QED BY <2>1, TypePartsNext
<1>5. Handed' /\ Settled' /\ ReferencesFit'
  BY <1>2, <1>3 DEF Inv, Handed, Settled, ReferencesFit
<1>6. Stamped'
  BY <1>2 DEF Inv, Stamped, device, sequence
<1>7. TimeNotInvented' /\ TimeKeptWithoutLoss'
  BY <1>2 DEF Inv, TimeNotInvented, TimeKeptWithoutLoss, Pending, device
<1> QED BY <1>4, <1>5, <1>6, <1>7 DEF Inv

LEMMA InvalidateStep ==
  ASSUME Inv, InvalidateSequence
  PROVE  Inv'
<1>1. DeviceTyped /\ SequenceTyped /\ DeskTyped /\ FusionTyped
  BY TypeParts DEF Inv
<1>2. /\ pc = "calibrated" /\ SequenceValid' = FALSE /\ pc' = "invalidated"
      /\ UNCHANGED << device, LastTimestamp, LastSampleCount, handler, messages, fusion,
                      resetAt, gapless >>
  BY DEF InvalidateSequence
<1>3. TypeOK'
  <2>1. DeviceTyped' /\ SequenceTyped' /\ DeskTyped' /\ FusionTyped'
    BY <1>1, <1>2 DEF DeviceTyped, SequenceTyped, DeskTyped, FusionTyped, device, fusion
  <2> QED BY <2>1, TypePartsNext
<1>4. Handed' /\ Settled' /\ ReferencesFit' /\ Stamped'
  BY <1>2 DEF Inv, Handed, Settled, ReferencesFit, fusion, Stamped
<1>5. TimeNotInvented' /\ TimeKeptWithoutLoss'
  BY <1>2 DEF Inv, TimeNotInvented, TimeKeptWithoutLoss, Pending, device, fusion
<1> QED BY <1>3, <1>4, <1>5 DEF Inv

LEMMA SetHandlerStep ==
  ASSUME Inv, SetHandler
  PROVE  Inv'
<1>1. DeviceTyped /\ SequenceTyped /\ DeskTyped /\ FusionTyped
  BY TypeParts DEF Inv
<1>2. /\ pc = "invalidated" /\ messages = <<>> /\ handler' = TRUE /\ pc' = "installed"
      /\ UNCHANGED <<device, sequence, messages, fusion, resetAt, gapless>>
  BY DEF SetHandler
<1>3. TypeOK'
  <2>1. DeviceTyped' /\ SequenceTyped' /\ DeskTyped' /\ FusionTyped'
    BY <1>1, <1>2
    DEF DeviceTyped, SequenceTyped, DeskTyped, FusionTyped, device, sequence, fusion
  <2> QED BY <2>1, TypePartsNext
<1>4. Handed' /\ Settled' /\ ReferencesFit' /\ Stamped'
  BY <1>2 DEF Inv, Handed, Settled, ReferencesFit, fusion, Stamped, device, sequence
<1>5. TimeNotInvented' /\ TimeKeptWithoutLoss'
  BY <1>2 DEF Inv, TimeNotInvented, TimeKeptWithoutLoss, Pending, device, fusion
<1> QED BY <1>3, <1>4, <1>5 DEF Inv

LEMMA ResetStep ==
  ASSUME Inv, Reset
  PROVE  Inv'
<1>1. DeviceTyped /\ SequenceTyped /\ DeskTyped /\ FusionTyped
  BY TypeParts DEF Inv
<1>2. /\ pc = "installed" /\ messages = <<>> /\ RunningTime' = 0
      /\ mag' = [mag EXCEPT !.points = <<>>, !.idx = 0]
      /\ resetAt' = time /\ gapless' = SequenceValid /\ pc' = "attached"
      /\ UNCHANGED <<device, sequence, handler, messages, MagCalibrated, CalMag>>
  BY DEF Reset
<1>3. mag' \in References /\ mag'.points = <<>> /\ mag'.idx = 0 /\ Len(<<>>) = 0
  BY <1>1, <1>2, EmptySeq DEF FusionTyped, References
<1>4. handler
  BY <1>2 DEF Inv, Handed
<1>5. TypeOK'
  <2>1. DeviceTyped' /\ SequenceTyped' /\ DeskTyped' /\ FusionTyped'
    BY <1>1, <1>2, <1>3
    DEF DeviceTyped, SequenceTyped, DeskTyped, FusionTyped, device, sequence
  <2> QED BY <2>1, TypePartsNext
<1>6. Handed'
  BY <1>2, <1>3, <1>4 DEF Handed
<1>7. Settled' /\ ReferencesFit'
  BY <1>3, ReferencesBounded DEF Settled, ReferencesFit
<1>8. Stamped'
  BY <1>2 DEF Inv, Stamped, device, sequence
<1>9. TimeNotInvented' /\ TimeKeptWithoutLoss'
  <2>1. Pending' = 0 /\ RunningTime' = 0 /\ time' = time /\ resetAt' = time /\ time \in Nat
    BY <1>1, <1>2, TotalOfNone DEF Pending, device, DeviceTyped
  <2> QED BY <2>1 DEF TimeNotInvented, TimeKeptWithoutLoss
<1> QED BY <1>5, <1>6, <1>7, <1>8, <1>9 DEF Inv

LEMMA IdleStep ==
  ASSUME Inv, UNCHANGED vars
  PROVE  Inv'
<1>1. DeviceTyped /\ SequenceTyped /\ DeskTyped /\ FusionTyped
  BY TypeParts DEF Inv
<1>2. DeviceTyped' /\ SequenceTyped' /\ DeskTyped' /\ FusionTyped'
  BY <1>1 DEF DeviceTyped, SequenceTyped, DeskTyped, FusionTyped, vars
<1>3. Handed' /\ Settled' /\ ReferencesFit' /\ Stamped'
  BY DEF Inv, Handed, Settled, ReferencesFit, Stamped, vars
<1>4. TimeNotInvented' /\ TimeKeptWithoutLoss'
  BY DEF Inv, TimeNotInvented, TimeKeptWithoutLoss, Pending, vars
<1> QED BY <1>2, <1>3, <1>4, TypePartsNext DEF Inv

LEMMA Invariance == Spec => []Inv
<1>1. Inv /\ [Next]_vars => Inv'
  <2> SUFFICES ASSUME Inv, [Next]_vars PROVE Inv'
    OBVIOUS
  <2>1. CASE \E gap \in Gaps, count \in Counts : onTrackerMessage(gap, count)
    BY <2>1, ReportStep
  <2>2. CASE handleMessage
    BY <2>2, MessageStep
  <2>3. CASE Replug
    BY <2>3, ReplugStep
  <2>4. CASE AttachToSensor
    BY <2>4, LoadStep, InvalidateStep, SetHandlerStep, ResetStep DEF AttachToSensor
  <2>5. CASE UNCHANGED vars
    BY <2>5, IdleStep
  <2> QED BY <2>1, <2>2, <2>3, <2>4, <2>5 DEF Next
<1> QED BY <1>1, Started, PTL DEF Spec

(* The types hold, for every clock, loss and number of reports. *)
THEOREM TypeInvariant == Spec => []TypeOK
<1>1. Inv => TypeOK
  BY DEF Inv
<1> QED BY <1>1, Invariance, PTL

(* No stretch of time is integrated twice: what the fusion has turned the  *)
(* head for, and what is still to be handed over, is never more than has   *)
(* passed since its reset, however the 16-bit clock wraps, whatever is     *)
(* lost and wherever the tracker's clock starts when it is plugged in      *)
(* again.                                                                  *)
THEOREM TimeIsNotInvented == Spec => []TimeNotInvented
<1>1. Inv => TimeNotInvented
  BY DEF Inv
<1> QED BY <1>1, Invariance, PTL

(* As long as no report is lost, no millisecond is. *)
THEOREM TimeIsKeptWithoutLoss == Spec => []TimeKeptWithoutLoss
<1>1. Inv => TimeKeptWithoutLoss
  BY DEF Inv
<1> QED BY <1>1, Invariance, PTL

(* The reference point in use is there and near the field last measured,   *)
(* and any two are as far apart as the limit, for any list that never      *)
(* takes more than MagMaxReferences.                                       *)
THEOREM ReferencesAlwaysFit == Spec => []ReferencesFit
<1>1. Inv => ReferencesFit
  BY DEF Inv
<1> QED BY <1>1, Invariance, PTL

-----------------------------------------------------------------------------
(* Small gaps. *)

(* From a stamp in the lower half of the clock's cycle a little time is    *)
(* measured as it is.                                                      *)
LEMMA DeltaIsTheTime ==
  ASSUME NEW a \in Int, NEW b \in Int, NEW m, NEW n, b <= a, a - b <= 254,
         IsWrapped(a, m), IsWrapped(b, n), LastTimestamp = SInt16(n), LastTimestamp >= 0
  PROVE  timestampDelta(m) = a - b
<1>1. m \in Int /\ 0 <= m /\ m <= 65535 /\ n \in Int /\ 0 <= n /\ n <= 65535
  BY DEF IsWrapped, UInt16
<1>2. PICK p \in Int : a = 65536 * p + m
  BY DEF IsWrapped
<1>3. PICK q \in Int : b = 65536 * q + n
  BY DEF IsWrapped
<1>4. LastTimestamp = n
  BY <1>1 DEF SInt16
<1>5. p - q \in Int /\ a - b = 65536 * (p - q) + (m - n)
  BY <1>1, <1>2, <1>3
<1>6. CASE m < n
  <2>1. timestampDelta(m) = m + 65536 - n
    BY <1>4, <1>6 DEF timestampDelta
  <2>2. p - q = 1
    BY <1>1, <1>5, <1>6
  <2> QED BY <1>1, <1>5, <2>1, <2>2
<1>7. CASE ~(m < n)
  <2>1. timestampDelta(m) = m - n
    BY <1>4, <1>7 DEF timestampDelta
  <2>2. p - q = 0
    BY <1>1, <1>5, <1>7
  <2> QED BY <1>1, <1>5, <2>1, <2>2
<1> QED BY <1>6, <1>7

LEMMA ReportFills ==
  ASSUME Inv, NEW gap \in Gaps, NEW count \in Counts, onTrackerMessage(gap, count),
         LastTimestamp >= 0
  PROVE  SmallGapFilled
<1> DEFINE stamp == (start + time + away + gap) % 2^16
           d == timestampDelta(stamp)
           c == LastSampleCount
<1> SUFFICES ASSUME SequenceValid, handler,
                    time' - time - LastSampleCount' + LastSampleCount <= 254
             PROVE  Pending' = time' - time
  BY DEF SmallGapFilled
<1>1. /\ time \in Nat /\ start \in Nat /\ c \in Nat /\ gap \in Nat /\ count \in 1 .. 255
      /\ away \in {0, Away} /\ Away \in Nat /\ Away > 254
  <2>1. 0 .. 255 \subseteq Nat
    OBVIOUS
  <2>2. DeviceTyped /\ SequenceTyped
    BY TypeParts DEF Inv
  <2> QED BY <2>1, <2>2, Widths, ReportsStandForSamples, AwayIsLongerThanARepeat
          DEF DeviceTyped, SequenceTyped
<1>2. /\ time' = time + away + gap + count /\ LastSampleCount' = count
      /\ messages' = Replicated(stamp) \o Samples(count)
  BY DEF onTrackerMessage
<1>3. away = 0 /\ gap + c <= 254
  BY <1>1, <1>2
<1>4. d = gap + c
  <2> DEFINE a == start + time + away + gap
             b == start + time - LastSampleCount
  <2>1. PICK m : IsWrapped(b, m) /\ LastTimestamp = SInt16(m)
    BY <1>3 DEF Inv, Stamped
  <2>2. a \in Int /\ b \in Int /\ b <= a /\ a - b = gap + c /\ a - b <= 254
    BY <1>1, <1>3
  <2>3. IsWrapped(a, stamp)
    BY <2>2, Wraps
  <2> HIDE DEF a, b, stamp
  <2> QED BY <2>1, <2>2, <2>3, DeltaIsTheTime
<1> HIDE DEF stamp
<1>5. Replicated(stamp) = Lost(gap)
  <2>1. CASE gap = 0
    BY <1>1, <1>4, <2>1 DEF Replicated, Lost
  <2>2. CASE gap # 0
    <3>1. d > c /\ d <= 254 /\ d - c = gap
      BY <1>1, <1>3, <1>4, <2>2
    <3> QED BY <2>2, <3>1 DEF Replicated, Lost
  <2> QED BY <2>1, <2>2
<1>6. TotalOf(messages') = gap + count
  BY <1>1, <1>2, <1>5, ReportAddsUp
<1> QED BY <1>1, <1>2, <1>3, <1>6 DEF Pending

(* What SmallGapsAreFilled says is so whenever the last report began in    *)
(* the lower half of the clock's cycle, wherever this one begins: the sign *)
(* of LastTimestamp is all that is wrong.                                  *)
THEOREM GapsAreFilledInTheLowerHalf == Spec => [][LastTimestamp >= 0 => SmallGapFilled]_vars
<1>1. ASSUME Inv, [Next]_vars
      PROVE  [LastTimestamp >= 0 => SmallGapFilled]_vars
  <2>1. ASSUME NEW gap \in Gaps, NEW count \in Counts, onTrackerMessage(gap, count)
        PROVE  LastTimestamp >= 0 => SmallGapFilled
    BY <1>1, <2>1, ReportFills
  <2>2. CASE handleMessage \/ Replug \/ AttachToSensor
    <3>1. time' = time /\ time \in Nat
      BY <1>1, <2>2, TypeParts DEF Inv, DeviceTyped, handleMessage, Replug, AttachToSensor,
         LoadMagCalibration, InvalidateSequence, SetHandler, Reset, device
    <3> QED BY <3>1 DEF SmallGapFilled
  <2>3. CASE UNCHANGED vars
    BY <2>3
  <2> QED BY <1>1, <2>1, <2>2, <2>3 DEF Next
<1> QED BY <1>1, Invariance, PTL DEF Spec
=============================================================================
