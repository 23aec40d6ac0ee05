---------------------------- MODULE MagReferences ----------------------------
(***************************************************************************)
(* The magnetometer's reference points of SensorFusion::handleMessage: the *)
(* field measured at some orientations, against which a later measurement  *)
(* nearby tells how far the yaw has drifted.  Operators on the list of     *)
(* points, the index of the one in use (0 is the code's -1) and its score. *)
(***************************************************************************)
EXTENDS Integers, Sequences, SequencesExt

CONSTANTS
  MagMaxReferences,   \* 1000
  maxMagRefDist,      \* 0.1
  FirstScore,         \* 1000
  ScoreLimit          \* bound: a score above it is not told apart from it

ASSUME ReferencesBounded ==
  /\ MagMaxReferences \in Nat /\ maxMagRefDist \in Nat
  /\ FirstScore \in Int /\ ScoreLimit \in Int

NoReferences == [points |-> <<>>, idx |-> 0, score |-> 0]

(* The field is a point on a line. *)
Distance(p, q) == IF p > q THEN p - q ELSE q - p

TooFar(m, calMag) == m.idx = 0 \/ Distance(calMag, m.points[m.idx]) > maxMagRefDist

(* "Delete a bad point": the last one takes its place. *)
WithoutBad(m) ==
  IF m.idx > 0 /\ m.score < 0
  THEN Front([m.points EXCEPT ![m.idx] = Last(m.points)])
  ELSE m.points

(* The nearest of the points that are near enough, the first of them. *)
Near(points, calMag) ==
  { i \in 1 .. Len(points) : Distance(calMag, points[i]) < maxMagRefDist }

Nearest(points, calMag) ==
  CHOOSE i \in Near(points, calMag) :
    \A j \in Near(points, calMag) :
      \/ Distance(calMag, points[i]) < Distance(calMag, points[j])
      \/ Distance(calMag, points[i]) = Distance(calMag, points[j]) /\ i <= j

(* "Find a new one", "Create one if needed": a full list takes no more. *)
Found(points, calMag) ==
  IF Near(points, calMag) # {}
  THEN [points |-> points, idx |-> Nearest(points, calMag), score |-> FirstScore]
  ELSE IF Len(points) < MagMaxReferences
  THEN [points |-> Append(points, calMag), idx |-> Len(points) + 1, score |-> FirstScore]
  ELSE [points |-> points, idx |-> 0, score |-> FirstScore]

(* The score tells whether the vertical angle keeps agreeing. *)
Scored(m, agrees) ==
  IF m.idx = 0 THEN m
  ELSE IF agrees THEN [m EXCEPT !.score = IF @ + 2 > ScoreLimit THEN ScoreLimit ELSE @ + 2]
  ELSE [m EXCEPT !.score = @ - 1]

Updated(m, calMag, agrees) ==
  Scored(IF TooFar(m, calMag) THEN Found(WithoutBad(m), calMag) ELSE m, agrees)
=============================================================================
