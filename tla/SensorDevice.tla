---------------------------- MODULE SensorDevice ----------------------------
(***************************************************************************)
(* SensorDeviceImpl with the SensorFusion the desk attaches to it.  The    *)
(* device manager's thread turns a report of the tracker into messages and *)
(* hands them over, one after the other, under the handlers' lock; when    *)
(* reports were lost it repeats the last sample for the time they stood    *)
(* for.  The desk's thread attaches and resets the fusion in the meantime. *)
(***************************************************************************)
EXTENDS MagReferences

CONSTANTS
  Starts,       \* the tracker's 16-bit clock when the desk starts, in ms
  Gaps,         \* samples lost before a report
  Counts,       \* samples a report stands for: a byte
  Away,         \* milliseconds a tracker that was plugged in again was away
  Points,       \* what the magnetometer may measure
  SettleTime,   \* 2000 ms: no yaw correction before
  MaxReports    \* bound: reports received

UInt16 == 0 .. 2^16 - 1
Int16 == -(2^15) .. 2^15 - 1

ASSUME ReportsStandForSamples == Counts \subseteq 1 .. 255 /\ Gaps \subseteq Nat
ASSUME ClockIs16Bit == Starts \subseteq UInt16
ASSUME AwayIsLongerThanARepeat == Away \in Nat /\ Away > 254
ASSUME FieldsAreOnALine == Points \subseteq Int /\ 0 \in Points
ASSUME SettleTimeIsNatural == SettleTime \in Nat
ASSUME ReportsBounded == MaxReports \in Nat

VARIABLES
  time,             \* true milliseconds up to the end of the last report
  start,            \* the tracker's clock when time was 0
  away,             \* what has passed since then while the tracker was unplugged
  reports,
  SequenceValid, LastTimestamp, LastSampleCount,
  handler,          \* the fusion is installed as the device's handler
  messages,         \* the TimeDelta of each message still to be handed over;
                    \* the handlers' lock is held while there are any
  pc,               \* where the desk's thread stands in AttachToSensor
  MagCalibrated,    \* and EnableYawCorrection
  RunningTime,
  CalMag,
  mag,              \* the reference points
  resetAt,          \* the time Reset ran (a ghost)
  gapless           \* no sample was lost since, nor before its end (a ghost)

device == <<time, start, away, reports>>
sequence == <<SequenceValid, LastTimestamp, LastSampleCount>>
fusion == <<MagCalibrated, RunningTime, CalMag, mag>>
vars == << time, start, away, reports, SequenceValid, LastTimestamp, LastSampleCount, handler,
           messages, pc, MagCalibrated, RunningTime, CalMag, mag, resetAt, gapless >>

Init ==
  /\ time = 0 /\ start \in Starts /\ away = 0 /\ reports = 0
  /\ SequenceValid = FALSE /\ LastTimestamp = 0 /\ LastSampleCount = 0
  /\ handler = FALSE
  /\ messages = <<>>
  /\ pc = "out"
  /\ MagCalibrated = FALSE
  /\ RunningTime = 0
  /\ CalMag = 0
  /\ mag = NoReferences
  /\ resetAt = 0
  /\ gapless = FALSE

-----------------------------------------------------------------------------
(* The device manager's thread. *)

(* LastTimestamp is an SInt16, what it is set from a UInt16. *)
SInt16(x) == IF x < 32768 THEN x ELSE x - 65536

timestampDelta(stamp) ==
  IF stamp < LastTimestamp THEN stamp + 65536 - LastTimestamp ELSE stamp - LastTimestamp

(* A bug to compare with: the samples of the last report count as lost. *)
ReplicatedWhole(stamp) ==
  IF /\ SequenceValid
     /\ timestampDelta(stamp) > LastSampleCount
     /\ timestampDelta(stamp) <= 254
  THEN <<timestampDelta(stamp)>> ELSE <<>>

(* A bug to compare with: a sample of no length when none is missing. *)
ReplicatedAlways(stamp) ==
  IF /\ SequenceValid
     /\ timestampDelta(stamp) >= LastSampleCount
     /\ timestampDelta(stamp) <= 254
  THEN <<timestampDelta(stamp) - LastSampleCount>> ELSE <<>>

(* "If we missed a small number of samples, replicate the last sample." *)
Replicated(stamp) ==
  IF /\ SequenceValid
     /\ timestampDelta(stamp) > LastSampleCount
     /\ timestampDelta(stamp) <= 254
  THEN <<timestampDelta(stamp) - LastSampleCount>> ELSE <<>>

(* A bug to compare with: a report of averages counts for three samples.   *)
SamplesAsUnits(count) == [i \in 1 .. (IF count > 3 THEN 3 ELSE count) |-> 1]

(* A report holds three samples at most; with more, the first is the       *)
(* average of all but the last two.                                        *)
Samples(count) == IF count > 3 THEN <<count - 2, 1, 1>> ELSE [i \in 1 .. count |-> 1]

(* onTrackerMessage up to the calls of the handler. *)
onTrackerMessage(gap, count) ==
  /\ reports < MaxReports
  /\ messages = <<>>
  /\ LET stamp == (start + time + away + gap) % 2^16
     IN /\ messages' = IF handler THEN Replicated(stamp) \o Samples(count) ELSE <<>>
        /\ LastTimestamp' = SInt16(stamp)
  /\ LastSampleCount' = count
  /\ SequenceValid' = TRUE
  /\ time' = time + away + gap + count
  /\ away' = 0
  /\ reports' = reports + 1
  /\ gapless' = (gapless /\ gap + away = 0 /\ SequenceValid)
  /\ UNCHANGED <<start, handler, pc, fusion, resetAt>>

(* HandlerRef.GetHandler()->OnMessage: handleMessage of the fusion. *)
handleMessage ==
  /\ messages # <<>>
  /\ messages' = Tail(messages)
  /\ RunningTime' = RunningTime + Head(messages)
  /\ CalMag' \in Points
  /\ \E agrees \in BOOLEAN :
       mag' = IF MagCalibrated /\ RunningTime' > SettleTime
              THEN Updated(mag, CalMag', agrees) ELSE mag
  /\ UNCHANGED <<device, sequence, handler, pc, MagCalibrated, resetAt, gapless>>

(* The tracker is plugged in again with another clock: the file is opened  *)
(* anew, and nothing here is told.                                         *)
Replug ==
  /\ reports > 0 /\ reports < MaxReports
  /\ messages = <<>>
  /\ away = 0
  /\ away' = Away
  /\ \E s \in Starts : start' = (s - time - away') % 2^16
  /\ UNCHANGED <<time, reports, sequence, handler, messages, pc, fusion, resetAt, gapless>>

-----------------------------------------------------------------------------
(* The desk's thread in SensorFusion::AttachToSensor. *)

(* No other handler is there; a calibration of this tracker may be on disk. *)
LoadMagCalibration ==
  /\ pc = "out"
  /\ MagCalibrated' \in BOOLEAN
  /\ pc' = "calibrated"
  /\ UNCHANGED <<device, sequence, handler, messages, RunningTime, CalMag, mag, resetAt, gapless>>

(* SensorDeviceImpl::SetMessageHandler before it takes the lock ... *)
InvalidateSequence ==
  /\ pc = "calibrated"
  /\ SequenceValid' = FALSE
  /\ pc' = "invalidated"
  /\ UNCHANGED << device, LastTimestamp, LastSampleCount, handler, messages, fusion,
                  resetAt, gapless >>

(* ... and under it. *)
SetHandler ==
  /\ pc = "invalidated"
  /\ messages = <<>>
  /\ handler' = TRUE
  /\ pc' = "installed"
  /\ UNCHANGED <<device, sequence, messages, fusion, resetAt, gapless>>

(* A bug to compare with: the points survive, and the one in use with them. *)
ResetTimeOnly ==
  /\ pc = "installed"
  /\ messages = <<>>
  /\ RunningTime' = 0
  /\ mag' = [mag EXCEPT !.points = <<>>]
  /\ resetAt' = time
  /\ gapless' = SequenceValid
  /\ pc' = "attached"
  /\ UNCHANGED <<device, sequence, handler, messages, MagCalibrated, CalMag>>

Reset ==
  /\ pc = "installed"
  /\ messages = <<>>
  /\ RunningTime' = 0
  /\ mag' = [mag EXCEPT !.points = <<>>, !.idx = 0]
  /\ resetAt' = time
  /\ gapless' = SequenceValid
  /\ pc' = "attached"
  /\ UNCHANGED <<device, sequence, handler, messages, MagCalibrated, CalMag>>

AttachToSensor == LoadMagCalibration \/ InvalidateSequence \/ SetHandler \/ Reset

Next ==
  \/ \E gap \in Gaps, count \in Counts : onTrackerMessage(gap, count)
  \/ handleMessage
  \/ Replug
  \/ AttachToSensor

Spec == Init /\ [][Next]_vars

-----------------------------------------------------------------------------
TypeOK ==
  /\ time \in Nat /\ start \in UInt16 /\ away \in {0, Away} /\ reports \in 0 .. MaxReports
  /\ SequenceValid \in BOOLEAN
  /\ LastTimestamp \in Int16
  /\ LastSampleCount \in 0 .. 255
  /\ handler \in BOOLEAN
  /\ messages \in Seq(Nat \ {0})
  /\ pc \in {"out", "calibrated", "invalidated", "installed", "attached"}
  /\ MagCalibrated \in BOOLEAN
  /\ RunningTime \in Nat
  /\ CalMag \in Points
  /\ mag \in [points : Seq(Points), idx : Nat, score : Int]
  /\ resetAt \in Nat /\ gapless \in BOOLEAN

(***************************************************************************)
(* The fusion never turns the head for longer than has passed since its    *)
(* reset: whatever was lost, wrapped or plugged in again, no stretch of    *)
(* time is integrated twice.                                               *)
(***************************************************************************)
TotalOf(s) ==
  LET sum[i \in 0 .. Len(s)] == IF i = 0 THEN 0 ELSE sum[i - 1] + s[i]
  IN  sum[Len(s)]
Pending == TotalOf(messages)

TimeNotInvented == RunningTime + Pending <= time - resetAt

(* As long as no report is lost no millisecond is, at the clock's wrap     *)
(* neither, and whatever number of samples a report stands for.            *)
TimeKeptWithoutLoss == gapless => RunningTime + Pending = time - resetAt

(***************************************************************************)
(* The reference in use exists and is one for the field last measured, and *)
(* no two references are for the same stretch of it.                       *)
(***************************************************************************)
ReferencesFit ==
  /\ mag.idx > 0 => /\ mag.idx <= Len(mag.points)
                    /\ Distance(CalMag, mag.points[mag.idx]) <= maxMagRefDist
  /\ \A i, j \in 1 .. Len(mag.points) :
       i # j => Distance(mag.points[i], mag.points[j]) >= maxMagRefDist
  /\ Len(mag.points) <= MagMaxReferences

(* The time a report adds reaches back to the end of the last one, when    *)
(* little is missing between them.                                         *)
SmallGapFilled ==
  time' > time /\ time' - time - LastSampleCount' + LastSampleCount <= 254
    /\ SequenceValid /\ handler /\ reports' > reports
  => Pending' = time' - time

(***************************************************************************)
(* "If we missed a small number of samples, replicate the last sample"     *)
(* (OVR_SensorImpl.cpp:847): the time a report adds reaches back to the    *)
(* end of the last one when little is missing between them.                *)
(***************************************************************************)
SmallGapsAreFilled == [][SmallGapFilled]_vars
=============================================================================
