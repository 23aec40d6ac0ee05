--------------------------- MODULE HIDDeviceProofs ---------------------------
(***************************************************************************)
(* The tracker's file and its keep-alive, for any number of names, any     *)
(* number of plugs and any keep-alive times of which the period is the     *)
(* shorter: the notifications still to come always lead to the tracker     *)
(* that is there, and one that streams is told to in time.                 *)
(***************************************************************************)
EXTENDS HIDDevice, SequenceTheorems, TLAPS

-----------------------------------------------------------------------------
(* Types. *)

(* What a pass of Run still has to do is still there. *)
Pending ==
  /\ thread = "monitor" => udev # <<>>
  /\ thread = "device" /\ "monitor" \in revents => udev # <<>>

Typed == TypeOK /\ Pending

LEMMA TypedInit == Init => Typed
<1> SUFFICES ASSUME Init PROVE Typed
  OBVIOUS
<1>1. udev \in Seq(Notifications)
  BY EmptySeq DEF Init
<1>2. due \in -1 .. KeepAliveDelta /\ awake \in 0 .. KeepAliveTimeout /\ plugs \in 0 .. MaxPlugs
  BY TimesAreNatural, PlugsAreBounded DEF Init
<1> QED BY <1>1, <1>2 DEF Init, Typed, TypeOK, Pending

(* What Notify does to the notifications. *)
LEMMA Notified ==
  ASSUME TypeOK, NEW action \in {"add", "remove"}, NEW path \in Paths, NEW ours \in BOOLEAN,
         Notify(action, path, ours)
  PROVE  /\ udev' \in Seq(Notifications) /\ udev' # <<>>
         /\ Len(udev) \in Nat /\ Len(udev') = Len(udev) + 1
         /\ \A i \in 1 .. Len(udev) : udev'[i] = udev[i]
         /\ udev'[Len(udev) + 1] = [action |-> action, path |-> path, ours |-> ours]
<1>1. udev \in Seq(Notifications) /\ [action |-> action, path |-> path, ours |-> ours] \in Notifications
  BY DEF TypeOK, Notifications
<1>2. udev' = Append(udev, [action |-> action, path |-> path, ours |-> ours])
  BY DEF Notify
<1>3. udev' \in Seq(Notifications) /\ Len(udev') = Len(udev) + 1 /\ Len(udev) \in Nat
  BY <1>1, <1>2, AppendProperties, LenProperties
<1>4. udev' # <<>>
  BY <1>3, EmptySeq
<1>5. \A i \in 1 .. Len(udev) : udev'[i] = udev[i]
  BY <1>1, <1>2, AppendProperties
<1>6. udev'[Len(udev) + 1] = [action |-> action, path |-> path, ours |-> ours]
  BY <1>1, <1>2, AppendProperties
<1> QED BY <1>3, <1>4, <1>5, <1>6

(* What OnNotification takes away. *)
LEMMA OneTaken ==
  ASSUME TypeOK, udev # <<>>, udev' = Tail(udev)
  PROVE  /\ Head(udev) = udev[1] /\ Head(udev) \in Notifications
         /\ udev' \in Seq(Notifications)
         /\ Len(udev) \in Nat /\ Len(udev) >= 1 /\ Len(udev') = Len(udev) - 1
         /\ \A i \in 1 .. Len(udev') : udev'[i] = udev[i + 1]
<1>1. udev \in Seq(Notifications)
  BY DEF TypeOK
<1>2. Len(udev) \in Nat /\ Len(udev) >= 1
  BY <1>1, EmptySeq, LenProperties
<1>3. Head(udev) = udev[1] /\ udev[1] \in Notifications
  BY <1>1, <1>2, ElementOfSeq, HeadTailProperties
<1>4. udev' \in Seq(Notifications) /\ Len(udev') = Len(udev) - 1
  BY <1>1, HeadTailProperties
<1>5. \A i \in 1 .. Len(udev') : udev'[i] = udev[i + 1]
  BY <1>1, HeadTailProperties
<1> QED BY <1>2, <1>3, <1>4, <1>5

LEMMA WorldTyped ==
  ASSUME Typed, Plug \/ Unplug \/ PlugOther \/ UnplugOther
  PROVE  Typed'
<1>1. plugs \in 0 .. MaxPlugs /\ plugs < MaxPlugs /\ plugs' = plugs + 1 => plugs' \in 0 .. MaxPlugs
  BY PlugsAreBounded
<1>2. 0 \in 0 .. KeepAliveTimeout /\ KeepAliveTimeout \in 0 .. KeepAliveTimeout
  BY TimesAreNatural
<1>3. CASE Plug
  <2>1. udev' \in Seq(Notifications) /\ udev' # <<>>
    BY <1>3, Notified DEF Plug, Typed, Taken
  <2> QED BY <1>1, <1>2, <1>3, <2>1 DEF Plug, Typed, TypeOK, Pending
<1>4. CASE Unplug
  <2>1. node \in Paths
    BY <1>4 DEF Unplug, Typed, TypeOK
  <2>2. udev' \in Seq(Notifications) /\ udev' # <<>>
    BY <1>4, <2>1, Notified DEF Unplug, Typed
  <2> QED BY <1>1, <1>2, <1>4, <2>2 DEF Unplug, Typed, TypeOK, Pending
<1>5. CASE PlugOther
  <2>1. udev' \in Seq(Notifications) /\ udev' # <<>>
    BY <1>5, Notified DEF PlugOther, Typed, Taken
  <2> QED BY <1>1, <1>5, <2>1 DEF PlugOther, Typed, TypeOK, Pending, file
<1>6. CASE UnplugOther
  <2>1. other \in Paths
    BY <1>6 DEF UnplugOther, Typed, TypeOK
  <2>2. udev' \in Seq(Notifications) /\ udev' # <<>>
    BY <1>6, <2>1, Notified DEF UnplugOther, Typed
  <2> QED BY <1>1, <1>6, <2>2 DEF UnplugOther, Typed, TypeOK, Pending, file
<1> QED BY <1>3, <1>4, <1>5, <1>6

LEMMA NotificationTyped ==
  ASSUME Typed, OnNotification
  PROVE  Typed'
<1>1. udev # <<>> /\ udev' = Tail(udev)
  BY DEF OnNotification, Typed, Pending
<1>2. Head(udev) \in Notifications /\ udev' \in Seq(Notifications)
  BY <1>1, OneTaken DEF Typed
<1>3. DeviceHandle' \in {"none", "live", "dead"} /\ Path' \in Paths
      /\ mine' \in BOOLEAN /\ failed' \in BOOLEAN /\ data' \in BOOLEAN
  BY <1>2 DEF OnNotification, OnDeviceAdded, openDevice, OnDeviceRemoved, Notifications, Typed, TypeOK, file
<1> QED BY <1>2, <1>3 DEF OnNotification, Typed, TypeOK, Pending, world

LEMMA RunTyped ==
  ASSUME Typed, Report \/ TimePasses \/ OnTicks \/ Poll \/ ReadReport \/ LogError \/ ReadError
  PROVE  Typed'
<1>1. CASE Report
  BY <1>1 DEF Report, Typed, TypeOK, Pending, world, file
<1>2. CASE TimePasses
  <2>1. awake' \in 0 .. KeepAliveTimeout /\ due' \in -1 .. KeepAliveDelta
    BY <1>2, TimesAreNatural DEF TimePasses, Typed, TypeOK
  <2> QED BY <1>2, <2>1 DEF TimePasses, Typed, TypeOK, Pending, world, file
<1>3. CASE OnTicks
  <2>1. awake' \in 0 .. KeepAliveTimeout /\ due' \in -1 .. KeepAliveDelta
    BY <1>3, TimesAreNatural DEF OnTicks, Typed, TypeOK
  <2> QED BY <1>3, <2>1 DEF OnTicks, Typed, TypeOK, Pending, world, file
<1>4. CASE Poll
  <2>1. revents' \subseteq {"device", "monitor"} /\ ("monitor" \in revents' => udev # <<>>)
    BY <1>4 DEF Poll, Ready
  <2>2. thread' = "monitor" => "monitor" \in revents'
    BY <1>4 DEF Poll, Ready
  <2> QED BY <1>4, <2>1, <2>2 DEF Poll, Typed, TypeOK, Pending, world, file
<1>5. CASE ReadReport
  BY <1>5 DEF ReadReport, AfterDevice, Typed, TypeOK, Pending, world, file
<1>6. CASE LogError
  BY <1>6 DEF LogError, AfterDevice, Typed, TypeOK, Pending, world, file
<1>7. CASE ReadError
  BY <1>7 DEF ReadError, AfterDevice, Typed, TypeOK, Pending, world
<1> QED BY <1>1, <1>2, <1>3, <1>4, <1>5, <1>6, <1>7

LEMMA TypedStep == ASSUME Typed, [Next]_vars PROVE Typed'
<1>1. CASE UNCHANGED vars
  BY <1>1 DEF vars, Typed, TypeOK, Pending
<1> QED BY <1>1, WorldTyped, NotificationTyped, RunTyped DEF Next, Run

LEMMA AlwaysTyped == Spec => []Typed
BY TypedInit, TypedStep, PTL DEF Spec

(* The type invariant of the hot-plug machine. *)
THEOREM TypeInvariant == Spec => []TypeOK
<1>1. Typed => TypeOK
  BY DEF Typed
<1> QED BY <1>1, AlwaysTyped, PTL

-----------------------------------------------------------------------------
(* Where the notifications lead. *)

About(s, path) == \E i \in 1 .. Len(s) : s[i].path = path

(* A removal of what is open, before what tells of the tracker that is there. *)
ClosesFirst ==
  \E i \in 1 .. Len(udev) :
    /\ udev[i].action = "remove" /\ udev[i].path = Path
    /\ node # NoPath => \E j \in 1 .. Len(udev) : j > i /\ IsLastAdd(udev, j, node)

Follows ==
  /\ node # NoPath => node # other /\ (About(udev, node) => AddedLast(udev, node))
  /\ DeviceHandle # "none" => ~ failed
  /\ mine =>
       /\ DeviceHandle # "none" => Path # other
       /\ DeviceHandle = "live" => Path = node
       /\ DeviceHandle = "dead" => Path # node /\ ClosesFirst
       /\ DeviceHandle = "none" /\ node # NoPath /\ ~ failed => AddedLast(udev, node)

LEMMA FollowsInit == Init => Follows
<1> SUFFICES ASSUME Init PROVE Follows
  OBVIOUS
<1>1. ~ About(udev, node)
  BY DEF Init, About
<1> QED BY <1>1, NoPathIsNone DEF Init, Follows

(* A notification of another path changes nothing for this one, and of its *)
(* own path the last one counts.                                           *)
LEMMA LastAddAppended ==
  ASSUME NEW s, NEW t, NEW p,
         Len(s) \in Nat, Len(t) = Len(s) + 1, \A i \in 1 .. Len(s) : t[i] = s[i]
  PROVE  /\ t[Len(t)].path # p =>
              /\ About(t, p) => About(s, p)
              /\ \A i \in 1 .. Len(s) : IsLastAdd(s, i, p) => IsLastAdd(t, i, p)
              /\ AddedLast(s, p) => AddedLast(t, p)
         /\ t[Len(t)] = [action |-> "add", path |-> p, ours |-> TRUE] =>
              AddedLast(t, p) /\ IsLastAdd(t, Len(t), p)
<1>1. ASSUME t[Len(t)].path # p, NEW i \in 1 .. Len(s), IsLastAdd(s, i, p)
      PROVE  IsLastAdd(t, i, p)
  <2>1. ASSUME NEW k \in i + 1 .. Len(t) PROVE t[k].path # p
    <3>1. CASE k = Len(t)
      BY <1>1, <3>1
    <3>2. CASE k # Len(t)
      <4>1. k \in i + 1 .. Len(s) /\ k \in 1 .. Len(s)
        BY <3>2
      <4> QED BY <1>1, <4>1 DEF IsLastAdd, TellsLast
    <3> QED BY <3>1, <3>2
  <2> QED BY <1>1, <2>1 DEF IsLastAdd, TellsLast
<1>2. ASSUME t[Len(t)].path # p, AddedLast(s, p) PROVE AddedLast(t, p)
  <2>1. \A i \in 1 .. Len(s) : i \in 1 .. Len(t)
    OBVIOUS
  <2> QED BY <1>1, <1>2, <2>1 DEF AddedLast
<1>3. ASSUME t[Len(t)].path # p, About(t, p) PROVE About(s, p)
  <2>1. PICK i \in 1 .. Len(t) : t[i].path = p
    BY <1>3 DEF About
  <2>2. i \in 1 .. Len(s)
    BY <1>3, <2>1
  <2> QED BY <2>1, <2>2 DEF About
<1>4. ASSUME t[Len(t)] = [action |-> "add", path |-> p, ours |-> TRUE]
      PROVE  AddedLast(t, p) /\ IsLastAdd(t, Len(t), p)
  <2>1. Len(t) \in 1 .. Len(t) /\ \A k \in Len(t) + 1 .. Len(t) : FALSE
    OBVIOUS
  <2> QED BY <1>4, <2>1 DEF IsLastAdd, TellsLast, AddedLast
<1> QED BY <1>1, <1>2, <1>3, <1>4

LEMMA LastAddTaken ==
  ASSUME NEW s, NEW t, NEW p,
         Len(s) \in Nat, Len(s) >= 1, Len(t) = Len(s) - 1,
         \A i \in 1 .. Len(t) : t[i] = s[i + 1]
  PROVE  /\ About(t, p) => About(s, p)
         /\ \A i \in 1 .. Len(s) : IsLastAdd(s, i, p) =>
              i = 1 \/ (i - 1 \in 1 .. Len(t) /\ IsLastAdd(t, i - 1, p))
         /\ AddedLast(s, p) => AddedLast(t, p) \/ IsLastAdd(s, 1, p)
         /\ IsLastAdd(s, 1, p) => ~ About(t, p)
<1>1. About(t, p) => About(s, p)
  <2> SUFFICES ASSUME NEW i \in 1 .. Len(t), t[i].path = p PROVE About(s, p)
    BY DEF About
  <2>1. i + 1 \in 1 .. Len(s) /\ s[i + 1].path = p
    OBVIOUS
  <2> QED BY <2>1 DEF About
<1>2. ASSUME NEW i \in 1 .. Len(s), IsLastAdd(s, i, p), i # 1
      PROVE  i - 1 \in 1 .. Len(t) /\ IsLastAdd(t, i - 1, p)
  <2>1. i - 1 \in 1 .. Len(t) /\ t[i - 1] = s[i]
    BY <1>2
  <2>2. ASSUME NEW k \in (i - 1) + 1 .. Len(t) PROVE t[k].path # p
    <3>1. k + 1 \in i + 1 .. Len(s) /\ t[k] = s[k + 1]
      OBVIOUS
    <3> QED BY <1>2, <3>1 DEF IsLastAdd, TellsLast
  <2> QED BY <1>2, <2>1, <2>2 DEF IsLastAdd, TellsLast
<1>3. AddedLast(s, p) => AddedLast(t, p) \/ IsLastAdd(s, 1, p)
  BY <1>2 DEF AddedLast
<1>4. ASSUME IsLastAdd(s, 1, p), NEW i \in 1 .. Len(t) PROVE t[i].path # p
  <2>1. i + 1 \in 1 + 1 .. Len(s) /\ t[i] = s[i + 1]
    OBVIOUS
  <2> QED BY <1>4, <2>1 DEF IsLastAdd, TellsLast
<1> QED BY <1>1, <1>2, <1>3, <1>4 DEF About

(* The same, and where ClosesFirst leads, for a notification of a path     *)
(* that is neither the tracker's nor that of the open file.                *)
LEMMA OthersFollow ==
  ASSUME TypeOK, Follows, UNCHANGED <<node, Path, mine, failed>>,
         DeviceHandle' = DeviceHandle \/ (~ mine /\ DeviceHandle # "none"),
         NEW action \in {"add", "remove"}, NEW path \in Paths,
         Notify(action, path, FALSE), path # node,
         node # NoPath => node # other', mine /\ DeviceHandle # "none" => Path # other'
  PROVE  Follows'
<1>1. /\ Len(udev) \in Nat /\ Len(udev') = Len(udev) + 1
      /\ \A i \in 1 .. Len(udev) : udev'[i] = udev[i]
      /\ udev'[Len(udev')].path # node
  <2>1. /\ Len(udev) \in Nat /\ Len(udev') = Len(udev) + 1
        /\ \A i \in 1 .. Len(udev) : udev'[i] = udev[i]
        /\ udev'[Len(udev) + 1] = [action |-> action, path |-> path, ours |-> FALSE]
    <3>1. FALSE \in BOOLEAN
      OBVIOUS
    <3> QED BY <3>1, Notified
  <2> QED BY <2>1
<1>2. /\ About(udev', node) => About(udev, node)
      /\ \A i \in 1 .. Len(udev) : IsLastAdd(udev, i, node) => IsLastAdd(udev', i, node)
      /\ AddedLast(udev, node) => AddedLast(udev', node)
  BY <1>1, LastAddAppended
<1>3. ASSUME ClosesFirst PROVE ClosesFirst'
  <2>1. PICK i \in 1 .. Len(udev) :
          /\ udev[i].action = "remove" /\ udev[i].path = Path
          /\ node # NoPath => \E j \in 1 .. Len(udev) : j > i /\ IsLastAdd(udev, j, node)
    BY <1>3 DEF ClosesFirst
  <2>2. i \in 1 .. Len(udev') /\ udev'[i].action = "remove" /\ udev'[i].path = Path
    BY <1>1, <2>1
  <2>3. node # NoPath => \E j \in 1 .. Len(udev') : j > i /\ IsLastAdd(udev', j, node)
    BY <1>1, <1>2, <2>1
  <2> QED BY <2>2, <2>3 DEF ClosesFirst
<1> QED BY <1>2, <1>3 DEF Follows

LEMMA PlugFollows ==
  ASSUME TypeOK, Follows, Plug
  PROVE  Follows'
<1>1. node = NoPath /\ node' \in Paths /\ node' # NoPath /\ node' # other
      /\ (DeviceHandle # "none" => node' # Path)
      /\ UNCHANGED <<other, DeviceHandle, Path, mine>> /\ failed' = FALSE
  BY NoPathIsNone DEF Plug, Taken
<1>2. /\ Len(udev) \in Nat /\ Len(udev') = Len(udev) + 1
      /\ \A i \in 1 .. Len(udev) : udev'[i] = udev[i]
      /\ udev'[Len(udev')] = [action |-> "add", path |-> node', ours |-> TRUE]
  <2>1. Notify("add", node', TRUE)
    BY DEF Plug
  <2> QED BY <1>1, <2>1, Notified
<1>3. AddedLast(udev', node') /\ IsLastAdd(udev', Len(udev'), node')
  BY <1>2, LastAddAppended
<1>4. ASSUME ClosesFirst PROVE ClosesFirst'
  <2>1. PICK i \in 1 .. Len(udev) : udev[i].action = "remove" /\ udev[i].path = Path
    BY <1>4 DEF ClosesFirst
  <2>2. i \in 1 .. Len(udev') /\ udev'[i].action = "remove" /\ udev'[i].path = Path
        /\ Len(udev') > i /\ Len(udev') \in 1 .. Len(udev')
    BY <1>1, <1>2, <2>1
  <2> QED BY <1>1, <1>3, <2>2 DEF ClosesFirst
<1>5. mine => DeviceHandle # "live"
  BY <1>1, NoPathIsNone DEF Follows, TypeOK
<1> QED BY <1>1, <1>3, <1>4, <1>5 DEF Follows

LEMMA UnplugFollows ==
  ASSUME TypeOK, Follows, Unplug
  PROVE  Follows'
<1>1. /\ node \in Paths /\ node' = NoPath /\ Notify("remove", node, TRUE)
      /\ DeviceHandle' = IF Connected THEN "dead" ELSE DeviceHandle
      /\ UNCHANGED <<other, Path, mine, failed>>
  BY DEF Unplug, TypeOK
<1>2. /\ Len(udev) \in Nat /\ Len(udev') = Len(udev) + 1
      /\ \A i \in 1 .. Len(udev) : udev'[i] = udev[i]
      /\ udev'[Len(udev')] = [action |-> "remove", path |-> node, ours |-> TRUE]
  BY <1>1, Notified
<1>3. CASE Connected
  <2>0. mine /\ DeviceHandle = "live"
    BY <1>3 DEF Connected
  <2>1. Len(udev') \in 1 .. Len(udev') /\ udev'[Len(udev')].action = "remove"
        /\ udev'[Len(udev')].path = Path'
    BY <1>1, <1>2, <2>0 DEF Follows
  <2>2. ClosesFirst'
    BY <1>1, <2>1 DEF ClosesFirst
  <2>3. Path' # node'
    BY <1>1, NoPathIsNone DEF TypeOK
  <2> QED BY <1>1, <1>3, <2>0, <2>2, <2>3 DEF Follows
<1>4. CASE mine /\ DeviceHandle = "dead"
  <2>1. PICK i \in 1 .. Len(udev) : udev[i].action = "remove" /\ udev[i].path = Path
    BY <1>4 DEF ClosesFirst, Follows
  <2>2. i \in 1 .. Len(udev') /\ udev'[i].action = "remove" /\ udev'[i].path = Path'
    BY <1>1, <1>2, <2>1
  <2>3. ClosesFirst' /\ Path' # node'
    BY <1>1, <2>2, NoPathIsNone DEF ClosesFirst, TypeOK
  <2> QED BY <1>1, <1>4, <2>3 DEF Follows, Connected
<1>5. CASE DeviceHandle = "none" \/ ~ mine
  BY <1>1, <1>5 DEF Follows, Connected
<1> QED BY <1>3, <1>4, <1>5 DEF TypeOK, Connected

LEMMA OtherFollows ==
  ASSUME TypeOK, Follows, PlugOther \/ UnplugOther
  PROVE  Follows'
<1>1. CASE PlugOther
  <2>1. other' \in Paths /\ other' # node /\ Notify("add", other', FALSE)
        /\ (DeviceHandle # "none" => Path # other')
        /\ UNCHANGED <<node, DeviceHandle, Path, mine, failed>>
    BY <1>1 DEF PlugOther, Taken, file
  <2> QED BY <2>1, OthersFollow
<1>2. CASE UnplugOther
  <2>0. DeviceHandle' = DeviceHandle \/ (~ mine /\ DeviceHandle # "none")
    BY <1>2 DEF UnplugOther
  <2>1. other \in Paths /\ other' = NoPath /\ Notify("remove", other, FALSE)
        /\ UNCHANGED <<node, Path, mine, failed>>
    BY <1>2 DEF UnplugOther, TypeOK
  <2>2. other # node
    BY <2>1, NoPathIsNone DEF Follows
  <2>3. DeviceHandle # "none" => Path # other'
    BY <2>1, NoPathIsNone DEF TypeOK
  <2> QED BY <2>0, <2>1, <2>2, <2>3, OthersFollow
<1> QED BY <1>1, <1>2

(* A read that fails closes the file, of a tracker that is gone or not. *)
LEMMA ReadErrorFollows ==
  ASSUME TypeOK, Follows, ReadError
  PROVE  Follows'
<1>1. /\ DeviceHandle' = "none" /\ failed' = (failed \/ DeviceHandle = "live")
      /\ UNCHANGED <<node, other, udev, Path, mine>>
  BY DEF ReadError, world
<1>2. mine /\ node # NoPath /\ ~ failed' => AddedLast(udev, node)
  BY <1>1 DEF Follows, ClosesFirst, AddedLast, TypeOK
<1> QED BY <1>1, <1>2 DEF Follows

(* What OnNotification makes of an "add": it opens what has the name by    *)
(* now, or it leaves all as it is, and then it was not one that has to be  *)
(* opened.                                                                 *)
LEMMA AddOpensOrLeaves ==
  ASSUME Typed, udev # <<>>, OnDeviceAdded(Head(udev))
  PROVE  \/ /\ DeviceHandle = "none"
            /\ Head(udev).path \in {node, other}
            /\ Path' = Head(udev).path
            /\ mine' = (Head(udev).path = node)
            /\ \/ DeviceHandle' = "live" /\ failed' = FALSE
               \/ DeviceHandle' = "none" /\ failed' = TRUE
         \/ /\ UNCHANGED <<DeviceHandle, Path, mine, failed>>
            /\ mine /\ DeviceHandle = "none" => ~ IsLastAdd(udev, 1, node)
<1>1. Head(udev) = udev[1]
  BY HeadTailProperties DEF Typed, TypeOK
<1>2. mine => (Current(1, mine) <=> IsLastAdd(udev, 1, node))
  <2> SUFFICES ASSUME mine = TRUE PROVE Current(1, mine) <=> IsLastAdd(udev, 1, node)
    BY DEF Typed, TypeOK
  <2> QED BY DEF Current, Name, IsLastAdd
<1>3. IsLastAdd(udev, 1, node) => Head(udev).path = node
  BY <1>1 DEF IsLastAdd, TellsLast
<1>4. CASE DeviceHandle = "none" /\ Finds(mine) /\ openDevice(Head(udev).path)
  BY <1>3, <1>4 DEF openDevice, file
<1>5. CASE ~ (DeviceHandle = "none" /\ Current(1, mine)) /\ UNCHANGED <<file, data>>
  BY <1>2, <1>5 DEF file
<1> QED BY <1>4, <1>5 DEF OnDeviceAdded

LEMMA NotificationFollows ==
  ASSUME Typed, Follows, OnNotification
  PROVE  Follows'
<1> DEFINE e == Head(udev)
<1>1. /\ e = udev[1] /\ e \in Notifications
      /\ Len(udev) \in Nat /\ Len(udev) >= 1 /\ Len(udev') = Len(udev) - 1
      /\ \A i \in 1 .. Len(udev') : udev'[i] = udev[i + 1]
      /\ UNCHANGED <<node, other>>
  <2>1. udev # <<>> /\ udev' = Tail(udev) /\ UNCHANGED <<node, other>>
    BY DEF OnNotification, Typed, Pending, world
  <2> QED BY <2>1, OneTaken DEF Typed
<1>2. /\ About(udev', node) => About(udev, node)
      /\ \A i \in 1 .. Len(udev) : IsLastAdd(udev, i, node) =>
           i = 1 \/ (i - 1 \in 1 .. Len(udev') /\ IsLastAdd(udev', i - 1, node))
      /\ AddedLast(udev, node) => AddedLast(udev', node) \/ IsLastAdd(udev, 1, node)
      /\ IsLastAdd(udev, 1, node) => ~ About(udev', node)
  BY <1>1, LastAddTaken
<1>3. About(udev', node) => (node # NoPath => AddedLast(udev', node))
  BY <1>2 DEF Follows
<1>4. ASSUME UNCHANGED <<DeviceHandle, Path, mine, failed>>,
             mine /\ DeviceHandle = "none" => ~ IsLastAdd(udev, 1, node),
             e.action = "remove" => DeviceHandle = "none" \/ e.path # Path
      PROVE  Follows'
  <2>1. mine /\ DeviceHandle = "none" /\ node # NoPath /\ ~ failed => AddedLast(udev', node)
    BY <1>2, <1>4 DEF Follows
  <2>2. ASSUME mine, DeviceHandle = "dead" PROVE ClosesFirst'
    <3>1. PICK i \in 1 .. Len(udev) :
            /\ udev[i].action = "remove" /\ udev[i].path = Path
            /\ node # NoPath => \E j \in 1 .. Len(udev) : j > i /\ IsLastAdd(udev, j, node)
      BY <2>2 DEF ClosesFirst, Follows
    <3>2. i # 1
      BY <1>1, <1>4, <2>2, <3>1
    <3>3. i - 1 \in 1 .. Len(udev') /\ udev'[i - 1] = udev[i]
      BY <1>1, <3>2
    <3>4. ASSUME node # NoPath
          PROVE  \E j \in 1 .. Len(udev') : j > i - 1 /\ IsLastAdd(udev', j, node)
      <4>1. PICK j \in 1 .. Len(udev) : j > i /\ IsLastAdd(udev, j, node)
        BY <3>1, <3>4
      <4>2. j - 1 \in 1 .. Len(udev') /\ j - 1 > i - 1 /\ IsLastAdd(udev', j - 1, node)
        BY <1>1, <1>2, <4>1
      <4> QED BY <4>2
    <3> QED BY <1>1, <1>4, <3>1, <3>3, <3>4 DEF ClosesFirst
  <2> QED BY <1>1, <1>3, <1>4, <2>1, <2>2 DEF Follows
<1>5. CASE /\ e.action = "add" /\ e.path \in {node, other}
           /\ Path' = e.path /\ mine' = (e.path = node)
           /\ \/ DeviceHandle' = "live" /\ failed' = FALSE
              \/ DeviceHandle' = "none" /\ failed' = TRUE
  <2>1. CASE e.path = node
    <3>1. node \in Paths
      BY <1>1, <2>1 DEF Notifications
    <3>2. node # other /\ node # NoPath
      BY <3>1, NoPathIsNone DEF Follows
    <3> QED BY <1>1, <1>3, <1>5, <2>1, <3>2 DEF Follows
  <2>2. CASE e.path # node
    BY <1>1, <1>3, <1>5, <2>2 DEF Follows
  <2> QED BY <2>1, <2>2
<1>6. CASE /\ e.action = "add" /\ UNCHANGED <<DeviceHandle, Path, mine, failed>>
           /\ mine /\ DeviceHandle = "none" => ~ IsLastAdd(udev, 1, node)
  BY <1>4, <1>6
<1>7. CASE e.action = "remove" /\ e.path = Path /\ DeviceHandle # "none"
  <2>1. DeviceHandle' = "none" /\ UNCHANGED <<Path, mine, failed>> /\ ~ failed
    BY <1>7 DEF OnNotification, OnDeviceRemoved, Follows
  <2>2. ~ IsLastAdd(udev, 1, node)
    BY <1>1, <1>7 DEF IsLastAdd, TellsLast
  <2>3. ASSUME mine, node # NoPath PROVE AddedLast(udev, node)
    <3>1. CASE DeviceHandle = "live"
      BY <1>1, <1>7, <2>3, <3>1 DEF Follows, About
    <3>2. CASE DeviceHandle = "dead"
      BY <2>3, <3>2 DEF Follows, ClosesFirst, AddedLast
    <3> QED BY <1>7, <3>1, <3>2 DEF Typed, TypeOK
  <2> QED BY <1>1, <1>2, <1>3, <2>1, <2>2, <2>3 DEF Follows
<1>8. CASE e.action = "remove" /\ ~ (e.path = Path /\ DeviceHandle # "none")
  <2>1. UNCHANGED <<DeviceHandle, Path, mine, failed>>
    BY <1>8 DEF OnNotification, OnDeviceRemoved, file
  <2>2. ~ IsLastAdd(udev, 1, node)
    BY <1>1, <1>8 DEF IsLastAdd, TellsLast
  <2> QED BY <1>4, <1>8, <2>1, <2>2
<1>9. e.action = "add" \/ e.action = "remove"
  BY <1>1 DEF Notifications
<1>10. e.action = "add" => OnDeviceAdded(e) /\ udev # <<>>
  BY DEF OnNotification, Typed, Pending
<1> QED BY <1>5, <1>6, <1>7, <1>8, <1>9, <1>10, AddOpensOrLeaves

LEMMA FollowsStep ==
  ASSUME Typed, Follows, [Next]_vars
  PROVE  Follows'
<1>1. ASSUME UNCHANGED <<node, other, udev, DeviceHandle, Path, mine, failed>> PROVE Follows'
  BY <1>1 DEF Follows, ClosesFirst
<1>2. CASE Report \/ TimePasses \/ OnTicks \/ Poll \/ ReadReport \/ LogError \/ UNCHANGED vars
  BY <1>1, <1>2 DEF Report, TimePasses, OnTicks, Poll, ReadReport, LogError, vars, world, file
<1> QED BY <1>2, PlugFollows, UnplugFollows, OtherFollows, ReadErrorFollows, NotificationFollows
        DEF Next, Run, Typed

LEMMA AlwaysFollows == Spec => []Follows
<1>1. Typed /\ Follows /\ [Next]_vars => Follows'
  BY FollowsStep
<1> QED BY <1>1, AlwaysTyped, FollowsInit, PTL DEF Spec

(* Whatever is plugged and unplugged between two looks at udev, the        *)
(* notifications still to come lead the file to the tracker that is there. *)
THEOREM NotificationsLeadToTheTracker == Spec => []HandleFollowsTracker
<1>1. Typed /\ Follows => HandleFollowsTracker
  <2> SUFFICES ASSUME Typed, Follows PROVE HandleFollowsTracker
    OBVIOUS
  <2>1. ASSUME mine, DeviceHandle = "live", Told(udev, Path, "remove") PROVE AddedLast(udev, Path)
    <3>1. Path = node /\ Path # NoPath /\ About(udev, node)
      BY <2>1, NoPathIsNone DEF Follows, Told, About, Typed, TypeOK
    <3> QED BY <3>1 DEF Follows
  <2>2. mine /\ DeviceHandle = "dead" => Told(udev, Path, "remove")
    BY DEF Follows, ClosesFirst, Told
  <2> QED BY <2>1, <2>2 DEF Follows, HandleFollowsTracker
<1> QED BY <1>1, AlwaysTyped, AlwaysFollows, PTL

-----------------------------------------------------------------------------
(* The keep-alive. *)

InTime ==
  /\ Streaming => awake >= due + 1
  /\ node # NoPath /\ AddedLast(udev, node) => awake \in {0, KeepAliveTimeout}
  /\ served /\ thread = "poll" => due >= 1

LEMMA InTimeInit == Init => InTime
BY TimesAreNatural DEF Init, InTime, Streaming, Connected, AddedLast

LEMMA OpenedInTime ==
  ASSUME Typed, Follows, InTime, OnNotification
  PROVE  InTime'
<1>1. /\ udev # <<>> /\ udev' = Tail(udev) /\ thread' = "ticks"
      /\ UNCHANGED <<node, awake, due, served>>
  BY DEF OnNotification, Typed, Pending, world
<1>2. /\ Head(udev) = udev[1]
      /\ Len(udev) \in Nat /\ Len(udev) >= 1 /\ Len(udev') = Len(udev) - 1
      /\ \A i \in 1 .. Len(udev') : udev'[i] = udev[i + 1]
      /\ Head(udev) \in Notifications
  BY <1>1, OneTaken DEF Typed
<1>3. node # NoPath /\ AddedLast(udev', node) => AddedLast(udev, node)
  <2>1. AddedLast(udev', node) => About(udev', node)
    BY DEF AddedLast, About, IsLastAdd, TellsLast
  <2> QED BY <1>2, <2>1, LastAddTaken DEF Follows
<1>4. ASSUME Streaming' PROVE awake' >= due' + 1
  <2>1. CASE Connected
    BY <1>1, <1>4, <2>1 DEF InTime, Streaming
  <2>2. CASE ~ Connected
    <3>1. Head(udev).path = node
      <4>1. CASE OnDeviceAdded(Head(udev))
        BY <1>1, <1>4, <2>2, <4>1, AddOpensOrLeaves DEF Streaming, Connected
      <4>2. CASE OnDeviceRemoved(Head(udev))
        BY <1>4, <2>2, <4>2 DEF OnDeviceRemoved, Streaming, Connected, file
      <4> QED BY <4>1, <4>2 DEF OnNotification
    <3>2. node \in Paths /\ About(udev, node)
      BY <1>2, <3>1 DEF Notifications, About
    <3>3. awake = KeepAliveTimeout
      BY <1>1, <1>4, <3>2, NoPathIsNone DEF Follows, InTime, Streaming
    <3> QED BY <1>1, <3>3, TimesAreNatural, KeptAliveInTime DEF Typed, TypeOK
  <2> QED BY <2>1, <2>2
<1> QED BY <1>1, <1>3, <1>4 DEF InTime

LEMMA InTimeStep ==
  ASSUME Typed, Follows, InTime, [Next]_vars
  PROVE  InTime'
<1> USE TimesAreNatural, KeptAliveInTime
<1>0. awake \in 0 .. KeepAliveTimeout /\ due \in -1 .. KeepAliveDelta
  BY DEF Typed, TypeOK
<1>1. CASE Plug
  <2>1. ~ Connected
    BY <1>1, NoPathIsNone DEF Plug, Follows, Connected, Typed, TypeOK
  <2> QED BY <1>1, <2>1 DEF Plug, InTime, Streaming, Connected
<1>2. CASE Unplug
  BY <1>2 DEF Unplug, InTime, Streaming
<1>3. ASSUME PlugOther \/ UnplugOther PROVE InTime'
  <2>1. UNCHANGED <<node, awake, due, served, thread>>
    BY <1>3 DEF PlugOther, UnplugOther
  <2>0. Connected' => Connected
    BY <1>3 DEF PlugOther, UnplugOther, Connected, file
  <2>2. PICK action \in {"add", "remove"}, path \in Paths :
          path # node /\ Notify(action, path, FALSE)
    <3>1. CASE PlugOther
      BY <3>1 DEF PlugOther, Taken
    <3>2. CASE UnplugOther
      BY <3>2, NoPathIsNone DEF UnplugOther, Follows, Typed, TypeOK
    <3> QED BY <1>3, <3>1, <3>2
  <2>3. /\ Len(udev) \in Nat /\ Len(udev') = Len(udev) + 1
        /\ \A i \in 1 .. Len(udev) : udev'[i] = udev[i]
        /\ udev'[Len(udev) + 1] = [action |-> action, path |-> path, ours |-> FALSE]
    <3>1. FALSE \in BOOLEAN
      OBVIOUS
    <3> QED BY <2>2, <3>1, Notified DEF Typed
  <2>4. About(udev', node) => About(udev, node)
    <3>1. udev'[Len(udev')].path # node
      BY <2>2, <2>3
    <3> QED BY <2>3, <3>1, LastAddAppended
  <2>5. AddedLast(udev', node) => About(udev', node)
    BY DEF AddedLast, About, IsLastAdd, TellsLast
  <2>6. node # NoPath /\ AddedLast(udev', node) => AddedLast(udev, node)
    BY <2>4, <2>5 DEF Follows
  <2> QED BY <2>0, <2>1, <2>6 DEF InTime, Streaming
<1>4. CASE TimePasses
  <2>1. udev = <<>> /\ Len(udev) = 0 /\ udev' = udev
    BY <1>4 DEF TimePasses, Ready
  <2>2. ~ AddedLast(udev', node')
    BY <2>1 DEF AddedLast
  <2>3. Streaming' => Streaming /\ due >= 1 /\ awake' >= due' + 1
    BY <1>0, <1>4 DEF TimePasses, InTime, Streaming, Connected, file
  <2> QED BY <1>4, <2>2, <2>3 DEF TimePasses, InTime
<1>5. CASE OnTicks
  <2>1. due' >= 1
    BY <1>0, <1>5 DEF OnTicks
  <2>2. Streaming' => awake' >= due' + 1
    BY <1>0, <1>5 DEF OnTicks, InTime, Streaming, Connected, file
  <2>3. node' # NoPath /\ AddedLast(udev', node') => awake' \in {0, KeepAliveTimeout}
    BY <1>5 DEF OnTicks, InTime, world
  <2> QED BY <2>1, <2>2, <2>3 DEF InTime
<1>6. CASE Report \/ Poll \/ ReadReport \/ LogError \/ ReadError \/ UNCHANGED vars
  BY <1>6 DEF Report, Poll, ReadReport, LogError, ReadError, AfterDevice, InTime, Streaming,
              Connected, vars, world, file
<1> QED BY <1>1, <1>2, <1>3, <1>4, <1>5, <1>6, OpenedInTime DEF Next, Run

LEMMA AlwaysInTime == Spec => [](Typed /\ Follows /\ InTime)
<1>1. Typed /\ Follows /\ InTime /\ [Next]_vars => InTime'
  BY InTimeStep
<1> QED BY <1>1, AlwaysTyped, AlwaysFollows, InTimeInit, PTL DEF Spec

(* A tracker that streams into an open file is told in time to go on, as   *)
(* long as the keep-alive's period is shorter than its timeout.            *)
THEOREM TheTrackerIsKeptAlive == Spec => KeptAlive
<1>1. Typed /\ Follows /\ InTime /\ [Next]_vars => [Streaming /\ node' # NoPath => awake' > 0]_vars
  <2> SUFFICES ASSUME Typed, Follows, InTime, Next, Streaming, node' # NoPath
               PROVE  awake' > 0
    OBVIOUS
  <2> USE TimesAreNatural
  <2>0. awake \in 0 .. KeepAliveTimeout /\ awake > 0
    BY DEF Typed, TypeOK, Streaming
  <2>1. CASE TimePasses
    BY <2>0, <2>1 DEF TimePasses, InTime, Streaming, Typed, TypeOK
  <2>2. ~ Plug
    BY NoPathIsNone DEF Plug, Follows, Streaming, Connected, Typed, TypeOK
  <2>3. ~ Unplug
    BY DEF Unplug
  <2>4. CASE OnTicks
    BY <2>0, <2>4 DEF OnTicks
  <2>5. awake' = awake \/ TimePasses \/ OnTicks
    BY <2>2, <2>3 DEF Next, Run, PlugOther, UnplugOther, Report, Poll, ReadReport, LogError,
                      ReadError, OnNotification
  <2> QED BY <2>0, <2>1, <2>4, <2>5
<1> QED BY <1>1, AlwaysInTime, PTL DEF Spec, KeptAlive
=============================================================================
