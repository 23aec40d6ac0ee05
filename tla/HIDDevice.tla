------------------------------ MODULE HIDDevice ------------------------------
(***************************************************************************)
(* The thread that serves the head tracker when nobody calls it: the inner *)
(* loop of DeviceManagerThread::Run with what it drives, HIDDeviceManager  *)
(* (udev's notifications), HIDDevice (the tracker's hidraw file) and the   *)
(* keep-alive of SensorDeviceImpl::OnTicks.  Around it the world: somebody *)
(* plugs and unplugs the tracker and another device, the kernel names them *)
(* anew each time, and udev tells of it later and in order.                *)
(***************************************************************************)
EXTENDS Integers, Sequences

CONSTANTS
  Paths,             \* the names hidraw devices get
  NoPath,
  KeepAliveDelta,    \* time between two keep-alives: 3 seconds
  KeepAliveTimeout,  \* after which a tracker goes silent: 10 seconds
  MaxPlugs           \* bound: how often something is plugged or unplugged

ASSUME NoPathIsNone == NoPath \notin Paths
ASSUME TimesAreNatural == KeepAliveDelta \in Nat \ {0} /\ KeepAliveTimeout \in Nat \ {0}
ASSUME KeptAliveInTime == KeepAliveDelta < KeepAliveTimeout
ASSUME PlugsAreBounded == MaxPlugs \in Nat

Notifications == [action : {"add", "remove"}, path : Paths, ours : BOOLEAN]

VARIABLES
  node,          \* the path of the tracker, or NoPath
  other,         \* the path of another hidraw device, or NoPath
  udev,          \* the notifications the monitor has not handed out yet
  awake,         \* how long the tracker goes on without a keep-alive
  data,          \* a report waits in the tracker's file
  served,        \* one was read since time last passed
  plugs,
  DeviceHandle,  \* "none" (-1), "live", or "dead": open on a tracker that is gone
  Path,          \* DevDesc.Path
  mine,          \* DevDesc is the tracker's, and not the other device's
  failed,        \* an open or a read failed, and nothing was opened or plugged in since
  due,           \* NextKeepAliveTicks from now
  thread,        \* where Run stands
  revents        \* what its last poll found ready

world == <<node, other, plugs>>
file == <<DeviceHandle, Path, mine, failed>>
vars == << node, other, udev, awake, data, served, plugs, DeviceHandle, Path,
           mine, failed, due, thread, revents >>

(* The tracker was found at the start and HIDInitialize has opened it. *)
Init ==
  /\ node \in Paths
  /\ other = NoPath
  /\ udev = <<>>
  /\ awake = KeepAliveTimeout
  /\ data = FALSE
  /\ served = FALSE
  /\ plugs = 0
  /\ DeviceHandle = "live"
  /\ Path = node
  /\ mine = TRUE
  /\ failed = FALSE
  /\ due = 0
  /\ thread = "ticks"
  /\ revents = {}

-----------------------------------------------------------------------------
(* The world. *)

Notify(action, path, ours) ==
  udev' = Append(udev, [action |-> action, path |-> path, ours |-> ours])

(* The tracker's file is open, and not that of the other device. *)
Connected == DeviceHandle = "live" /\ mine

(* A name stays taken while a file is open on it. *)
Taken == {node, other} \cup (IF DeviceHandle = "none" THEN {} ELSE {Path})

Plug ==
  /\ plugs < MaxPlugs
  /\ node = NoPath
  /\ node' \in Paths \ Taken
  /\ Notify("add", node', TRUE)
  /\ awake' \in {0, KeepAliveTimeout}   \* it may stream before it is told to
  /\ failed' = FALSE
  /\ plugs' = plugs + 1
  /\ UNCHANGED <<other, data, served, DeviceHandle, Path, mine, due, thread, revents>>

Unplug ==
  /\ plugs < MaxPlugs
  /\ node # NoPath
  /\ Notify("remove", node, TRUE)
  /\ node' = NoPath
  /\ awake' = 0
  /\ DeviceHandle' = IF Connected THEN "dead" ELSE DeviceHandle
  /\ plugs' = plugs + 1
  /\ UNCHANGED <<other, data, served, Path, mine, failed, due, thread, revents>>

PlugOther ==
  /\ plugs < MaxPlugs
  /\ other = NoPath
  /\ other' \in Paths \ Taken
  /\ Notify("add", other', FALSE)
  /\ plugs' = plugs + 1
  /\ UNCHANGED <<node, awake, data, served, file, due, thread, revents>>

UnplugOther ==
  /\ plugs < MaxPlugs
  /\ other # NoPath
  /\ Notify("remove", other, FALSE)
  /\ other' = NoPath
  /\ DeviceHandle' = IF DeviceHandle = "live" /\ ~ mine THEN "dead" ELSE DeviceHandle
  /\ plugs' = plugs + 1
  /\ UNCHANGED <<node, awake, data, served, Path, mine, failed, due, thread, revents>>

Streaming == awake > 0 /\ Connected

(* Nothing is known of when the other device reports. *)
Report ==
  /\ DeviceHandle = "live"
  /\ mine => Streaming
  /\ ~ data
  /\ data' = TRUE
  /\ UNCHANGED <<world, udev, awake, served, file, due, thread, revents>>

Ready ==
  { f \in {"device", "monitor"} :
      \/ f = "device" /\ (DeviceHandle = "dead" \/ (DeviceHandle = "live" /\ data))
      \/ f = "monitor" /\ udev # <<>> }

(* A unit of time, of seconds, passes only where the thread waits: it needs*)
(* far less for a pass, and a tracker that streams sends a thousand reports*)
(* in each of them.                                                        *)
TimePasses ==
  /\ thread = "poll" /\ Ready = {}
  /\ Streaming => served
  /\ served' = FALSE
  /\ awake' = IF awake > 0 THEN awake - 1 ELSE 0
  /\ due' = IF due >= 0 THEN due - 1 ELSE due
  /\ UNCHANGED <<world, udev, data, file, thread, revents>>

-----------------------------------------------------------------------------
(* The thread. *)

(* A bug to compare with: the next keep-alive is a whole timeout away. *)
OnTicksLate ==
  /\ thread = "ticks"
  /\ IF due <= 0
     THEN /\ awake' = IF Connected THEN KeepAliveTimeout ELSE awake
          /\ due' = KeepAliveTimeout
     ELSE UNCHANGED <<awake, due>>
  /\ thread' = "poll"
  /\ UNCHANGED <<world, udev, data, served, file, revents>>

(* SensorDeviceImpl::OnTicks; the keep-alive is lost on a closed device,   *)
(* and the next one is no sooner for that.                                 *)
OnTicks ==
  /\ thread = "ticks"
  /\ IF due <= 0
     THEN /\ awake' = IF Connected THEN KeepAliveTimeout ELSE awake
          /\ due' = KeepAliveDelta
     ELSE UNCHANGED <<awake, due>>
  /\ thread' = "poll"
  /\ UNCHANGED <<world, udev, data, served, file, revents>>

(* poll, without a timeout: no wait that OnTicks allows is below -1. *)
Poll ==
  /\ thread = "poll"
  /\ Ready # {}
  /\ revents' = Ready
  /\ thread' = IF "device" \in Ready THEN "device" ELSE "monitor"
  /\ UNCHANGED <<world, udev, awake, data, served, file, due>>

AfterDevice == thread' = IF "monitor" \in revents THEN "monitor" ELSE "ticks"

(* HIDDevice::OnEvent with a report. *)
ReadReport ==
  /\ thread = "device"
  /\ data
  /\ data' = FALSE
  /\ served' = TRUE
  /\ AfterDevice
  /\ UNCHANGED <<world, udev, awake, file, due, revents>>

(* POLLERR is only logged; the file stays in the list. *)
LogError ==
  /\ thread = "device"
  /\ DeviceHandle = "dead"
  /\ AfterDevice
  /\ UNCHANGED <<world, udev, awake, data, served, file, due, revents>>

(* HIDDevice::OnEvent when read fails, be the device gone or not:          *)
(* closeDeviceOnIOError.                                                   *)
ReadError ==
  /\ thread = "device"
  /\ DeviceHandle' = "none"
  /\ failed' = (failed \/ DeviceHandle = "live")
  /\ data' = FALSE
  /\ AfterDevice
  /\ UNCHANGED <<world, udev, awake, served, Path, mine, due, revents>>

Name(ours) == IF ours THEN node ELSE other

(* The i-th of the notifications tells of where the tracker, or the other  *)
(* device, has got its name, and none after it is about that name.         *)
TellsLast(s, i, path, ours) ==
  /\ s[i] = [action |-> "add", path |-> path, ours |-> ours]
  /\ \A k \in i + 1 .. Len(s) : s[k].path # path

Current(i, ours) == TellsLast(udev, i, Name(ours), ours)

(* The device HIDDeviceManager::OnEvent describes: libudev looks for it on *)
(* the port the "add" came from.  It is the one told of, if that is still  *)
(* there; else it may be one plugged into that port since, whose own "add" *)
(* is then still to come, behind the "remove" of what was there.           *)
Finds(ours) ==
  \/ Current(1, ours)
  \/ \E i \in 2 .. Len(udev) :
       /\ udev[i].action = "remove" /\ udev[i].path = udev[1].path
       /\ \E j \in i + 1 .. Len(udev) : Current(j, ours)

(* openDevice goes by the path alone: DevDesc becomes that of the device   *)
(* which has that name by now, before open is tried.                       *)
openDevice(path) ==
  \/ /\ path \in {node, other}
     /\ Path' = path
     /\ mine' = (path = node)
     /\ \/ DeviceHandle' = "live" /\ failed' = FALSE
        \/ DeviceHandle' = "none" /\ failed' = TRUE
     /\ data' = FALSE
  \/ /\ path \notin {node, other}
     /\ UNCHANGED <<file, data>>

(* OnDeviceNotification of a device that was added: one that looks like    *)
(* DevDesc is opened if the file is closed.  With the file open every      *)
(* "add" ends here as if it had been its own.                              *)
OnDeviceAdded(e) ==
  \/ DeviceHandle = "none" /\ Finds(mine) /\ openDevice(e.path)
  \/ ~ (DeviceHandle = "none" /\ Current(1, mine)) /\ UNCHANGED <<file, data>>

(* A bug to compare with: whatever is removed, the file is closed. *)
OnDeviceRemovedUnmatched(e) ==
  IF DeviceHandle # "none"
  THEN /\ DeviceHandle' = "none"
       /\ data' = FALSE
       /\ UNCHANGED <<Path, mine, failed>>
  ELSE UNCHANGED <<file, data>>

(* A bug to compare with: a removal is taken for the tracker's own only    *)
(* while its file can still be read.                                       *)
OnDeviceRemovedIfLive(e) ==
  IF e.path = Path /\ DeviceHandle = "live"
  THEN /\ DeviceHandle' = "none"
       /\ data' = FALSE
       /\ UNCHANGED <<Path, mine, failed>>
  ELSE UNCHANGED <<file, data>>

(* OnDeviceNotification of a device that was removed: only the path tells  *)
(* whose it was.                                                           *)
OnDeviceRemoved(e) ==
  IF e.path = Path /\ DeviceHandle # "none"
  THEN /\ DeviceHandle' = "none"
       /\ data' = FALSE
       /\ UNCHANGED <<Path, mine, failed>>
  ELSE UNCHANGED <<file, data>>

(* HIDDeviceManager::OnEvent takes one notification. *)
OnNotification ==
  /\ thread = "monitor"
  /\ IF Head(udev).action = "add" THEN OnDeviceAdded(Head(udev)) ELSE OnDeviceRemoved(Head(udev))
  /\ udev' = Tail(udev)
  /\ thread' = "ticks"
  /\ UNCHANGED <<world, awake, served, due, revents>>

Run == OnTicks \/ Poll \/ ReadReport \/ LogError \/ ReadError \/ OnNotification

Next == Plug \/ Unplug \/ PlugOther \/ UnplugOther \/ Report \/ TimePasses \/ Run

(* The thread runs on; nothing is asked of the world. *)
Spec == Init /\ [][Next]_vars /\ WF_vars(Run)

-----------------------------------------------------------------------------
TypeOK ==
  /\ node \in Paths \cup {NoPath} /\ other \in Paths \cup {NoPath}
  /\ udev \in Seq(Notifications)
  /\ awake \in 0 .. KeepAliveTimeout
  /\ data \in BOOLEAN /\ served \in BOOLEAN /\ mine \in BOOLEAN /\ failed \in BOOLEAN
  /\ plugs \in 0 .. MaxPlugs
  /\ DeviceHandle \in {"none", "live", "dead"}
  /\ Path \in Paths
  /\ due \in -1 .. KeepAliveDelta
  /\ thread \in {"ticks", "poll", "device", "monitor"}
  /\ revents \subseteq {"device", "monitor"}

Told(s, path, action) == \E i \in 1 .. Len(s) : s[i].action = action /\ s[i].path = path

IsLastAdd(s, i, path) == TellsLast(s, i, path, TRUE)

AddedLast(s, path) == \E i \in 1 .. Len(s) : IsLastAdd(s, i, path)

(***************************************************************************)
(* Where the notifications still to come lead: an open file is the         *)
(* tracker's own, and a removal that would close it is followed by an      *)
(* "add" that opens it again; the file of a tracker that is gone will be   *)
(* closed; and a tracker that is not open will be, unless an open or a     *)
(* read failed.  A late "add" that led to the other device is the exception*)
(* (OpensTheTracker), until DevDesc is the tracker's again.                *)
(***************************************************************************)
HandleFollowsTracker ==
  mine =>
    /\ DeviceHandle = "live" =>
         /\ Path = node
         /\ Told(udev, Path, "remove") => AddedLast(udev, Path)
    /\ DeviceHandle = "dead" => Told(udev, Path, "remove")
    /\ DeviceHandle = "none" /\ node # NoPath /\ ~ failed => AddedLast(udev, node)

(* A tracker that streams into an open file never falls silent while it is *)
(* plugged in: the keep-alive comes in time.                               *)
KeptAlive == [][Streaming /\ node' # NoPath => awake' > 0]_vars

(* A tracker that was plugged in again is opened, unless it is taken away  *)
(* before that, an open or a read fails, or a late "add" has led to the    *)
(* other device.                                                           *)
Reopens == node # NoPath ~> Connected \/ node = NoPath \/ failed \/ ~ mine

(***************************************************************************)
(* "Is this the correct device?" (OVR_Linux_HIDDevice.cpp:697): only the   *)
(* tracker is ever opened.                                                 *)
(***************************************************************************)
OpensTheTracker == DeviceHandle # "none" => mine

(***************************************************************************)
(* "Returns the largest number of microseconds this function can wait till *)
(* next call" (OVR_Linux_DeviceManager.h:87-88): OnTicks is called when    *)
(* what it returned has passed.                                            *)
(***************************************************************************)
TicksInTime == due >= 0

(***************************************************************************)
(* The OVR_ASSERT(0) of OVR_Linux_HIDDevice.cpp:744: nothing is added      *)
(* while the tracker is open.                                              *)
(***************************************************************************)
NothingAddedWhileOpen ==
  thread = "monitor" /\ (Current(1, TRUE) \/ Current(1, FALSE)) => DeviceHandle = "none"
=============================================================================
