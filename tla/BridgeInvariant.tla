-------------------------- MODULE BridgeInvariant --------------------------
(***************************************************************************)
(* Why the device lists agree.  Two queues lie between the daemon's tree   *)
(* and BlueZClient._devices: the signals on the wire and the messages of   *)
(* the isolate, with device_proxies_ between them.  Each set is what the   *)
(* next one will be when the queue between the two has been handled.       *)
(***************************************************************************)
EXTENDS Bridge, QueueOutcome

AddedSignals(p)   == {m \in Signal : m.sig = "added" /\ m.path = p}
RemovedSignals(p) == {m \in Signal : m.sig = "removed" /\ m.path = p}
AddedMessages(p)   == {m \in Message : m.tag = "DeviceAdded" /\ m.path = p}
RemovedMessages(p) == {m \in Message : m.tag = "DeviceRemoved" /\ m.path = p}

WireOutcome(p, S) == Outcome(wire, AddedSignals(p), RemovedSignals(p), p, S)
PortOutcome(p, S) == Outcome(port, AddedMessages(p), RemovedMessages(p), p, S)

\* Nothing is left over from an earlier connection.
CleanInv ==
  /\ phase \in {"idle", "destroyed"} => wire = <<>> /\ ghosts = {}
  /\ ~ Creating => port = <<>> /\ Subscribed = {} /\ todo = {}
  /\ phase \in {"idle", "constructed", "posting"} => devices = {}
  /\ phase = "running" => todo = {}

\* The devices that exist as far as the signals tell.
Announced == present \cup ghosts

\* What is queued before the snapshot agrees with the tree.
QueueAgrees == \A p \in Device : p \in Announced <=> WireOutcome(p, Announced)

\* The signals on the wire lead from the subscribed devices, and those of the
\* reply still to be posted, to the devices that exist as far as they tell.
WireAgrees ==
  \A p \in Device : p \in Announced <=> WireOutcome(p, device_proxies \cup todo)

\* The isolate's messages lead from the devices it knows to the subscribed ones.
PortAgrees ==
  \A p \in Device : p \in device_proxies <=> PortOutcome(p, devices)

\* The inductive invariant behind DevicesConverge.
DevicesInv ==
  /\ TypeOK
  /\ CleanInv
  /\ phase = "constructed" => QueueAgrees
  /\ Creating => WireAgrees /\ PortAgrees

-----------------------------------------------------------------------------
\* Something about device p is still to be posted, dispatched or handled.
UnderWay(p) ==
  \/ p \in todo
  \/ Holds(wire, AddedSignals(p) \cup RemovedSignals(p))
  \/ Holds(port, AddedMessages(p) \cup RemovedMessages(p))

Abstract == INSTANCE Mirror WITH
  up     <- Creating,
  there  <- present \cap Device,
  ghosts <- IF Creating THEN ghosts ELSE {},
  view   <- devices,
  behind <- IF Creating THEN {p \in Device : UnderWay(p)} ELSE {}

\* The bridge implements Mirror: whatever the threads and the two queues do, the
\* device list changes only by what is under way, and what is said last of a
\* device is right.
ImplementsMirror == Abstract!Spec
=============================================================================
