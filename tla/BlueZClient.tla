---------------------------- MODULE BlueZClient ----------------------------
(***************************************************************************)
(* The Dart side: BlueZClient._onEvent of lib/src/bluez_client.dart and    *)
(* the objects it keeps (bluez_adapter.dart, bluez_device.dart and the     *)
(* GATT classes).  It runs on the isolate's thread, one message at a time, *)
(* and never while that thread is inside an FFI call.                      *)
(***************************************************************************)
EXTENDS ObjectManager

VARIABLES
  ready,     \* _initialSnapshotDone has completed, so connect() has returned
  adapters,  \* keys of _adapters
  devices,   \* keys of _devices
  gatt,      \* keys of _services, _characteristics, _descriptors of the devices
  linked,    \* ... those the current object of their parent lists too
  cache,     \* cache[p]: _props of the current object for p
  emitted    \* emitted[c]: last value the stream of c carried, Blank for none

clientVars == <<ready, adapters, devices, gatt, linked, cache, emitted>>

ClientInit ==
  /\ ready = FALSE
  /\ adapters = {} /\ devices = {} /\ gatt = {} /\ linked = {}
  /\ cache = [p \in Path |-> NoValues]
  /\ emitted = [c \in Char |-> Blank]

ClientTypeOK ==
  /\ ready \in BOOLEAN
  /\ adapters \subseteq Adapter
  /\ devices \subseteq Device
  /\ gatt \subseteq Service \cup Char \cup Desc
  /\ linked \subseteq gatt
  /\ cache \in [Path -> Values]
  /\ emitted \in [Char -> Nat]

\* Faulty variant: the change bits are ignored.
updateProps_whole(old, m) == [f \in Field |-> IF f \in Tracked THEN m.vals[f] ELSE old[f]]

\* The new object has the field when its change bit is set, else the old one.
updateProps(old, m) == [f \in Field |-> IF f \in m.mask \cap Tracked
                                        THEN m.vals[f] ELSE old[f]]

Children(p) == {q \in Path : Parent[q] = p}

\* Service, characteristics and descriptors of device d, whatever their depth.
Below(d) == LET S == Children(d)
                C == UNION {Children(p) : p \in S}
                D == UNION {Children(p) : p \in C}
            IN  S \cup C \cup D

\* _devicePathFromCharPath and _devicePathFromDescPath: the first five path
\* segments name the device, whatever the parent property says.
DeviceOf(p) == CHOOSE d \in Device : p \in Below(d)

(***************************************************************************)
(* _onEvent: each case takes the oldest message of the isolate's queue.    *)
(***************************************************************************)
Receive(t) ==
  /\ phase = "running"
  /\ call = NoCall
  /\ port # <<>>
  /\ Head(port).tag = t
  /\ port' = Tail(port)
  /\ UNCHANGED <<daemonVars, phase, reply, proxies, call>>

OnSentinel ==
  /\ Receive("Sentinel")
  /\ ready' = TRUE
  /\ UNCHANGED <<adapters, devices, gatt, linked, cache, emitted>>

\* putIfAbsent, then updateProps on whichever object is there.
OnAdapterProps ==
  LET m == Head(port) IN
  /\ Receive("AdapterProps")
  /\ adapters' = adapters \cup {m.path}
  /\ cache' = [cache EXCEPT ![m.path] =
                 updateProps(IF m.path \in adapters THEN @ ELSE m.vals, m)]
  /\ UNCHANGED <<ready, devices, gatt, linked, emitted>>

OnDeviceProps ==
  LET m == Head(port) IN
  /\ Receive("DeviceProps")
  /\ cache' = IF m.path \in devices
              THEN [cache EXCEPT ![m.path] = updateProps(@, m)]
              ELSE cache
  /\ UNCHANGED <<ready, adapters, devices, gatt, linked, emitted>>

\* The value goes to the stream of the object now known, not to its _props.
OnCharProps ==
  LET m == Head(port) IN
  /\ Receive("CharProps")
  /\ emitted' = IF m.path \in gatt
                THEN [emitted EXCEPT ![m.path] = m.vals[Value]]
                ELSE emitted
  /\ UNCHANGED <<ready, adapters, devices, gatt, linked, cache>>

\* A new BlueZDevice takes the key, with no GATT objects of its own.
OnDeviceAdded ==
  LET m == Head(port) IN
  /\ Receive("DeviceAdded")
  /\ devices' = devices \cup {m.path}
  /\ cache' = [cache EXCEPT ![m.path] = m.vals]
  /\ gatt' = gatt \ Below(m.path)
  /\ linked' = linked \ Below(m.path)
  /\ UNCHANGED <<ready, adapters, emitted>>

\* Faulty variant: like 0x09, the message has no case.
OnDeviceRemoved_ignored ==
  /\ Receive("DeviceRemoved")
  /\ UNCHANGED clientVars

OnDeviceRemoved ==
  LET m == Head(port) IN
  /\ Receive("DeviceRemoved")
  /\ devices' = devices \ {m.path}
  /\ gatt' = gatt \ Below(m.path)
  /\ linked' = linked \ Below(m.path)
  /\ UNCHANGED <<ready, adapters, cache, emitted>>

\* A new object takes the key; the objects below it stay in the device's maps,
\* but the new object does not list them.
AddGatt(m, parentKnown) ==
  /\ gatt' = gatt \cup {m.path}
  /\ linked' = (linked \ Children(m.path)) \cup (IF parentKnown THEN {m.path} ELSE {})
  /\ cache' = [cache EXCEPT ![m.path] = m.vals]
  /\ emitted' = IF m.path \in Char THEN [emitted EXCEPT ![m.path] = Blank] ELSE emitted

OnServiceAdded ==
  LET m == Head(port) IN
  /\ Receive("ServiceAdded")
  /\ IF Parent[m.path] \in devices
     THEN AddGatt(m, TRUE)
     ELSE UNCHANGED <<gatt, linked, cache, emitted>>
  /\ UNCHANGED <<ready, adapters, devices>>

OnCharAdded ==
  LET m == Head(port) IN
  /\ Receive("CharAdded")
  /\ IF DeviceOf(m.path) \in devices
     THEN AddGatt(m, Parent[m.path] \in gatt)
     ELSE UNCHANGED <<gatt, linked, cache, emitted>>
  /\ UNCHANGED <<ready, adapters, devices>>

OnDescAdded ==
  LET m == Head(port) IN
  /\ Receive("DescAdded")
  /\ IF DeviceOf(m.path) \in devices
     THEN AddGatt(m, Parent[m.path] \in gatt)
     ELSE UNCHANGED <<gatt, linked, cache, emitted>>
  /\ UNCHANGED <<ready, adapters, devices>>

\* _onEvent has no case 0x09.
OnObjectRemoved ==
  /\ Receive("ObjectRemoved")
  /\ UNCHANGED clientVars

\* A result completes the Future of startNotify() or stopNotify().
OnResult ==
  /\ \E t \in {"StartDone", "StopDone", "Failed"} : Receive(t)
  /\ UNCHANGED clientVars

\* close() closes the events port and destroys the native client; the maps
\* keep what they held.
CloseClient ==
  /\ bluez_client_destroy
  /\ UNCHANGED clientVars
============================================================================
