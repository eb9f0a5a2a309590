---------------------------- MODULE BridgeProofs ----------------------------
(***************************************************************************)
(* Machine-checked: the types of the whole bridge, that its device list    *)
(* converges to the daemon's, and that it implements Mirror, for every     *)
(* object tree.                                                            *)
(***************************************************************************)
EXTENDS BridgeInvariant, QueueOutcomeProofs, TLAPS

-----------------------------------------------------------------------------
(* Types. *)

\* The five kinds of object are the paths there are, and exclude each other.
LEMMA KindFacts ==
  /\ Adapter \subseteq Path /\ Device \subseteq Path /\ Service \subseteq Path
  /\ Char \subseteq Path /\ Desc \subseteq Path
  /\ \A p \in Path : \/ p \in Adapter \/ p \in Device \/ p \in Service
                     \/ p \in Char \/ p \in Desc
  /\ Device \cap (Adapter \cup Service \cup Char \cup Desc) = {}
BY TreeAssumption DEF Adapter, Device, Service, Char, Desc, Kinds

LEMMA ValueFacts ==
  /\ NoValues \in Values
  /\ Value \in Field
  /\ Tracked \subseteq Field
BY FieldAssumption DEF NoValues, Values, Blank, Field

LEMMA MsgType ==
  ASSUME NEW t \in Tags, NEW p \in PathsOf[t], NEW F \in SUBSET Field, NEW v \in Values
  PROVE  Msg(t, p, F, v) \in Message
<1>1. p \in Path \cup {Root}
  BY KindFacts DEF PathsOf, Tags
<1> QED BY <1>1 DEF Msg, Message

\* The paths of each kind of message.
LEMMA PathsOfFacts ==
  /\ PathsOf["AdapterProps"] = Adapter
  /\ PathsOf["DeviceProps"] = Device
  /\ PathsOf["DeviceAdded"] = Device
  /\ PathsOf["DeviceRemoved"] = Device
  /\ PathsOf["ServiceAdded"] = Service
  /\ PathsOf["CharAdded"] = Char
  /\ PathsOf["CharProps"] = Char
  /\ PathsOf["DescAdded"] = Desc
  /\ PathsOf["ObjectRemoved"] = Service \cup Desc
  /\ PathsOf["Sentinel"] = {Root}
  /\ PathsOf["StartDone"] = Char /\ PathsOf["StopDone"] = Char
  /\ PathsOf["Failed"] = Char
BY DEF PathsOf, Tags

LEMMA PostType ==
  ASSUME port \in Seq(Message), NEW t \in Tags, NEW p \in PathsOf[t],
         NEW F \in SUBSET Field, NEW v \in Values, post_glaze(t, p, F, v)
  PROVE  port' \in Seq(Message)
<1>1. Msg(t, p, F, v) \in Message
  BY MsgType
<1> QED BY <1>1 DEF post_glaze

LEMMA SignalTail ==
  ASSUME wire \in Seq(Signal), wire # <<>>
  PROVE  /\ Head(wire) \in Signal
         /\ Tail(wire) \in Seq(Signal)
         /\ Head(wire).path \in Path /\ Head(wire).vals \in Values
         /\ Head(wire).mask \in SUBSET Field
<1>1. Head(wire) \in Signal /\ Tail(wire) \in Seq(Signal)
  OBVIOUS
<1> QED BY <1>1 DEF Signal

LEMMA MessageTail ==
  ASSUME port \in Seq(Message), port # <<>>
  PROVE  /\ Head(port) \in Message
         /\ Tail(port) \in Seq(Message)
         /\ Head(port).path \in PathsOf[Head(port).tag]
         /\ Head(port).vals \in Values
         /\ Head(port).mask \in SUBSET Field
<1>1. Head(port) \in Message /\ Tail(port) \in Seq(Message)
  OBVIOUS
<1> QED BY <1>1 DEF Message

\* The daemon's own steps.
LEMMA DaemonStepType ==
  ASSUME DaemonTypeOK, NEW p \in Path, NEW l,
         \/ Appear(p, l)
         \/ Vanish(p, l)
         \/ \E F \in SUBSET Field : Change(p, F, l)
  PROVE  DaemonTypeOK'
<1> DEFINE fresh == [f \in Field |-> stamp + 1]
<1>1. stamp + 1 \in Nat /\ stamp' = stamp + 1
  BY DEF DaemonTypeOK, Appear, Vanish, Change, Tick
<1>2. CASE Appear(p, l)
  <2>1. truth' = [truth EXCEPT ![p] = fresh] /\ fresh \in Values
    BY <1>1, <1>2 DEF Appear, Values
  <2>2. truth' \in [Path -> Values] /\ truth'[p] \in Values
    BY <2>1 DEF DaemonTypeOK
  <2>3. InterfacesAdded(p, truth'[p]) \in Signal
    BY <1>1, <2>2 DEF InterfacesAdded, Signal
  <2>4. wire' \in Seq(Signal)
    BY <1>2, <2>3 DEF Appear, Route, DaemonTypeOK
  <2> QED BY <1>1, <1>2, <2>2, <2>4 DEF Appear, DaemonTypeOK
<1>3. CASE Vanish(p, l)
  <2>1. InterfacesRemoved(p) \in Signal
    BY <1>1, ValueFacts DEF InterfacesRemoved, Signal
  <2>2. wire' \in Seq(Signal)
    BY <1>3, <2>1 DEF Vanish, Route, DaemonTypeOK
  <2> QED BY <1>1, <1>3, <2>2 DEF Vanish, DaemonTypeOK
<1>4. ASSUME NEW F \in SUBSET Field, Change(p, F, l) PROVE DaemonTypeOK'
  <2> DEFINE v == [f \in Field |-> IF f \in F THEN stamp + 1 ELSE truth[p][f]]
             w == [f \in Field |-> IF f \in F THEN stamp + 1 ELSE Blank]
  <2>1. truth[p] \in Values
    BY DEF DaemonTypeOK
  <2>2. v \in Values /\ w \in Values
    BY <1>1, <2>1 DEF Values, Blank
  <2>3. truth' = [truth EXCEPT ![p] = v]
    BY <1>4 DEF Change, DaemonTypeOK
  <2>4. truth' \in [Path -> Values]
    BY <2>2, <2>3 DEF DaemonTypeOK
  <2>5. PropertiesChanged(p, F) \in Signal
    BY <1>1, <2>2 DEF PropertiesChanged, Signal
  <2>6. wire' \in Seq(Signal)
    BY <1>4, <2>5 DEF Change, Route, DaemonTypeOK
  <2> QED BY <1>1, <1>4, <2>4, <2>6 DEF Change, DaemonTypeOK
<1> QED BY <1>2, <1>3, <1>4

\* The signal handlers.
LEMMA AddedType ==
  ASSUME ManagerTypeOK, stamp \in Nat, NEW p \in Path, NEW v \in Values,
         on_interfaces_added(p, v)
  PROVE  /\ adapter_proxies' \subseteq Adapter /\ device_proxies' \subseteq Device
         /\ notify_proxies' = notify_proxies
         /\ after' \in [Path -> Nat] /\ port' \in Seq(Message)
<1>1. port \in Seq(Message) /\ Field \in SUBSET Field
  BY DEF ManagerTypeOK
<1>2. CASE /\ p \in Adapter
           /\ post_glaze("AdapterProps", p, Field, v)
           /\ subscribe_adapter_props(p)
           /\ UNCHANGED device_proxies
  <2>1. port' \in Seq(Message)
    BY <1>1, <1>2, PostType, PathsOfFacts DEF Tags
  <2> QED BY <1>2, <2>1 DEF on_interfaces_added, subscribe_adapter_props, AddMatch, ManagerTypeOK
<1>3. CASE /\ p \in Device
           /\ post_glaze("DeviceAdded", p, Field, v)
           /\ subscribe_device_props(p)
           /\ UNCHANGED adapter_proxies
  <2>1. port' \in Seq(Message)
    BY <1>1, <1>3, PostType, PathsOfFacts DEF Tags
  <2> QED BY <1>3, <2>1 DEF on_interfaces_added, subscribe_device_props, AddMatch, ManagerTypeOK
<1>4. CASE /\ p \in Service \cup Char \cup Desc
           /\ post_glaze(GattAddedTag(p), p, Field, v)
           /\ UNCHANGED <<adapter_proxies, device_proxies, after>>
  <2>1. GattAddedTag(p) \in Tags /\ p \in PathsOf[GattAddedTag(p)]
    BY <1>4, PathsOfFacts DEF GattAddedTag, Tags, Service, Char, Desc
  <2>2. port' \in Seq(Message)
    BY <1>1, <1>4, <2>1, PostType
  <2> QED BY <1>4, <2>2 DEF on_interfaces_added, ManagerTypeOK
<1> QED BY <1>2, <1>3, <1>4 DEF on_interfaces_added

LEMMA RemovedType ==
  ASSUME ManagerTypeOK, NEW p \in Path, on_interfaces_removed(p)
  PROVE  /\ adapter_proxies' \subseteq Adapter /\ device_proxies' \subseteq Device
         /\ notify_proxies' \subseteq Char
         /\ after' = after /\ port' \in Seq(Message)
<1>1. port \in Seq(Message) /\ {} \in SUBSET Field
  BY DEF ManagerTypeOK
<1>2. p \in Device /\ post_glaze("DeviceRemoved", p, {}, NoValues) => port' \in Seq(Message)
  BY <1>1, PostType, PathsOfFacts, ValueFacts DEF Tags
<1>3. p \in Service \cup Desc /\ post_glaze("ObjectRemoved", p, {}, NoValues)
        => port' \in Seq(Message)
  BY <1>1, PostType, PathsOfFacts, ValueFacts DEF Tags
<1> QED BY <1>1, <1>2, <1>3 DEF on_interfaces_removed, ManagerTypeOK

LEMMA ChangedType ==
  ASSUME ManagerTypeOK, NEW p \in Path, NEW F \in SUBSET Field, NEW v \in Values,
         on_properties_changed(p, F, v)
  PROVE  port' \in Seq(Message)
<1>1. port \in Seq(Message) /\ F \cap Tracked \in SUBSET Field /\ {Value} \in SUBSET Field
  BY ValueFacts DEF ManagerTypeOK
<1>2. p \in adapter_proxies /\ post_glaze("AdapterProps", p, F \cap Tracked, v)
        => port' \in Seq(Message)
  BY <1>1, PostType, PathsOfFacts DEF Tags, ManagerTypeOK
<1>3. p \in device_proxies /\ post_glaze("DeviceProps", p, F \cap Tracked, v)
        => port' \in Seq(Message)
  BY <1>1, PostType, PathsOfFacts DEF Tags, ManagerTypeOK
<1>4. p \in notify_proxies /\ post_glaze("CharProps", p, {Value}, v)
        => port' \in Seq(Message)
  BY <1>1, PostType, PathsOfFacts DEF Tags, ManagerTypeOK
<1> QED BY <1>1, <1>2, <1>3, <1>4 DEF on_properties_changed

\* The event loop leaves the daemon's and the manager's types as they were.
LEMMA EventLoopType ==
  ASSUME DaemonTypeOK, ManagerTypeOK,
         DispatchAdded \/ DispatchRemoved \/ DispatchChanged \/ DispatchUnmatched
  PROVE  DaemonTypeOK' /\ ManagerTypeOK'
<1> DEFINE m == Head(wire)
<1>1. PICK s \in {"added", "removed", "changed"} : Dispatch(s)
  BY DEF DispatchAdded, DispatchRemoved, DispatchChanged, DispatchUnmatched
<1>2. /\ m.path \in Path /\ m.vals \in Values /\ m.mask \in SUBSET Field
      /\ Tail(wire) \in Seq(Signal)
  BY <1>1, SignalTail DEF Dispatch, DaemonTypeOK
<1>3. DaemonTypeOK'
  BY <1>1, <1>2 DEF Dispatch, DaemonTypeOK
<1>4. UNCHANGED <<phase, todo, snapped, snap, call>>
  BY <1>1 DEF Dispatch, reply
<1>5. /\ adapter_proxies' \subseteq Adapter /\ device_proxies' \subseteq Device
      /\ notify_proxies' \subseteq Char
      /\ after' \in [Path -> Nat] /\ port' \in Seq(Message)
  <2>1. CASE DispatchAdded
    BY <1>2, <2>1, AddedType DEF DispatchAdded, DaemonTypeOK, ManagerTypeOK
  <2>2. CASE DispatchRemoved
    BY <1>2, <2>2, RemovedType DEF DispatchRemoved, ManagerTypeOK
  <2>3. CASE DispatchChanged
    BY <1>2, <2>3, ChangedType DEF DispatchChanged, ManagerTypeOK, proxies
  <2>4. CASE DispatchUnmatched
    BY <2>4 DEF DispatchUnmatched, ManagerTypeOK, proxies
  <2> QED BY <2>1, <2>2, <2>3, <2>4
<1> QED BY <1>3, <1>4, <1>5 DEF ManagerTypeOK

\* bluez_client_create and bluez_client_destroy.
LEMMA TeardownType ==
  ASSUME DaemonTypeOK, ManagerTypeOK, NEW ph \in Phases, Teardown(ph)
  PROVE  DaemonTypeOK' /\ ManagerTypeOK'
<1>1. [p \in Path |-> NoValues] \in [Path -> Values] /\ [p \in Path |-> 0] \in [Path -> Nat]
  BY ValueFacts
<1>2. <<>> \in Seq(Message) /\ <<>> \in Seq(Signal)
  OBVIOUS
<1> QED BY <1>1, <1>2 DEF Teardown, DaemonTypeOK, ManagerTypeOK

LEMMA CreateType ==
  ASSUME DaemonTypeOK, ManagerTypeOK,
         \/ Construct \/ get_managed_objects \/ FinishCreate
         \/ \E p \in Path : PostObject(p)
  PROVE  DaemonTypeOK' /\ ManagerTypeOK'
<1>1. CASE Construct
  BY <1>1 DEF Construct, daemonVars, reply, proxies, DaemonTypeOK, ManagerTypeOK, Phases
<1>2. CASE get_managed_objects
  BY <1>2 DEF get_managed_objects, daemonVars, proxies, DaemonTypeOK, ManagerTypeOK, Phases
<1>3. CASE FinishCreate
  <2>1. port' \in Seq(Message)
    BY <1>3, PostType, PathsOfFacts, ValueFacts DEF FinishCreate, Tags, ManagerTypeOK
  <2> QED BY <1>3, <2>1 DEF FinishCreate, daemonVars, reply, proxies, DaemonTypeOK,
                            ManagerTypeOK, Phases
<1>4. ASSUME NEW p \in Path, PostObject(p) PROVE DaemonTypeOK' /\ ManagerTypeOK'
  <2>1. snap[p] \in Values /\ stamp \in Nat
    BY DEF ManagerTypeOK, DaemonTypeOK
  <2>2. /\ adapter_proxies' \subseteq Adapter /\ device_proxies' \subseteq Device
        /\ notify_proxies' = notify_proxies
        /\ after' \in [Path -> Nat] /\ port' \in Seq(Message)
    BY <1>4, <2>1, AddedType DEF PostObject
  <2> QED BY <1>4, <2>2 DEF PostObject, daemonVars, DaemonTypeOK, ManagerTypeOK
<1> QED BY <1>1, <1>2, <1>3, <1>4

\* The GATT calls.
LEMMA CallType ==
  ASSUME DaemonTypeOK, ManagerTypeOK, NEW c \in Char,
         \/ \E op \in {"start", "stop"} :
              \/ GattMethodReturns(op, c) \/ GattCallFails(op, c) \/ GattCallBlocks(op, c)
              \/ GattCallUnbuilt(op, c) \/ post_success(op, c)
         \/ start_notify(c) \/ stop_notify(c)
  PROVE  DaemonTypeOK' /\ ManagerTypeOK'
<1>1. PICK op \in {"start", "stop"}, from \in {"method", "proxies", "post"},
           to \in {"proxies", "post", "done", "blocked"} : GattStep(op, c, from, to)
  BY DEF GattMethodReturns, GattCallFails, GattCallBlocks, GattCallUnbuilt,
         post_success, start_notify, stop_notify
<1>2. /\ call' \in Calls
      /\ UNCHANGED <<daemonVars, phase, reply>>
  <2>1. CASE to = "done"
    BY <1>1, <2>1 DEF GattStep, Calls
  <2>2. CASE to # "done"
    <3>1. call' = [op |-> op, char |-> c, at |-> to] /\ to \in {"proxies", "post", "blocked"}
      BY <1>1, <2>2 DEF GattStep
    <3> QED BY <1>1, <3>1 DEF GattStep, Calls
  <2> QED BY <2>1, <2>2
<1>3. /\ adapter_proxies' \subseteq Adapter /\ device_proxies' \subseteq Device
      /\ notify_proxies' \subseteq Char
      /\ after' \in [Path -> Nat] /\ port' \in Seq(Message)
  <2>1. port \in Seq(Message) /\ {} \in SUBSET Field /\ NoValues \in Values
    BY ValueFacts DEF ManagerTypeOK
  <2>2. ASSUME NEW o \in {"start", "stop"},
               GattMethodReturns(o, c) \/ GattCallBlocks(o, c) \/ GattCallUnbuilt(o, c)
        PROVE  <1>3
    BY <2>2 DEF GattMethodReturns, GattCallBlocks, GattCallUnbuilt, proxies, ManagerTypeOK
  <2>3. ASSUME NEW o \in {"start", "stop"}, GattCallFails(o, c) PROVE <1>3
    <3>1. post_glaze("Failed", c, {}, NoValues) /\ UNCHANGED proxies
      BY <2>3 DEF GattCallFails
    <3>2. port' \in Seq(Message)
      BY <2>1, <3>1, PostType, PathsOfFacts DEF Tags
    <3> QED BY <3>1, <3>2 DEF proxies, ManagerTypeOK
  <2>4. ASSUME NEW o \in {"start", "stop"}, post_success(o, c) PROVE <1>3
    <3>1. PICK t \in {"StartDone", "StopDone"} : post_glaze(t, c, {}, NoValues)
      BY <2>4 DEF post_success
    <3>2. t \in Tags /\ c \in PathsOf[t]
      BY PathsOfFacts DEF Tags
    <3>3. port' \in Seq(Message)
      BY <2>1, <3>1, <3>2, PostType
    <3> QED BY <2>4, <3>3 DEF post_success, proxies, ManagerTypeOK
  <2>5. CASE start_notify(c)
    BY <2>5 DEF start_notify, subscribe_char_notify, AddMatch, ManagerTypeOK, DaemonTypeOK
  <2>6. CASE stop_notify(c)
    BY <2>6 DEF stop_notify, unsubscribe_char_notify, ManagerTypeOK
  <2> QED BY <2>2, <2>3, <2>4, <2>5, <2>6
<1>4. DaemonTypeOK'
  BY <1>2 DEF daemonVars, DaemonTypeOK
<1> QED BY <1>2, <1>3, <1>4 DEF reply, ManagerTypeOK

\* Taking a message off the isolate's queue.
LEMMA ReceiveType ==
  ASSUME DaemonTypeOK, ManagerTypeOK, NEW t \in Tags, Receive(t)
  PROVE  /\ DaemonTypeOK' /\ ManagerTypeOK'
         /\ Head(port).tag = t /\ Head(port).path \in PathsOf[t]
         /\ Head(port).vals \in Values /\ Head(port).mask \in SUBSET Field
<1>1. /\ Head(port).path \in PathsOf[t] /\ Tail(port) \in Seq(Message)
      /\ Head(port).vals \in Values /\ Head(port).mask \in SUBSET Field
  BY MessageTail DEF Receive, ManagerTypeOK
<1>2. DaemonTypeOK'
  BY DEF Receive, daemonVars, DaemonTypeOK
<1>3. ManagerTypeOK'
  BY <1>1 DEF Receive, reply, proxies, ManagerTypeOK
<1> QED BY <1>1, <1>2, <1>3 DEF Receive

LEMMA MergeType ==
  ASSUME NEW old \in Values, NEW m, m.vals \in Values
  PROVE  updateProps(old, m) \in Values
BY DEF updateProps, Values

LEMMA AddGattType ==
  ASSUME ClientTypeOK, NEW m, m.path \in Service \cup Char \cup Desc, m.vals \in Values,
         NEW k \in BOOLEAN, AddGatt(m, k)
  PROVE  /\ gatt' \subseteq Service \cup Char \cup Desc
         /\ linked' \subseteq gatt'
         /\ cache' \in [Path -> Values] /\ emitted' \in [Char -> Nat]
BY KindFacts DEF AddGatt, ClientTypeOK, Blank

\* _onEvent, case by case.
LEMMA OnEventType ==
  ASSUME DaemonTypeOK, ManagerTypeOK, ClientTypeOK, OnEvent
  PROVE  DaemonTypeOK' /\ ManagerTypeOK' /\ ClientTypeOK'
<1> DEFINE m == Head(port)
           goal == DaemonTypeOK' /\ ManagerTypeOK' /\ ClientTypeOK'
<1>1. CASE OnSentinel
  <2>1. DaemonTypeOK' /\ ManagerTypeOK'
    BY <1>1, ReceiveType DEF OnSentinel, Tags
  <2> QED BY <1>1, <2>1 DEF OnSentinel, ClientTypeOK
<1>2. CASE OnAdapterProps
  <2>1. DaemonTypeOK' /\ ManagerTypeOK' /\ m.path \in Adapter /\ m.vals \in Values
    BY <1>2, ReceiveType, PathsOfFacts DEF OnAdapterProps, Tags
  <2>2. m.path \in Path /\ cache[m.path] \in Values
    BY <2>1, KindFacts DEF ClientTypeOK
  <2>3. updateProps(IF m.path \in adapters THEN cache[m.path] ELSE m.vals, m) \in Values
    BY <2>1, <2>2, MergeType
  <2>4. cache' \in [Path -> Values]
    BY <1>2, <2>2, <2>3 DEF OnAdapterProps, ClientTypeOK
  <2> QED BY <1>2, <2>1, <2>4 DEF OnAdapterProps, ClientTypeOK
<1>3. CASE OnDeviceProps
  <2>1. DaemonTypeOK' /\ ManagerTypeOK' /\ m.path \in Device /\ m.vals \in Values
    BY <1>3, ReceiveType, PathsOfFacts DEF OnDeviceProps, Tags
  <2>2. m.path \in Path /\ cache[m.path] \in Values
    BY <2>1, KindFacts DEF ClientTypeOK
  <2>3. updateProps(cache[m.path], m) \in Values
    BY <2>1, <2>2, MergeType
  <2>4. cache' \in [Path -> Values]
    BY <1>3, <2>2, <2>3 DEF OnDeviceProps, ClientTypeOK
  <2> QED BY <1>3, <2>1, <2>4 DEF OnDeviceProps, ClientTypeOK
<1>4. CASE OnCharProps
  <2>1. DaemonTypeOK' /\ ManagerTypeOK' /\ m.path \in Char /\ m.vals \in Values
    BY <1>4, ReceiveType, PathsOfFacts DEF OnCharProps, Tags
  <2>2. m.vals[Value] \in Nat
    BY <2>1, ValueFacts DEF Values
  <2>3. emitted' \in [Char -> Nat]
    BY <1>4, <2>1, <2>2 DEF OnCharProps, ClientTypeOK
  <2> QED BY <1>4, <2>1, <2>3 DEF OnCharProps, ClientTypeOK
<1>5. CASE OnDeviceAdded
  <2>1. DaemonTypeOK' /\ ManagerTypeOK' /\ m.path \in Device /\ m.vals \in Values
    BY <1>5, ReceiveType, PathsOfFacts DEF OnDeviceAdded, Tags
  <2>2. m.path \in Path
    BY <2>1, KindFacts
  <2> QED BY <1>5, <2>1, <2>2 DEF OnDeviceAdded, ClientTypeOK
<1>6. CASE OnDeviceRemoved
  <2>1. DaemonTypeOK' /\ ManagerTypeOK'
    BY <1>6, ReceiveType DEF OnDeviceRemoved, Tags
  <2> QED BY <1>6, <2>1 DEF OnDeviceRemoved, ClientTypeOK
<1>7. CASE OnServiceAdded
  <2>1. DaemonTypeOK' /\ ManagerTypeOK' /\ m.path \in Service /\ m.vals \in Values
    BY <1>7, ReceiveType, PathsOfFacts DEF OnServiceAdded, Tags
  <2> QED BY <1>7, <2>1, AddGattType DEF OnServiceAdded, ClientTypeOK
<1>8. CASE OnCharAdded
  <2>1. DaemonTypeOK' /\ ManagerTypeOK' /\ m.path \in Char /\ m.vals \in Values
    BY <1>8, ReceiveType, PathsOfFacts DEF OnCharAdded, Tags
  <2>2. CASE AddGatt(m, Parent[m.path] \in gatt)
    <3>1. (Parent[m.path] \in gatt) \in BOOLEAN /\ m.path \in Service \cup Char \cup Desc
      BY <2>1
    <3> QED BY <1>8, <2>1, <2>2, <3>1, AddGattType DEF OnCharAdded, ClientTypeOK
  <2>3. CASE UNCHANGED <<gatt, linked, cache, emitted>>
    BY <1>8, <2>1, <2>3 DEF OnCharAdded, ClientTypeOK
  <2> QED BY <1>8, <2>2, <2>3 DEF OnCharAdded
<1>9. CASE OnDescAdded
  <2>1. DaemonTypeOK' /\ ManagerTypeOK' /\ m.path \in Desc /\ m.vals \in Values
    BY <1>9, ReceiveType, PathsOfFacts DEF OnDescAdded, Tags
  <2>2. CASE AddGatt(m, Parent[m.path] \in gatt)
    <3>1. (Parent[m.path] \in gatt) \in BOOLEAN /\ m.path \in Service \cup Char \cup Desc
      BY <2>1
    <3> QED BY <1>9, <2>1, <2>2, <3>1, AddGattType DEF OnDescAdded, ClientTypeOK
  <2>3. CASE UNCHANGED <<gatt, linked, cache, emitted>>
    BY <1>9, <2>1, <2>3 DEF OnDescAdded, ClientTypeOK
  <2> QED BY <1>9, <2>2, <2>3 DEF OnDescAdded
<1>10. CASE OnObjectRemoved
  <2>1. DaemonTypeOK' /\ ManagerTypeOK'
    BY <1>10, ReceiveType DEF OnObjectRemoved, Tags
  <2> QED BY <1>10, <2>1 DEF OnObjectRemoved, clientVars, ClientTypeOK
<1>11. CASE OnResult
  <2>1. DaemonTypeOK' /\ ManagerTypeOK'
    BY <1>11, ReceiveType DEF OnResult, Tags
  <2> QED BY <1>11, <2>1 DEF OnResult, clientVars, ClientTypeOK
<1> QED BY <1>1, <1>2, <1>3, <1>4, <1>5, <1>6, <1>7, <1>8, <1>9, <1>10, <1>11
           DEF OnEvent

LEMMA InitType == Init => TypeOK
<1> SUFFICES ASSUME Init PROVE TypeOK
  OBVIOUS
<1>1. DaemonTypeOK
  BY DEF Init, DaemonInit, DaemonTypeOK, Values
<1>2. ManagerTypeOK
  <2>1. [p \in Path |-> NoValues] \in [Path -> Values] /\ [p \in Path |-> 0] \in [Path -> Nat]
    BY ValueFacts
  <2> QED BY <2>1 DEF Init, ManagerInit, ManagerTypeOK, Phases, Calls
<1>3. ClientTypeOK
  BY ValueFacts DEF Init, ClientInit, ClientTypeOK, Blank
<1> QED BY <1>1, <1>2, <1>3 DEF Init, TypeOK

\* One step per action of the bridge.
LEMMA NextType == TypeOK /\ [Next]_vars => TypeOK'
<1> SUFFICES ASSUME TypeOK, [Next]_vars PROVE TypeOK'
  OBVIOUS
<1> USE DEF TypeOK
<1>1. Char \subseteq Path /\ Tracked \subseteq Field
  BY KindFacts, ValueFacts
<1>11. CASE DaemonCrash
  <2>1. DaemonTypeOK' /\ ghosts' \subseteq Device \ present'
    BY <1>11 DEF DaemonCrash, Crash, Tick, DaemonTypeOK
  <2>2. ManagerTypeOK' /\ ClientTypeOK'
    BY <1>11 DEF DaemonCrash, managerVars, clientVars, ManagerTypeOK, ClientTypeOK
  <2> QED BY <1>11, <2>1, <2>2 DEF DaemonCrash
<1>2. CASE DaemonStep /\ ~ DaemonCrash
  <2>1. PICK p \in Path : \/ DaemonAppear(p)
                          \/ DaemonVanish(p)
                          \/ \E F \in SUBSET Field : DaemonChange(p, F)
    BY <1>2 DEF DaemonStep
  <2>2. DaemonTypeOK'
    BY <2>1, DaemonStepType DEF DaemonAppear, DaemonVanish, DaemonChange
  <2>3. UNCHANGED <<managerVars, clientVars, stopped, unanswered, lost>>
    BY <2>1 DEF DaemonAppear, DaemonVanish, DaemonChange, history
  <2>4. gap' \subseteq Pairs(Path)
    <3>1. CASE DaemonAppear(p)
      BY <3>1 DEF DaemonAppear, Pairs
    <3>2. CASE DaemonVanish(p)
      BY <3>2 DEF DaemonVanish, history
    <3>3. ASSUME NEW F \in SUBSET Field, DaemonChange(p, F) PROVE gap' \subseteq Pairs(Path)
      BY <3>3 DEF DaemonChange, Pairs
    <3> QED BY <2>1, <3>1, <3>2, <3>3
  <2>5. ManagerTypeOK' /\ ClientTypeOK'
    BY <2>3 DEF managerVars, clientVars, ManagerTypeOK, ClientTypeOK
  <2>6. ghosts' \subseteq Device \ present'
    BY <2>1 DEF DaemonAppear, DaemonVanish, DaemonChange, Appear, Vanish, Change, history
  <2> QED BY <2>2, <2>3, <2>4, <2>5, <2>6
<1>3. ASSUME \/ Connect \/ PostSnapshot \/ CreateReturns \/ EventLoop
      PROVE  TypeOK'
  <2>1. DaemonTypeOK' /\ ManagerTypeOK'
    BY <1>3, CreateType, EventLoopType DEF Connect, PostSnapshot, CreateReturns, EventLoop
  <2>2. UNCHANGED <<clientVars, history, present>>
    BY <1>3 DEF Connect, PostSnapshot, CreateReturns, EventLoop, Construct, PostObject,
                FinishCreate, DispatchAdded, DispatchRemoved, DispatchChanged,
                DispatchUnmatched, Dispatch, daemonVars
  <2> QED BY <2>1, <2>2 DEF clientVars, history, ClientTypeOK
<1>4. CASE Snapshot
  <2>1. DaemonTypeOK' /\ ManagerTypeOK'
    BY <1>4, CreateType DEF Snapshot
  <2>2. gap' \subseteq Pairs(Path)
    BY <1>1, <1>4 DEF Snapshot, Pairs, DaemonTypeOK
  <2>3. ghosts' \subseteq Device \ present'
    BY <1>4 DEF Snapshot, get_managed_objects, daemonVars
  <2> QED BY <1>4, <2>1, <2>2, <2>3 DEF Snapshot, clientVars, ClientTypeOK
<1>5. CASE CreateThrows
  <2>1. DaemonTypeOK' /\ ManagerTypeOK'
    BY <1>5, TeardownType DEF CreateThrows, CreateFails, Phases
  <2> QED BY <1>5, <2>1 DEF CreateThrows, clientVars, ClientTypeOK
<1>6. CASE CallStep
  <2>1. PICK c \in Char :
          /\ \/ \E op \in {"start", "stop"} :
                  \/ GattMethodReturns(op, c) \/ GattCallFails(op, c) \/ GattCallBlocks(op, c)
                  \/ GattCallUnbuilt(op, c) \/ post_success(op, c)
             \/ start_notify(c) \/ stop_notify(c)
          /\ gap' \in {gap, gap \cup Pairs({c})}
          /\ stopped' \in {stopped, stopped \cup {c}}
          /\ lost' \in {lost, lost + 1}
          /\ UNCHANGED <<clientVars, unanswered, ghosts>>
    BY <1>6 DEF CallStep, history
  <2>2. DaemonTypeOK' /\ ManagerTypeOK' /\ UNCHANGED present
    BY <2>1, CallType DEF GattMethodReturns, GattCallFails, GattCallBlocks, GattCallUnbuilt,
                          post_success, start_notify,
                          stop_notify, GattStep, daemonVars
  <2>3. gap' \subseteq Pairs(Path) /\ stopped' \subseteq Char /\ lost' \in Nat
    BY <1>1, <2>1 DEF Pairs
  <2> QED BY <2>1, <2>2, <2>3 DEF clientVars, ClientTypeOK
<1>7. CASE OnEvent
  <2>1. UNCHANGED present
    BY <1>7 DEF OnEvent, OnSentinel, OnAdapterProps, OnDeviceProps, OnCharProps, OnDeviceAdded,
                OnDeviceRemoved, OnServiceAdded, OnCharAdded, OnDescAdded, OnObjectRemoved,
                OnResult, Receive, daemonVars
  <2> QED BY <1>7, <2>1, OnEventType DEF OnEvent
<1>8. CASE UserCall
  <2>1. PICK c \in Char : Notify("start", c) \/ Notify("stop", c)
    BY <1>8 DEF UserCall
  <2>2. call' \in Calls /\ stopped' \subseteq Char /\ unanswered' \in Int
    BY <2>1 DEF Notify, Calls
  <2>3. UNCHANGED <<daemonVars, phase, reply, proxies, port, clientVars, gap, lost, ghosts>>
    BY <2>1 DEF Notify
  <2> QED BY <2>2, <2>3 DEF daemonVars, reply, proxies, clientVars,
                            DaemonTypeOK, ManagerTypeOK, ClientTypeOK
<1>9. CASE Close
  <2>1. DaemonTypeOK' /\ ManagerTypeOK'
    BY <1>9, TeardownType DEF Close, CloseClient, bluez_client_destroy, Phases
  <2> QED BY <1>9, <2>1 DEF Close, CloseClient, clientVars, ClientTypeOK
<1>10. CASE UNCHANGED vars
  BY <1>10 DEF vars, daemonVars, managerVars, clientVars, history,
               DaemonTypeOK, ManagerTypeOK, ClientTypeOK
<1> QED BY <1>2, <1>11, <1>3, <1>4, <1>5, <1>6, <1>7, <1>8, <1>9, <1>10 DEF Next, Work

\* Every variable of the bridge keeps its type; in particular each message of
\* the isolate's queue is about an object of the kind its tag is for.
THEOREM TypeCorrect == Spec => []TypeOK
BY InitType, NextType, PTL DEF Spec

-----------------------------------------------------------------------------
(* Convergence of the device list. *)

LEMMA Disjoint ==
  ASSUME NEW p
  PROVE  /\ AddedSignals(p) \cap RemovedSignals(p) = {}
         /\ AddedMessages(p) \cap RemovedMessages(p) = {}
BY DEF AddedSignals, RemovedSignals, AddedMessages, RemovedMessages

\* A signal of p put on the wire settles p and concerns no other device.
LEMMA WireAppend ==
  ASSUME wire \in Seq(Signal), NEW m \in Signal, wire' = Append(wire, m), NEW d, NEW D
  PROVE  /\ m.path = d /\ m.sig = "added"
              => Outcome(wire', AddedSignals(d), RemovedSignals(d), d, D)
         /\ m.path = d /\ m.sig = "removed"
              => ~ Outcome(wire', AddedSignals(d), RemovedSignals(d), d, D)
         /\ m.path # d \/ m.sig = "changed"
              => (Outcome(wire', AddedSignals(d), RemovedSignals(d), d, D)
                    <=> WireOutcome(d, D))
<1>1. m \in AddedSignals(d) <=> m.sig = "added" /\ m.path = d
  BY DEF AddedSignals
<1>2. m \in RemovedSignals(d) <=> m.sig = "removed" /\ m.path = d
  BY DEF RemovedSignals
<1>3. m.sig \in {"added", "removed", "changed"}
  BY DEF Signal
<1> QED BY <1>1, <1>2, <1>3, Disjoint, OutcomeAppend DEF WireOutcome

LEMMA WireTail ==
  ASSUME wire \in Seq(Signal), wire # <<>>, wire' = Tail(wire), NEW d, NEW D, NEW E,
         Head(wire).path = d /\ Head(wire).sig = "added" => d \in E,
         Head(wire).path = d /\ Head(wire).sig = "removed" => d \notin E,
         Head(wire).path # d \/ Head(wire).sig = "changed" => (d \in D <=> d \in E)
  PROVE  WireOutcome(d, D) <=> Outcome(wire', AddedSignals(d), RemovedSignals(d), d, E)
<1> DEFINE m == Head(wire)
<1>1. m \in AddedSignals(d) <=> m.sig = "added" /\ m.path = d
  BY SignalTail DEF AddedSignals
<1>2. m \in RemovedSignals(d) <=> m.sig = "removed" /\ m.path = d
  BY SignalTail DEF RemovedSignals
<1>3. m.sig \in {"added", "removed", "changed"}
  BY SignalTail DEF Signal
<1>4. AddedSignals(d) \cap RemovedSignals(d) = {}
  BY Disjoint
<1> QED BY <1>1, <1>2, <1>3, <1>4, OutcomeTail DEF WireOutcome

\* The same of the isolate's queue.
LEMMA PortAppend ==
  ASSUME port \in Seq(Message), NEW m \in Message, port' = Append(port, m), NEW d, NEW D
  PROVE  /\ m.path = d /\ m.tag = "DeviceAdded"
              => Outcome(port', AddedMessages(d), RemovedMessages(d), d, D)
         /\ m.path = d /\ m.tag = "DeviceRemoved"
              => ~ Outcome(port', AddedMessages(d), RemovedMessages(d), d, D)
         /\ m.path # d \/ m.tag \notin {"DeviceAdded", "DeviceRemoved"}
              => (Outcome(port', AddedMessages(d), RemovedMessages(d), d, D)
                    <=> PortOutcome(d, D))
<1>1. m \in AddedMessages(d) <=> m.tag = "DeviceAdded" /\ m.path = d
  BY DEF AddedMessages
<1>2. m \in RemovedMessages(d) <=> m.tag = "DeviceRemoved" /\ m.path = d
  BY DEF RemovedMessages
<1> QED BY <1>1, <1>2, Disjoint, OutcomeAppend DEF PortOutcome

LEMMA PortTail ==
  ASSUME port \in Seq(Message), port # <<>>, port' = Tail(port), NEW d, NEW D, NEW E,
         Head(port).path = d /\ Head(port).tag = "DeviceAdded" => d \in E,
         Head(port).path = d /\ Head(port).tag = "DeviceRemoved" => d \notin E,
         Head(port).path # d \/ Head(port).tag \notin {"DeviceAdded", "DeviceRemoved"}
           => (d \in D <=> d \in E)
  PROVE  PortOutcome(d, D) <=> Outcome(port', AddedMessages(d), RemovedMessages(d), d, E)
<1> DEFINE m == Head(port)
<1>1. m \in AddedMessages(d) <=> m.tag = "DeviceAdded" /\ m.path = d
  BY MessageTail DEF AddedMessages
<1>2. m \in RemovedMessages(d) <=> m.tag = "DeviceRemoved" /\ m.path = d
  BY MessageTail DEF RemovedMessages
<1>3. AddedMessages(d) \cap RemovedMessages(d) = {}
  BY Disjoint
<1> QED BY <1>1, <1>2, <1>3, OutcomeTail DEF PortOutcome

\* Posting keeps the isolate's queue in step with device_proxies_.
LEMMA PostAgrees ==
  ASSUME TypeOK, PortAgrees, UNCHANGED devices,
         NEW t \in Tags, NEW p \in PathsOf[t],
         NEW F \in SUBSET Field, NEW v \in Values, post_glaze(t, p, F, v),
         t = "DeviceAdded" => device_proxies' = device_proxies \cup {p},
         t = "DeviceRemoved" => device_proxies' = device_proxies \ {p},
         t \notin {"DeviceAdded", "DeviceRemoved"} => UNCHANGED device_proxies
  PROVE  PortAgrees'
<1> DEFINE m == Msg(t, p, F, v)
<1>1. /\ m \in Message /\ m.tag = t /\ m.path = p
      /\ port \in Seq(Message) /\ port' = Append(port, m)
  BY MsgType DEF Msg, TypeOK, ManagerTypeOK, post_glaze
<1> HIDE DEF m
<1>2. ASSUME NEW d \in Device
      PROVE  d \in device_proxies' <=> PortOutcome(d, devices)'
  <2> DEFINE o == Outcome(port', AddedMessages(d), RemovedMessages(d), d, devices)
  <2>1. /\ p = d /\ t = "DeviceAdded" => o
        /\ p = d /\ t = "DeviceRemoved" => ~ o
        /\ p # d \/ t \notin {"DeviceAdded", "DeviceRemoved"}
             => (o <=> PortOutcome(d, devices))
    BY <1>1, PortAppend
  <2>2. PortOutcome(d, devices)' <=> o
    BY DEF PortOutcome
  <2>3. d \in device_proxies <=> PortOutcome(d, devices)
    BY DEF PortAgrees
  <2> HIDE DEF o
  <2> QED BY <2>1, <2>2, <2>3
<1> QED BY <1>2 DEF PortAgrees

\* The signal handlers: what they post and what they do to device_proxies_.
LEMMA AddedAgrees ==
  ASSUME TypeOK, PortAgrees, UNCHANGED devices, NEW p \in Path, NEW v \in Values,
         on_interfaces_added(p, v)
  PROVE  PortAgrees' /\ device_proxies' = device_proxies \cup ({p} \cap Device)
<1>1. PICK t \in Tags :
        /\ p \in PathsOf[t] /\ post_glaze(t, p, Field, v)
        /\ p \in Device => t = "DeviceAdded" /\ device_proxies' = device_proxies \cup {p}
        /\ p \notin Device => t \notin {"DeviceAdded", "DeviceRemoved"}
                              /\ UNCHANGED device_proxies
  <2>1. CASE p \in Adapter
    BY <2>1, KindFacts, PathsOfFacts DEF on_interfaces_added, Tags, Adapter, Service, Char, Desc
  <2>2. CASE p \in Device
    BY <2>2, KindFacts, PathsOfFacts DEF on_interfaces_added, subscribe_device_props, Tags
  <2>3. CASE p \notin Adapter \cup Device
    <3>1. GattAddedTag(p) \in Tags \ {"DeviceAdded", "DeviceRemoved"}
          /\ p \in PathsOf[GattAddedTag(p)]
      BY <2>3, KindFacts, PathsOfFacts DEF GattAddedTag, Tags, Service, Char, Desc
    <3> QED BY <2>3, <3>1 DEF on_interfaces_added
  <2> QED BY <2>1, <2>2, <2>3
<1>2. Field \in SUBSET Field
  OBVIOUS
<1>3. PortAgrees'
  BY <1>1, <1>2, PostAgrees
<1> QED BY <1>1, <1>3

LEMMA RemovedAgrees ==
  ASSUME TypeOK, PortAgrees, UNCHANGED devices, NEW p \in Path, on_interfaces_removed(p)
  PROVE  PortAgrees' /\ device_proxies' = device_proxies \ {p}
<1>1. {} \in SUBSET Field /\ NoValues \in Values /\ device_proxies \subseteq Device
  BY ValueFacts DEF TypeOK, ManagerTypeOK
<1>2. CASE p \in Device
  <2>1. post_glaze("DeviceRemoved", p, {}, NoValues) /\ device_proxies' = device_proxies \ {p}
    BY <1>2, KindFacts DEF on_interfaces_removed
  <2>2. "DeviceRemoved" \in Tags /\ p \in PathsOf["DeviceRemoved"]
    BY <1>2, PathsOfFacts DEF Tags
  <2> QED BY <1>1, <2>1, <2>2, PostAgrees
<1>3. CASE p \in Service \cup Desc
  <2>1. post_glaze("ObjectRemoved", p, {}, NoValues) /\ UNCHANGED device_proxies
    BY <1>3, KindFacts DEF on_interfaces_removed, Adapter, Char, Service, Desc
  <2>2. "ObjectRemoved" \in Tags /\ p \in PathsOf["ObjectRemoved"]
    BY <1>3, PathsOfFacts DEF Tags
  <2>3. p \notin device_proxies
    BY <1>1, <1>3, KindFacts
  <2> QED BY <1>1, <2>1, <2>2, <2>3, PostAgrees
<1>4. CASE p \in Adapter \cup Char
  <2>1. UNCHANGED <<port, device_proxies>>
    BY <1>4, KindFacts DEF on_interfaces_removed, Adapter, Char, Service, Desc
  <2>2. p \notin device_proxies
    BY <1>1, <1>4, KindFacts
  <2> QED BY <2>1, <2>2 DEF PortAgrees, PortOutcome
<1> QED BY <1>2, <1>3, <1>4, KindFacts


\* A step of the daemon puts at most one signal of the object on the wire.
LEMMA DaemonSignal ==
  ASSUME TypeOK, Listening, NEW p \in Path,
         \/ DaemonAppear(p)
         \/ DaemonVanish(p)
         \/ \E F \in SUBSET Field : DaemonChange(p, F)
  PROVE  \/ wire' = wire /\ Announced' = Announced
         \/ \E m \in Signal :
              /\ wire' = Append(wire, m) /\ m.path = p
              /\ \/ m.sig = "added" /\ Announced' = Announced \cup {p}
                 \/ m.sig = "removed" /\ Announced' = Announced \ {p}
                 \/ m.sig = "changed" /\ Announced' = Announced
<1>1. stamp + 1 \in Nat
  BY DEF TypeOK, DaemonTypeOK
<1>2. CASE DaemonAppear(p)
  <2> DEFINE m == InterfacesAdded(p, truth'[p])
  <2>1. truth'[p] \in Values
    BY <1>2, DaemonStepType DEF DaemonAppear, TypeOK, DaemonTypeOK
  <2>2. m \in Signal /\ m.path = p /\ m.sig = "added"
    BY <1>1, <2>1 DEF InterfacesAdded, Signal
  <2>3. wire' = Append(wire, m) /\ Announced' = Announced \cup {p}
    BY <1>2 DEF DaemonAppear, Appear, Route, Announced
  <2> QED BY <2>2, <2>3
<1>3. CASE DaemonVanish(p)
  <2> DEFINE m == InterfacesRemoved(p)
  <2>1. m \in Signal /\ m.path = p /\ m.sig = "removed"
    BY <1>1, ValueFacts DEF InterfacesRemoved, Signal
  <2>2. wire' = Append(wire, m) /\ Announced' = Announced \ {p}
    BY <1>3 DEF DaemonVanish, Vanish, Route, history, Announced, TypeOK
  <2> QED BY <2>1, <2>2
<1>4. ASSUME NEW F \in SUBSET Field, DaemonChange(p, F)
      PROVE  \/ wire' = wire /\ Announced' = Announced
             \/ \E m \in Signal : /\ wire' = Append(wire, m) /\ m.path = p
                                  /\ m.sig = "changed" /\ Announced' = Announced
  <2> DEFINE m == PropertiesChanged(p, F)
  <2>1. [f \in Field |-> IF f \in F THEN stamp + 1 ELSE Blank] \in Values
    BY <1>1 DEF Values, Blank
  <2>2. m \in Signal /\ m.path = p /\ m.sig = "changed"
    BY <1>1, <2>1 DEF PropertiesChanged, Signal
  <2>3. (wire' = wire \/ wire' = Append(wire, m)) /\ Announced' = Announced
    BY <1>4 DEF DaemonChange, Change, Route, Announced
  <2> QED BY <2>2, <2>3
<1> QED BY <1>2, <1>3, <1>4

\* So the wire goes on leading from a set of devices to those that exist, when
\* the set changes no more than the tree does.
LEMMA DaemonAgrees ==
  ASSUME TypeOK, Listening, NEW p \in Path,
         \/ DaemonAppear(p)
         \/ DaemonVanish(p)
         \/ \E F \in SUBSET Field : DaemonChange(p, F),
         NEW S, NEW T,
         \A d \in Device : d \in Announced <=> WireOutcome(d, S),
         S = T \/ (S = Announced /\ T = Announced')
  PROVE  \A d \in Device :
           d \in Announced' <=> Outcome(wire', AddedSignals(d), RemovedSignals(d), d, T)
<1> TAKE d \in Device
<1> DEFINE o == Outcome(wire', AddedSignals(d), RemovedSignals(d), d, T)
<1>1. (d \in S <=> d \in T) => (WireOutcome(d, S) <=> WireOutcome(d, T))
  BY DEF WireOutcome, Outcome
<1>2. CASE wire' = wire /\ Announced' = Announced
  <2>1. S = T
    BY <1>2
  <2>2. o <=> WireOutcome(d, T)
    BY <1>2 DEF WireOutcome
  <2> QED BY <1>2, <2>1, <2>2
<1>3. ASSUME NEW m \in Signal, wire' = Append(wire, m), m.path = p,
             \/ m.sig = "added" /\ Announced' = Announced \cup {p}
             \/ m.sig = "removed" /\ Announced' = Announced \ {p}
             \/ m.sig = "changed" /\ Announced' = Announced
      PROVE  d \in Announced' <=> o
  <2>1. wire \in Seq(Signal)
    BY DEF TypeOK, DaemonTypeOK
  <2>2. /\ m.path = d /\ m.sig = "added" => o
        /\ m.path = d /\ m.sig = "removed" => ~ o
        /\ m.path # d \/ m.sig = "changed" => (o <=> WireOutcome(d, T))
    BY <1>3, <2>1, WireAppend
  <2>3. d \in Announced <=> WireOutcome(d, S)
    OBVIOUS
  <2> HIDE DEF o
  <2>4. CASE m.path # d \/ m.sig = "changed"
    <3>1. (d \in Announced' <=> d \in Announced) /\ (d \in S <=> d \in T)
      BY <1>3, <2>4
    <3> QED BY <1>1, <2>2, <2>3, <2>4, <3>1
  <2>5. CASE m.path = d /\ m.sig # "changed"
    BY <1>3, <2>2, <2>5
  <2> QED BY <2>4, <2>5
<1> QED BY <1>2, <1>3, DaemonSignal

LEMMA ChangedAgrees ==
  ASSUME TypeOK, PortAgrees, UNCHANGED <<devices, device_proxies>>,
         NEW p \in Path, NEW F \in SUBSET Field, NEW v \in Values,
         on_properties_changed(p, F, v)
  PROVE  PortAgrees'
<1>1. CASE UNCHANGED port
  BY <1>1 DEF PortAgrees, PortOutcome
<1>2. CASE port' # port
  <2>1. PICK t \in {"AdapterProps", "DeviceProps", "CharProps"}, G \in SUBSET Field :
          p \in PathsOf[t] /\ post_glaze(t, p, G, v)
    <3>1. F \cap Tracked \in SUBSET Field /\ {Value} \in SUBSET Field
      BY ValueFacts
    <3> QED BY <1>2, <3>1, PathsOfFacts DEF on_properties_changed, TypeOK, ManagerTypeOK
  <2>2. t \in Tags /\ t \notin {"DeviceAdded", "DeviceRemoved"}
    BY DEF Tags
  <2> QED BY <2>1, <2>2, PostAgrees
<1> QED BY <1>1, <1>2

\* The event loop moves a signal's effect from the wire to the isolate's queue.
LEMMA EventLoopAgrees ==
  ASSUME TypeOK, WireAgrees, PortAgrees, todo = {}, EventLoop
  PROVE  WireAgrees' /\ PortAgrees'
<1> DEFINE m == Head(wire)
<1>1. PICK s \in {"added", "removed", "changed"} : Dispatch(s)
  BY DEF EventLoop, DispatchAdded, DispatchRemoved, DispatchChanged, DispatchUnmatched
<1>2. /\ wire \in Seq(Signal) /\ wire # <<>> /\ wire' = Tail(wire) /\ m.sig = s
      /\ UNCHANGED <<Announced, todo, devices>>
  BY <1>1 DEF Dispatch, reply, EventLoop, clientVars, history, Announced, TypeOK, DaemonTypeOK
<1>3. m.path \in Path /\ m.vals \in Values /\ m.mask \in SUBSET Field
  BY <1>2, SignalTail
<1>4. /\ PortAgrees'
      /\ m.sig = "added" => device_proxies' = device_proxies \cup ({m.path} \cap Device)
      /\ m.sig = "removed" => device_proxies' = device_proxies \ {m.path}
      /\ m.sig = "changed" => device_proxies' = device_proxies
  <2>1. CASE DispatchAdded
    BY <1>2, <1>3, <2>1, AddedAgrees DEF DispatchAdded, Dispatch
  <2>2. CASE DispatchRemoved
    BY <1>2, <1>3, <2>2, RemovedAgrees DEF DispatchRemoved, Dispatch
  <2>3. CASE DispatchChanged
    <3>1. UNCHANGED device_proxies /\ m.sig = "changed"
      BY <2>3 DEF DispatchChanged, Dispatch, proxies
    <3> QED BY <1>2, <1>3, <2>3, <3>1, ChangedAgrees DEF DispatchChanged
  <2>4. CASE DispatchUnmatched
    BY <1>2, <2>4 DEF DispatchUnmatched, Dispatch, proxies, PortAgrees, PortOutcome
  <2> QED BY <2>1, <2>2, <2>3, <2>4 DEF EventLoop
<1>5. ASSUME NEW d \in Device
      PROVE  d \in Announced' <=> WireOutcome(d, device_proxies \cup todo)'
  <2> DEFINE E == device_proxies'
  <2>1. /\ m.path = d /\ m.sig = "added" => d \in E
        /\ m.path = d /\ m.sig = "removed" => d \notin E
        /\ m.path # d \/ m.sig = "changed" => (d \in device_proxies <=> d \in E)
    BY <1>2, <1>4
  <2>2. WireOutcome(d, device_proxies)
          <=> Outcome(wire', AddedSignals(d), RemovedSignals(d), d, E)
    <3> HIDE DEF E
    <3> QED BY <1>2, <2>1, WireTail
  <2>3. device_proxies \cup todo = device_proxies /\ (device_proxies \cup todo)' = E
    BY <1>2
  <2>4. d \in Announced <=> WireOutcome(d, device_proxies)
    BY <2>3 DEF WireAgrees
  <2>5. WireOutcome(d, device_proxies \cup todo)'
          <=> Outcome(wire', AddedSignals(d), RemovedSignals(d), d, E)
    BY <2>3 DEF WireOutcome
  <2> QED BY <1>2, <2>2, <2>4, <2>5
<1> QED BY <1>4, <1>5 DEF WireAgrees

\* Each case of _onEvent does to _devices what its message says.
LEMMA OnEventAgrees ==
  ASSUME TypeOK, PortAgrees, OnEvent
  PROVE  PortAgrees'
<1> DEFINE m == Head(port)
<1>1. /\ port \in Seq(Message) /\ port # <<>> /\ port' = Tail(port)
      /\ UNCHANGED device_proxies
  BY DEF OnEvent, OnSentinel, OnAdapterProps, OnDeviceProps, OnCharProps, OnDeviceAdded,
         OnDeviceRemoved, OnServiceAdded, OnCharAdded, OnDescAdded, OnObjectRemoved,
         OnResult, Receive, proxies, TypeOK, ManagerTypeOK
<1>2. /\ m.tag = "DeviceAdded" => devices' = devices \cup {m.path}
      /\ m.tag = "DeviceRemoved" => devices' = devices \ {m.path}
      /\ m.tag \notin {"DeviceAdded", "DeviceRemoved"} => devices' = devices
  <2>1. CASE OnDeviceAdded
    BY <2>1 DEF OnDeviceAdded, Receive
  <2>2. CASE OnDeviceRemoved
    BY <2>2 DEF OnDeviceRemoved, Receive
  <2>3. CASE ~ OnDeviceAdded /\ ~ OnDeviceRemoved
    <3>1. UNCHANGED devices /\ m.tag \notin {"DeviceAdded", "DeviceRemoved"}
      BY <2>3 DEF OnEvent, OnSentinel, OnAdapterProps, OnDeviceProps, OnCharProps,
                  OnServiceAdded, OnCharAdded, OnDescAdded, OnObjectRemoved, OnResult,
                  Receive, clientVars
    <3> QED BY <3>1
  <2> QED BY <2>1, <2>2, <2>3
<1>3. ASSUME NEW d \in Device
      PROVE  d \in device_proxies' <=> PortOutcome(d, devices)'
  <2> DEFINE E == devices'
  <2>1. /\ m.path = d /\ m.tag = "DeviceAdded" => d \in E
        /\ m.path = d /\ m.tag = "DeviceRemoved" => d \notin E
        /\ m.path # d \/ m.tag \notin {"DeviceAdded", "DeviceRemoved"}
             => (d \in devices <=> d \in E)
    BY <1>2
  <2>2. PortOutcome(d, devices)
          <=> Outcome(port', AddedMessages(d), RemovedMessages(d), d, E)
    <3> HIDE DEF E
    <3> QED BY <1>1, <2>1, PortTail
  <2>3. d \in device_proxies <=> PortOutcome(d, devices)
    BY DEF PortAgrees
  <2>4. PortOutcome(d, devices)'
          <=> Outcome(port', AddedMessages(d), RemovedMessages(d), d, E)
    BY DEF PortOutcome
  <2> QED BY <1>1, <2>2, <2>3, <2>4
<1> QED BY <1>3 DEF PortAgrees

\* GATT calls post results and leave the devices alone.
LEMMA CallAgrees ==
  ASSUME TypeOK, PortAgrees, CallStep
  PROVE  PortAgrees' /\ UNCHANGED <<daemonVars, phase, reply, device_proxies, devices, ghosts>>
<1>1. PICK c \in Char :
        \/ \E op \in {"start", "stop"} :
             \/ GattMethodReturns(op, c) \/ GattCallFails(op, c) \/ GattCallBlocks(op, c)
             \/ GattCallUnbuilt(op, c) \/ post_success(op, c)
        \/ start_notify(c) \/ stop_notify(c)
  BY DEF CallStep
<1>2. UNCHANGED <<daemonVars, phase, reply, device_proxies, devices, ghosts>>
  <2>1. UNCHANGED <<daemonVars, phase, reply>>
    BY <1>1 DEF GattMethodReturns, GattCallFails, GattCallBlocks, GattCallUnbuilt,
                post_success, start_notify, stop_notify,
                GattStep
  <2>2. UNCHANGED device_proxies
    BY <1>1 DEF GattMethodReturns, GattCallFails, GattCallBlocks, GattCallUnbuilt,
                post_success, start_notify, stop_notify,
                proxies
  <2>3. UNCHANGED <<devices, ghosts>>
    BY DEF CallStep, clientVars, history
  <2> QED BY <2>1, <2>2, <2>3
<1>3. CASE UNCHANGED port
  BY <1>2, <1>3 DEF PortAgrees, PortOutcome
<1>4. CASE port' # port
  <2>1. PICK t \in {"Failed", "StartDone", "StopDone"} : post_glaze(t, c, {}, NoValues)
    BY <1>1, <1>4 DEF GattMethodReturns, GattCallFails, GattCallBlocks, GattCallUnbuilt,
                      post_success, start_notify, stop_notify
  <2>2. /\ t \in Tags /\ t \notin {"DeviceAdded", "DeviceRemoved"} /\ c \in PathsOf[t]
        /\ {} \in SUBSET Field /\ NoValues \in Values
    BY PathsOfFacts, ValueFacts DEF Tags
  <2> QED BY <1>2, <2>1, <2>2, PostAgrees
<1> QED BY <1>2, <1>3, <1>4

LEMMA DevicesInvInit == Init => DevicesInv
<1> SUFFICES ASSUME Init PROVE DevicesInv
  OBVIOUS
<1>1. TypeOK
  BY InitType
<1>2. CleanInv
  BY DEF Init, DaemonInit, ManagerInit, ClientInit, CleanInv, Creating, Subscribed
<1> QED BY <1>1, <1>2 DEF Init, ManagerInit, DevicesInv, Creating

\* One step per action of the bridge, and per state of the client.
LEMMA DevicesInvNext == DevicesInv /\ [Next]_vars => DevicesInv'
<1> SUFFICES ASSUME DevicesInv, [Next]_vars PROVE DevicesInv'
  OBVIOUS
<1>1. TypeOK /\ TypeOK'
  BY NextType DEF DevicesInv
<1> SUFFICES /\ CleanInv'
             /\ phase' = "constructed" => QueueAgrees'
             /\ Creating' => WireAgrees' /\ PortAgrees'
  BY <1>1 DEF DevicesInv
<1>2. /\ CleanInv
      /\ phase = "constructed" => QueueAgrees
      /\ Creating => WireAgrees /\ PortAgrees
  BY DEF DevicesInv
<1>13. CASE DaemonCrash
  <2>1. UNCHANGED <<managerVars, clientVars, wire>>
    BY <1>13 DEF DaemonCrash, Crash
  <2>2. CASE Listening
    <3>1. \A d \in Device : d \in Announced' <=> d \in Announced
      BY <1>13, <2>2 DEF DaemonCrash, Crash, Announced
    <3>2. CleanInv'
      BY <1>2, <2>1, <2>2 DEF CleanInv, Listening, managerVars, clientVars, Creating, Subscribed
    <3>3. phase' = "constructed" => QueueAgrees'
      BY <1>2, <2>1, <3>1 DEF managerVars, QueueAgrees, WireOutcome, Outcome
    <3>4. Creating' => WireAgrees' /\ PortAgrees'
      BY <1>2, <2>1, <3>1 DEF managerVars, clientVars, Creating, WireAgrees, WireOutcome,
                              PortAgrees, PortOutcome
    <3> QED BY <3>2, <3>3, <3>4
  <2>3. CASE ~ Listening
    <3>1. phase \in {"idle", "destroyed"} /\ phase' = phase
      BY <1>1, <2>1, <2>3 DEF Listening, TypeOK, ManagerTypeOK, Phases, managerVars
    <3> QED BY <1>2, <1>13, <2>1, <2>3, <3>1
            DEF CleanInv, DaemonCrash, managerVars, clientVars, Creating, Subscribed
  <2> QED BY <2>2, <2>3
<1>3. CASE DaemonStep /\ ~ DaemonCrash
  <2>1. PICK p \in Path : \/ DaemonAppear(p)
                          \/ DaemonVanish(p)
                          \/ \E F \in SUBSET Field : DaemonChange(p, F)
    BY <1>3 DEF DaemonStep
  <2>2. UNCHANGED <<managerVars, clientVars>>
    BY <2>1 DEF DaemonAppear, DaemonVanish, DaemonChange, history
  <2>3. CASE Listening
    <3>1. CleanInv'
      BY <1>2, <2>2, <2>3 DEF CleanInv, Listening, managerVars, clientVars, Creating, Subscribed
    <3>2. phase' = "constructed" => QueueAgrees'
      <4> SUFFICES ASSUME phase' = "constructed" PROVE QueueAgrees'
        OBVIOUS
      <4>1. QueueAgrees
        BY <1>2, <2>2 DEF managerVars
      <4>2. \A d \in Device : d \in Announced'
              <=> Outcome(wire', AddedSignals(d), RemovedSignals(d), d, Announced')
        BY <1>1, <2>1, <2>3, <4>1, DaemonAgrees DEF QueueAgrees
      <4> QED BY <4>2 DEF QueueAgrees, WireOutcome
    <3>3. Creating' => WireAgrees' /\ PortAgrees'
      <4> SUFFICES ASSUME Creating' PROVE WireAgrees' /\ PortAgrees'
        OBVIOUS
      <4> DEFINE S == device_proxies \cup todo
      <4>1. WireAgrees /\ PortAgrees /\ S' = S
        BY <1>2, <2>2 DEF Creating, managerVars
      <4>2. \A d \in Device : d \in Announced'
              <=> Outcome(wire', AddedSignals(d), RemovedSignals(d), d, S)
        BY <1>1, <2>1, <2>3, <4>1, DaemonAgrees DEF WireAgrees
      <4>3. WireAgrees'
        BY <4>1, <4>2 DEF WireAgrees, WireOutcome
      <4> QED BY <2>2, <4>1, <4>3 DEF PortAgrees, PortOutcome, managerVars, clientVars
    <3> QED BY <3>1, <3>2, <3>3
  <2>4. CASE ~ Listening
    <3>1. phase \in {"idle", "destroyed"}
      BY <1>1, <2>4 DEF Listening, TypeOK, ManagerTypeOK, Phases
    <3>2. wire' = wire /\ (ghosts = {} => ghosts' = {})
      <4>1. p \notin Subscribed
        BY <1>2, <3>1 DEF CleanInv, Creating
      <4> QED BY <2>1, <2>4, <4>1 DEF DaemonAppear, DaemonVanish, DaemonChange,
                                      Appear, Vanish, Change, Route, history
    <3> QED BY <1>2, <2>2, <3>1, <3>2
            DEF CleanInv, managerVars, clientVars, Creating, Subscribed
  <2> QED BY <2>3, <2>4
<1>4. CASE Connect
  <2>1. /\ phase = "idle" /\ phase' = "constructed"
        /\ UNCHANGED <<daemonVars, reply, proxies, port, clientVars, ghosts>>
    BY <1>4 DEF Connect, Construct, history
  <2>2. CleanInv'
    BY <1>2, <2>1 DEF CleanInv, daemonVars, reply, proxies, clientVars, Creating, Subscribed
  <2>3. wire' = <<>>
    BY <1>2, <2>1 DEF CleanInv, daemonVars
  <2>4. QueueAgrees'
    BY <2>3, OutcomeEmpty DEF QueueAgrees, WireOutcome
  <2> QED BY <2>1, <2>2, <2>4 DEF Creating
<1>5. CASE Snapshot
  <2>1. /\ phase = "constructed" /\ phase' = "posting" /\ todo' = present
        /\ UNCHANGED <<daemonVars, proxies, port, clientVars>>
    BY <1>5 DEF Snapshot, get_managed_objects
  <2>2. port = <<>> /\ device_proxies = {} /\ devices = {} /\ QueueAgrees
    BY <1>2, <2>1 DEF CleanInv, Creating, Subscribed
  <2>3. WireAgrees'
    <3>1. UNCHANGED <<present, wire>> /\ (device_proxies \cup todo)' = present
      BY <2>1, <2>2 DEF daemonVars, proxies
    <3>2. ASSUME NEW d \in Device PROVE d \in Announced' <=> WireOutcome(d, present)
      <4>1. d \in Announced <=> WireOutcome(d, Announced)
        BY <2>2 DEF QueueAgrees
      <4>2. wire \in Seq(Signal)
        BY <1>1 DEF TypeOK, DaemonTypeOK
      <4>3. Pending("added", d) <=> \E i \in DOMAIN wire : wire[i] \in AddedSignals(d)
        BY <4>2 DEF Pending, AddedSignals
      <4>4. d \in Announced' <=> d \in present \/ (d \in ghosts /\ Pending("added", d))
        BY <1>5, <3>1 DEF Snapshot, Announced
      <4>5. d \in Announced <=> d \in present \/ d \in ghosts
        BY DEF Announced
      <4> QED BY <4>1, <4>3, <4>4, <4>5 DEF WireOutcome, Outcome
    <3> QED BY <3>1, <3>2 DEF WireAgrees, WireOutcome
  <2>4. PortAgrees'
    BY <2>1, <2>2, OutcomeEmpty DEF PortAgrees, PortOutcome, proxies, clientVars
  <2>5. CleanInv'
    BY <1>2, <2>1 DEF CleanInv, clientVars, Creating
  <2> QED BY <2>1, <2>3, <2>4, <2>5
<1>6. CASE PostSnapshot
  <2>1. PICK p \in Path : PostObject(p)
    BY <1>6 DEF PostSnapshot
  <2>2. /\ phase = "posting" /\ phase' = "posting" /\ p \in todo /\ todo' = todo \ {p}
        /\ on_interfaces_added(p, snap[p])
        /\ UNCHANGED <<daemonVars, clientVars, ghosts>>
    BY <1>6, <2>1 DEF PostObject, PostSnapshot, history
  <2>3. WireAgrees /\ PortAgrees /\ snap[p] \in Values
    BY <1>1, <1>2, <2>2 DEF Creating, TypeOK, ManagerTypeOK
  <2>4. PortAgrees' /\ device_proxies' = device_proxies \cup ({p} \cap Device)
    BY <1>1, <2>2, <2>3, AddedAgrees DEF clientVars
  <2>5. WireAgrees'
    <3>1. ASSUME NEW d \in Device
          PROVE  d \in Announced' <=> WireOutcome(d, device_proxies \cup todo)'
      <4>1. d \in (device_proxies \cup todo) <=> d \in (device_proxies \cup todo)'
        BY <2>2, <2>4
      <4>2. UNCHANGED <<Announced, wire>>
        BY <2>2 DEF daemonVars, Announced
      <4>3. d \in Announced <=> WireOutcome(d, device_proxies \cup todo)
        BY <2>3 DEF WireAgrees
      <4> QED BY <4>1, <4>2, <4>3 DEF WireOutcome, Outcome
    <3> QED BY <3>1 DEF WireAgrees
  <2>6. CleanInv'
    BY <1>2, <2>2 DEF CleanInv, clientVars, Creating
  <2> QED BY <2>2, <2>4, <2>5, <2>6
<1>7. CASE CreateReturns
  <2>1. /\ phase = "posting" /\ phase' = "running" /\ todo = {}
        /\ post_glaze("Sentinel", Root, {}, NoValues)
        /\ UNCHANGED <<daemonVars, reply, proxies, clientVars, ghosts>>
    BY <1>7 DEF CreateReturns, FinishCreate, history
  <2>2. WireAgrees /\ PortAgrees /\ UNCHANGED <<Announced, wire, todo, device_proxies, devices>>
    BY <1>2, <2>1 DEF Creating, daemonVars, reply, proxies, clientVars, Announced
  <2>3. /\ "Sentinel" \in Tags /\ Root \in PathsOf["Sentinel"]
        /\ {} \in SUBSET Field /\ NoValues \in Values
    BY PathsOfFacts, ValueFacts DEF Tags
  <2>4. PortAgrees'
    BY <1>1, <2>1, <2>2, <2>3, PostAgrees
  <2>5. WireAgrees'
    BY <2>2 DEF WireAgrees, WireOutcome
  <2>6. CleanInv'
    BY <2>1, <2>2 DEF CleanInv, Creating
  <2> QED BY <2>1, <2>4, <2>5, <2>6
<1>8. CASE CreateThrows \/ Close
  <2>1. /\ \/ phase' = "idle" /\ devices = {}
           \/ phase' = "destroyed"
        /\ wire' = <<>> /\ port' = <<>> /\ todo' = {} /\ Subscribed' = {} /\ ghosts' = {}
        /\ UNCHANGED devices
    BY <1>2, <1>8 DEF CreateThrows, CreateFails, Close, CloseClient, bluez_client_destroy,
                      Teardown, clientVars, Subscribed, CleanInv
  <2> QED BY <2>1 DEF CleanInv, Creating
<1>9. CASE EventLoop
  <2>1. phase = "running" /\ phase' = "running" /\ UNCHANGED <<todo, clientVars>>
    BY <1>9 DEF EventLoop, DispatchAdded, DispatchRemoved, DispatchChanged,
                DispatchUnmatched, Dispatch, reply
  <2>2. WireAgrees' /\ PortAgrees'
    BY <1>1, <1>2, <1>9, <2>1, EventLoopAgrees DEF CleanInv, Creating
  <2>3. CleanInv'
    BY <1>2, <2>1 DEF CleanInv, Creating
  <2> QED BY <2>1, <2>2, <2>3
<1>10. CASE CallStep
  <2>1. phase = "running"
    BY <1>10 DEF CallStep, GattMethodReturns, GattCallFails, GattCallBlocks, GattCallUnbuilt,
                 post_success, start_notify,
                 stop_notify, GattStep
  <2>2. PortAgrees' /\ UNCHANGED <<daemonVars, phase, reply, device_proxies, devices, ghosts>>
    BY <1>1, <1>2, <1>10, <2>1, CallAgrees DEF Creating
  <2>3. WireAgrees'
    BY <1>2, <2>1, <2>2 DEF Creating, WireAgrees, WireOutcome, daemonVars, reply, Announced
  <2>4. CleanInv'
    BY <1>2, <2>1, <2>2 DEF CleanInv, Creating, reply
  <2> QED BY <2>1, <2>2, <2>3, <2>4
<1>11. CASE OnEvent
  <2>1. phase = "running" /\ UNCHANGED <<daemonVars, phase, reply, proxies, ghosts>>
    BY <1>11 DEF OnEvent, OnSentinel, OnAdapterProps, OnDeviceProps, OnCharProps,
                 OnDeviceAdded, OnDeviceRemoved, OnServiceAdded, OnCharAdded, OnDescAdded,
                 OnObjectRemoved, OnResult, Receive
  <2>2. PortAgrees'
    BY <1>1, <1>2, <1>11, <2>1, OnEventAgrees DEF Creating
  <2>3. WireAgrees'
    BY <1>2, <2>1 DEF Creating, WireAgrees, WireOutcome, daemonVars, reply, proxies, Announced
  <2>4. CleanInv'
    BY <1>2, <2>1 DEF CleanInv, Creating, reply
  <2> QED BY <2>1, <2>2, <2>3, <2>4
<1>12. CASE UserCall \/ UNCHANGED vars
  <2>1. UNCHANGED <<daemonVars, phase, reply, proxies, port, clientVars, ghosts>>
    BY <1>12 DEF UserCall, Notify, vars, managerVars, reply, proxies, history
  <2>2. CleanInv'
    BY <1>2, <2>1 DEF CleanInv, daemonVars, reply, proxies, clientVars, Creating, Subscribed
  <2>3. phase' = "constructed" => QueueAgrees'
    BY <1>2, <2>1 DEF QueueAgrees, WireOutcome, daemonVars, Announced
  <2>4. Creating' => WireAgrees'
    BY <1>2, <2>1 DEF Creating, WireAgrees, WireOutcome, daemonVars, reply, proxies, Announced
  <2>5. Creating' => PortAgrees'
    BY <1>2, <2>1 DEF Creating, PortAgrees, PortOutcome, proxies, clientVars
  <2> QED BY <2>2, <2>3, <2>4, <2>5
<1> QED BY <1>3, <1>13, <1>4, <1>5, <1>6, <1>7, <1>8, <1>9, <1>10, <1>11, <1>12
       DEF Next, Work

\* The two-queue invariant holds throughout: the signals of the bus lead the native
\* matches, and the isolate's messages lead _devices, to where the other side is.
THEOREM InvariantHolds == Spec => []DevicesInv
BY DevicesInvInit, DevicesInvNext, PTL DEF Spec

\* Once every signal and message has been handled, BlueZClient.devices are the
\* devices that exist: the inductive invariant with both queues empty.
THEOREM DevicesConverged == Spec => []DevicesConverge
<1>1. DevicesInv => DevicesConverge
  <2> SUFFICES ASSUME DevicesInv, Quiescent PROVE devices = (present \cap Device) \cup ghosts
    BY DEF DevicesConverge
  <2>1. WireAgrees /\ PortAgrees /\ todo = {} /\ wire = <<>> /\ port = <<>>
    BY DEF DevicesInv, Quiescent, Creating, CleanInv
  <2>2. \A d \in Device : d \in Announced <=> d \in device_proxies
    BY <2>1, OutcomeEmpty DEF WireAgrees, WireOutcome
  <2>3. \A d \in Device : d \in device_proxies <=> d \in devices
    BY <2>1, OutcomeEmpty DEF PortAgrees, PortOutcome
  <2>4. devices \subseteq Device /\ ghosts \subseteq Device
    BY DEF DevicesInv, TypeOK, ClientTypeOK
  <2> QED BY <2>2, <2>3, <2>4 DEF Announced
<1> QED BY <1>1, InvariantHolds, PTL

(***************************************************************************)
(* The bridge implements Mirror, for every object tree: each step of the   *)
(* threads is a step of Mirror or changes nothing in it.                   *)
(***************************************************************************)
\* The two queues' parts of UnderWay.
OnWire(d) == Holds(wire, AddedSignals(d) \cup RemovedSignals(d))
InPort(d) == Holds(port, AddedMessages(d) \cup RemovedMessages(d))

LEMMA OnWireAppend ==
  ASSUME wire \in Seq(Signal), NEW m \in Signal, wire' = Append(wire, m), NEW d
  PROVE  OnWire(d)' <=> OnWire(d) \/ (m.path = d /\ m.sig # "changed")
<1>1. m \in AddedSignals(d) \cup RemovedSignals(d) <=> m.path = d /\ m.sig # "changed"
  BY DEF AddedSignals, RemovedSignals, Signal
<1> QED BY <1>1, HoldsAppend DEF OnWire

LEMMA OnWireTail ==
  ASSUME wire \in Seq(Signal), wire # <<>>, wire' = Tail(wire), NEW d
  PROVE  OnWire(d) <=> OnWire(d)' \/ (Head(wire).path = d /\ Head(wire).sig # "changed")
<1>1. Head(wire) \in AddedSignals(d) \cup RemovedSignals(d)
        <=> Head(wire).path = d /\ Head(wire).sig # "changed"
  BY SignalTail DEF AddedSignals, RemovedSignals, Signal
<1> QED BY <1>1, HoldsTail DEF OnWire

LEMMA InPortAppend ==
  ASSUME port \in Seq(Message), NEW t \in Tags, NEW p \in PathsOf[t],
         NEW F \in SUBSET Field, NEW v \in Values, post_glaze(t, p, F, v), NEW d
  PROVE  InPort(d)' <=> InPort(d) \/ (p = d /\ t \in {"DeviceAdded", "DeviceRemoved"})
<1> DEFINE m == Msg(t, p, F, v)
<1>1. m \in Message /\ m.tag = t /\ m.path = p /\ port' = Append(port, m)
  BY MsgType DEF Msg, post_glaze
<1> HIDE DEF m
<1>2. m \in AddedMessages(d) \cup RemovedMessages(d)
        <=> p = d /\ t \in {"DeviceAdded", "DeviceRemoved"}
  BY <1>1 DEF AddedMessages, RemovedMessages
<1> QED BY <1>1, <1>2, HoldsAppend DEF InPort

LEMMA InPortTail ==
  ASSUME port \in Seq(Message), port # <<>>, port' = Tail(port), NEW d
  PROVE  InPort(d) <=>
           InPort(d)' \/ (Head(port).path = d /\ Head(port).tag \in {"DeviceAdded", "DeviceRemoved"})
<1>1. Head(port) \in AddedMessages(d) \cup RemovedMessages(d)
        <=> Head(port).path = d /\ Head(port).tag \in {"DeviceAdded", "DeviceRemoved"}
  BY MessageTail DEF AddedMessages, RemovedMessages
<1> QED BY <1>1, HoldsTail DEF InPort

\* What the signal handlers post about devices.
LEMMA AddedInPort ==
  ASSUME port \in Seq(Message), NEW p \in Path, NEW v \in Values, on_interfaces_added(p, v),
         NEW d \in Device
  PROVE  InPort(d)' <=> InPort(d) \/ d = p
<1>1. PICK t \in Tags :
        /\ p \in PathsOf[t] /\ post_glaze(t, p, Field, v)
        /\ p \in Device => t = "DeviceAdded"
  <2>1. CASE p \in Adapter
    BY <2>1, KindFacts, PathsOfFacts DEF on_interfaces_added, Tags, Adapter, Service, Char, Desc
  <2>2. CASE p \in Device
    BY <2>2, KindFacts, PathsOfFacts DEF on_interfaces_added, Tags
  <2>3. CASE p \notin Adapter \cup Device
    <3>1. GattAddedTag(p) \in Tags /\ p \in PathsOf[GattAddedTag(p)]
      BY <2>3, KindFacts, PathsOfFacts DEF GattAddedTag, Tags, Service, Char, Desc
    <3> QED BY <2>3, <3>1 DEF on_interfaces_added
  <2> QED BY <2>1, <2>2, <2>3
<1>2. Field \in SUBSET Field
  OBVIOUS
<1>3. InPort(d)' <=> InPort(d) \/ (p = d /\ t \in {"DeviceAdded", "DeviceRemoved"})
  BY <1>1, <1>2, InPortAppend
<1> QED BY <1>1, <1>3

LEMMA RemovedInPort ==
  ASSUME port \in Seq(Message), NEW p \in Path, on_interfaces_removed(p), NEW d \in Device
  PROVE  InPort(d)' <=> InPort(d) \/ d = p
<1>1. {} \in SUBSET Field /\ NoValues \in Values
  BY ValueFacts
<1>2. CASE p \in Device
  <2>1. post_glaze("DeviceRemoved", p, {}, NoValues)
    BY <1>2, KindFacts DEF on_interfaces_removed
  <2>2. "DeviceRemoved" \in Tags /\ p \in PathsOf["DeviceRemoved"]
    BY <1>2, PathsOfFacts DEF Tags
  <2> QED BY <1>1, <2>1, <2>2, InPortAppend
<1>3. CASE p \in Service \cup Desc
  <2>1. post_glaze("ObjectRemoved", p, {}, NoValues) /\ d # p
    BY <1>3, KindFacts DEF on_interfaces_removed, Adapter, Char, Service, Desc
  <2>2. "ObjectRemoved" \in Tags /\ p \in PathsOf["ObjectRemoved"]
    BY <1>3, PathsOfFacts DEF Tags
  <2> QED BY <1>1, <2>1, <2>2, InPortAppend
<1>4. CASE p \in Adapter \cup Char
  <2>1. UNCHANGED port /\ d # p
    BY <1>4, KindFacts DEF on_interfaces_removed, Adapter, Char, Service, Desc
  <2> QED BY <2>1 DEF InPort
<1> QED BY <1>2, <1>3, <1>4, KindFacts

LEMMA ChangedInPort ==
  ASSUME TypeOK, NEW p \in Path, NEW F \in SUBSET Field, NEW v \in Values,
         on_properties_changed(p, F, v), NEW d \in Device
  PROVE  InPort(d)' <=> InPort(d)
<1>1. CASE UNCHANGED port
  BY <1>1 DEF InPort
<1>2. CASE port' # port
  <2>1. PICK t \in {"AdapterProps", "DeviceProps", "CharProps"}, G \in SUBSET Field :
          p \in PathsOf[t] /\ post_glaze(t, p, G, v)
    <3>1. F \cap Tracked \in SUBSET Field /\ {Value} \in SUBSET Field
      BY ValueFacts
    <3> QED BY <1>2, <3>1, PathsOfFacts DEF on_properties_changed, TypeOK, ManagerTypeOK
  <2>2. t \in Tags /\ t \notin {"DeviceAdded", "DeviceRemoved"} /\ port \in Seq(Message)
    BY DEF Tags, TypeOK, ManagerTypeOK
  <2> QED BY <2>1, <2>2, InPortAppend
<1> QED BY <1>1, <1>2

\* The event loop hands on what it takes off the wire.
LEMMA EventLoopMoves ==
  ASSUME TypeOK, EventLoop, NEW d \in Device
  PROVE  /\ UnderWay(d)' <=> UnderWay(d)
         /\ UNCHANGED <<present, phase, todo, devices, ghosts>>
<1> DEFINE m == Head(wire)
<1>1. PICK s \in {"added", "removed", "changed"} : Dispatch(s)
  BY DEF EventLoop, DispatchAdded, DispatchRemoved, DispatchChanged, DispatchUnmatched
<1>2. /\ wire \in Seq(Signal) /\ wire # <<>> /\ wire' = Tail(wire) /\ m.sig = s
      /\ port \in Seq(Message)
      /\ UNCHANGED <<present, phase, todo, devices, ghosts>>
  BY <1>1 DEF Dispatch, reply, EventLoop, clientVars, history, TypeOK, DaemonTypeOK, ManagerTypeOK
<1>3. m.path \in Path /\ m.vals \in Values /\ m.mask \in SUBSET Field
  BY <1>2, SignalTail
<1>4. OnWire(d) <=> OnWire(d)' \/ (m.path = d /\ m.sig # "changed")
  BY <1>2, OnWireTail
<1>5. InPort(d)' <=> InPort(d) \/ (m.path = d /\ m.sig # "changed")
  <2>1. CASE DispatchAdded
    BY <1>2, <1>3, <2>1, AddedInPort DEF DispatchAdded, Dispatch
  <2>2. CASE DispatchRemoved
    BY <1>2, <1>3, <2>2, RemovedInPort DEF DispatchRemoved, Dispatch
  <2>3. CASE DispatchChanged
    BY <1>2, <1>3, <2>3, ChangedInPort DEF DispatchChanged, Dispatch
  <2>4. CASE DispatchUnmatched
    BY <1>2, <2>4 DEF DispatchUnmatched, Dispatch, InPort
  <2> QED BY <2>1, <2>2, <2>3, <2>4 DEF EventLoop
<1>6. /\ UnderWay(d) <=> d \in todo \/ OnWire(d) \/ InPort(d)
      /\ UnderWay(d)' <=> d \in todo' \/ OnWire(d)' \/ InPort(d)'
  BY DEF UnderWay, OnWire, InPort
<1> QED BY <1>2, <1>4, <1>5, <1>6

\* A device that nothing is under way about is listed if and only if it exists
\* as far as the signals tell.
LEMMA Settled ==
  ASSUME WireAgrees, PortAgrees, NEW d \in Device, ~ UnderWay(d)
  PROVE  d \in devices <=> d \in Announced
<1>1. d \in Announced <=> d \in device_proxies
  BY DEF WireAgrees, WireOutcome, Outcome, UnderWay, Holds
<1>2. d \in device_proxies <=> d \in devices
  BY DEF PortAgrees, PortOutcome, Outcome, UnderWay, Holds
<1> QED BY <1>1, <1>2

LEMMA SettledNext ==
  ASSUME WireAgrees', PortAgrees', NEW d \in Device, ~ UnderWay(d)'
  PROVE  d \in devices' <=> d \in Announced'
<1>1. d \in Announced' <=> d \in device_proxies'
  BY DEF WireAgrees, WireOutcome, Outcome, UnderWay, Holds
<1>2. d \in device_proxies' <=> d \in devices'
  BY DEF PortAgrees, PortOutcome, Outcome, UnderWay, Holds
<1> QED BY <1>1, <1>2

-----------------------------------------------------------------------------
(* The steps of Mirror. *)

LEMMA Stutters ==
  ASSUME Creating' <=> Creating,
         present' \cap Device = present \cap Device,
         UNCHANGED <<devices, ghosts>>,
         \A d \in Device : UnderWay(d)' <=> UnderWay(d)
  PROVE  UNCHANGED Abstract!vars
<1>1. {p \in Device : UnderWay(p)}' = {p \in Device : UnderWay(p)}
  OBVIOUS
<1>2. Creating' = Creating
  BY DEF Creating
<1> QED BY <1>1, <1>2 DEF Abstract!vars

LEMMA DaemonMirrored ==
  ASSUME DevicesInv, TypeOK', DaemonStep
  PROVE  Abstract!Next \/ UNCHANGED Abstract!vars
<1>1. TypeOK /\ wire \in Seq(Signal) /\ stamp + 1 \in Nat
  BY DEF DevicesInv, TypeOK, DaemonTypeOK
<1>2. CASE DaemonCrash
  <2>1. /\ UNCHANGED <<phase, todo, port, wire, devices>> /\ present' = {}
        /\ ghosts' = IF Listening THEN ghosts \cup (present \cap Device) ELSE ghosts
    BY <1>2 DEF DaemonCrash, Crash, managerVars, clientVars
  <2>2. {p \in Device : UnderWay(p)}' = {p \in Device : UnderWay(p)}
    BY <2>1 DEF UnderWay
  <2>3. Creating' = Creating /\ (Creating => Listening)
    BY <2>1 DEF Creating, Listening
  <2>4. Abstract!Crash
    BY <2>1, <2>2, <2>3 DEF Abstract!Crash
  <2> QED BY <2>4 DEF Abstract!Next
<1>3. ASSUME NEW p \in Path, UNCHANGED <<phase, todo, port, devices>>,
             NEW news \in BOOLEAN,
             Creating /\ news => \E m \in Signal :
               wire' = Append(wire, m) /\ m.path = p /\ m.sig # "changed",
             Creating /\ ~ news => \/ wire' = wire
                                   \/ \E m \in Signal :
                                        wire' = Append(wire, m) /\ m.sig = "changed"
      PROVE  /\ Creating' = Creating
             /\ Creating => \A d \in Device : UnderWay(d)' <=> UnderWay(d) \/ (news /\ d = p)
  <2>1. Creating' = Creating
    BY <1>3 DEF Creating
  <2>2. ASSUME Creating, NEW d \in Device
        PROVE  UnderWay(d)' <=> UnderWay(d) \/ (news /\ d = p)
    <3>1. OnWire(d)' <=> OnWire(d) \/ (news /\ d = p)
      <4>1. CASE news
        <5>1. PICK m \in Signal : wire' = Append(wire, m) /\ m.path = p /\ m.sig # "changed"
          BY <1>3, <2>2, <4>1
        <5> QED BY <1>1, <4>1, <5>1, OnWireAppend
      <4>2. CASE ~ news /\ wire' = wire
        BY <4>2 DEF OnWire
      <4>3. CASE ~ news /\ wire' # wire
        <5>1. PICK m \in Signal : wire' = Append(wire, m) /\ m.sig = "changed"
          BY <1>3, <2>2, <4>3
        <5> QED BY <1>1, <4>3, <5>1, OnWireAppend
      <4> QED BY <4>1, <4>2, <4>3
    <3>2. (InPort(d)' <=> InPort(d)) /\ (d \in todo' <=> d \in todo)
      BY <1>3 DEF InPort
    <3> QED BY <3>1, <3>2 DEF UnderWay, OnWire, InPort
  <2> QED BY <2>1, <2>2
<1>4. ASSUME NEW p \in Path, DaemonAppear(p) PROVE Abstract!Next \/ UNCHANGED Abstract!vars
  <2>1. /\ UNCHANGED <<phase, todo, port, devices>>
        /\ p \notin present /\ present' = present \cup {p} /\ ghosts' = ghosts \ {p}
    BY <1>4 DEF DaemonAppear, Appear, managerVars, clientVars
  <2>2. Creating => \E m \in Signal : wire' = Append(wire, m) /\ m.path = p /\ m.sig # "changed"
    <3> SUFFICES ASSUME Creating PROVE \E m \in Signal :
                   wire' = Append(wire, m) /\ m.path = p /\ m.sig # "changed"
      OBVIOUS
    <3>1. truth'[p] \in Values
      BY DEF TypeOK, DaemonTypeOK
    <3>2. wire' = Append(wire, InterfacesAdded(p, truth'[p]))
      BY <1>4 DEF DaemonAppear, Appear, Route, Listening, Creating
    <3>3. InterfacesAdded(p, truth'[p]) \in Signal
      BY <1>1, <3>1 DEF InterfacesAdded, Signal
    <3> QED BY <3>2, <3>3 DEF InterfacesAdded
  <2>3. /\ Creating' = Creating
        /\ Creating => \A d \in Device : UnderWay(d)' <=> UnderWay(d) \/ d = p
    <3> DEFINE news == TRUE
    <3>1. news \in BOOLEAN /\ news
      OBVIOUS
    <3> HIDE DEF news
    <3> QED BY <1>3, <2>1, <2>2, <3>1
  <2>4. CASE p \in Device
    <3>1. Abstract!Appear(p)
      BY <2>1, <2>3, <2>4 DEF Abstract!Appear, Abstract!Announce
    <3> QED BY <2>4, <3>1 DEF Abstract!Next
  <2>5. CASE p \notin Device
    <3>1. present' \cap Device = present \cap Device /\ UNCHANGED <<devices, ghosts>>
      BY <1>1, <2>1, <2>5 DEF TypeOK
    <3> QED BY <2>3, <2>5, <3>1 DEF Abstract!vars
  <2> QED BY <2>4, <2>5
<1>5. ASSUME NEW p \in Path, DaemonVanish(p) PROVE Abstract!Next \/ UNCHANGED Abstract!vars
  <2>1. /\ UNCHANGED <<phase, todo, port, devices, ghosts>>
        /\ p \in present /\ present' = present \ {p}
    BY <1>5 DEF DaemonVanish, Vanish, managerVars, clientVars, history
  <2>2. Creating => \E m \in Signal : wire' = Append(wire, m) /\ m.path = p /\ m.sig # "changed"
    <3> SUFFICES ASSUME Creating PROVE \E m \in Signal :
                   wire' = Append(wire, m) /\ m.path = p /\ m.sig # "changed"
      OBVIOUS
    <3>1. wire' = Append(wire, InterfacesRemoved(p))
      BY <1>5 DEF DaemonVanish, Vanish, Route, Listening, Creating
    <3>2. InterfacesRemoved(p) \in Signal
      BY <1>1, ValueFacts DEF InterfacesRemoved, Signal
    <3> QED BY <3>1, <3>2 DEF InterfacesRemoved
  <2>3. /\ Creating' = Creating
        /\ Creating => \A d \in Device : UnderWay(d)' <=> UnderWay(d) \/ d = p
    <3> DEFINE news == TRUE
    <3>1. news \in BOOLEAN /\ news
      OBVIOUS
    <3> HIDE DEF news
    <3> QED BY <1>3, <2>1, <2>2, <3>1
  <2>4. CASE p \in Device
    <3>1. Abstract!Vanish(p)
      BY <2>1, <2>3, <2>4 DEF Abstract!Vanish, Abstract!Announce
    <3> QED BY <2>4, <3>1 DEF Abstract!Next
  <2>5. CASE p \notin Device
    BY <2>1, <2>3, <2>5 DEF Abstract!vars
  <2> QED BY <2>4, <2>5
<1>6. ASSUME NEW p \in Path, NEW F \in SUBSET Field, DaemonChange(p, F)
      PROVE  UNCHANGED Abstract!vars
  <2>1. UNCHANGED <<phase, todo, port, devices, present, ghosts>>
    BY <1>6 DEF DaemonChange, Change, managerVars, clientVars
  <2>2. wire' = wire \/ \E m \in Signal : wire' = Append(wire, m) /\ m.sig = "changed"
    <3>1. [f \in Field |-> IF f \in F THEN stamp + 1 ELSE Blank] \in Values
      BY <1>1 DEF Values, Blank
    <3>2. PropertiesChanged(p, F) \in Signal /\ PropertiesChanged(p, F).sig = "changed"
      BY <1>1, <3>1 DEF PropertiesChanged, Signal
    <3>3. wire' = wire \/ wire' = Append(wire, PropertiesChanged(p, F))
      BY <1>6 DEF DaemonChange, Change, Route
    <3> QED BY <3>2, <3>3
  <2>3. Creating' = Creating /\ (Creating => \A d \in Device : UnderWay(d)' <=> UnderWay(d))
    <3> DEFINE news == FALSE
    <3>1. news \in BOOLEAN /\ ~ news
      OBVIOUS
    <3> HIDE DEF news
    <3> QED BY <1>3, <2>1, <2>2, <3>1
  <2> QED BY <2>1, <2>3 DEF Abstract!vars
<1> QED BY <1>2, <1>4, <1>5, <1>6 DEF DaemonStep

\* Handling a message about a device is Learn; it is right when it is the last.
LEMMA OnEventMirrored ==
  ASSUME DevicesInv, DevicesInv', OnEvent
  PROVE  Abstract!Next \/ UNCHANGED Abstract!vars
<1> DEFINE m == Head(port)
<1>1. /\ port \in Seq(Message) /\ port # <<>> /\ port' = Tail(port)
      /\ phase = "running"
      /\ UNCHANGED <<present, wire, phase, todo, ghosts>>
  BY DEF OnEvent, OnSentinel, OnAdapterProps, OnDeviceProps, OnCharProps, OnDeviceAdded,
         OnDeviceRemoved, OnServiceAdded, OnCharAdded, OnDescAdded, OnObjectRemoved,
         OnResult, Receive, daemonVars, reply, DevicesInv, TypeOK, ManagerTypeOK
<1>2. Creating /\ Creating'
  BY <1>1 DEF Creating
<1>3. /\ m.tag = "DeviceAdded" => devices' = devices \cup {m.path} /\ m.path \in Device
      /\ m.tag = "DeviceRemoved" => devices' = devices \ {m.path} /\ m.path \in Device
      /\ m.tag \notin {"DeviceAdded", "DeviceRemoved"} => devices' = devices
  <2>1. CASE OnDeviceAdded
    BY <1>1, <2>1, MessageTail, PathsOfFacts DEF OnDeviceAdded, Receive
  <2>2. CASE OnDeviceRemoved
    BY <1>1, <2>2, MessageTail, PathsOfFacts DEF OnDeviceRemoved, Receive
  <2>3. CASE ~ OnDeviceAdded /\ ~ OnDeviceRemoved
    <3>1. UNCHANGED devices /\ m.tag \notin {"DeviceAdded", "DeviceRemoved"}
      BY <2>3 DEF OnEvent, OnSentinel, OnAdapterProps, OnDeviceProps, OnCharProps,
                  OnServiceAdded, OnCharAdded, OnDescAdded, OnObjectRemoved, OnResult,
                  Receive, clientVars
    <3> QED BY <3>1
  <2> QED BY <2>1, <2>2, <2>3
<1>4. ASSUME NEW d \in Device
      PROVE  UnderWay(d) <=>
               UnderWay(d)' \/ (m.path = d /\ m.tag \in {"DeviceAdded", "DeviceRemoved"})
  <2>1. InPort(d) <=> InPort(d)' \/ (m.path = d /\ m.tag \in {"DeviceAdded", "DeviceRemoved"})
    BY <1>1, InPortTail
  <2>2. (OnWire(d)' <=> OnWire(d)) /\ (d \in todo' <=> d \in todo)
    BY <1>1 DEF OnWire
  <2> QED BY <2>1, <2>2 DEF UnderWay, OnWire, InPort
<1>5. CASE m.tag \notin {"DeviceAdded", "DeviceRemoved"}
  BY <1>1, <1>2, <1>3, <1>4, <1>5, Stutters
<1>6. CASE m.tag \in {"DeviceAdded", "DeviceRemoved"}
  <2> DEFINE behind == {d \in Device : UnderWay(d)}
  <2>1. PICK p \in Device : p = m.path
    BY <1>3, <1>6
  <2>2. p \in behind
    BY <1>4, <1>6, <2>1
  <2>3. behind' \in {behind, behind \ {p}}
    <3>1. \A d \in Device : d # p => (UnderWay(d)' <=> UnderWay(d))
      BY <1>4, <2>1
    <3>2. CASE UnderWay(p)'
      BY <1>4, <3>1, <3>2
    <3>3. CASE ~ UnderWay(p)'
      BY <1>4, <3>1, <3>3
    <3> QED BY <3>2, <3>3
  <2>4. devices' \in {devices \cup {p}, devices \ {p}}
    BY <1>3, <1>6, <2>1
  <2>5. p \notin behind' => (p \in devices' <=> p \in (present \cap Device) \cup ghosts)
    <3>1. WireAgrees' /\ PortAgrees'
      BY <1>2 DEF DevicesInv
    <3>2. Announced' = present \cup ghosts
      BY <1>1 DEF Announced
    <3>3. p \notin behind' => ~ UnderWay(p)'
      OBVIOUS
    <3>4. ~ UnderWay(p)' => (p \in devices' <=> p \in Announced')
      BY <3>1, SettledNext
    <3> QED BY <3>2, <3>3, <3>4
  <2>6. Abstract!Learn(p)
    BY <1>1, <1>2, <2>2, <2>3, <2>4, <2>5 DEF Abstract!Learn
  <2> QED BY <2>6 DEF Abstract!Next
<1> QED BY <1>5, <1>6

\* The steps that start and stop the client.
LEMMA StartStopMirrored ==
  ASSUME DevicesInv, DevicesInv', Connect \/ Snapshot \/ CreateThrows \/ Close
  PROVE  Abstract!Next \/ UNCHANGED Abstract!vars
<1>1. CleanInv /\ TypeOK' /\ ghosts \subseteq Device
  BY DEF DevicesInv, TypeOK
<1>2. CASE Connect
  <2>1. /\ phase = "idle" /\ phase' = "constructed" /\ UNCHANGED <<present, devices, ghosts>>
    BY <1>2 DEF Connect, Construct, daemonVars, clientVars, history
  <2> QED BY <2>1 DEF Abstract!vars, Creating
<1>3. CASE Snapshot
  <2>1. /\ phase = "constructed" /\ phase' = "posting" /\ todo' = present
        /\ ghosts' = {p \in ghosts : Pending("added", p)}
        /\ UNCHANGED <<present, wire, port, devices>>
    BY <1>3 DEF Snapshot, get_managed_objects, daemonVars, clientVars
  <2>2. ~ Creating /\ Creating' /\ devices = {}
    BY <1>1, <2>1 DEF Creating, CleanInv
  <2>3. ghosts' \in SUBSET (Device \ (present \cap Device))
    BY <1>1, <2>1 DEF TypeOK
  <2>4. ASSUME NEW d \in Device, d \in present \/ d \in ghosts' PROVE UnderWay(d)'
    <3>1. CASE d \in present
      BY <2>1, <3>1 DEF UnderWay
    <3>2. CASE d \in ghosts'
      <4>1. PICK i \in DOMAIN wire : wire[i].sig = "added" /\ wire[i].path = d
        BY <2>1, <3>2 DEF Pending
      <4>2. wire[i] \in AddedSignals(d)
        BY <4>1 DEF AddedSignals, DevicesInv, TypeOK, DaemonTypeOK
      <4>3. OnWire(d)'
        BY <2>1, <4>2 DEF OnWire, Holds
      <4> QED BY <4>3 DEF UnderWay, OnWire
    <3> QED BY <2>4, <3>1, <3>2
  <2>5. (present \cap Device) \cup ghosts' \subseteq {d \in Device : UnderWay(d)'}
    BY <1>1, <2>1, <2>4
  <2>6. Abstract!Start
    BY <2>1, <2>2, <2>3, <2>5 DEF Abstract!Start
  <2> QED BY <2>6 DEF Abstract!Next
<1>4. CASE CreateThrows \/ Close
  <2>1. phase' \in {"idle", "destroyed"} /\ ghosts' = {} /\ UNCHANGED <<present, devices>>
    BY <1>4 DEF CreateThrows, CreateFails, Close, CloseClient, bluez_client_destroy,
                Teardown, clientVars
  <2>2. ~ Creating'
    BY <2>1 DEF Creating
  <2>3. CASE Creating
    <3>1. Abstract!Stop
      BY <2>1, <2>2, <2>3 DEF Abstract!Stop
    <3> QED BY <3>1 DEF Abstract!Next
  <2>4. CASE ~ Creating
    <3>1. Creating' = Creating
      BY <2>2, <2>4 DEF Creating
    <3> QED BY <2>1, <2>2, <2>4, <3>1 DEF Abstract!vars
  <2> QED BY <2>3, <2>4
<1> QED BY <1>2, <1>3, <1>4

\* The steps Mirror does not see.
LEMMA InnerStepStutters ==
  ASSUME DevicesInv,
         PostSnapshot \/ CreateReturns \/ EventLoop \/ CallStep \/ UserCall \/ UNCHANGED vars
  PROVE  UNCHANGED Abstract!vars
<1>1. TypeOK /\ port \in Seq(Message)
  BY DEF DevicesInv, TypeOK, ManagerTypeOK
<1>2. ASSUME UNCHANGED <<present, wire, devices, ghosts>>, Creating' <=> Creating,
             \A d \in Device : d \in todo' \/ InPort(d)' <=> d \in todo \/ InPort(d)
      PROVE  UNCHANGED Abstract!vars
  <2>1. \A d \in Device : UnderWay(d)' <=> UnderWay(d)
    BY <1>2 DEF UnderWay, InPort
  <2> QED BY <1>2, <2>1, Stutters
<1>3. CASE PostSnapshot
  <2>1. PICK p \in Path : PostObject(p)
    BY <1>3 DEF PostSnapshot
  <2>2. /\ phase = "posting" /\ phase' = "posting" /\ p \in todo /\ todo' = todo \ {p}
        /\ on_interfaces_added(p, snap[p]) /\ snap[p] \in Values
        /\ UNCHANGED <<present, wire, devices, ghosts>>
    BY <1>1, <1>3, <2>1 DEF PostObject, PostSnapshot, history, daemonVars, clientVars,
                            TypeOK, ManagerTypeOK
  <2>3. \A d \in Device : InPort(d)' <=> InPort(d) \/ d = p
    BY <1>1, <2>2, AddedInPort
  <2> QED BY <1>2, <2>2, <2>3 DEF Creating
<1>4. CASE CreateReturns
  <2>1. /\ phase = "posting" /\ phase' = "running"
        /\ post_glaze("Sentinel", Root, {}, NoValues)
        /\ UNCHANGED <<present, wire, devices, ghosts, todo>>
    BY <1>4 DEF CreateReturns, FinishCreate, history, daemonVars, clientVars, reply
  <2>2. /\ "Sentinel" \in Tags /\ Root \in PathsOf["Sentinel"]
        /\ {} \in SUBSET Field /\ NoValues \in Values
    BY PathsOfFacts, ValueFacts DEF Tags
  <2>3. \A d \in Device : InPort(d)' <=> InPort(d)
    BY <1>1, <2>1, <2>2, InPortAppend
  <2> QED BY <1>2, <2>1, <2>3 DEF Creating
<1>5. CASE EventLoop
  <2>1. \A d \in Device : UnderWay(d)' <=> UnderWay(d)
    BY <1>1, <1>5, EventLoopMoves
  <2>2. UNCHANGED <<present, phase, devices, ghosts>>
    BY <1>5 DEF EventLoop, DispatchAdded, DispatchRemoved, DispatchChanged,
                DispatchUnmatched, Dispatch, clientVars, history
  <2> QED BY <2>1, <2>2, Stutters DEF Creating
<1>6. CASE CallStep
  <2>1. PICK c \in Char :
          \/ \E op \in {"start", "stop"} :
               \/ GattMethodReturns(op, c) \/ GattCallFails(op, c) \/ GattCallBlocks(op, c)
               \/ GattCallUnbuilt(op, c) \/ post_success(op, c)
          \/ start_notify(c) \/ stop_notify(c)
    BY <1>6 DEF CallStep
  <2>2. UNCHANGED <<present, wire, phase, todo>>
    BY <2>1 DEF GattMethodReturns, GattCallFails, GattCallBlocks, GattCallUnbuilt,
                post_success, start_notify, stop_notify,
                GattStep, daemonVars, reply
  <2>3. UNCHANGED <<devices, ghosts>>
    BY <1>6 DEF CallStep, clientVars, history
  <2>4. \A d \in Device : InPort(d)' <=> InPort(d)
    <3>1. CASE UNCHANGED port
      BY <3>1 DEF InPort
    <3>2. CASE port' # port
      <4>1. PICK t \in {"Failed", "StartDone", "StopDone"} : post_glaze(t, c, {}, NoValues)
        BY <2>1, <3>2 DEF GattMethodReturns, GattCallFails, GattCallBlocks, GattCallUnbuilt,
                          post_success, start_notify, stop_notify
      <4>2. /\ t \in Tags /\ t \notin {"DeviceAdded", "DeviceRemoved"} /\ c \in PathsOf[t]
            /\ {} \in SUBSET Field /\ NoValues \in Values
        BY PathsOfFacts, ValueFacts DEF Tags
      <4> QED BY <1>1, <4>1, <4>2, InPortAppend
    <3> QED BY <3>1, <3>2
  <2> QED BY <1>2, <2>2, <2>3, <2>4 DEF Creating
<1>7. CASE UserCall \/ UNCHANGED vars
  <2>1. UNCHANGED <<present, wire, phase, todo, port, devices, ghosts>>
    BY <1>7 DEF UserCall, Notify, vars, daemonVars, managerVars, reply, clientVars, history
  <2> QED BY <1>2, <2>1 DEF Creating, InPort
<1> QED BY <1>3, <1>4, <1>5, <1>6, <1>7

\* The bridge implements Mirror: the device list of the client is a faithful
\* mirror of the daemon's devices, for any object tree, any number of events
\* and crashes, and any interleaving of the threads.
THEOREM MirrorImplemented == Spec => ImplementsMirror
<1>1. Init => Abstract!Init
  BY DEF Init, DaemonInit, ManagerInit, ClientInit, Creating, Abstract!Init
<1>2. DevicesInv /\ DevicesInv' /\ [Next]_vars => [Abstract!Next]_(Abstract!vars)
  <2> SUFFICES ASSUME DevicesInv, DevicesInv', [Next]_vars
               PROVE  Abstract!Next \/ UNCHANGED Abstract!vars
    OBVIOUS
  <2>1. CASE DaemonStep
    BY <2>1, DaemonMirrored DEF DevicesInv
  <2>2. CASE OnEvent
    BY <2>2, OnEventMirrored
  <2>3. CASE Connect \/ Snapshot \/ CreateThrows \/ Close
    BY <2>3, StartStopMirrored
  <2>4. CASE PostSnapshot \/ CreateReturns \/ EventLoop \/ CallStep \/ UserCall
             \/ UNCHANGED vars
    BY <2>4, InnerStepStutters
  <2> QED BY <2>1, <2>2, <2>3, <2>4 DEF Next, Work
<1> QED BY <1>1, <1>2, InvariantHolds, PTL DEF Spec, ImplementsMirror, Abstract!Spec

\* At every moment, not only when both queues are empty, the client is right
\* about every device that no signal and no message is under way about.
THEOREM AlwaysFaithful == Spec => []Abstract!Faithful
<1>1. DevicesInv => Abstract!Faithful
  <2> SUFFICES ASSUME DevicesInv, Creating, NEW d \in Device, ~ UnderWay(d)
               PROVE  d \in devices <=> d \in (present \cap Device) \cup ghosts
    BY DEF Abstract!Faithful
  <2>1. d \in devices <=> d \in Announced
    BY Settled DEF DevicesInv
  <2> QED BY <2>1 DEF Announced
<1> QED BY <1>1, InvariantHolds, PTL
=============================================================================
