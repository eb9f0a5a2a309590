--------------------------- MODULE ObjectManager ---------------------------
(***************************************************************************)
(* The native library: bluez_client_create / bluez_client_destroy of       *)
(* bluez_bridge.cpp, the ObjectManager of object_manager.cpp and the       *)
(* notification calls of gatt_bridge.cpp.  Two threads run this code: the  *)
(* Dart isolate's, inside an FFI call, and the sdbus event loop's, inside  *)
(* a signal callback.  Both post to the one message queue of the isolate.  *)
(***************************************************************************)
EXTENDS BlueZDaemon

VARIABLES
  phase,            \* how far bluez_client_create has got
  todo,             \* objects of the GetManagedObjects reply not yet posted
  snapped, snap,    \* the objects of that reply and their values
  adapter_proxies,  \* adapter_proxies_, device_proxies_, notify_proxies_: paths
  device_proxies,   \*   with a live PropertiesChanged match
  notify_proxies,
  after,            \* after[p]: stamp at which the match for p was installed
  call,             \* the GATT call the isolate's thread is blocked in
  port              \* messages posted to the isolate, oldest first

proxies == <<adapter_proxies, device_proxies, notify_proxies, after>>
reply   == <<todo, snapped, snap>>
managerVars == <<phase, todo, snapped, snap, adapter_proxies, device_proxies,
                 notify_proxies, after, call, port>>

Phases == {"idle", "constructed", "posting", "running", "destroyed"}

\* What the isolate can receive; bluez_types.h numbers the events 0x00..0x09
\* and the results 0xFF (of startNotify or stopNotify) and 0x20.
Tags == {"Sentinel", "AdapterProps", "DeviceProps", "CharProps", "DeviceAdded",
         "DeviceRemoved", "ServiceAdded", "CharAdded", "DescAdded",
         "ObjectRemoved", "StartDone", "StopDone", "Failed"}

\* The objects a message of each kind is about.
PathsOf == [t \in Tags |->
  CASE t = "AdapterProps"                                     -> Adapter
    [] t \in {"DeviceProps", "DeviceAdded", "DeviceRemoved"}  -> Device
    [] t = "ServiceAdded"                                     -> Service
    [] t = "DescAdded"                                        -> Desc
    [] t = "ObjectRemoved"                                    -> Service \cup Desc
    [] t = "Sentinel"                                         -> {Root}
    [] OTHER                                                  -> Char]

Message == {m \in [tag : Tags, path : Path \cup {Root}, mask : SUBSET Field,
                   vals : Values] : m.path \in PathsOf[m.tag]}

Msg(t, p, F, v) == [tag |-> t, path |-> p, mask |-> F, vals |-> v]

NoCall == [op |-> "none", char |-> Root, at |-> "none"]
Calls  == {NoCall} \cup [op : {"start", "stop"}, char : Char,
                         at : {"method", "proxies", "post", "blocked"}]

Subscribed == adapter_proxies \cup device_proxies \cup notify_proxies
Listening  == phase \in {"constructed", "posting", "running"}

\* The isolate's thread and the event loop wait for each other.
Blocked == call.at = "blocked"

ManagerInit ==
  /\ phase = "idle"
  /\ todo = {} /\ snapped = {} /\ snap = [p \in Path |-> NoValues]
  /\ adapter_proxies = {} /\ device_proxies = {} /\ notify_proxies = {}
  /\ after = [p \in Path |-> 0]
  /\ call = NoCall
  /\ port = <<>>

ManagerTypeOK ==
  /\ phase \in Phases
  /\ todo \subseteq Path /\ snapped \subseteq Path
  /\ snap \in [Path -> Values]
  /\ adapter_proxies \subseteq Adapter
  /\ device_proxies \subseteq Device
  /\ notify_proxies \subseteq Char
  /\ after \in [Path -> Nat]
  /\ call \in Calls
  /\ port \in Seq(Message)

post_glaze(t, p, F, v) == port' = Append(port, Msg(t, p, F, v))

\* A second subscription for a path returns early and keeps the first match.
AddMatch(p, subscribed) ==
  after' = IF p \in subscribed THEN after ELSE [after EXCEPT ![p] = stamp]

subscribe_adapter_props(p) ==
  /\ adapter_proxies' = adapter_proxies \cup {p}
  /\ AddMatch(p, adapter_proxies)

subscribe_device_props(p) ==
  /\ device_proxies' = device_proxies \cup {p}
  /\ AddMatch(p, device_proxies)

\* Faulty variant: a second subscription replaces the match, and with it the
\* signals that were sent to the first.
subscribe_char_notify_anew(p) ==
  /\ notify_proxies' = notify_proxies \cup {p}
  /\ after' = [after EXCEPT ![p] = stamp]

subscribe_char_notify(p) ==
  /\ notify_proxies' = notify_proxies \cup {p}
  /\ AddMatch(p, notify_proxies)

\* Faulty variant: the proxy stays.
unsubscribe_char_notify_never(p) ==
  /\ p \in Char
  /\ UNCHANGED <<notify_proxies, after>>

unsubscribe_char_notify(p) ==
  /\ notify_proxies' = notify_proxies \ {p}
  /\ UNCHANGED after

(***************************************************************************)
(* The signal handlers.  Posting comes before subscribing.                 *)
(***************************************************************************)
GattAddedTag(p) == CASE Kind[p] = "service" -> "ServiceAdded"
                     [] Kind[p] = "char"    -> "CharAdded"
                     [] OTHER               -> "DescAdded"

on_interfaces_added(p, v) ==
  /\ \/ /\ p \in Adapter
        /\ post_glaze("AdapterProps", p, Field, v)
        /\ subscribe_adapter_props(p)
        /\ UNCHANGED device_proxies
     \/ /\ p \in Device
        /\ post_glaze("DeviceAdded", p, Field, v)
        /\ subscribe_device_props(p)
        /\ UNCHANGED adapter_proxies
     \/ /\ p \in Service \cup Char \cup Desc
        /\ post_glaze(GattAddedTag(p), p, Field, v)
        /\ UNCHANGED <<adapter_proxies, device_proxies, after>>
  /\ UNCHANGED notify_proxies

\* Faulty variant: the subscription of a removed device is not cleaned up.
on_interfaces_removed_keeping(p) ==
  /\ \/ /\ p \in Device
        /\ post_glaze("DeviceRemoved", p, {}, NoValues)
     \/ /\ p \in Service \cup Desc
        /\ post_glaze("ObjectRemoved", p, {}, NoValues)
     \/ /\ p \in Adapter \cup Char
        /\ UNCHANGED port
  /\ UNCHANGED proxies

on_interfaces_removed(p) ==
  /\ \/ /\ p \in Device
        /\ post_glaze("DeviceRemoved", p, {}, NoValues)
        /\ device_proxies' = device_proxies \ {p}
        /\ UNCHANGED <<adapter_proxies, notify_proxies>>
     \/ /\ p \in Adapter
        /\ adapter_proxies' = adapter_proxies \ {p}
        /\ UNCHANGED <<device_proxies, notify_proxies, port>>
     \/ /\ p \in Char
        /\ notify_proxies' = notify_proxies \ {p}
        /\ UNCHANGED <<adapter_proxies, device_proxies, port>>
     \/ /\ p \in Service \cup Desc
        /\ post_glaze("ObjectRemoved", p, {}, NoValues)
        /\ UNCHANGED <<adapter_proxies, device_proxies, notify_proxies>>
  /\ UNCHANGED after

\* Faulty variant: the device callback posts under the adapter's discriminator.
on_properties_changed_mistagged(p, F, v) ==
  /\ p \in Subscribed
  /\ post_glaze("AdapterProps", p, F \cap Tracked, v)

\* A device or adapter callback posts even when no change bit is set; the
\* characteristic callback returns unless Value is among the changes.
on_properties_changed(p, F, v) ==
  \/ /\ p \in adapter_proxies
     /\ post_glaze("AdapterProps", p, F \cap Tracked, v)
  \/ /\ p \in device_proxies
     /\ post_glaze("DeviceProps", p, F \cap Tracked, v)
  \/ /\ p \in notify_proxies
     /\ Value \in F
     /\ post_glaze("CharProps", p, {Value}, v)
  \/ /\ p \in notify_proxies
     /\ Value \notin F
     /\ UNCHANGED port

(***************************************************************************)
(* The event loop: sd-bus hands a message to the matches installed before  *)
(* the message was read, and drops it when there is none.  A change sent   *)
(* before its match was installed may have been read by then, or not.      *)
(***************************************************************************)
\* Faulty variant: the event loop is started before the snapshot is posted.
Dispatch_early(s) ==
  /\ phase \in {"posting", "running"}
  /\ ~ Blocked
  /\ wire # <<>>
  /\ Head(wire).sig = s
  /\ wire' = Tail(wire)
  /\ UNCHANGED <<present, truth, stamp, phase, reply, call>>

Dispatch(s) ==
  /\ phase = "running"
  /\ ~ Blocked
  /\ wire # <<>>
  /\ Head(wire).sig = s
  /\ wire' = Tail(wire)
  /\ UNCHANGED <<present, truth, stamp, phase, reply, call>>

Reaches(m) == m.path \in Subscribed /\ m.at > after[m.path]

DispatchAdded ==
  /\ Dispatch("added")
  /\ on_interfaces_added(Head(wire).path, Head(wire).vals)

DispatchRemoved ==
  /\ Dispatch("removed")
  /\ on_interfaces_removed(Head(wire).path)

DispatchChanged ==
  /\ Dispatch("changed")
  /\ Head(wire).path \in Subscribed
  /\ on_properties_changed(Head(wire).path, Head(wire).mask, Head(wire).vals)
  /\ UNCHANGED proxies

DispatchUnmatched ==
  /\ Dispatch("changed")
  /\ ~ Reaches(Head(wire))
  /\ UNCHANGED <<proxies, port>>

(***************************************************************************)
(* bluez_client_create, on the isolate's thread.                           *)
(***************************************************************************)
Construct ==
  /\ phase = "idle"
  /\ phase' = "constructed"
  /\ UNCHANGED <<daemonVars, reply, proxies, call, port>>

\* The reply is the tree as it is now; signals sent since the root match was
\* installed stay queued behind it.
get_managed_objects ==
  /\ phase = "constructed"
  /\ phase' = "posting"
  /\ todo' = present
  /\ snapped' = present
  /\ snap' = truth
  /\ UNCHANGED <<daemonVars, proxies, call, port>>

\* Faulty variant: the reply is not visited in the order of the paths.
PostObject_anyhow(p) ==
  /\ phase = "posting"
  /\ p \in todo
  /\ on_interfaces_added(p, snap[p])
  /\ todo' = todo \ {p}
  /\ UNCHANGED <<daemonVars, phase, snapped, snap, call>>

PostObject(p) ==
  /\ phase = "posting"
  /\ p \in todo
  /\ \A q \in todo : p <= q
  /\ on_interfaces_added(p, snap[p])
  /\ todo' = todo \ {p}
  /\ UNCHANGED <<daemonVars, phase, snapped, snap, call>>

\* Faulty variants: the sentinel before the last object, and no sentinel.
FinishCreate_early ==
  /\ phase = "posting"
  /\ post_glaze("Sentinel", Root, {}, NoValues)
  /\ phase' = "running"
  /\ UNCHANGED <<daemonVars, reply, proxies, call>>

FinishCreate_silent ==
  /\ phase = "posting"
  /\ todo = {}
  /\ phase' = "running"
  /\ UNCHANGED <<daemonVars, reply, proxies, call, port>>

FinishCreate ==
  /\ phase = "posting"
  /\ todo = {}
  /\ post_glaze("Sentinel", Root, {}, NoValues)
  /\ phase' = "running"
  /\ UNCHANGED <<daemonVars, reply, proxies, call>>

\* Dropping the context removes its matches and its queue; the isolate
\* closes the events port, so what was posted is dropped too.
Teardown(ph) ==
  /\ phase' = ph
  /\ todo' = {} /\ snapped' = {} /\ snap' = [p \in Path |-> NoValues]
  /\ adapter_proxies' = {} /\ device_proxies' = {} /\ notify_proxies' = {}
  /\ after' = [p \in Path |-> 0]
  /\ port' = <<>>
  /\ wire' = <<>>
  /\ UNCHANGED <<present, truth, stamp, call>>

\* An sdbus::Error anywhere in bluez_client_create.
CreateFails ==
  /\ phase \in {"constructed", "posting"}
  /\ Teardown("idle")

bluez_client_destroy ==
  /\ phase = "running"
  /\ call = NoCall
  /\ Teardown("destroyed")

(***************************************************************************)
(* GattCharBridge::start_notify and stop_notify.  The event loop runs      *)
(* between the method call, the change of the proxies and the post.        *)
(***************************************************************************)
GattStep(op, c, from, to) ==
  /\ phase = "running"
  /\ call = [op |-> op, char |-> c, at |-> from]
  /\ call' = IF to = "done" THEN NoCall ELSE [call EXCEPT !.at = to]
  /\ UNCHANGED <<daemonVars, phase, reply>>

GattMethodReturns(op, c) ==
  /\ GattStep(op, c, "method", "proxies")
  /\ c \in present
  /\ UNCHANGED <<proxies, port>>

\* The GattCharBridge cannot be built: the catch of the entry point prints the
\* error, and nothing is posted.
GattCallUnbuilt(op, c) ==
  /\ GattStep(op, c, "method", "done")
  /\ UNCHANGED <<proxies, port>>

\* Faulty variant: every error is only printed.
GattCallFails_silent(op, c) ==
  /\ \/ GattStep(op, c, "method", "done")
     \/ op = "start" /\ c \notin notify_proxies /\ GattStep(op, c, "proxies", "done")
  /\ UNCHANGED <<proxies, port>>

\* bluetoothd may refuse either call, and always does when the object is gone;
\* installing a match may fail too, when notifications are already on.
GattCallFails(op, c) ==
  /\ \/ GattStep(op, c, "method", "done")
     \/ op = "start" /\ c \notin notify_proxies /\ GattStep(op, c, "proxies", "done")
  /\ post_glaze("Failed", c, {}, NoValues)
  /\ UNCHANGED proxies

start_notify(c) ==
  /\ GattStep("start", c, "proxies", "post")
  /\ subscribe_char_notify(c)
  /\ UNCHANGED <<adapter_proxies, device_proxies, port>>

stop_notify(c) ==
  /\ GattStep("stop", c, "proxies", "post")
  /\ unsubscribe_char_notify(c)
  /\ UNCHANGED <<adapter_proxies, device_proxies, port>>

\* The call installs or removes a match, with proxies_mutex_ locked.
ChangesMatch(op, c) == IF op = "start" THEN c \notin notify_proxies ELSE c \in notify_proxies

\* The handler of this signal locks proxies_mutex_.
LocksProxies(s) ==
  \/ s.sig = "added" /\ s.path \in Adapter \cup Device
  \/ s.sig = "removed" /\ s.path \in Adapter \cup Device \cup Char

\* A match needs the connection, which the event loop holds, inside a handler that
\* waits for proxies_mutex_.  Neither goes on: the signal's handler never returns,
\* and what it posted before it stopped is never received.
GattCallBlocks(op, c) ==
  /\ GattStep(op, c, "proxies", "blocked")
  /\ ChangesMatch(op, c)
  /\ wire # <<>> /\ LocksProxies(Head(wire))
  /\ UNCHANGED <<proxies, port>>

post_success(op, c) ==
  /\ GattStep(op, c, "post", "done")
  /\ post_glaze(IF op = "start" THEN "StartDone" ELSE "StopDone", c, {}, NoValues)
  /\ UNCHANGED proxies
============================================================================
