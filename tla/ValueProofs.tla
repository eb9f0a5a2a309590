----------------------------- MODULE ValueProofs -----------------------------
(***************************************************************************)
(* Machine-checked, for any object tree and any number of calls: property  *)
(* values reach the client's objects and streams unless a change fell      *)
(* where no match covered it, and nothing follows the answer of            *)
(* stopNotify().                                                           *)
(***************************************************************************)
EXTENDS BridgeProofs

\* In queue q every value of c is followed by an answer of stopNotify().
CharValues(c)  == {m \in Message : m.tag = "CharProps" /\ m.path = c}
StopAnswers(c) == {m \in Message : m.tag = "StopDone" /\ m.path = c}
Quiet(q, c) == Followed(q, CharValues(c), StopAnswers(c))

\* A stopped characteristic has no match and is not being started; the match goes
\* before the answer is posted.
QuietInv ==
  /\ TypeOK
  /\ \A c \in stopped : c \notin notify_proxies /\ Quiet(port, c)
  /\ call.op = "start" => call.char \notin stopped
  /\ call.op = "stop" /\ call.at = "post" => call.char \notin notify_proxies

\* What a step may do to the isolate's queue: a value is posted only for a
\* characteristic with a match.
Post(m) ==
  /\ port' = Append(port, m)
  /\ m \in Message
  /\ m.tag = "CharProps" => m.path \in notify_proxies

QueueGrows == UNCHANGED port \/ \E m \in Message : Post(m)
QueueStep  == QueueGrows \/ port' = <<>> \/ (port # <<>> /\ port' = Tail(port))

LEMMA GlazePosts ==
  ASSUME NEW t \in Tags, NEW p \in PathsOf[t], NEW F \in SUBSET Field, NEW v \in Values,
         post_glaze(t, p, F, v), t = "CharProps" => p \in notify_proxies
  PROVE  \E m \in Message : Post(m)
<1>1. Msg(t, p, F, v) \in Message
  BY MsgType
<1> QED BY <1>1 DEF Msg, Post, post_glaze

LEMMA QueueStepQuiet ==
  ASSUME TypeOK, QueueStep, NEW c, c \notin notify_proxies, Quiet(port, c)
  PROVE  Quiet(port', c)
<1>1. port \in Seq(Message)
  BY DEF TypeOK, ManagerTypeOK
<1>2. CASE port' = <<>>
  BY <1>2 DEF Quiet, Followed
<1>3. CASE port # <<>> /\ port' = Tail(port)
  BY <1>1, <1>3, FollowedTail DEF Quiet, CharValues, StopAnswers, Message
<1>4. ASSUME NEW m \in Message, Post(m) PROVE Quiet(port', c)
  <2>1. m \notin CharValues(c) /\ port' = Append(port, m)
    BY <1>4 DEF Post, CharValues
  <2> QED BY <1>1, <2>1, FollowedAppend DEF Quiet
<1> QED BY <1>2, <1>3, <1>4 DEF QueueStep, QueueGrows

\* A step that starts no notification and answers none.
LEMMA BystanderQuiet ==
  ASSUME QuietInv, TypeOK', QueueStep,
         notify_proxies' \subseteq notify_proxies, UNCHANGED <<stopped, call>>
  PROVE  QuietInv'
<1>1. ASSUME NEW c \in stopped PROVE c \notin notify_proxies' /\ Quiet(port', c)
  BY QueueStepQuiet DEF QuietInv
<1> QED BY <1>1 DEF QuietInv, Quiet

LEMMA AddedPosts ==
  ASSUME TypeOK, NEW p \in Path, NEW v \in Values, on_interfaces_added(p, v)
  PROVE  QueueGrows /\ UNCHANGED notify_proxies
<1>1. \E t \in Tags \ {"CharProps"} : p \in PathsOf[t] /\ post_glaze(t, p, Field, v)
  <2>1. CASE p \in Adapter
    BY <2>1, KindFacts, PathsOfFacts DEF on_interfaces_added, Tags, Adapter, Service, Char, Desc
  <2>2. CASE p \in Device
    BY <2>2, KindFacts, PathsOfFacts DEF on_interfaces_added, Tags, Device, Adapter, Service, Char, Desc
  <2>3. CASE p \in Service \cup Char \cup Desc
    <3>1. /\ GattAddedTag(p) \in Tags \ {"CharProps"} /\ p \in PathsOf[GattAddedTag(p)]
      BY <2>3, PathsOfFacts DEF GattAddedTag, Tags, Service, Char, Desc
    <3> QED BY <2>3, <3>1 DEF on_interfaces_added, Adapter, Device, Service, Char, Desc
  <2> QED BY <2>1, <2>2, <2>3 DEF on_interfaces_added
<1>2. Field \in SUBSET Field
  OBVIOUS
<1> QED BY <1>1, <1>2, GlazePosts DEF QueueGrows, on_interfaces_added

LEMMA RemovedPosts ==
  ASSUME TypeOK, NEW p \in Path, on_interfaces_removed(p)
  PROVE  QueueGrows /\ notify_proxies' \subseteq notify_proxies
<1>1. \/ UNCHANGED port
      \/ \E t \in Tags \ {"CharProps"} : p \in PathsOf[t] /\ post_glaze(t, p, {}, NoValues)
  BY PathsOfFacts DEF on_interfaces_removed, Tags
<1>2. {} \in SUBSET Field /\ NoValues \in Values
  BY ValueFacts
<1> QED BY <1>1, <1>2, GlazePosts DEF QueueGrows, on_interfaces_removed

LEMMA ChangedPosts ==
  ASSUME TypeOK, NEW p \in Path, NEW F \in SUBSET Field, NEW v \in Values,
         on_properties_changed(p, F, v)
  PROVE  QueueGrows
<1>1. \/ UNCHANGED port
      \/ \E t \in Tags, G \in SUBSET Field :
           /\ p \in PathsOf[t] /\ post_glaze(t, p, G, v)
           /\ t = "CharProps" => p \in notify_proxies
  <2>1. F \cap Tracked \in SUBSET Field /\ {Value} \in SUBSET Field
    BY ValueFacts
  <2>2. /\ adapter_proxies \subseteq Adapter /\ device_proxies \subseteq Device
        /\ notify_proxies \subseteq Char
    BY DEF TypeOK, ManagerTypeOK
  <2>3. {"AdapterProps", "DeviceProps", "CharProps"} \subseteq Tags
    BY DEF Tags
  <2>4. CASE p \in adapter_proxies /\ post_glaze("AdapterProps", p, F \cap Tracked, v)
    BY <2>1, <2>2, <2>3, <2>4, PathsOfFacts
  <2>5. CASE p \in device_proxies /\ post_glaze("DeviceProps", p, F \cap Tracked, v)
    BY <2>1, <2>2, <2>3, <2>5, PathsOfFacts
  <2>6. CASE p \in notify_proxies /\ post_glaze("CharProps", p, {Value}, v)
    BY <2>1, <2>2, <2>3, <2>6, PathsOfFacts
  <2> QED BY <2>4, <2>5, <2>6 DEF on_properties_changed
<1> QED BY <1>1, GlazePosts DEF QueueGrows

LEMMA EventLoopQuiet ==
  ASSUME TypeOK, EventLoop
  PROVE  /\ QueueGrows /\ notify_proxies' \subseteq notify_proxies
         /\ UNCHANGED <<stopped, call>>
<1> DEFINE m == Head(wire)
<1>1. PICK s \in {"added", "removed", "changed"} : Dispatch(s)
  BY DEF EventLoop, DispatchAdded, DispatchRemoved, DispatchChanged, DispatchUnmatched
<1>2. m.path \in Path /\ m.vals \in Values /\ m.mask \in SUBSET Field
  BY <1>1, SignalTail DEF Dispatch, TypeOK, DaemonTypeOK
<1>3. UNCHANGED <<stopped, call>>
  BY <1>1 DEF Dispatch, EventLoop, history
<1>4. CASE DispatchAdded
  BY <1>2, <1>3, <1>4, AddedPosts DEF DispatchAdded
<1>5. CASE DispatchRemoved
  BY <1>2, <1>3, <1>5, RemovedPosts DEF DispatchRemoved
<1>6. CASE DispatchChanged
  BY <1>2, <1>3, <1>6, ChangedPosts DEF DispatchChanged, proxies
<1>7. CASE DispatchUnmatched
  BY <1>3, <1>7 DEF DispatchUnmatched, proxies, QueueGrows
<1> QED BY <1>4, <1>5, <1>6, <1>7 DEF EventLoop

\* The steps of startNotify() and stopNotify().
LEMMA CallQuiet ==
  ASSUME QuietInv, TypeOK', CallStep
  PROVE  QuietInv'
<1>1. PICK c \in Char :
        \/ \E op \in {"start", "stop"} :
             /\ \/ GattMethodReturns(op, c) \/ GattCallFails(op, c)
                \/ GattCallBlocks(op, c) \/ GattCallUnbuilt(op, c)
             /\ UNCHANGED stopped
        \/ start_notify(c) /\ UNCHANGED stopped
        \/ stop_notify(c) /\ UNCHANGED stopped
        \/ post_success("start", c) /\ UNCHANGED stopped
        \/ post_success("stop", c) /\ stopped' = stopped \cup {c}
  BY DEF CallStep, history
<1>2. TypeOK /\ {} \in SUBSET Field /\ NoValues \in Values
  BY ValueFacts DEF QuietInv
<1>3. ASSUME NEW t \in {"StartDone", "StopDone", "Failed"}, post_glaze(t, c, {}, NoValues)
      PROVE  /\ QueueStep
             /\ port \in Seq(Message)
             /\ Msg(t, c, {}, NoValues) \in Message
             /\ port' = Append(port, Msg(t, c, {}, NoValues))
  <2>1. t \in Tags /\ t # "CharProps" /\ c \in PathsOf[t]
    BY PathsOfFacts DEF Tags
  <2> QED BY <1>2, <1>3, <2>1, GlazePosts, MsgType DEF QueueStep, QueueGrows, TypeOK, ManagerTypeOK, post_glaze
<1>4. ASSUME NEW op \in {"start", "stop"}, GattMethodReturns(op, c), UNCHANGED stopped
      PROVE  QuietInv'
  <2>1. /\ call = [op |-> op, char |-> c, at |-> "method"]
        /\ call' = [op |-> op, char |-> c, at |-> "proxies"]
        /\ UNCHANGED <<notify_proxies, port>>
    BY <1>4 DEF GattMethodReturns, GattStep, proxies
  <2> QED BY <1>4, <2>1 DEF QuietInv, Quiet
<1>5. ASSUME NEW op \in {"start", "stop"}, GattCallFails(op, c), UNCHANGED stopped
      PROVE  QuietInv'
  <2>1. call' = NoCall /\ UNCHANGED notify_proxies /\ QueueStep
    BY <1>3, <1>5 DEF GattCallFails, GattStep, proxies
  <2>2. \A d \in stopped : d \notin notify_proxies /\ Quiet(port', d)
    BY <1>2, <2>1, QueueStepQuiet DEF QuietInv
  <2> QED BY <1>5, <2>1, <2>2 DEF QuietInv, Quiet, NoCall
<1>6. ASSUME start_notify(c), UNCHANGED stopped PROVE QuietInv'
  <2>1. /\ call = [op |-> "start", char |-> c, at |-> "proxies"]
        /\ call' = [op |-> "start", char |-> c, at |-> "post"]
        /\ notify_proxies' = notify_proxies \cup {c}
        /\ UNCHANGED port
    BY <1>6 DEF start_notify, subscribe_char_notify, GattStep
  <2> QED BY <1>6, <2>1 DEF QuietInv, Quiet
<1>7. ASSUME stop_notify(c), UNCHANGED stopped PROVE QuietInv'
  <2>1. /\ call = [op |-> "stop", char |-> c, at |-> "proxies"]
        /\ call' = [op |-> "stop", char |-> c, at |-> "post"]
        /\ notify_proxies' = notify_proxies \ {c}
        /\ UNCHANGED port
    BY <1>7 DEF stop_notify, unsubscribe_char_notify, GattStep
  <2> QED BY <1>7, <2>1 DEF QuietInv, Quiet
<1>8. ASSUME post_success("start", c), UNCHANGED stopped PROVE QuietInv'
  <2>1. call' = NoCall /\ UNCHANGED notify_proxies /\ QueueStep
    BY <1>3, <1>8 DEF post_success, GattStep, proxies
  <2>2. \A d \in stopped : d \notin notify_proxies /\ Quiet(port', d)
    BY <1>2, <2>1, QueueStepQuiet DEF QuietInv
  <2> QED BY <1>8, <2>1, <2>2 DEF QuietInv, Quiet, NoCall
<1>9. ASSUME post_success("stop", c), stopped' = stopped \cup {c} PROVE QuietInv'
  <2>1. /\ call = [op |-> "stop", char |-> c, at |-> "post"]
        /\ call' = NoCall /\ UNCHANGED notify_proxies
        /\ post_glaze("StopDone", c, {}, NoValues)
    BY <1>9 DEF post_success, GattStep, proxies
  <2>2. \A d \in stopped : d \notin notify_proxies /\ Quiet(port', d)
    BY <1>2, <1>3, <2>1, QueueStepQuiet DEF QuietInv
  <2>3. c \notin notify_proxies
    BY <2>1 DEF QuietInv
  <2>4. PICK m \in Message :
          m.tag = "StopDone" /\ m.path = c /\ port' = Append(port, m)
    BY <1>3, <2>1 DEF Msg
  <2>5. port \in Seq(Message)
    BY <1>3, <2>1
  <2>6. Quiet(port', c)
    <3>1. m \in StopAnswers(c) /\ m \notin CharValues(c)
      BY <2>4 DEF StopAnswers, CharValues
    <3> QED BY <2>4, <2>5, <3>1, FollowedAppend DEF Quiet
  <2> QED BY <1>1, <1>2, <1>9, <2>1, <2>2, <2>3, <2>6 DEF QuietInv, NoCall
<1>10. ASSUME NEW op \in {"start", "stop"}, GattCallBlocks(op, c), UNCHANGED stopped
       PROVE  QuietInv'
  <2>1. /\ call = [op |-> op, char |-> c, at |-> "proxies"]
        /\ call' = [op |-> op, char |-> c, at |-> "blocked"]
        /\ UNCHANGED <<notify_proxies, port>>
    BY <1>10 DEF GattCallBlocks, GattStep, proxies
  <2> QED BY <1>10, <2>1 DEF QuietInv, Quiet
<1>11. ASSUME NEW op \in {"start", "stop"}, GattCallUnbuilt(op, c), UNCHANGED stopped
       PROVE  QuietInv'
  <2>1. call' = NoCall /\ UNCHANGED <<notify_proxies, port>>
    BY <1>11 DEF GattCallUnbuilt, GattStep, proxies
  <2> QED BY <1>11, <2>1 DEF QuietInv, Quiet, NoCall
<1> QED BY <1>1, <1>4, <1>5, <1>6, <1>7, <1>8, <1>9, <1>10, <1>11

\* One step per action of the bridge.
LEMMA QuietInvNext == QuietInv /\ [Next]_vars => QuietInv'
<1> SUFFICES ASSUME QuietInv, [Next]_vars PROVE QuietInv'
  OBVIOUS
<1>1. TypeOK /\ TypeOK'
  BY NextType DEF QuietInv
<1>2. CASE DaemonStep \/ UNCHANGED vars
  <2>1. UNCHANGED <<port, notify_proxies, stopped, call>>
    BY <1>2 DEF DaemonStep, DaemonAppear, DaemonVanish, DaemonChange, DaemonCrash,
                managerVars, history, vars
  <2> QED BY <1>1, <2>1, BystanderQuiet DEF QueueStep, QueueGrows
<1>3. CASE Connect \/ Snapshot
  <2>1. UNCHANGED <<port, notify_proxies, stopped, call>>
    BY <1>3 DEF Connect, Snapshot, Construct, get_managed_objects, proxies, history
  <2> QED BY <1>1, <2>1, BystanderQuiet DEF QueueStep, QueueGrows
<1>4. CASE PostSnapshot
  <2>1. PICK p \in Path : PostObject(p)
    BY <1>4 DEF PostSnapshot
  <2>2. snap[p] \in Values /\ on_interfaces_added(p, snap[p]) /\ UNCHANGED <<stopped, call>>
    BY <1>1, <1>4, <2>1 DEF PostSnapshot, PostObject, TypeOK, ManagerTypeOK, history
  <2> QED BY <1>1, <2>2, AddedPosts, BystanderQuiet DEF QueueStep
<1>5. CASE CreateReturns
  <2>1. /\ post_glaze("Sentinel", Root, {}, NoValues)
        /\ UNCHANGED <<notify_proxies, stopped, call>>
    BY <1>5 DEF CreateReturns, FinishCreate, proxies, history
  <2>2. /\ "Sentinel" \in Tags /\ Root \in PathsOf["Sentinel"]
        /\ {} \in SUBSET Field /\ NoValues \in Values
    BY PathsOfFacts, ValueFacts DEF Tags
  <2> QED BY <1>1, <2>1, <2>2, GlazePosts, BystanderQuiet DEF QueueStep, QueueGrows
<1>6. CASE CreateThrows \/ Close
  <2>1. port' = <<>> /\ notify_proxies' = {} /\ UNCHANGED <<stopped, call>>
    BY <1>6 DEF CreateThrows, CreateFails, Close, CloseClient, bluez_client_destroy, Teardown
  <2> QED BY <1>1, <2>1, BystanderQuiet DEF QueueStep, QueueGrows
<1>7. CASE EventLoop
  BY <1>1, <1>7, EventLoopQuiet, BystanderQuiet DEF QueueStep
<1>8. CASE CallStep
  BY <1>1, <1>8, CallQuiet
<1>9. CASE OnEvent
  <2>1. /\ port # <<>> /\ port' = Tail(port)
        /\ UNCHANGED <<notify_proxies, stopped, call>>
    BY <1>9 DEF OnEvent, OnSentinel, OnAdapterProps, OnDeviceProps, OnCharProps,
                OnDeviceAdded, OnDeviceRemoved, OnServiceAdded, OnCharAdded, OnDescAdded,
                OnObjectRemoved, OnResult, Receive, proxies
  <2> QED BY <1>1, <2>1, BystanderQuiet DEF QueueStep, QueueGrows
<1>10. CASE UserCall
  <2>1. PICK c \in Char, op \in {"start", "stop"} : Notify(op, c)
    BY <1>10 DEF UserCall
  <2>2. /\ call' = [op |-> op, char |-> c, at |-> "method"]
        /\ stopped' = IF op = "start" THEN stopped \ {c} ELSE stopped
        /\ UNCHANGED <<port, notify_proxies>>
    BY <2>1 DEF Notify, proxies
  <2> QED BY <1>1, <2>2 DEF QuietInv, Quiet
<1> QED BY <1>2, <1>3, <1>4, <1>5, <1>6, <1>7, <1>8, <1>9, <1>10 DEF Next, Work

\* When stopNotify() has been answered, no value of the characteristic follows
\* the answer: the isolate that has seen the answer sees no more values.
THEOREM StopsForGood == Spec => []QuietAfterStop
<1>1. Init => QuietInv
  BY InitType DEF Init, ManagerInit, QuietInv, NoCall
<1>2. QuietInv => QuietAfterStop
  <2> SUFFICES ASSUME QuietInv, NEW c \in stopped, NEW i \in DOMAIN port,
                      port[i].tag = "CharProps", port[i].path = c
               PROVE  \E j \in DOMAIN port : j > i /\ port[j].tag = "StopDone" /\ port[j].path = c
    BY DEF QuietAfterStop
  <2>1. port[i] \in Message
    BY DEF QuietInv, TypeOK, ManagerTypeOK
  <2>2. port[i] \in CharValues(c)
    BY <2>1 DEF CharValues
  <2> QED BY <2>2 DEF QuietInv, Quiet, Followed, StopAnswers
<1> QED BY <1>1, <1>2, QuietInvNext, PTL DEF Spec

(***************************************************************************)
(* The client is owed the value of a property whose last change a match    *)
(* covered.  The last signal on the wire that says something of it, and is *)
(* sure to be handed on, gives that value; or there is none, and the reply *)
(* of GetManagedObjects, the isolate's queue or the object does.           *)
(***************************************************************************)
Owed(p, f, v) ==
  /\ p \in present \cap (Adapter \cup Device \cup Char)
  /\ f \in Tracked /\ (p \in Char => f = Value)
  /\ <<p, f>> \notin gap
  /\ truth[p][f] = v

\* An object that appears brings its values, except to the stream of a
\* characteristic, which starts anew.
Tells(s, p, f, v) ==
  /\ s.path = p /\ s.vals[f] = v
  /\ \/ s.sig = "added" /\ p \notin Char
     \/ s.sig = "changed" /\ f \in s.mask
Denies(s, p, f, v) ==
  /\ s.path = p
  /\ \/ s.sig = "added" /\ (p \in Char \/ s.vals[f] # v)
     \/ s.sig = "changed" /\ f \in s.mask /\ s.vals[f] # v

\* A change is sure to be handed on if its match will still be there.
Heard(i) ==
  wire[i].sig = "changed"
    => /\ Reaches(wire[i])
       /\ \A j \in DOMAIN wire : wire[j].sig = "removed" /\ wire[j].path = wire[i].path => j > i

Sets(m, f) ==
  \/ m.tag \in {"DeviceAdded", "CharProps"}
  \/ m.tag \in {"AdapterProps", "DeviceProps"} /\ f \in m.mask
Tellers(p, f, v) == {m \in Message : m.path = p /\ Sets(m, f) /\ m.vals[f] = v}
Deniers(p, f, v) ==
  {m \in Message : m.path = p /\ (m.tag = "CharAdded" \/ (Sets(m, f) /\ m.vals[f] # v))}

\* What the client has is v; an adapter it has, since a change alone would not
\* give the object its other values.
Shown(f, v) ==
  {p \in Adapter : p \in adapters /\ cache[p][f] = v}
    \cup {p \in Device : p \in devices => cache[p][f] = v}
    \cup {p \in Char : p \in gatt => emitted[p] = v}

PortShows(p, f, v) == Outcome(port, Tellers(p, f, v), Deniers(p, f, v), p, Shown(f, v))
ReplyShows(p, f, v) ==
  IF p \in todo THEN p \notin Char /\ snap[p][f] = v ELSE PortShows(p, f, v)

WireTells(p, f, v)  == {i \in DOMAIN wire : Tells(wire[i], p, f, v) /\ Heard(i)}
WireDenies(p, f, v) == {i \in DOMAIN wire : Denies(wire[i], p, f, v)}
WireShows(p, f, v) ==
  Prevails(WireTells(p, f, v), WireDenies(p, f, v), Len(wire), ReplyShows(p, f, v))

ValuesAgree == \A p \in Path, f \in Tracked, v \in Nat : Owed(p, f, v) => WireShows(p, f, v)

\* Before the snapshot only objects that appear and disappear are on the wire.
AddedAt(i, p) == wire[i].sig = "added" /\ wire[i].path = p
BeforeSnapshot ==
  /\ \A i \in DOMAIN wire : wire[i].sig # "changed"
  /\ \A p \in Path : Pending("added", p)
       => \E i \in DOMAIN wire : AddedAt(i, p) /\ \A j \in DOMAIN wire : AddedAt(j, p) => j <= i

ValueInv ==
  /\ \A p \in Path : after[p] <= stamp
  /\ phase = "constructed" => BeforeSnapshot
  /\ phase = "posting" => notify_proxies = {} /\ Pairs(Char) \subseteq gap
  /\ Creating => ValuesAgree

\* A signal joins the wire and the rest stays as it is.
LEMMA WireShowsSent ==
  ASSUME wire \in Seq(Signal), NEW m \in Signal, wire' = Append(wire, m),
         UNCHANGED <<proxies, port, todo, snap, clientVars>>,
         NEW p, NEW f, NEW v, ~ Denies(m, p, f, v),
         WireShows(p, f, v) \/ (Tells(m, p, f, v) /\ Heard(Len(wire))')
  PROVE  WireShows(p, f, v)'
<1> PICK n \in Nat : n = Len(wire)
  BY Grown
<1> DEFINE A == WireTells(p, f, v)  B == WireTells(p, f, v)'
           R == WireDenies(p, f, v) T == WireDenies(p, f, v)'
           b == ReplyShows(p, f, v) c == ReplyShows(p, f, v)'
<1>1. /\ wire' \in Seq(Signal) /\ Len(wire') = n + 1 /\ wire'[n + 1] = m
      /\ DOMAIN wire = 1 .. n /\ DOMAIN wire' = 1 .. n + 1
      /\ \A i \in 1 .. n : wire'[i] = wire[i]
  BY Grown
<1>2. b => c
  BY DEF ReplyShows, PortShows, Shown, clientVars
<1>3. ASSUME NEW i \in 1 .. n, Heard(i) PROVE Heard(i)'
  <2>1. wire'[i] = wire[i] /\ i <= n
    BY <1>1
  <2>2. Reaches(wire[i])' <=> Reaches(wire[i])
    BY <2>1 DEF Reaches, Subscribed, proxies
  <2>3. \A j \in 1 .. n + 1 : j \in 1 .. n \/ j > i
    BY <2>1
  <2> QED BY <1>1, <1>3, <2>1, <2>2, <2>3 DEF Heard
<1>4. A \in SUBSET Nat /\ B \in SUBSET Nat /\ R \in SUBSET Nat /\ T \in SUBSET Nat
  BY <1>1 DEF WireTells, WireDenies
<1>5. /\ \A i \in A : i <= n => i \in B
      /\ \A i \in T : i <= n => i \in R
  <2>1. \A i \in A : i \in B
    BY <1>1, <1>3 DEF WireTells, Tells
  <2>2. \A i \in T : i <= n => i \in R
    BY <1>1 DEF WireDenies, Denies
  <2> QED BY <2>1, <2>2
<1>6. n + 1 \notin T /\ (n + 1 \in B <=> Tells(m, p, f, v) /\ Heard(n + 1)')
  BY <1>1 DEF WireTells, WireDenies, Tells, Denies
<1>7. Prevails(A, R, n, b) \/ n + 1 \in B
  BY <1>1, <1>6 DEF WireShows
<1>8. WireShows(p, f, v)' <=> Prevails(B, T, n + 1, c)
  BY <1>1 DEF WireShows
<1> HIDE DEF A, B, R, T, b, c
<1>9. Prevails(A, R, n, b) => Prevails(B, T, n, c)
  BY <1>2, <1>4, <1>5, PrevailsMore
<1>10. /\ n + 1 \in B => Prevails(B, T, n + 1, c)
       /\ n + 1 \notin B /\ Prevails(B, T, n, c) => Prevails(B, T, n + 1, c)
  BY <1>4, <1>6, PrevailsNext
<1> QED BY <1>7, <1>8, <1>9, <1>10

\* The wire stays as it is, and the matches of p do or more.
LEMMA WireShowsKept ==
  ASSUME wire \in Seq(Signal), UNCHANGED wire, NEW p, NEW f, NEW v, WireShows(p, f, v),
         \A i \in DOMAIN wire : wire[i].path = p /\ Heard(i) => Heard(i)',
         ReplyShows(p, f, v) => ReplyShows(p, f, v)'
  PROVE  WireShows(p, f, v)'
<1> PICK n \in Nat : n = Len(wire)
  BY Grown
<1> DEFINE A == WireTells(p, f, v)  B == WireTells(p, f, v)'
           R == WireDenies(p, f, v) T == WireDenies(p, f, v)'
           b == ReplyShows(p, f, v) c == ReplyShows(p, f, v)'
<1>1. /\ A \in SUBSET Nat /\ B \in SUBSET Nat /\ R \in SUBSET Nat /\ T \in SUBSET Nat
      /\ \A i \in A : i <= n => i \in B
      /\ \A i \in T : i <= n => i \in R
  BY DEF WireTells, WireDenies, Tells, Denies
<1>2. Prevails(A, R, n, b) /\ (b => c)
  BY DEF WireShows
<1>3. WireShows(p, f, v)' <=> Prevails(B, T, n, c)
  BY DEF WireShows
<1> HIDE DEF A, B, R, T, b, c
<1>4. Prevails(B, T, n, c)
  BY <1>1, <1>2, PrevailsMore
<1> QED BY <1>3, <1>4

\* The event loop takes a signal.
LEMMA WireShowsTaken ==
  ASSUME wire \in Seq(Signal), wire # <<>>, wire' = Tail(wire),
         NEW p, NEW f, NEW v, WireShows(p, f, v),
         \A i \in 1 .. Len(wire) - 1 : wire[i + 1].path = p /\ Heard(i + 1) => Heard(i)',
         Tells(Head(wire), p, f, v) /\ Heard(1) => ReplyShows(p, f, v)',
         ~ Denies(Head(wire), p, f, v) /\ ReplyShows(p, f, v) => ReplyShows(p, f, v)'
  PROVE  WireShows(p, f, v)'
<1> PICK n \in Nat : n = Len(wire')
  BY Shrunk
<1> DEFINE A == WireTells(p, f, v)  B == WireTells(p, f, v)'
           R == WireDenies(p, f, v) T == WireDenies(p, f, v)'
           b == ReplyShows(p, f, v) c == ReplyShows(p, f, v)'
<1>1. /\ Head(wire) = wire[1] /\ Len(wire) = n + 1
      /\ DOMAIN wire = 1 .. n + 1 /\ DOMAIN wire' = 1 .. n
      /\ \A i \in 1 .. n : wire'[i] = wire[i + 1]
  BY Shrunk
<1>2. /\ A \in SUBSET Nat /\ B \in SUBSET Nat /\ R \in SUBSET Nat /\ T \in SUBSET Nat
      /\ 0 \notin A \cup B \cup T
  BY <1>1 DEF WireTells, WireDenies
<1>3. ASSUME NEW i \in 1 .. n
      PROVE  (i + 1 \in A => i \in B) /\ (i \in T => i + 1 \in R)
  <2>1. wire'[i] = wire[i + 1] /\ i \in 1 .. Len(wire) - 1 /\ i + 1 \in DOMAIN wire /\ i \in DOMAIN wire'
    BY <1>1
  <2> QED BY <2>1 DEF WireTells, WireDenies, Tells, Denies
<1>4. /\ 1 \in A <=> Tells(Head(wire), p, f, v) /\ Heard(1)
      /\ 1 \in R <=> Denies(Head(wire), p, f, v)
  BY <1>1 DEF WireTells, WireDenies, Tells, Denies
<1>5. (1 \in A => c) /\ (1 \notin A \cup R => (b => c))
  BY <1>4
<1>6. Prevails(A, R, n + 1, b)
  BY <1>1 DEF WireShows
<1> HIDE DEF A, B, R, T, b, c
<1>7. Prevails(B, T, n, c)
  BY <1>2, <1>3, <1>5, <1>6, PrevailsShift
<1> QED BY <1>7 DEF WireShows, B, T, c

\* A message joins the isolate's queue, or is taken from it.
LEMMA PortShowsPosted ==
  ASSUME port \in Seq(Message), NEW m \in Message, port' = Append(port, m),
         UNCHANGED clientVars, NEW p, NEW f, NEW v
  PROVE  /\ m \in Tellers(p, f, v) => PortShows(p, f, v)'
         /\ m \notin Deniers(p, f, v) /\ PortShows(p, f, v) => PortShows(p, f, v)'
<1> DEFINE A == Tellers(p, f, v)  R == Deniers(p, f, v)  D == Shown(f, v)
           r == Append(port, m)
<1>1. A \cap R = {}
  BY DEF Tellers, Deniers, Sets
<1>2. PortShows(p, f, v)' <=> Outcome(r, A, R, p, D)
  BY DEF PortShows, Shown, clientVars, Tellers, Deniers, Message
<1>3. PortShows(p, f, v) <=> Outcome(port, A, R, p, D)
  BY DEF PortShows
<1> HIDE DEF A, R, D
<1>4. /\ m \in A => Outcome(r, A, R, p, D)
      /\ m \notin A \cup R => (Outcome(r, A, R, p, D) <=> Outcome(port, A, R, p, D))
  BY <1>1, OutcomeAppend
<1> QED BY <1>2, <1>3, <1>4 DEF A, R

LEMMA PortShowsTaken ==
  ASSUME port \in Seq(Message), port # <<>>, port' = Tail(port), NEW p, NEW f, NEW v,
         PortShows(p, f, v),
         Head(port) \in Tellers(p, f, v) => p \in Shown(f, v)',
         Head(port) \notin Deniers(p, f, v) /\ p \in Shown(f, v) => p \in Shown(f, v)'
  PROVE  PortShows(p, f, v)'
<1> DEFINE A == Tellers(p, f, v)  R == Deniers(p, f, v)  D == Shown(f, v)  E == Shown(f, v)'
<1>1. A \cap R = {}
  BY DEF Tellers, Deniers, Sets
<1>2. PortShows(p, f, v)' <=> Outcome(Tail(port), A, R, p, E)
  BY DEF PortShows, Tellers, Deniers, Message
<1>3. Outcome(port, A, R, p, D)
  BY DEF PortShows
<1>4. (Head(port) \in A => p \in E) /\ (Head(port) \notin A \cup R => (p \in D => p \in E))
  OBVIOUS
<1> HIDE DEF A, R, D, E
<1> QED BY <1>1, <1>2, <1>3, <1>4, OutcomePassed

\* The signal handlers: what they post and which matches they leave.
LEMMA AddedShows ==
  ASSUME TypeOK, NEW p \in Path, NEW w \in Values, on_interfaces_added(p, w), UNCHANGED clientVars
  PROVE  /\ \A q \in Adapter \cup Device, f \in Tracked :
              \A v : q = p /\ w[f] = v => PortShows(q, f, v)'
         /\ \A q, f, v : ~ (q = p /\ (p \in Char \/ w[f] # v)) /\ PortShows(q, f, v)
                           => PortShows(q, f, v)'
         /\ Subscribed \subseteq Subscribed'
         /\ \A q \in Path : /\ after'[q] \in {after[q], stamp}
                            /\ q \in Subscribed => after'[q] = after[q]
<1>1. PICK t \in {"AdapterProps", "DeviceAdded", "ServiceAdded", "CharAdded", "DescAdded"} :
        /\ p \in PathsOf[t] /\ post_glaze(t, p, Field, w)
        /\ p \in Adapter => t = "AdapterProps"
        /\ p \in Device => t = "DeviceAdded"
        /\ t = "CharAdded" => p \in Char
  <2>1. CASE p \in Adapter
    BY <2>1, KindFacts, PathsOfFacts DEF on_interfaces_added, Adapter, Service, Char, Desc
  <2>2. CASE p \in Device
    BY <2>2, KindFacts, PathsOfFacts DEF on_interfaces_added
  <2>3. CASE p \notin Adapter \cup Device
    <3>1. /\ GattAddedTag(p) \in {"ServiceAdded", "CharAdded", "DescAdded"}
          /\ p \in PathsOf[GattAddedTag(p)]
          /\ GattAddedTag(p) = "CharAdded" => p \in Char
      BY <2>3, KindFacts, PathsOfFacts DEF GattAddedTag, Service, Char, Desc
    <3>2. post_glaze(GattAddedTag(p), p, Field, w)
      BY <2>3 DEF on_interfaces_added
    <3> QED BY <2>3, <3>1, <3>2
  <2> QED BY <2>1, <2>2, <2>3
<1>2. PICK m \in Message : m = Msg(t, p, Field, w)
  <2>1. t \in Tags
    BY DEF Tags
  <2>2. Msg(t, p, Field, w) \in Message
    BY <1>1, <2>1, MsgType
  <2> QED BY <2>2
<1>3. /\ port \in Seq(Message) /\ port' = Append(port, m)
      /\ m.tag = t /\ m.path = p /\ m.mask = Field /\ m.vals = w
  BY <1>1, <1>2 DEF Msg, TypeOK, ManagerTypeOK, post_glaze
<1>4. ASSUME NEW q \in Adapter \cup Device, NEW f \in Tracked, NEW v, q = p, w[f] = v
      PROVE  m \in Tellers(q, f, v)
  <2>1. t \in {"AdapterProps", "DeviceAdded"} /\ f \in Field
    BY <1>1, <1>4, ValueFacts
  <2> QED BY <1>3, <1>4, <2>1 DEF Tellers, Sets
<1>5. ASSUME NEW q, NEW f, NEW v, ~ (q = p /\ (p \in Char \/ w[f] # v))
      PROVE  m \notin Deniers(q, f, v)
  BY <1>1, <1>3, <1>5 DEF Deniers, Sets
<1>6. /\ adapter_proxies \subseteq Adapter /\ device_proxies \subseteq Device /\ notify_proxies \subseteq Char
      /\ after \in [Path -> Nat]
  BY DEF TypeOK, ManagerTypeOK
<1>7. \/ /\ p \in Adapter /\ adapter_proxies' = adapter_proxies \cup {p}
         /\ AddMatch(p, adapter_proxies) /\ UNCHANGED <<device_proxies, notify_proxies>>
      \/ /\ p \in Device /\ device_proxies' = device_proxies \cup {p}
         /\ AddMatch(p, device_proxies) /\ UNCHANGED <<adapter_proxies, notify_proxies>>
      \/ UNCHANGED proxies
  BY DEF on_interfaces_added, subscribe_adapter_props, subscribe_device_props, proxies
<1>8. /\ Subscribed \subseteq Subscribed'
      /\ \A q \in Path : /\ after'[q] \in {after[q], stamp}
                         /\ q \in Subscribed => after'[q] = after[q]
  <2>1. p \in Adapter \cup Device \/ UNCHANGED proxies
    BY <1>7
  <2>2. CASE UNCHANGED proxies
    BY <2>2 DEF proxies, Subscribed
  <2>3. CASE p \in Adapter /\ adapter_proxies' = adapter_proxies \cup {p}
             /\ AddMatch(p, adapter_proxies) /\ UNCHANGED <<device_proxies, notify_proxies>>
    BY <1>6, <2>3, KindFacts DEF AddMatch, Subscribed, Adapter, Char
  <2>4. CASE p \in Device /\ device_proxies' = device_proxies \cup {p}
             /\ AddMatch(p, device_proxies) /\ UNCHANGED <<adapter_proxies, notify_proxies>>
    BY <1>6, <2>4, KindFacts DEF AddMatch, Subscribed
  <2> QED BY <1>7, <2>2, <2>3, <2>4
<1>9. ASSUME NEW q, NEW f, NEW v
      PROVE  /\ m \in Tellers(q, f, v) => PortShows(q, f, v)'
             /\ m \notin Deniers(q, f, v) /\ PortShows(q, f, v) => PortShows(q, f, v)'
  BY <1>3, PortShowsPosted
<1> QED BY <1>4, <1>5, <1>8, <1>9

LEMMA RemovedShows ==
  ASSUME TypeOK, NEW p \in Path, on_interfaces_removed(p), UNCHANGED clientVars
  PROVE  /\ \A q, f, v : PortShows(q, f, v) => PortShows(q, f, v)'
         /\ \A q : q \in Subscribed /\ q # p => q \in Subscribed'
         /\ UNCHANGED after
<1>1. \/ UNCHANGED port
      \/ \E t \in {"DeviceRemoved", "ObjectRemoved"} :
           p \in PathsOf[t] /\ post_glaze(t, p, {}, NoValues)
  BY PathsOfFacts DEF on_interfaces_removed
<1>2. CASE UNCHANGED port
  <2>1. \A q, f, v : PortShows(q, f, v) => PortShows(q, f, v)'
    BY <1>2 DEF PortShows, Shown, clientVars, Tellers, Deniers, Message
  <2> QED BY <2>1 DEF on_interfaces_removed, Subscribed
<1>3. ASSUME NEW t \in {"DeviceRemoved", "ObjectRemoved"}, p \in PathsOf[t],
             post_glaze(t, p, {}, NoValues)
      PROVE  \A q, f, v : PortShows(q, f, v) => PortShows(q, f, v)'
  <2>1. PICK m \in Message : m = Msg(t, p, {}, NoValues)
    BY <1>3, MsgType, ValueFacts DEF Tags
  <2>2. port \in Seq(Message) /\ port' = Append(port, m) /\ m.tag = t
    BY <1>3, <2>1 DEF Msg, TypeOK, ManagerTypeOK, post_glaze
  <2>3. \A q, f, v : m \notin Deniers(q, f, v)
    BY <2>2 DEF Deniers, Sets
  <2> QED BY <2>2, <2>3, PortShowsPosted
<1>4. (\A q : q \in Subscribed /\ q # p => q \in Subscribed') /\ UNCHANGED after
  BY DEF on_interfaces_removed, Subscribed
<1> QED BY <1>1, <1>2, <1>3, <1>4

LEMMA ChangedShows ==
  ASSUME TypeOK, NEW p \in Path, NEW F \in SUBSET Field, NEW w \in Values,
         on_properties_changed(p, F, w), UNCHANGED clientVars,
         NEW q \in Path, NEW f \in Tracked, q \in Char => f = Value, NEW v
  PROVE  /\ q = p /\ f \in F /\ w[f] = v => PortShows(q, f, v)'
         /\ ~ (q = p /\ f \in F /\ w[f] # v) /\ PortShows(q, f, v) => PortShows(q, f, v)'
<1>1. /\ F \cap Tracked \in SUBSET Field /\ {Value} \in SUBSET Field
      /\ adapter_proxies \subseteq Adapter /\ device_proxies \subseteq Device
      /\ notify_proxies \subseteq Char /\ port \in Seq(Message)
  BY ValueFacts DEF TypeOK, ManagerTypeOK
<1>2. ASSUME NEW t \in {"AdapterProps", "DeviceProps", "CharProps"}, NEW G \in SUBSET Field,
             p \in PathsOf[t], post_glaze(t, p, G, w), q = p => (f \in F <=> f \in G),
             q = p /\ t = "CharProps" => f \in F
      PROVE  /\ q = p /\ f \in F /\ w[f] = v => PortShows(q, f, v)'
             /\ ~ (q = p /\ f \in F /\ w[f] # v) /\ PortShows(q, f, v) => PortShows(q, f, v)'
  <2>1. PICK m \in Message : m = Msg(t, p, G, w)
    BY <1>2, MsgType DEF Tags
  <2>2. port' = Append(port, m) /\ m.tag = t /\ m.path = p /\ m.mask = G /\ m.vals = w
    BY <1>2, <2>1 DEF Msg, post_glaze
  <2>3. q = p /\ f \in F /\ w[f] = v => m \in Tellers(q, f, v)
    BY <1>2, <2>2 DEF Tellers, Sets
  <2>4. ~ (q = p /\ f \in F /\ w[f] # v) => m \notin Deniers(q, f, v)
    BY <1>2, <2>2 DEF Deniers, Sets
  <2> QED BY <1>1, <2>2, <2>3, <2>4, PortShowsPosted
<1>3. CASE p \in adapter_proxies /\ post_glaze("AdapterProps", p, F \cap Tracked, w)
  BY <1>1, <1>2, <1>3, PathsOfFacts
<1>4. CASE p \in device_proxies /\ post_glaze("DeviceProps", p, F \cap Tracked, w)
  BY <1>1, <1>2, <1>4, PathsOfFacts
<1>5. CASE p \in notify_proxies /\ Value \in F /\ post_glaze("CharProps", p, {Value}, w)
  BY <1>1, <1>2, <1>5, PathsOfFacts
<1>6. CASE p \in notify_proxies /\ Value \notin F /\ UNCHANGED port
  <2>1. PortShows(q, f, v) => PortShows(q, f, v)'
    BY <1>6 DEF PortShows, Shown, clientVars, Tellers, Deniers, Message
  <2> QED BY <1>1, <1>6, <2>1
<1> QED BY <1>3, <1>4, <1>5, <1>6 DEF on_properties_changed

\* What the event loop hands on reaches the isolate's queue, and a signal that
\* is not handed on says nothing the client is owed.
LEMMA EventLoopValues ==
  ASSUME TypeOK, CleanInv, ValueInv, EventLoop
  PROVE  ValueInv'
<1>1. PICK s \in {"added", "removed", "changed"} : Dispatch(s)
  BY DEF EventLoop, DispatchAdded, DispatchRemoved, DispatchChanged, DispatchUnmatched
<1>2. /\ phase = "running" /\ wire # <<>> /\ wire' = Tail(wire)
      /\ UNCHANGED <<present, truth, stamp, phase, todo, snap, gap, clientVars>>
  BY <1>1 DEF Dispatch, reply, EventLoop, history
<1>3. todo = {} /\ todo' = {}
  BY <1>2 DEF CleanInv
<1>4. PICK h \in Signal : h = Head(wire)
  BY <1>2, SignalTail DEF TypeOK, DaemonTypeOK
<1>5. /\ wire \in Seq(Signal) /\ Len(wire) \in Nat \ {0} /\ wire[1] = h
      /\ DOMAIN wire = 1 .. Len(wire) /\ DOMAIN wire' = 1 .. Len(wire) - 1
      /\ \A i \in 1 .. Len(wire) - 1 : wire'[i] = wire[i + 1]
  BY <1>2, <1>4, Shrunk DEF TypeOK, DaemonTypeOK
<1>6. h.path \in Path /\ h.vals \in Values /\ h.mask \in SUBSET Field
  BY <1>2, <1>4, SignalTail DEF TypeOK, DaemonTypeOK
<1>7. \/ h.sig = "added" /\ on_interfaces_added(h.path, h.vals)
      \/ h.sig = "removed" /\ on_interfaces_removed(h.path)
      \/ h.sig = "changed" /\ on_properties_changed(h.path, h.mask, h.vals) /\ UNCHANGED proxies
      \/ h.sig = "changed" /\ ~ Reaches(h) /\ UNCHANGED <<proxies, port>>
  BY <1>4 DEF EventLoop, DispatchAdded, DispatchRemoved, DispatchChanged, DispatchUnmatched, Dispatch
<1>8. /\ \A q \in Path : q \in Subscribed /\ ~ (h.sig = "removed" /\ h.path = q)
                           => q \in Subscribed' /\ after'[q] = after[q]
      /\ \A q \in Path : after'[q] \in {after[q], stamp}
  <2>1. CASE h.sig = "added" /\ on_interfaces_added(h.path, h.vals)
    BY <1>2, <1>6, <2>1, AddedShows
  <2>2. CASE h.sig = "removed" /\ on_interfaces_removed(h.path)
    BY <1>2, <1>6, <2>2, RemovedShows
  <2>3. CASE UNCHANGED proxies
    BY <2>3 DEF proxies, Subscribed
  <2> QED BY <1>7, <2>1, <2>2, <2>3
<1>9. ASSUME NEW i \in 1 .. Len(wire) - 1, Heard(i + 1) PROVE Heard(i)'
  <2>1. wire'[i] = wire[i + 1] /\ i + 1 \in DOMAIN wire /\ wire[i + 1] \in Signal
    BY <1>5
  <2> SUFFICES ASSUME wire[i + 1].sig = "changed" PROVE Heard(i)'
    BY <2>1 DEF Heard
  <2>2. PICK q \in Path : q = wire[i + 1].path
    BY <2>1 DEF Signal
  <2>3. /\ q \in Subscribed /\ wire[i + 1].at > after[q]
        /\ \A j \in DOMAIN wire : wire[j].sig = "removed" /\ wire[j].path = q => j > i + 1
    BY <1>9, <2>2 DEF Heard, Reaches
  <2>4. ~ (h.sig = "removed" /\ h.path = q)
    BY <1>5, <2>3
  <2>5. q \in Subscribed' /\ after'[q] = after[q]
    BY <1>8, <2>3, <2>4
  <2>6. ASSUME NEW j \in DOMAIN wire', wire'[j].sig = "removed", wire'[j].path = q
        PROVE  j > i
    <3>1. j + 1 \in DOMAIN wire /\ wire[j + 1] = wire'[j] /\ j \in Nat
      BY <1>5
    <3> QED BY <2>3, <2>6, <3>1
  <2> QED BY <2>1, <2>2, <2>3, <2>5, <2>6 DEF Heard, Reaches
<1>10. ASSUME NEW p \in Path, NEW f \in Tracked, NEW v \in Nat, Owed(p, f, v)'
       PROVE  WireShows(p, f, v)'
  <2>1. /\ Owed(p, f, v) /\ WireShows(p, f, v)
        /\ p \in Adapter \cup Device \cup Char /\ (p \in Char => f = Value)
    BY <1>2, <1>10 DEF Owed, ValueInv, ValuesAgree, Creating
  <2>2. (ReplyShows(p, f, v) <=> PortShows(p, f, v)) /\ (ReplyShows(p, f, v)' <=> PortShows(p, f, v)')
    BY <1>3 DEF ReplyShows
  <2>3. /\ Tells(h, p, f, v) /\ Heard(1) => PortShows(p, f, v)'
        /\ ~ Denies(h, p, f, v) /\ PortShows(p, f, v) => PortShows(p, f, v)'
    <3>1. CASE h.sig = "added" /\ on_interfaces_added(h.path, h.vals)
      <4>1. Tells(h, p, f, v) => p \in Adapter \cup Device /\ p = h.path /\ h.vals[f] = v
        BY <2>1, <3>1 DEF Tells
      <4>2. ~ Denies(h, p, f, v) => ~ (p = h.path /\ (p \in Char \/ h.vals[f] # v))
        BY <3>1 DEF Denies
      <4>3. /\ \A q \in Adapter \cup Device, g \in Tracked :
                 \A u : q = h.path /\ h.vals[g] = u => PortShows(q, g, u)'
            /\ \A q, g, u : ~ (q = h.path /\ (h.path \in Char \/ h.vals[g] # u)) /\ PortShows(q, g, u)
                              => PortShows(q, g, u)'
        BY <1>2, <1>6, <3>1, AddedShows
      <4> QED BY <4>1, <4>2, <4>3
    <3>2. CASE h.sig = "removed" /\ on_interfaces_removed(h.path)
      <4>1. ~ Tells(h, p, f, v)
        BY <3>2 DEF Tells
      <4> QED BY <1>2, <1>6, <3>2, <4>1, RemovedShows
    <3>3. CASE h.sig = "changed" /\ on_properties_changed(h.path, h.mask, h.vals)
      <4>1. /\ Tells(h, p, f, v) => p = h.path /\ f \in h.mask /\ h.vals[f] = v
            /\ ~ Denies(h, p, f, v) => ~ (p = h.path /\ f \in h.mask /\ h.vals[f] # v)
        BY <3>3 DEF Tells, Denies
      <4> QED BY <1>2, <1>6, <2>1, <3>3, <4>1, ChangedShows
    <3>4. CASE h.sig = "changed" /\ ~ Reaches(h) /\ UNCHANGED <<proxies, port>>
      <4>1. ~ Heard(1)
        BY <1>5, <3>4 DEF Heard
      <4>2. PortShows(p, f, v) => PortShows(p, f, v)'
        BY <1>2, <3>4 DEF PortShows, Shown, clientVars, Tellers, Deniers, Message
      <4> QED BY <4>1, <4>2
    <3> QED BY <1>7, <3>1, <3>2, <3>3, <3>4
  <2> QED BY <1>2, <1>4, <1>5, <1>9, <2>1, <2>2, <2>3, WireShowsTaken
<1>11. \A p \in Path : after'[p] <= stamp'
  BY <1>2, <1>8 DEF ValueInv, TypeOK, DaemonTypeOK
<1> QED BY <1>2, <1>10, <1>11 DEF ValueInv, ValuesAgree, Creating

\* _onEvent: the object or the stream has what the message says.
LEMMA HandlerShows ==
  ASSUME TypeOK, OnEvent, NEW p \in Adapter \cup Device \cup Char, NEW f \in Tracked,
         p \in Char => f = Value, NEW v \in Nat
  PROVE  /\ Head(port) \in Tellers(p, f, v) => p \in Shown(f, v)'
         /\ Head(port) \notin Deniers(p, f, v) /\ p \in Shown(f, v) => p \in Shown(f, v)'
<1>1. port \in Seq(Message) /\ port # <<>>
  BY DEF OnEvent, OnSentinel, OnAdapterProps, OnDeviceProps, OnCharProps, OnDeviceAdded,
         OnDeviceRemoved, OnServiceAdded, OnCharAdded, OnDescAdded, OnObjectRemoved, OnResult,
         Receive, TypeOK, ManagerTypeOK
<1>2. PICK m \in Message : m = Head(port)
  BY <1>1, MessageTail
<1>3. m.path \in PathsOf[m.tag] /\ m.vals \in Values /\ m.mask \in SUBSET Field
  BY <1>1, <1>2, MessageTail
<1>4. /\ cache \in [Path -> Values] /\ emitted \in [Char -> Nat]
      /\ p \in Path /\ f \in Field
  BY KindFacts, ValueFacts DEF TypeOK, ClientTypeOK
<1>5. /\ Adapter \cap Char = {} /\ Adapter \cap Device = {} /\ Device \cap Char = {}
      /\ (Service \cup Desc) \cap (Adapter \cup Device \cup Char) = {}
  BY KindFacts DEF Adapter, Service, Char, Desc
<1> DEFINE goal == /\ m \in Tellers(p, f, v) => p \in Shown(f, v)'
                   /\ m \notin Deniers(p, f, v) /\ p \in Shown(f, v) => p \in Shown(f, v)'
<1> SUFFICES goal
  BY <1>2
<1>6. CASE OnSentinel \/ OnObjectRemoved \/ OnResult
  <2>1. m.tag \in {"Sentinel", "ObjectRemoved", "StartDone", "StopDone", "Failed"}
        /\ UNCHANGED <<adapters, devices, gatt, cache, emitted>>
    BY <1>2, <1>6 DEF OnSentinel, OnObjectRemoved, OnResult, Receive, clientVars
  <2>2. m \notin Tellers(p, f, v)
    BY <2>1 DEF Tellers, Sets
  <2>3. Shown(f, v)' = Shown(f, v)
    BY <2>1 DEF Shown
  <2> QED BY <2>2, <2>3
<1>7. CASE OnAdapterProps
  <2>1. /\ m.tag = "AdapterProps" /\ m.path \in Adapter /\ m.path \in Path
        /\ adapters' = adapters \cup {m.path}
        /\ UNCHANGED <<devices, gatt, emitted>>
        /\ cache' = [cache EXCEPT ![m.path] =
                       updateProps(IF m.path \in adapters THEN @ ELSE m.vals, m)]
    BY <1>2, <1>3, <1>7, PathsOfFacts, KindFacts DEF OnAdapterProps, Receive
  <2>2. CASE p = m.path
    <3>1. cache'[p][f] = IF f \in m.mask THEN m.vals[f]
                         ELSE IF p \in adapters THEN cache[p][f] ELSE m.vals[f]
      BY <1>4, <2>1, <2>2 DEF updateProps
    <3>2. p \in Adapter /\ p \in adapters'
      BY <2>1, <2>2
    <3>3. m \in Tellers(p, f, v) => f \in m.mask /\ m.vals[f] = v
      BY <2>1 DEF Tellers, Sets
    <3>4. m \notin Deniers(p, f, v) => (f \in m.mask => m.vals[f] = v)
      BY <2>1, <2>2 DEF Deniers, Sets
    <3>5. p \in Shown(f, v) => p \in adapters /\ cache[p][f] = v
      BY <1>5, <3>2 DEF Shown
    <3>6. cache'[p][f] = v => p \in Shown(f, v)'
      BY <3>2 DEF Shown
    <3> QED BY <3>1, <3>3, <3>4, <3>5, <3>6
  <2>3. CASE p # m.path
    <3>1. cache'[p] = cache[p] /\ (p \in adapters' <=> p \in adapters)
      BY <1>4, <2>1, <2>3
    <3> QED BY <2>1, <2>3, <3>1 DEF Shown, Tellers
  <2> QED BY <2>2, <2>3
<1>8. CASE OnDeviceProps
  <2>1. /\ m.tag = "DeviceProps" /\ m.path \in Device /\ m.path \in Path
        /\ UNCHANGED <<adapters, devices, gatt, emitted>>
        /\ cache' = IF m.path \in devices
                    THEN [cache EXCEPT ![m.path] = updateProps(@, m)] ELSE cache
    BY <1>2, <1>3, <1>8, PathsOfFacts, KindFacts DEF OnDeviceProps, Receive
  <2>2. CASE p = m.path
    <3>1. p \in devices => cache'[p][f] = IF f \in m.mask THEN m.vals[f] ELSE cache[p][f]
      BY <1>4, <2>1, <2>2 DEF updateProps
    <3>2. p \in Device /\ p \notin Adapter /\ p \notin Char
      BY <1>5, <2>1, <2>2
    <3>3. m \in Tellers(p, f, v) => f \in m.mask /\ m.vals[f] = v
      BY <2>1 DEF Tellers, Sets
    <3>4. m \notin Deniers(p, f, v) => (f \in m.mask => m.vals[f] = v)
      BY <2>1, <2>2 DEF Deniers, Sets
    <3>5. p \in Shown(f, v) => (p \in devices => cache[p][f] = v)
      BY <3>2 DEF Shown
    <3>6. (p \in devices => cache'[p][f] = v) => p \in Shown(f, v)'
      BY <2>1, <3>2 DEF Shown
    <3> QED BY <3>1, <3>3, <3>4, <3>5, <3>6
  <2>3. CASE p # m.path
    <3>1. cache'[p] = cache[p]
      BY <1>4, <2>1, <2>3
    <3> QED BY <2>1, <2>3, <3>1 DEF Shown, Tellers
  <2> QED BY <2>2, <2>3
<1>9. CASE OnCharProps
  <2>1. /\ m.tag = "CharProps" /\ m.path \in Char
        /\ UNCHANGED <<adapters, devices, gatt, cache>>
        /\ emitted' = IF m.path \in gatt
                      THEN [emitted EXCEPT ![m.path] = m.vals[Value]] ELSE emitted
    BY <1>2, <1>3, <1>9, PathsOfFacts DEF OnCharProps, Receive
  <2>2. CASE p = m.path
    <3>1. p \in Char /\ f = Value /\ p \notin Adapter /\ p \notin Device
      BY <1>5, <2>1, <2>2
    <3>2. p \in gatt => emitted'[p] = m.vals[f]
      BY <1>4, <2>1, <2>2, <3>1
    <3>3. m \in Tellers(p, f, v) => m.vals[f] = v
      BY DEF Tellers
    <3>4. p \in gatt' <=> p \in gatt
      BY <2>1
    <3>5. (p \in gatt => emitted'[p] = v) => p \in Shown(f, v)'
      BY <3>1, <3>4 DEF Shown
    <3>6. m \notin Deniers(p, f, v) => m.vals[f] = v
      BY <2>1, <2>2 DEF Deniers, Sets
    <3> QED BY <3>2, <3>3, <3>5, <3>6
  <2>3. CASE p # m.path
    <3>1. p \in Char => emitted'[p] = emitted[p]
      BY <1>4, <2>1, <2>3
    <3> QED BY <2>1, <2>3, <3>1 DEF Shown, Tellers
  <2> QED BY <2>2, <2>3
<1>10. CASE OnDeviceAdded \/ OnDeviceRemoved
  <2>1. /\ m.tag \in {"DeviceAdded", "DeviceRemoved"} /\ m.path \in Device /\ m.path \in Path
        /\ UNCHANGED <<adapters, emitted>> /\ gatt' \subseteq gatt
        /\ m.tag = "DeviceAdded" => /\ devices' = devices \cup {m.path}
                                    /\ cache' = [cache EXCEPT ![m.path] = m.vals]
        /\ m.tag = "DeviceRemoved" => devices' = devices \ {m.path} /\ cache' = cache
    BY <1>2, <1>3, <1>10, PathsOfFacts, KindFacts DEF OnDeviceAdded, OnDeviceRemoved, Receive
  <2>2. CASE p = m.path
    <3>1. p \in Device /\ p \notin Adapter /\ p \notin Char
      BY <1>5, <2>1, <2>2
    <3>2. CASE m.tag = "DeviceAdded"
      <4>1. cache'[p] = m.vals
        BY <1>4, <2>1, <2>2, <3>2
      <4>2. /\ m \in Tellers(p, f, v) => m.vals[f] = v
            /\ m \notin Deniers(p, f, v) => m.vals[f] = v
        BY <2>2, <3>2 DEF Tellers, Deniers, Sets
      <4> QED BY <3>1, <4>1, <4>2 DEF Shown
    <3>3. CASE m.tag = "DeviceRemoved"
      <4>1. p \notin devices'
        BY <2>1, <2>2, <3>3
      <4> QED BY <3>1, <4>1 DEF Shown
    <3> QED BY <2>1, <3>2, <3>3
  <2>3. CASE p # m.path
    <3>1. cache'[p] = cache[p] /\ (p \in devices' <=> p \in devices)
      BY <1>4, <2>1, <2>3
    <3> QED BY <2>1, <2>3, <3>1 DEF Shown, Tellers
  <2> QED BY <2>1, <2>2, <2>3
<1>11. CASE OnServiceAdded \/ OnCharAdded \/ OnDescAdded
  <2>1. /\ m.tag \in {"ServiceAdded", "CharAdded", "DescAdded"}
        /\ m.path \in Path /\ m.path \notin Adapter \cup Device
        /\ UNCHANGED <<adapters, devices>>
        /\ m.path \in Char => m.tag = "CharAdded"
        /\ \/ \E k \in BOOLEAN : AddGatt(m, k)
           \/ UNCHANGED <<gatt, cache, emitted>>
    <3>1. m.tag \in {"ServiceAdded", "CharAdded", "DescAdded"} /\ UNCHANGED <<adapters, devices>>
          /\ ((\E k \in BOOLEAN : AddGatt(m, k)) \/ UNCHANGED <<gatt, cache, emitted>>)
      <4>1. CASE OnServiceAdded
        BY <1>2, <4>1 DEF OnServiceAdded, Receive
      <4>2. CASE OnCharAdded
        <5>1. (Parent[m.path] \in gatt) \in BOOLEAN
          OBVIOUS
        <5> QED BY <1>2, <4>2, <5>1 DEF OnCharAdded, Receive
      <4>3. CASE OnDescAdded
        <5>1. (Parent[m.path] \in gatt) \in BOOLEAN
          OBVIOUS
        <5> QED BY <1>2, <4>3, <5>1 DEF OnDescAdded, Receive
      <4> QED BY <1>11, <4>1, <4>2, <4>3
    <3>2. m.path \in Path /\ m.path \notin Adapter \cup Device
          /\ (m.path \in Char => m.tag = "CharAdded")
      BY <1>3, <1>5, <3>1, PathsOfFacts, KindFacts
    <3> QED BY <3>1, <3>2
  <2>2. m \notin Tellers(p, f, v)
    BY <2>1 DEF Tellers, Sets
  <2>3. CASE UNCHANGED <<gatt, cache, emitted>>
    BY <2>1, <2>2, <2>3 DEF Shown
  <2>4. CASE \E k \in BOOLEAN : AddGatt(m, k)
    <3>1. /\ gatt' = gatt \cup {m.path} /\ cache' = [cache EXCEPT ![m.path] = m.vals]
          /\ emitted' = IF m.path \in Char THEN [emitted EXCEPT ![m.path] = Blank] ELSE emitted
      BY <2>4 DEF AddGatt
    <3>2. CASE p = m.path
      <4>1. m \in Deniers(p, f, v)
        BY <2>1, <3>2 DEF Deniers
      <4> QED BY <2>2, <4>1
    <3>3. CASE p # m.path
      <4>1. /\ cache'[p] = cache[p] /\ (p \in gatt' <=> p \in gatt)
            /\ p \in Char => emitted'[p] = emitted[p]
        BY <1>4, <2>1, <3>1, <3>3
      <4> QED BY <2>1, <2>2, <3>3, <4>1 DEF Shown
    <3> QED BY <3>2, <3>3
  <2> QED BY <2>1, <2>3, <2>4
<1> QED
  BY <1>6, <1>7, <1>8, <1>9, <1>10, <1>11 DEF OnEvent

LEMMA OnEventValues ==
  ASSUME TypeOK, CleanInv, ValueInv, OnEvent
  PROVE  ValueInv'
<1>1. /\ phase = "running" /\ port # <<>> /\ port' = Tail(port)
      /\ UNCHANGED <<daemonVars, phase, reply, proxies, gap>>
  BY DEF OnEvent, OnSentinel, OnAdapterProps, OnDeviceProps, OnCharProps, OnDeviceAdded,
         OnDeviceRemoved, OnServiceAdded, OnCharAdded, OnDescAdded, OnObjectRemoved, OnResult,
         Receive
<1>2. /\ UNCHANGED <<present, truth, stamp, wire, phase, todo, snap, after, gap>>
      /\ todo = {} /\ todo' = {} /\ UNCHANGED Subscribed
  BY <1>1 DEF daemonVars, reply, proxies, CleanInv, Subscribed
<1>3. port \in Seq(Message) /\ wire \in Seq(Signal)
  BY DEF TypeOK, ManagerTypeOK, DaemonTypeOK
<1>4. \A i \in DOMAIN wire : Heard(i) => Heard(i)'
  BY <1>2 DEF Heard, Reaches
<1>5. ASSUME NEW p \in Path, NEW f \in Tracked, NEW v \in Nat, Owed(p, f, v)'
      PROVE  WireShows(p, f, v)'
  <2>1. /\ Owed(p, f, v) /\ WireShows(p, f, v)
        /\ p \in Adapter \cup Device \cup Char /\ (p \in Char => f = Value)
    BY <1>1, <1>2, <1>5 DEF Owed, ValueInv, ValuesAgree, Creating
  <2>2. /\ Head(port) \in Tellers(p, f, v) => p \in Shown(f, v)'
        /\ Head(port) \notin Deniers(p, f, v) /\ p \in Shown(f, v) => p \in Shown(f, v)'
    BY <2>1, HandlerShows
  <2>3. PortShows(p, f, v) => PortShows(p, f, v)'
    BY <1>1, <1>3, <2>2, PortShowsTaken
  <2>4. ReplyShows(p, f, v) => ReplyShows(p, f, v)'
    BY <1>2, <2>3 DEF ReplyShows
  <2> QED BY <1>2, <1>3, <1>4, <2>1, <2>4, WireShowsKept
<1> QED BY <1>1, <1>2, <1>5 DEF ValueInv, ValuesAgree

\* A step of the isolate's thread, or of the daemon, that posts at most an answer
\* and leaves the wire alone.
LEMMA BystanderValues ==
  ASSUME TypeOK, ValueInv, Creating, Creating',
         UNCHANGED <<wire, truth, todo, snap, clientVars>>,
         present' \subseteq present, gap \subseteq gap',
         \A p \in Path : after'[p] <= stamp',
         phase' = "posting" => phase = "posting" /\ UNCHANGED notify_proxies,
         UNCHANGED port \/ \E t \in {"Sentinel", "StartDone", "StopDone", "Failed"}, c \in Path \cup {Root} :
                             c \in PathsOf[t] /\ post_glaze(t, c, {}, NoValues),
         \A p \in Path, f \in Tracked : <<p, f>> \notin gap'
           => \A i \in DOMAIN wire : wire[i].path = p /\ Heard(i) => Heard(i)'
  PROVE  ValueInv'
<1>1. port \in Seq(Message) /\ wire \in Seq(Signal)
  BY DEF TypeOK, ManagerTypeOK, DaemonTypeOK
<1>2. ASSUME NEW p, NEW f, NEW v, PortShows(p, f, v) PROVE PortShows(p, f, v)'
  <2>1. CASE UNCHANGED port
    BY <1>2, <2>1 DEF PortShows, Shown, clientVars, Tellers, Deniers, Message
  <2>2. ASSUME NEW t \in {"Sentinel", "StartDone", "StopDone", "Failed"}, NEW c \in Path \cup {Root},
               c \in PathsOf[t], post_glaze(t, c, {}, NoValues)
        PROVE  PortShows(p, f, v)'
    <3>1. t \in Tags /\ {} \in SUBSET Field /\ NoValues \in Values
      BY ValueFacts DEF Tags
    <3>2. PICK m \in Message : m = Msg(t, c, {}, NoValues)
      BY <2>2, <3>1, MsgType
    <3>3. port' = Append(port, m) /\ m.tag = t
      BY <2>2, <3>2 DEF Msg, post_glaze
    <3>4. m \notin Deniers(p, f, v)
      BY <3>3 DEF Deniers, Sets
    <3> QED BY <1>1, <1>2, <3>3, <3>4, PortShowsPosted
  <2> QED BY <2>1, <2>2
<1>3. ASSUME NEW p \in Path, NEW f \in Tracked, NEW v \in Nat, Owed(p, f, v)'
      PROVE  WireShows(p, f, v)'
  <2>1. Owed(p, f, v) /\ WireShows(p, f, v) /\ <<p, f>> \notin gap'
    BY <1>3 DEF Owed, ValueInv, ValuesAgree
  <2>2. ReplyShows(p, f, v) => ReplyShows(p, f, v)'
    BY <1>2 DEF ReplyShows
  <2> QED BY <1>1, <2>1, <2>2, WireShowsKept
<1>4. phase' = "posting" => notify_proxies' = {} /\ Pairs(Char) \subseteq gap'
  BY DEF ValueInv
<1>5. phase' # "constructed"
  BY DEF Creating
<1> QED BY <1>3, <1>4, <1>5 DEF ValueInv, ValuesAgree

\* startNotify() and stopNotify(): a new match hears no less, and nothing is
\* owed to the stream whose match is dropped.
LEMMA CallValues ==
  ASSUME TypeOK, CleanInv, ValueInv, CallStep
  PROVE  ValueInv'
<1>1. PICK c \in Char :
        \/ \E op \in {"start", "stop"} :
             /\ \/ GattMethodReturns(op, c) \/ GattCallFails(op, c)
                \/ GattCallBlocks(op, c) \/ GattCallUnbuilt(op, c)
             /\ UNCHANGED gap
        \/ start_notify(c) /\ UNCHANGED gap
        \/ stop_notify(c) /\ gap' = gap \cup Pairs({c})
        \/ \E op \in {"start", "stop"} : post_success(op, c) /\ UNCHANGED gap
  BY DEF CallStep, history
<1>2. /\ phase = "running" /\ phase' = phase /\ c \in Path
      /\ UNCHANGED <<wire, present, stamp, truth, todo, snap, clientVars>>
  <2>1. \E op, from, to : GattStep(op, c, from, to)
    BY <1>1 DEF GattMethodReturns, GattCallFails, GattCallBlocks, GattCallUnbuilt,
                start_notify, stop_notify, post_success
  <2> QED BY <2>1, KindFacts DEF GattStep, daemonVars, reply, CallStep
<1>3. /\ after \in [Path -> Nat] /\ stamp \in Nat /\ wire \in Seq(Signal)
      /\ \A p \in Path : after[p] <= stamp
  BY DEF TypeOK, ManagerTypeOK, DaemonTypeOK, ValueInv
<1>4. \A t \in {"StartDone", "StopDone", "Failed"} : c \in PathsOf[t]
  BY PathsOfFacts
<1>5. CASE UNCHANGED <<proxies, gap>>
  <2>1. UNCHANGED port \/ \E t \in {"StartDone", "StopDone", "Failed"} : post_glaze(t, c, {}, NoValues)
    BY <1>1 DEF GattMethodReturns, GattCallFails, GattCallBlocks, GattCallUnbuilt,
                start_notify, stop_notify, post_success
  <2>2. \A i \in DOMAIN wire : Heard(i) => Heard(i)'
    BY <1>2, <1>5 DEF Heard, Reaches, proxies, Subscribed
  <2>3. UNCHANGED after
    BY <1>5 DEF proxies
  <2> QED BY <1>2, <1>3, <1>4, <1>5, <2>1, <2>2, <2>3, BystanderValues DEF Creating
<1>6. CASE start_notify(c) /\ UNCHANGED gap
  <2>1. /\ Subscribed \subseteq Subscribed' /\ UNCHANGED port
        /\ \A p \in Path : after'[p] <= stamp /\ (p \in Subscribed => after'[p] = after[p])
    <3>1. c \in Subscribed => c \in notify_proxies
      BY KindFacts DEF TypeOK, ManagerTypeOK, Subscribed, Adapter, Char
    <3> QED BY <1>2, <1>3, <1>6, <3>1
            DEF start_notify, subscribe_char_notify, AddMatch, Subscribed
  <2>2. ASSUME NEW i \in DOMAIN wire, Heard(i) PROVE Heard(i)'
    <3>1. wire[i] \in Signal
      BY <1>3
    <3>2. wire[i].path \in Path
      BY <3>1 DEF Signal
    <3> QED BY <1>2, <2>1, <2>2, <3>2 DEF Heard, Reaches
  <2> QED BY <1>2, <1>6, <2>1, <2>2, BystanderValues DEF Creating
<1>7. CASE stop_notify(c) /\ gap' = gap \cup Pairs({c})
  <2>1. /\ \A q : q \in Subscribed /\ q # c => q \in Subscribed'
        /\ UNCHANGED <<port, after>>
    BY <1>7 DEF stop_notify, unsubscribe_char_notify, Subscribed
  <2>2. ASSUME NEW p \in Path, NEW f \in Tracked, <<p, f>> \notin gap',
               NEW i \in DOMAIN wire, wire[i].path = p, Heard(i)
        PROVE  Heard(i)'
    <3>1. p # c
      BY <1>7, <2>2 DEF Pairs
    <3> QED BY <1>2, <2>1, <2>2, <3>1 DEF Heard, Reaches
  <2> QED BY <1>2, <1>3, <1>7, <2>1, <2>2, BystanderValues DEF Creating
<1>8. \/ UNCHANGED <<proxies, gap>> \/ (start_notify(c) /\ UNCHANGED gap)
      \/ (stop_notify(c) /\ gap' = gap \cup Pairs({c}))
  BY <1>1 DEF GattMethodReturns, GattCallFails, GattCallBlocks, GattCallUnbuilt, post_success
<1> QED BY <1>5, <1>6, <1>7, <1>8

\* GetManagedObjects replies: the reply gives every property its value, unless
\* an InterfacesAdded queued before it says another.
LEMMA SnapshotValues ==
  ASSUME TypeOK, CleanInv, ValueInv, Snapshot
  PROVE  ValueInv'
<1>1. /\ phase = "constructed" /\ phase' = "posting" /\ todo' = present /\ snap' = truth
      /\ UNCHANGED <<present, truth, stamp, wire, proxies, port, clientVars>>
      /\ gap' = Pairs(Char) \cup
            {e \in Pairs(present) : /\ Pending("added", e[1])
                                    /\ QueuedValues(e[1])[e[2]] # truth[e[1]][e[2]]}
  BY DEF Snapshot, get_managed_objects, daemonVars
<1>2. /\ Subscribed = {} /\ notify_proxies' = {}
      /\ \A p \in Path : after'[p] <= stamp'
  BY <1>1 DEF CleanInv, Creating, Subscribed, proxies, ValueInv
<1>3. wire \in Seq(Signal) /\ present \subseteq Path /\ BeforeSnapshot
  BY <1>1 DEF TypeOK, DaemonTypeOK, ValueInv
<1> PICK n \in Nat : n = Len(wire) /\ DOMAIN wire = 1 .. n
  BY <1>3
<1>4. ASSUME NEW p \in Path, NEW f \in Tracked, NEW v \in Nat, Owed(p, f, v)'
      PROVE  WireShows(p, f, v)'
  <2>1. p \in present /\ truth[p][f] = v /\ <<p, f>> \notin gap' /\ p \notin Char
    BY <1>1, <1>4 DEF Owed, Pairs
  <2>2. ReplyShows(p, f, v)'
    BY <1>1, <2>1 DEF ReplyShows
  <2> DEFINE B == WireTells(p, f, v)'  T == WireDenies(p, f, v)'
  <2>3. B \in SUBSET Nat /\ T \in SUBSET Nat
    BY <1>1 DEF WireTells, WireDenies
  <2>4. WireShows(p, f, v)' <=> Prevails(B, T, n, ReplyShows(p, f, v)')
    BY <1>1 DEF WireShows
  <2>5. \A i \in B \cup T : AddedAt(i, p)
    BY <1>1, <1>3 DEF WireTells, Tells, WireDenies, Denies, AddedAt, BeforeSnapshot
  <2>6. CASE ~ Pending("added", p)
    <3>1. B \cup T = {}
      BY <1>1, <2>5, <2>6 DEF WireTells, WireDenies, AddedAt, Pending
    <3> QED BY <2>2, <2>4, <3>1 DEF Prevails
  <2>7. CASE Pending("added", p)
    <3>1. PICK i \in DOMAIN wire : AddedAt(i, p) /\ \A j \in DOMAIN wire : AddedAt(j, p) => j <= i
      BY <1>3, <2>7 DEF BeforeSnapshot
    <3>2. QueuedValues(p) = wire[i].vals
      <4> DEFINE S == {j \in DOMAIN wire : wire[j].sig = "added" /\ wire[j].path = p}
                 k == CHOOSE k \in S : \A j \in S : j <= k
      <4>1. i \in S /\ (\A j \in S : j <= i) /\ S \in SUBSET Nat
        BY <3>1 DEF AddedAt
      <4> HIDE DEF S
      <4>2. k \in S /\ \A j \in S : j <= k
        BY <4>1
      <4>3. k <= i /\ i <= k /\ k \in Nat /\ i \in Nat
        BY <4>1, <4>2
      <4>4. k = i
        BY <4>3
      <4> QED BY <4>4 DEF QueuedValues, S
    <3>3. QueuedValues(p)[f] = v
      BY <1>1, <2>1, <2>7 DEF Pairs
    <3>4. i \in B
      BY <1>1, <2>1, <3>1, <3>2, <3>3 DEF WireTells, Tells, Heard, AddedAt
    <3>5. i \notin T /\ \A j \in T : j <= i
      <4>1. ~ Denies(wire'[i], p, f, v)
        BY <1>1, <2>1, <3>1, <3>2, <3>3 DEF Denies, AddedAt
      <4>2. \A j \in T : j \in DOMAIN wire /\ Denies(wire'[j], p, f, v)
        BY <1>1 DEF WireDenies, Denies
      <4>3. \A j \in T : AddedAt(j, p)
        BY <2>5
      <4> QED BY <3>1, <4>1, <4>2, <4>3
    <3>6. i <= n /\ \A j \in T : j < i
      BY <2>3, <3>1, <3>4, <3>5
    <3> QED BY <2>4, <3>4, <3>6 DEF Prevails
  <2> QED BY <2>6, <2>7
<1> QED BY <1>1, <1>2, <1>4 DEF ValueInv, ValuesAgree

\* bluez_client_create posts an object of the reply.
LEMMA PostValues ==
  ASSUME TypeOK, CleanInv, ValueInv, PostSnapshot
  PROVE  ValueInv'
<1>1. PICK p \in Path : PostObject(p)
  BY DEF PostSnapshot
<1>2. /\ phase = "posting" /\ p \in todo /\ todo' = todo \ {p}
      /\ on_interfaces_added(p, snap[p]) /\ snap[p] \in Values
      /\ UNCHANGED <<present, truth, stamp, wire, phase, snap, gap, clientVars>>
  BY <1>1 DEF PostObject, PostSnapshot, daemonVars, history, TypeOK, ManagerTypeOK
<1>3. /\ \A q \in Adapter \cup Device, f \in Tracked :
           \A v : q = p /\ snap[p][f] = v => PortShows(q, f, v)'
      /\ \A q, f, v : ~ (q = p /\ (p \in Char \/ snap[p][f] # v)) /\ PortShows(q, f, v)
                        => PortShows(q, f, v)'
      /\ Subscribed \subseteq Subscribed'
      /\ \A q \in Path : /\ after'[q] \in {after[q], stamp}
                         /\ q \in Subscribed => after'[q] = after[q]
  BY <1>2, AddedShows
<1>4. notify_proxies' = {} /\ Pairs(Char) \subseteq gap
  BY <1>2 DEF on_interfaces_added, ValueInv
<1>5. wire \in Seq(Signal) /\ \A i \in DOMAIN wire : wire[i].path \in Path
  <2>1. wire \in Seq(Signal)
    BY DEF TypeOK, DaemonTypeOK
  <2>2. \A i \in DOMAIN wire : wire[i] \in Signal
    BY <2>1
  <2> QED BY <2>1, <2>2 DEF Signal
<1>6. \A i \in DOMAIN wire : Heard(i) => Heard(i)'
  BY <1>2, <1>3, <1>5 DEF Heard, Reaches
<1>7. ASSUME NEW q \in Path, NEW f \in Tracked, NEW v \in Nat, Owed(q, f, v)'
      PROVE  WireShows(q, f, v)'
  <2>1. /\ Owed(q, f, v) /\ WireShows(q, f, v)
        /\ q \in Adapter \cup Device /\ q \notin Char
    BY <1>2, <1>4, <1>7 DEF Owed, ValueInv, ValuesAgree, Creating, Pairs
  <2>2. ReplyShows(q, f, v) => ReplyShows(q, f, v)'
    <3>1. CASE q = p
      BY <1>2, <1>3, <2>1, <3>1 DEF ReplyShows
    <3>2. CASE q # p
      BY <1>2, <1>3, <3>2 DEF ReplyShows
    <3> QED BY <3>1, <3>2
  <2> QED BY <1>2, <1>5, <1>6, <2>1, <2>2, WireShowsKept
<1>8. \A q \in Path : after'[q] <= stamp'
  BY <1>2, <1>3 DEF ValueInv, TypeOK, DaemonTypeOK
<1> QED BY <1>2, <1>4, <1>7, <1>8 DEF ValueInv, ValuesAgree

\* The daemon sends a signal, or nobody listens for it.
LEMMA SentValues ==
  ASSUME TypeOK, ValueInv, Creating, stamp' \in Nat, stamp <= stamp',
         UNCHANGED <<phase, proxies, port, todo, snap, clientVars>>,
         NEW m \in Signal, UNCHANGED wire \/ wire' = Append(wire, m),
         phase = "posting" => Pairs(Char) \subseteq gap',
         \A q \in Path, f \in Tracked, v \in Nat : Owed(q, f, v)'
           => /\ ~ Denies(m, q, f, v)
              /\ \/ Owed(q, f, v)
                 \/ wire' = Append(wire, m) /\ Tells(m, q, f, v) /\ Heard(Len(wire))'
  PROVE  ValueInv'
<1>1. wire \in Seq(Signal)
  BY DEF TypeOK, DaemonTypeOK
<1>2. ASSUME NEW q \in Path, NEW f \in Tracked, NEW v \in Nat, Owed(q, f, v)'
      PROVE  WireShows(q, f, v)'
  <2>1. Owed(q, f, v) => WireShows(q, f, v)
    BY DEF ValueInv, ValuesAgree
  <2>2. ~ Denies(m, q, f, v)
    BY <1>2
  <2>3. CASE wire' = Append(wire, m)
    <3>1. WireShows(q, f, v) \/ (Tells(m, q, f, v) /\ Heard(Len(wire))')
      BY <1>2, <2>1
    <3> QED BY <1>1, <2>2, <2>3, <3>1, WireShowsSent
  <2>4. CASE UNCHANGED wire
    <3>1. wire' # Append(wire, m)
      BY <1>1, <2>4
    <3>2. WireShows(q, f, v)
      BY <1>2, <2>1, <3>1
    <3>3. \A i \in DOMAIN wire : Heard(i) => Heard(i)'
      BY <2>4 DEF Heard, Reaches, Subscribed, proxies
    <3>4. ReplyShows(q, f, v) => ReplyShows(q, f, v)'
      BY DEF ReplyShows, PortShows, Shown, clientVars, Tellers, Deniers, Message
    <3> QED BY <1>1, <2>4, <3>2, <3>3, <3>4, WireShowsKept
  <2> QED BY <2>3, <2>4
<1>3. ASSUME NEW p \in Path PROVE after'[p] <= stamp'
  <2>1. after'[p] = after[p] /\ after[p] \in Nat /\ stamp \in Nat /\ after[p] <= stamp
    BY DEF proxies, ValueInv, TypeOK, ManagerTypeOK, DaemonTypeOK
  <2> QED BY <2>1
<1>4. phase = "posting" => notify_proxies' = {}
  BY DEF ValueInv, proxies
<1> QED BY <1>2, <1>3, <1>4 DEF ValueInv, ValuesAgree, Creating

\* Before the snapshot the wire only grows.
LEMMA BeforeSnapshotSent ==
  ASSUME wire \in Seq(Signal), BeforeSnapshot, NEW m \in Signal, m.sig # "changed",
         wire' = Append(wire, m)
  PROVE  BeforeSnapshot'
<1> PICK n \in Nat : n = Len(wire)
  BY Grown
<1>1. /\ DOMAIN wire = 1 .. n /\ DOMAIN wire' = 1 .. n + 1 /\ wire'[n + 1] = m
      /\ \A i \in 1 .. n : wire'[i] = wire[i]
  BY Grown
<1>2. ASSUME NEW i \in DOMAIN wire' PROVE wire'[i].sig # "changed"
  BY <1>1, <1>2 DEF BeforeSnapshot
<1>3. ASSUME NEW p \in Path, Pending("added", p)'
      PROVE  \E i \in DOMAIN wire' :
               AddedAt(i, p)' /\ \A j \in DOMAIN wire' : AddedAt(j, p)' => j <= i
  <2>1. \A j \in 1 .. n : AddedAt(j, p)' <=> AddedAt(j, p)
    BY <1>1 DEF AddedAt
  <2>2. CASE AddedAt(n + 1, p)'
    <3>1. \A j \in DOMAIN wire' : j <= n + 1
      BY <1>1
    <3> QED BY <1>1, <2>2, <3>1
  <2>3. CASE ~ AddedAt(n + 1, p)'
    <3>1. PICK k \in DOMAIN wire' : AddedAt(k, p)'
      BY <1>3 DEF Pending, AddedAt
    <3>2. k \in 1 .. n /\ AddedAt(k, p)
      BY <1>1, <2>1, <2>3, <3>1
    <3>3. Pending("added", p)
      BY <1>1, <3>2 DEF Pending, AddedAt
    <3>4. PICK i \in 1 .. n : AddedAt(i, p) /\ \A j \in 1 .. n : AddedAt(j, p) => j <= i
      BY <1>1, <3>3 DEF BeforeSnapshot
    <3>5. ASSUME NEW j \in DOMAIN wire', AddedAt(j, p)' PROVE j <= i
      <4>1. j \in 1 .. n \/ j = n + 1
        BY <1>1
      <4> QED BY <2>1, <2>3, <3>4, <3>5, <4>1
    <3>6. i \in DOMAIN wire' /\ AddedAt(i, p)'
      BY <1>1, <2>1, <3>4
    <3> QED BY <3>5, <3>6
  <2> QED BY <2>2, <2>3
<1> QED BY <1>2, <1>3 DEF BeforeSnapshot

LEMMA AppearValues ==
  ASSUME TypeOK, CleanInv, ValueInv, NEW p \in Path, DaemonAppear(p)
  PROVE  ValueInv'
<1> PICK m : m = InterfacesAdded(p, truth'[p])
  OBVIOUS
<1>1. /\ stamp \in Nat /\ stamp' = stamp + 1 /\ p \notin present /\ present' = present \cup {p}
      /\ truth' = [truth EXCEPT ![p] = [f \in Field |-> stamp + 1]]
      /\ gap' = IF p \in Char THEN gap \cup Pairs({p}) ELSE gap \ Pairs({p})
      /\ Listening => wire' = Append(wire, m)
      /\ UNCHANGED <<phase, proxies, port, todo, snap, clientVars>>
  BY DEF DaemonAppear, Appear, Tick, Route, managerVars, proxies, TypeOK, DaemonTypeOK
<1>2. /\ wire \in Seq(Signal) /\ truth \in [Path -> Values] /\ gap \subseteq Pairs(Path)
      /\ truth'[p] \in Values
  BY DaemonStepType DEF DaemonAppear, TypeOK, DaemonTypeOK
<1>3. m \in Signal /\ m.sig = "added" /\ m.path = p /\ m.vals = truth'[p]
  BY <1>1, <1>2 DEF InterfacesAdded, Signal
<1>4. CASE Creating
  <2>1. wire' = Append(wire, m)
    BY <1>1, <1>4 DEF Creating, Listening
  <2>2. Len(wire) \in Nat /\ Len(wire') = Len(wire) + 1 /\ wire'[Len(wire) + 1] = m
    BY <1>2, <1>3, <2>1, Grown
  <2>3. Heard(Len(wire))'
    BY <1>3, <2>2 DEF Heard
  <2>4. ASSUME NEW q \in Path, NEW f \in Tracked, NEW v \in Nat, Owed(q, f, v)'
        PROVE  /\ ~ Denies(m, q, f, v)
               /\ Owed(q, f, v) \/ Tells(m, q, f, v)
    <3>1. /\ q \in present' /\ q \in Adapter \cup Device \cup Char /\ (q \in Char => f = Value)
          /\ <<q, f>> \notin gap' /\ truth'[q][f] = v
      BY <2>4 DEF Owed
    <3>2. CASE q = p
      <4>1. p \notin Char
        BY <1>1, <3>1, <3>2 DEF Pairs
      <4> QED BY <1>3, <3>1, <3>2, <4>1 DEF Denies, Tells
    <3>3. CASE q # p
      <4>1. truth'[q] = truth[q] /\ q \in present /\ <<q, f>> \notin gap
        BY <1>1, <1>2, <3>1, <3>3 DEF Pairs
      <4> QED BY <1>3, <3>1, <3>3, <4>1 DEF Denies, Owed
    <3> QED BY <3>2, <3>3
  <2>5. phase = "posting" => Pairs(Char) \subseteq gap'
    BY <1>1 DEF ValueInv, Pairs
  <2>6. stamp' \in Nat /\ stamp <= stamp'
    BY <1>1
  <2> QED BY <1>1, <1>3, <1>4, <2>1, <2>3, <2>4, <2>5, <2>6, SentValues
<1>5. CASE ~ Creating
  <2>1. phase = "constructed" => BeforeSnapshot'
    BY <1>1, <1>2, <1>3, BeforeSnapshotSent DEF Listening, ValueInv
  <2>2. \A q \in Path : after'[q] <= stamp'
    BY <1>1 DEF proxies, ValueInv, TypeOK, ManagerTypeOK
  <2> QED BY <1>1, <1>5, <2>1, <2>2 DEF ValueInv, Creating
<1> QED BY <1>4, <1>5

LEMMA VanishValues ==
  ASSUME TypeOK, CleanInv, ValueInv, NEW p \in Path, DaemonVanish(p)
  PROVE  ValueInv'
<1> PICK m : m = InterfacesRemoved(p)
  OBVIOUS
<1>1. /\ stamp \in Nat /\ stamp' = stamp + 1 /\ present' = present \ {p}
      /\ Listening => wire' = Append(wire, m)
      /\ UNCHANGED <<truth, gap, phase, proxies, port, todo, snap, clientVars>>
  BY DEF DaemonVanish, Vanish, Tick, Route, managerVars, proxies, history, TypeOK, DaemonTypeOK
<1>2. wire \in Seq(Signal) /\ m \in Signal /\ m.sig = "removed"
  BY <1>1, ValueFacts DEF InterfacesRemoved, Signal, TypeOK, DaemonTypeOK
<1>3. CASE Creating
  <2>1. wire' = Append(wire, m)
    BY <1>1, <1>3 DEF Creating, Listening
  <2>2. ASSUME NEW q \in Path, NEW f \in Tracked, NEW v \in Nat, Owed(q, f, v)'
        PROVE  ~ Denies(m, q, f, v) /\ Owed(q, f, v)
    BY <1>1, <1>2, <2>2 DEF Owed, Denies
  <2>3. phase = "posting" => Pairs(Char) \subseteq gap'
    BY <1>1 DEF ValueInv
  <2>4. stamp' \in Nat /\ stamp <= stamp'
    BY <1>1
  <2> QED BY <1>1, <1>2, <1>3, <2>1, <2>2, <2>3, <2>4, SentValues
<1>4. CASE ~ Creating
  <2>1. phase = "constructed" => BeforeSnapshot'
    BY <1>1, <1>2, BeforeSnapshotSent DEF Listening, ValueInv
  <2>2. \A q \in Path : after'[q] <= stamp'
    BY <1>1 DEF proxies, ValueInv, TypeOK, ManagerTypeOK
  <2> QED BY <1>1, <1>4, <2>1, <2>2 DEF ValueInv, Creating
<1> QED BY <1>3, <1>4

\* A change is owed to the client when the match it needs is there and will be.
LEMMA ChangeValues ==
  ASSUME TypeOK, CleanInv, ValueInv, NEW p \in Path, NEW F \in SUBSET Field, DaemonChange(p, F)
  PROVE  ValueInv'
<1> PICK m : m = PropertiesChanged(p, F)
  OBVIOUS
<1>1. /\ stamp \in Nat /\ stamp' = stamp + 1 /\ present' = present
      /\ truth' = [truth EXCEPT ![p] = [f \in Field |-> IF f \in F THEN stamp + 1 ELSE truth[p][f]]]
      /\ wire' = IF p \in Subscribed THEN Append(wire, m) ELSE wire
      /\ gap' = IF Live(p) THEN gap \ ({p} \X F)
                ELSE IF Creating THEN gap \cup ({p} \X (F \cap Tracked))
                ELSE gap
      /\ UNCHANGED <<phase, proxies, port, todo, snap, clientVars>>
  BY DEF DaemonChange, Change, Tick, Route, managerVars, proxies, TypeOK, DaemonTypeOK
<1>2. /\ wire \in Seq(Signal) /\ truth \in [Path -> Values]
  BY DEF TypeOK, DaemonTypeOK
<1>3. /\ m \in Signal /\ m.sig = "changed" /\ m.path = p /\ m.mask = F /\ m.at = stamp + 1
      /\ \A f \in F : m.vals[f] = stamp + 1
  <2>1. [f \in Field |-> IF f \in F THEN stamp + 1 ELSE Blank] \in Values
    BY <1>1 DEF Values, Blank
  <2> QED BY <1>1, <2>1 DEF PropertiesChanged, Signal
<1>4. CASE Creating
  <2>1. ASSUME NEW q \in Path, NEW f \in Tracked, NEW v \in Nat, Owed(q, f, v)'
        PROVE  /\ ~ Denies(m, q, f, v)
               /\ \/ Owed(q, f, v)
                  \/ wire' = Append(wire, m) /\ Tells(m, q, f, v) /\ Heard(Len(wire))'
    <3>1. /\ q \in present /\ q \in Adapter \cup Device \cup Char /\ (q \in Char => f = Value)
          /\ <<q, f>> \notin gap' /\ truth'[q][f] = v /\ f \in Field
      BY <1>1, <2>1, ValueFacts DEF Owed
    <3>2. CASE q = p /\ f \in F
      <4>1. Live(p)
        BY <1>1, <1>4, <3>1, <3>2
      <4>2. p \in Subscribed /\ wire' = Append(wire, m) /\ ~ Pending("removed", p)
        BY <1>1, <4>1 DEF Live
      <4>3. v = stamp + 1
        BY <1>1, <1>2, <3>1, <3>2
      <4>4. /\ Len(wire) \in Nat /\ Len(wire') = Len(wire) + 1 /\ wire'[Len(wire) + 1] = m
            /\ DOMAIN wire = 1 .. Len(wire) /\ DOMAIN wire' = 1 .. Len(wire) + 1
            /\ \A i \in 1 .. Len(wire) : wire'[i] = wire[i]
        BY <1>2, <1>3, <4>2, Grown
      <4>5. \A j \in DOMAIN wire' : ~ (wire'[j].sig = "removed" /\ wire'[j].path = p)
        BY <1>3, <4>2, <4>4 DEF Pending
      <4>6. Reaches(m)'
        <5>1. after[p] \in Nat /\ after[p] <= stamp /\ after'[p] = after[p] /\ p \in Subscribed'
          BY <1>1, <4>2 DEF ValueInv, TypeOK, ManagerTypeOK, proxies, Subscribed
        <5>2. stamp + 1 > after'[p]
          BY <1>1, <5>1
        <5> QED BY <1>3, <5>1, <5>2 DEF Reaches
      <4>7. Heard(Len(wire))'
        BY <1>3, <4>4, <4>5, <4>6 DEF Heard
      <4> QED BY <1>3, <3>2, <4>2, <4>3, <4>7 DEF Tells, Denies
    <3>3. CASE ~ (q = p /\ f \in F)
      <4>1. truth'[q][f] = truth[q][f]
        BY <1>1, <1>2, <3>1, <3>3
      <4>2. <<q, f>> \notin gap
        BY <1>1, <3>1, <3>3
      <4> QED BY <1>3, <3>1, <3>3, <4>1, <4>2 DEF Owed, Denies
    <3> QED BY <3>2, <3>3
  <2>2. phase = "posting" => Pairs(Char) \subseteq gap'
    <3> SUFFICES ASSUME phase = "posting" PROVE Pairs(Char) \subseteq gap'
      OBVIOUS
    <3>1. notify_proxies = {} /\ Pairs(Char) \subseteq gap
      BY DEF ValueInv
    <3>2. Live(p) => p \notin Char
      BY <3>1, KindFacts DEF Live, Subscribed, TypeOK, ManagerTypeOK, Adapter, Char
    <3> QED BY <1>1, <3>1, <3>2 DEF Pairs
  <2>3. stamp' \in Nat /\ stamp <= stamp' /\ (UNCHANGED wire \/ wire' = Append(wire, m))
    BY <1>1
  <2> QED BY <1>1, <1>3, <1>4, <2>1, <2>2, <2>3, SentValues
<1>5. CASE ~ Creating
  <2>1. UNCHANGED wire
    BY <1>1, <1>5 DEF CleanInv
  <2>2. phase = "constructed" => BeforeSnapshot'
    BY <2>1 DEF ValueInv, BeforeSnapshot, Pending, AddedAt
  <2>3. \A q \in Path : after'[q] <= stamp'
    BY <1>1 DEF proxies, ValueInv, TypeOK, ManagerTypeOK
  <2> QED BY <1>1, <1>5, <2>2, <2>3 DEF ValueInv, Creating
<1> QED BY <1>4, <1>5

\* One step per action of the bridge.
LEMMA ValueInvNext == TypeOK /\ TypeOK' /\ CleanInv /\ ValueInv /\ [Next]_vars => ValueInv'
<1> SUFFICES ASSUME TypeOK, TypeOK', CleanInv, ValueInv, [Next]_vars PROVE ValueInv'
  OBVIOUS
<1>1. CASE DaemonCrash
  <2>1. /\ stamp \in Nat /\ stamp' = stamp + 1 /\ present' = {}
        /\ UNCHANGED <<truth, wire, phase, proxies, port, todo, snap, gap, clientVars>>
    BY <1>1 DEF DaemonCrash, Crash, Tick, managerVars, proxies, TypeOK, DaemonTypeOK
  <2>2. \A p \in Path : after'[p] <= stamp'
    BY <2>1 DEF proxies, ValueInv, TypeOK, ManagerTypeOK
  <2>3. CASE Creating
    <3>1. \A i \in DOMAIN wire : Heard(i) => Heard(i)'
      BY <2>1 DEF Heard, Reaches, Subscribed, proxies
    <3>2. Creating' /\ UNCHANGED notify_proxies
      BY <2>1, <2>3 DEF Creating, proxies
    <3> QED BY <2>1, <2>2, <2>3, <3>1, <3>2, BystanderValues
  <2>4. CASE ~ Creating
    <3>1. phase = "constructed" => BeforeSnapshot'
      BY <2>1 DEF ValueInv, BeforeSnapshot, Pending, AddedAt
    <3> QED BY <2>1, <2>2, <2>4, <3>1 DEF ValueInv, Creating
  <2> QED BY <2>3, <2>4
<1>2. CASE \E p \in Path : \/ DaemonAppear(p) \/ DaemonVanish(p)
                           \/ \E F \in SUBSET Field : DaemonChange(p, F)
  BY <1>2, AppearValues, VanishValues, ChangeValues
<1>3. CASE Connect
  <2>1. phase = "idle" /\ phase' = "constructed" /\ wire' = wire /\ UNCHANGED <<after, stamp>>
    BY <1>3 DEF Connect, Construct, daemonVars, proxies
  <2>2. wire' = <<>>
    BY <2>1 DEF CleanInv
  <2>3. BeforeSnapshot'
    BY <2>2 DEF BeforeSnapshot, Pending
  <2> QED BY <2>1, <2>3 DEF ValueInv, Creating
<1>4. CASE Snapshot
  BY <1>4, SnapshotValues
<1>5. CASE PostSnapshot
  BY <1>5, PostValues
<1>6. CASE CreateReturns
  <2>1. /\ phase = "posting" /\ phase' = "running" /\ post_glaze("Sentinel", Root, {}, NoValues)
        /\ UNCHANGED <<present, truth, stamp, wire, proxies, todo, snap, gap, clientVars>>
    BY <1>6 DEF CreateReturns, FinishCreate, daemonVars, reply, history
  <2>2. Root \in PathsOf["Sentinel"] /\ Creating /\ Creating'
    BY <2>1, PathsOfFacts DEF Creating
  <2>3. /\ \A i \in DOMAIN wire : Heard(i) => Heard(i)'
        /\ \A p \in Path : after'[p] <= stamp'
    BY <2>1 DEF Heard, Reaches, Subscribed, proxies, ValueInv
  <2> QED BY <2>1, <2>2, <2>3, BystanderValues
<1>7. CASE CreateThrows \/ Close
  <2>1. /\ phase' \in {"idle", "destroyed"} /\ after' = [p \in Path |-> 0]
        /\ stamp' = stamp /\ stamp \in Nat
    BY <1>7 DEF CreateThrows, CreateFails, Close, CloseClient, bluez_client_destroy, Teardown,
                TypeOK, DaemonTypeOK
  <2> QED BY <2>1 DEF ValueInv, Creating
<1>8. CASE EventLoop
  BY <1>8, EventLoopValues
<1>9. CASE CallStep
  BY <1>9, CallValues
<1>10. CASE OnEvent
  BY <1>10, OnEventValues
<1>11. CASE UserCall \/ UNCHANGED vars
  <2>1. UNCHANGED <<present, truth, stamp, wire, proxies, phase, todo, snap, port, gap, clientVars>>
    BY <1>11 DEF UserCall, Notify, vars, daemonVars, managerVars, reply, proxies, history
  <2>2. /\ \A i \in DOMAIN wire : Heard(i) => Heard(i)'
        /\ \A p \in Path : after'[p] <= stamp'
        /\ UNCHANGED notify_proxies
    BY <2>1 DEF Heard, Reaches, Subscribed, proxies, ValueInv
  <2>3. CASE Creating
    <3>1. Creating'
      BY <2>1, <2>3 DEF Creating
    <3> QED BY <2>1, <2>2, <2>3, <3>1, BystanderValues
  <2>4. CASE ~ Creating
    <3>1. phase = "constructed" => BeforeSnapshot'
      BY <2>1 DEF ValueInv, BeforeSnapshot, Pending, AddedAt
    <3> QED BY <2>1, <2>2, <2>4, <3>1 DEF ValueInv, Creating
  <2> QED BY <2>3, <2>4
<1> QED BY <1>1, <1>2, <1>3, <1>4, <1>5, <1>6, <1>7, <1>8, <1>9, <1>10, <1>11
        DEF Next, Work, DaemonStep

\* In every state of the bridge, each value a match covered is still under way to
\* the object or stream it belongs to, or has reached it.
THEOREM ValuesReach == Spec => []ValueInv
<1>1. Init => ValueInv
  BY InitType DEF Init, DaemonInit, ManagerInit, ValueInv, Creating
<1>2. DevicesInv /\ DevicesInv' /\ ValueInv /\ [Next]_vars => ValueInv'
  BY ValueInvNext DEF DevicesInv
<1> QED BY <1>1, <1>2, InvariantHolds, PTL DEF Spec

\* With both queues empty nothing is left to say what the object does not show.
LEMMA QuiescentShows ==
  ASSUME DevicesInv, ValueInv, Quiescent, NEW p \in Path, NEW f \in Tracked,
         p \in present \cap (Adapter \cup Device \cup Char), p \in Char => f = Value,
         <<p, f>> \notin gap
  PROVE  p \in Shown(f, truth[p][f])
<1>1. /\ wire = <<>> /\ port = <<>> /\ todo = {} /\ Creating /\ ValuesAgree
  BY DEF Quiescent, Creating, ValueInv, DevicesInv, CleanInv
<1> PICK v \in Nat : v = truth[p][f]
  BY ValueFacts DEF DevicesInv, TypeOK, DaemonTypeOK, Values
<1>2. WireShows(p, f, v)
  BY <1>1 DEF ValuesAgree, Owed
<1>3. WireTells(p, f, v) = {} /\ WireDenies(p, f, v) = {}
  BY <1>1 DEF WireTells, WireDenies
<1>4. PortShows(p, f, v)
  BY <1>1, <1>2, <1>3 DEF WireShows, Prevails, ReplyShows
<1> QED BY <1>1, <1>4, OutcomeEmpty DEF PortShows

\* A cached property differs from the daemon's only where no match covered its
\* last change (object_manager.cpp posts before it subscribes), or where an
\* InterfacesAdded older than the snapshot overwrote it.
THEOREM CacheKept == Spec => []CacheLagsOnlyInGap
<1>1. DevicesInv /\ ValueInv => CacheLagsOnlyInGap
  <2> SUFFICES ASSUME DevicesInv, ValueInv, Quiescent,
                      NEW p \in present \cap (adapters \cup devices), NEW f \in Tracked,
                      <<p, f>> \notin gap
               PROVE  cache[p][f] = truth[p][f]
    BY DEF CacheLagsOnlyInGap
  <2>1. /\ p \in Path /\ p \in Adapter \cup Device /\ p \notin Char
        /\ p \in Adapter => p \notin Device /\ p \in adapters
        /\ p \in Device => p \notin Adapter /\ p \in devices
    BY KindFacts DEF DevicesInv, TypeOK, DaemonTypeOK, ClientTypeOK, Adapter, Char
  <2>2. p \in Shown(f, truth[p][f])
    BY <2>1, QuiescentShows
  <2> QED BY <2>1, <2>2 DEF Shown
<1> QED BY <1>1, InvariantHolds, ValuesReach, PTL

\* The stream of a subscribed characteristic has carried the last value that
\* changed while its match was installed.
THEOREM NotificationsArrive == Spec => []NotifyDelivers
<1>1. DevicesInv /\ ValueInv => NotifyDelivers
  <2> SUFFICES ASSUME DevicesInv, ValueInv, Quiescent,
                      NEW c \in present \cap gatt \cap Char, <<c, Value>> \notin gap
               PROVE  emitted[c] = truth[c][Value]
    BY DEF NotifyDelivers
  <2>1. c \in Path /\ c \notin Adapter \cup Device /\ Value \in Tracked
    BY KindFacts, FieldAssumption DEF Adapter, Char
  <2>2. c \in Shown(Value, truth[c][Value])
    BY <2>1, QuiescentShows
  <2> QED BY <2>1, <2>2 DEF Shown
<1> QED BY <1>1, InvariantHolds, ValuesReach, PTL
=============================================================================
