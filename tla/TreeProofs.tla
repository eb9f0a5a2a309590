----------------------------- MODULE TreeProofs -----------------------------
(***************************************************************************)
(* Machine-checked, for any object tree: connect() returns with the whole  *)
(* snapshot, and the GATT objects of the known devices are complete once   *)
(* every signal and message has been handled.  Both rest on the order in   *)
(* which a tree is told: an object before those below it.                  *)
(***************************************************************************)
EXTENDS ValueProofs

Gatt == Service \cup Char \cup Desc

\* An object lies under its parent, and a GATT object under its device.
TreeClosed(S) == \A p \in S : ParentPresent(S, p)
Over(p) == {Parent[p], DeviceOf(p)}

-----------------------------------------------------------------------------
(* The tree. *)

LEMMA ParentFacts ==
  /\ \A p \in Path : p \in Nat /\ Parent[p] \in Path \cup {Root} /\ Parent[p] < p /\ Root \notin Path
  /\ \A p \in Adapter : Parent[p] = Root
  /\ \A p \in Device : Parent[p] = Root \/ Parent[p] \in Adapter
  /\ \A p \in Service : Parent[p] \in Device
  /\ \A p \in Char : Parent[p] \in Service
  /\ \A p \in Desc : Parent[p] \in Char
  /\ Gatt \subseteq Path
  /\ Adapter \cap (Device \cup Gatt) = {} /\ Device \cap Gatt = {}
  /\ Service \cap (Char \cup Desc) = {} /\ Char \cap Desc = {}
<1>1. ASSUME NEW p \in Path
      PROVE  /\ p \in Nat /\ Parent[p] \in Path \cup {Root} /\ Parent[p] < p /\ Root \notin Path
             /\ Kind[p] \in Kinds
             /\ CASE Kind[p] = "adapter" -> Parent[p] = Root
                  [] Kind[p] = "device"  -> Parent[p] = Root \/ Kind[Parent[p]] = "adapter"
                  [] Kind[p] = "service" -> Parent[p] # Root /\ Kind[Parent[p]] = "device"
                  [] Kind[p] = "char"    -> Parent[p] # Root /\ Kind[Parent[p]] = "service"
                  [] Kind[p] = "desc"    -> Parent[p] # Root /\ Kind[Parent[p]] = "char"
  BY PathAssumption, TreeAssumption
<1>2. /\ \A p \in Adapter : Parent[p] = Root
      /\ \A p \in Device : Parent[p] = Root \/ Parent[p] \in Adapter
      /\ \A p \in Service : Parent[p] \in Device
      /\ \A p \in Char : Parent[p] \in Service
      /\ \A p \in Desc : Parent[p] \in Char
  BY <1>1 DEF Adapter, Device, Service, Char, Desc
<1> QED BY <1>1, <1>2 DEF Gatt, Adapter, Device, Service, Char, Desc

\* What lies below a device: its services, their characteristics and their
\* descriptors.
LEMMA BelowFacts ==
  ASSUME NEW d \in Device, NEW p \in Path
  PROVE  p \in Below(d) <=> \/ p \in Service /\ Parent[p] = d
                            \/ p \in Char /\ Parent[Parent[p]] = d
                            \/ p \in Desc /\ Parent[Parent[Parent[p]]] = d
<1>1. p \in Below(d) <=> \/ Parent[p] = d
                         \/ Parent[p] \in Path /\ Parent[Parent[p]] = d
                         \/ /\ Parent[p] \in Path /\ Parent[Parent[p]] \in Path
                            /\ Parent[Parent[Parent[p]]] = d
  BY DEF Below, Children
<1>2. d \in Path /\ d # Root /\ Root \notin Path
  BY KindFacts, ParentFacts
<1>3. CASE p \in Adapter \cup Device
  <2>1. p \notin Service \cup Char \cup Desc
    BY <1>3, ParentFacts DEF Gatt
  <2>2. Parent[p] = Root \/ (Parent[p] \in Adapter /\ Parent[Parent[p]] = Root)
    BY <1>3, ParentFacts
  <2>3. d \notin Adapter
    BY ParentFacts
  <2> QED BY <1>1, <1>2, <2>1, <2>2, <2>3
<1>4. CASE p \in Service
  <2>1. /\ Parent[p] \in Device /\ p \notin Char /\ p \notin Desc
        /\ Parent[Parent[p]] = Root \/ (Parent[Parent[p]] \in Adapter /\ Parent[Parent[Parent[p]]] = Root)
    BY <1>4, ParentFacts
  <2>2. d \notin Adapter
    BY ParentFacts
  <2> QED BY <1>1, <1>2, <1>4, <2>1, <2>2
<1>5. CASE p \in Char
  <2>1. /\ Parent[p] \in Service /\ Parent[Parent[p]] \in Device /\ p \notin Service /\ p \notin Desc
        /\ Parent[Parent[Parent[p]]] = Root \/ Parent[Parent[Parent[p]]] \in Adapter
    BY <1>5, ParentFacts
  <2>2. d \notin Adapter /\ d \notin Service /\ Parent[p] \in Path
    BY <2>1, ParentFacts, KindFacts DEF Gatt
  <2> QED BY <1>1, <1>2, <1>5, <2>1, <2>2
<1>6. CASE p \in Desc
  <2>1. /\ Parent[p] \in Char /\ Parent[Parent[p]] \in Service
        /\ p \notin Service /\ p \notin Char
    BY <1>6, ParentFacts
  <2>2. /\ d \notin Char /\ d \notin Service
        /\ Parent[p] \in Path /\ Parent[Parent[p]] \in Path
    BY <2>1, ParentFacts, KindFacts DEF Gatt
  <2> QED BY <1>1, <1>6, <2>1, <2>2
<1> QED BY <1>3, <1>4, <1>5, <1>6, KindFacts

\* The device of a GATT object is the one device it lies below.
LEMMA DeviceOfFacts ==
  ASSUME NEW p \in Gatt
  PROVE  /\ DeviceOf(p) \in Device
         /\ \A d \in Device : p \in Below(d) <=> d = DeviceOf(p)
         /\ p \in Service => DeviceOf(p) = Parent[p]
         /\ p \in Char \cup Desc => Parent[p] \in Gatt /\ DeviceOf(p) = DeviceOf(Parent[p])
         /\ Parent[p] \in Path /\ Parent[p] < p /\ DeviceOf(p) < p
<1>1. ASSUME NEW q \in Gatt, NEW e \in Device,
             \/ q \in Service /\ Parent[q] = e
             \/ q \in Char /\ Parent[Parent[q]] = e
             \/ q \in Desc /\ Parent[Parent[Parent[q]]] = e
      PROVE  DeviceOf(q) = e /\ \A d \in Device : q \in Below(d) <=> d = e
  <2>1. \A d \in Device : q \in Below(d) <=> d = e
    BY <1>1, BelowFacts, ParentFacts
  <2> QED BY <2>1 DEF DeviceOf
<1>2. CASE p \in Service
  <2>1. Parent[p] \in Device /\ p \notin Char \cup Desc
    BY <1>2, ParentFacts
  <2>2. DeviceOf(p) = Parent[p] /\ \A d \in Device : p \in Below(d) <=> d = Parent[p]
    BY <1>1, <1>2, <2>1
  <2> QED BY <1>2, <2>1, <2>2, ParentFacts, KindFacts
<1>3. CASE p \in Char
  <2>1. /\ Parent[p] \in Service /\ Parent[Parent[p]] \in Device /\ p \notin Service
        /\ Parent[p] \in Gatt
    BY <1>3, ParentFacts DEF Gatt
  <2>2. /\ DeviceOf(p) = Parent[Parent[p]]
        /\ \A d \in Device : p \in Below(d) <=> d = Parent[Parent[p]]
    BY <1>1, <1>3, <2>1
  <2>3. DeviceOf(Parent[p]) = Parent[Parent[p]]
    BY <1>1, <2>1
  <2>4. /\ p \in Nat /\ Parent[p] \in Path /\ Parent[p] \in Nat /\ Parent[p] < p
        /\ Parent[Parent[p]] \in Nat /\ Parent[Parent[p]] < Parent[p]
    BY <1>3, <2>1, ParentFacts, KindFacts
  <2> QED BY <2>1, <2>2, <2>3, <2>4
<1>4. CASE p \in Desc
  <2>1. /\ Parent[p] \in Char /\ Parent[Parent[p]] \in Service
        /\ Parent[Parent[Parent[p]]] \in Device /\ p \notin Service /\ Parent[p] \in Gatt
    BY <1>4, ParentFacts DEF Gatt
  <2>2. /\ DeviceOf(p) = Parent[Parent[Parent[p]]]
        /\ \A d \in Device : p \in Below(d) <=> d = Parent[Parent[Parent[p]]]
    BY <1>1, <1>4, <2>1
  <2>3. DeviceOf(Parent[p]) = Parent[Parent[Parent[p]]]
    BY <1>1, <2>1
  <2>4. /\ p \in Nat /\ Parent[p] \in Path /\ Parent[p] \in Nat /\ Parent[p] < p
        /\ Parent[Parent[p]] \in Nat /\ Parent[Parent[p]] < Parent[p]
        /\ Parent[Parent[Parent[p]]] \in Nat /\ Parent[Parent[Parent[p]]] < Parent[Parent[p]]
    BY <1>4, <2>1, ParentFacts, KindFacts
  <2> QED BY <2>1, <2>2, <2>3, <2>4
<1> QED BY <1>2, <1>3, <1>4 DEF Gatt

\* In a tree that is closed, a GATT object comes with its parent and its device,
\* and neither is without children.
LEMMA OverFacts ==
  ASSUME NEW S \in SUBSET Path, TreeClosed(S), NEW p \in S \cap Gatt, NEW q \in Over(p)
  PROVE  /\ q \in S /\ q \in Nat /\ q < p
         /\ \E r \in S : Parent[r] = q
<1>1. ASSUME NEW r \in S \cap Gatt PROVE Parent[r] \in S
  BY <1>1, DeviceOfFacts, ParentFacts DEF TreeClosed, ParentPresent
<1>2. /\ Parent[p] \in S /\ Parent[p] \in Path /\ Parent[p] < p
      /\ DeviceOf(p) \in Device /\ DeviceOf(p) < p
  BY <1>1, DeviceOfFacts
<1>3. DeviceOf(p) \in S /\ \E r \in S : Parent[r] = DeviceOf(p)
  <2>1. CASE p \in Service
    BY <1>2, <2>1, DeviceOfFacts
  <2>2. CASE p \in Char
    <3>1. Parent[p] \in Service /\ Parent[p] \in Gatt
      BY <2>2, ParentFacts DEF Gatt
    <3>2. DeviceOf(p) = Parent[Parent[p]]
      BY <2>2, <3>1, DeviceOfFacts
    <3> QED BY <1>1, <1>2, <3>1, <3>2
  <2>3. CASE p \in Desc
    <3>1. /\ Parent[p] \in Char /\ Parent[p] \in Gatt
          /\ Parent[Parent[p]] \in Service /\ Parent[Parent[p]] \in Gatt
      BY <2>3, ParentFacts DEF Gatt
    <3>2. /\ DeviceOf(p) = DeviceOf(Parent[p])
          /\ DeviceOf(Parent[p]) = DeviceOf(Parent[Parent[p]])
          /\ DeviceOf(Parent[Parent[p]]) = Parent[Parent[Parent[p]]]
      BY <2>3, <3>1, DeviceOfFacts
    <3> QED BY <1>1, <1>2, <3>1, <3>2
  <2> QED BY <2>1, <2>2, <2>3 DEF Gatt
<1> QED BY <1>2, <1>3, PathAssumption, KindFacts DEF Over

-----------------------------------------------------------------------------
(***************************************************************************)
(* A message that gives a path a new object, or takes its device away,     *)
(* throws away what lies below.  For an object that exists, another one    *)
(* follows that brings it back: on the wire, since it appeared later; in   *)
(* the reply, which is posted in the order of the paths; in the isolate's  *)
(* queue.  The objects that nothing is under way for are all there.        *)
(***************************************************************************)
AddTag(p) == IF p \in Adapter THEN "AdapterProps"
             ELSE IF p \in Device THEN "DeviceAdded" ELSE GattAddedTag(p)
Adds(p) == {m \in Message : m.path = p /\ m.tag = AddTag(p)}
Replaces(q) == {m \in Message : /\ m.path = q
                                /\ m.tag \in {"DeviceAdded", "DeviceRemoved", "ServiceAdded", "CharAdded"}}
Moves(q) == AddedSignals(q) \cup RemovedSignals(q)

Returning(p) == p \in todo \/ Holds(wire, AddedSignals(p))

WireOrder(p, q)  == Followed(wire, Moves(q), AddedSignals(p))
ReplyOrder(p, q) == q \in todo => Returning(p)
PortOrder(p, q)  == Followed(port, Replaces(q), Adds(p)) \/ Returning(p)
Complete(p) ==
  DeviceOf(p) \in devices /\ ~ Holds(port, Adds(p)) /\ ~ Returning(p) => p \in linked

TreeInv ==
  /\ TreeClosed(present)
  /\ \A p \in present \cap Gatt :
       /\ \A q \in Over(p) : WireOrder(p, q) /\ ReplyOrder(p, q) /\ PortOrder(p, q)
       /\ Creating => Complete(p)

LEMMA AddTagFacts ==
  ASSUME NEW p \in Path
  PROVE  /\ AddTag(p) \in {"AdapterProps", "DeviceAdded", "ServiceAdded", "CharAdded", "DescAdded"}
         /\ AddTag(p) \in Tags /\ p \in PathsOf[AddTag(p)]
         /\ p \in Adapter => AddTag(p) = "AdapterProps"
         /\ p \in Device => AddTag(p) = "DeviceAdded"
         /\ p \in Service => AddTag(p) = "ServiceAdded"
         /\ p \in Char => AddTag(p) = "CharAdded"
         /\ p \in Desc => AddTag(p) = "DescAdded"
<1>1. /\ p \in Service => GattAddedTag(p) = "ServiceAdded"
      /\ p \in Char => GattAddedTag(p) = "CharAdded"
      /\ p \in Desc => GattAddedTag(p) = "DescAdded"
  BY DEF GattAddedTag, Service, Char, Desc
<1>2. /\ p \in Adapter => AddTag(p) = "AdapterProps"
      /\ p \in Device => AddTag(p) = "DeviceAdded"
      /\ p \in Gatt => AddTag(p) = GattAddedTag(p)
  BY ParentFacts DEF AddTag
<1>3. {"AdapterProps", "DeviceAdded", "ServiceAdded", "CharAdded", "DescAdded"} \subseteq Tags
  BY DEF Tags
<1> QED BY <1>1, <1>2, <1>3, KindFacts, PathsOfFacts DEF Gatt

\* on_interfaces_added posts the object.
LEMMA AddedMessage ==
  ASSUME TypeOK, NEW p \in Path, NEW v \in Values, on_interfaces_added(p, v)
  PROVE  /\ Msg(AddTag(p), p, Field, v) \in Adds(p)
         /\ port' = Append(port, Msg(AddTag(p), p, Field, v))
<1>1. Msg(AddTag(p), p, Field, v) \in Message
  BY AddTagFacts, MsgType
<1>2. post_glaze(AddTag(p), p, Field, v)
  <2>1. CASE p \in Adapter
    BY <2>1, ParentFacts DEF on_interfaces_added, AddTag, Gatt
  <2>2. CASE p \in Device
    BY <2>2, ParentFacts DEF on_interfaces_added, AddTag, Gatt
  <2>3. CASE p \in Gatt
    BY <2>3, ParentFacts DEF on_interfaces_added, AddTag, Gatt
  <2> QED BY <2>1, <2>2, <2>3, KindFacts DEF Gatt
<1> QED BY <1>1, <1>2 DEF Adds, Msg, post_glaze

\* What the event loop posts replaces an object only when its signal says so.
LEMMA EventLoopPosts ==
  ASSUME TypeOK, EventLoop
  PROVE  \/ UNCHANGED port /\ Head(wire).sig # "added"
         \/ \E m \in Message :
              /\ port' = Append(port, m)
              /\ Head(wire).sig = "added" => m \in Adds(Head(wire).path)
              /\ \A q : m \in Replaces(q) => Head(wire) \in Moves(q)
<1>1. PICK s \in {"added", "removed", "changed"} : Dispatch(s)
  BY DEF EventLoop, DispatchAdded, DispatchRemoved, DispatchChanged, DispatchUnmatched
<1>2. PICK h \in Signal : h = Head(wire)
  BY <1>1, SignalTail DEF Dispatch, TypeOK, DaemonTypeOK
<1>3. h.path \in Path /\ h.vals \in Values /\ h.mask \in SUBSET Field
  BY <1>2 DEF Signal
<1>4. CASE DispatchAdded
  <2> DEFINE m == Msg(AddTag(h.path), h.path, Field, h.vals)
  <2>1. h.sig = "added" /\ on_interfaces_added(h.path, h.vals)
    BY <1>2, <1>4 DEF DispatchAdded, Dispatch
  <2>2. m \in Adds(h.path) /\ port' = Append(port, m)
    BY <1>3, <2>1, AddedMessage
  <2>3. m \in Message /\ \A q : m \in Replaces(q) => h \in Moves(q)
    BY <2>1, <2>2 DEF Adds, Replaces, Moves, AddedSignals
  <2> QED BY <1>2, <2>2, <2>3
<1>5. CASE DispatchRemoved
  <2>1. h.sig = "removed" /\ on_interfaces_removed(h.path)
    BY <1>2, <1>5 DEF DispatchRemoved, Dispatch
  <2>2. \/ UNCHANGED port
        \/ \E t \in {"DeviceRemoved", "ObjectRemoved"} :
             h.path \in PathsOf[t] /\ post_glaze(t, h.path, {}, NoValues)
    BY <2>1, PathsOfFacts DEF on_interfaces_removed
  <2>3. CASE UNCHANGED port
    BY <1>2, <2>1, <2>3
  <2>4. ASSUME NEW t \in {"DeviceRemoved", "ObjectRemoved"}, h.path \in PathsOf[t],
               post_glaze(t, h.path, {}, NoValues)
        PROVE  \E m \in Message : port' = Append(port, m) /\ \A q : m \in Replaces(q) => h \in Moves(q)
    <3>1. Msg(t, h.path, {}, NoValues) \in Message
      BY <2>4, MsgType, ValueFacts DEF Tags
    <3> QED BY <2>1, <2>4, <3>1 DEF post_glaze, Msg, Replaces, Moves, RemovedSignals
  <2> QED BY <1>2, <2>1, <2>2, <2>3, <2>4
<1>6. CASE DispatchChanged
  <2>1. h.sig = "changed" /\ on_properties_changed(h.path, h.mask, h.vals)
    BY <1>2, <1>6 DEF DispatchChanged, Dispatch
  <2>2. /\ adapter_proxies \subseteq Adapter /\ device_proxies \subseteq Device
        /\ notify_proxies \subseteq Char
        /\ h.mask \cap Tracked \in SUBSET Field /\ {Value} \in SUBSET Field
    BY <1>3, ValueFacts DEF TypeOK, ManagerTypeOK
  <2>3. \/ UNCHANGED port
        \/ \E t \in {"AdapterProps", "DeviceProps", "CharProps"}, F \in SUBSET Field :
             h.path \in PathsOf[t] /\ post_glaze(t, h.path, F, h.vals)
    BY <2>1, <2>2, PathsOfFacts DEF on_properties_changed
  <2>4. CASE UNCHANGED port
    BY <1>2, <2>1, <2>4
  <2>5. ASSUME NEW t \in {"AdapterProps", "DeviceProps", "CharProps"}, NEW F \in SUBSET Field,
               h.path \in PathsOf[t], post_glaze(t, h.path, F, h.vals)
        PROVE  \E m \in Message : port' = Append(port, m) /\ \A q : m \notin Replaces(q)
    <3>1. Msg(t, h.path, F, h.vals) \in Message
      BY <1>3, <2>5, MsgType DEF Tags
    <3> QED BY <2>5, <3>1 DEF post_glaze, Msg, Replaces
  <2> QED BY <1>2, <2>1, <2>3, <2>4, <2>5
<1>7. CASE DispatchUnmatched
  BY <1>7 DEF DispatchUnmatched, Dispatch
<1> QED BY <1>4, <1>5, <1>6, <1>7 DEF EventLoop

LEMMA EventLoopTree ==
  ASSUME TypeOK, CleanInv, TreeInv, EventLoop
  PROVE  TreeInv'
<1>1. /\ phase = "running" /\ wire # <<>> /\ wire' = Tail(wire)
      /\ UNCHANGED <<present, phase, todo, devices, linked>>
  BY DEF EventLoop, DispatchAdded, DispatchRemoved, DispatchChanged, DispatchUnmatched, Dispatch,
         reply, clientVars
<1>2. /\ wire \in Seq(Signal) /\ port \in Seq(Message) /\ present \subseteq Path
      /\ todo = {} /\ todo' = {} /\ Creating
  BY <1>1 DEF TypeOK, DaemonTypeOK, ManagerTypeOK, CleanInv, Creating
<1> PICK h \in Signal : h = Head(wire)
  BY <1>1, <1>2, SignalTail
<1>3. \/ UNCHANGED port /\ h.sig # "added"
      \/ \E m \in Message :
           /\ port' = Append(port, m)
           /\ h.sig = "added" => m \in Adds(h.path)
           /\ \A q : m \in Replaces(q) => h \in Moves(q)
  BY EventLoopPosts
<1>4. ASSUME NEW p \in present \cap Gatt, NEW q \in Over(p)
      PROVE  WireOrder(p, q)' /\ ReplyOrder(p, q)' /\ PortOrder(p, q)'
  <2> DEFINE A == AddedSignals(p)  T == Moves(q)  B == Adds(p)  R == Replaces(q)
  <2>1. /\ Followed(wire, T, A) /\ q < p /\ q \in Nat
        /\ Followed(port, R, B) \/ Holds(wire, A)
    BY <1>2, <1>4, OverFacts DEF TreeInv, WireOrder, PortOrder, Returning
  <2>2. Followed(Tail(wire), T, A) /\ (Holds(wire, T) => Holds(Tail(wire), A))
    BY <1>1, <1>2, <2>1, FollowedTail
  <2>3. Holds(wire, A) <=> Holds(Tail(wire), A) \/ h \in A
    BY <1>1, <1>2, HoldsTail
  <2>4. h \in T => Holds(wire, T)
    BY <1>1, <1>2, HoldsTail
  <2>5. WireOrder(p, q)' /\ ReplyOrder(p, q)'
    BY <1>1, <1>2, <2>2 DEF WireOrder, ReplyOrder, Moves, AddedSignals, RemovedSignals
  <2>6. Followed(port', R, B) \/ Holds(Tail(wire), A)
    <3>1. CASE UNCHANGED port /\ h.sig # "added"
      BY <2>1, <2>3, <3>1 DEF AddedSignals
    <3>2. ASSUME NEW m \in Message, port' = Append(port, m),
                 h.sig = "added" => m \in Adds(h.path), m \in R => h \in T
          PROVE  Followed(port', R, B) \/ Holds(Tail(wire), A)
      <4>1. h \in A => m \in B /\ m \notin R
        BY <2>1, <3>2 DEF AddedSignals, Adds, Replaces
      <4>2. /\ Followed(port, R, B) /\ m \notin R => Followed(port', R, B)
            /\ m \in B /\ m \notin R => Followed(port', R, B)
        BY <1>2, <3>2, FollowedAppend
      <4>3. m \in R => Holds(Tail(wire), A)
        BY <2>2, <2>4, <3>2
      <4> HIDE DEF A, B, R, T
      <4> QED BY <2>1, <2>3, <4>1, <4>2, <4>3
    <3> QED BY <1>3, <3>1, <3>2
  <2>7. PortOrder(p, q)'
    BY <1>1, <1>2, <2>6 DEF PortOrder, Returning, AddedSignals, Adds, Replaces, Message
  <2> QED BY <2>5, <2>7
<1>5. ASSUME NEW p \in present \cap Gatt PROVE Complete(p)'
  <2> DEFINE A == AddedSignals(p)  B == Adds(p)
  <2>1. Complete(p)
    BY <1>2, <1>5 DEF TreeInv
  <2>2. Holds(wire, A) <=> Holds(Tail(wire), A) \/ h \in A
    BY <1>1, <1>2, HoldsTail
  <2>3. Holds(port', B) \/ (~ Holds(port, B) /\ h \notin A)
    <3>1. CASE UNCHANGED port /\ h.sig # "added"
      BY <3>1 DEF AddedSignals
    <3>2. ASSUME NEW m \in Message, port' = Append(port, m), h.sig = "added" => m \in Adds(h.path)
          PROVE  Holds(port', B) \/ (~ Holds(port, B) /\ h \notin A)
      <4>1. (Holds(port', B) <=> Holds(port, B) \/ m \in B) /\ (h \in A => m \in B)
        BY <1>2, <3>2, HoldsAppend DEF AddedSignals
      <4> QED BY <4>1
    <3> QED BY <1>3, <3>1, <3>2
  <2>4. Complete(p)' <=> (DeviceOf(p) \in devices /\ ~ Holds(port', B) /\ ~ Holds(Tail(wire), A)
                            => p \in linked)
    BY <1>1, <1>2 DEF Complete, Returning, AddedSignals, Adds, Message
  <2> QED BY <1>2, <2>1, <2>2, <2>3, <2>4 DEF Complete, Returning
<1> QED BY <1>1, <1>2, <1>4, <1>5 DEF TreeInv, TreeClosed

\* An object of the reply is posted before those below it.
LEMMA PostTree ==
  ASSUME TypeOK, TreeInv, PostSnapshot
  PROVE  TreeInv'
<1>1. PICK x \in Path : PostObject(x)
  BY DEF PostSnapshot
<1>2. /\ x \in todo /\ todo' = todo \ {x} /\ phase = "posting" /\ \A q \in todo : x <= q
      /\ on_interfaces_added(x, snap[x]) /\ snap[x] \in Values
      /\ UNCHANGED <<present, wire, phase, devices, linked>>
  BY <1>1 DEF PostSnapshot, PostObject, TypeOK, ManagerTypeOK, daemonVars, clientVars
<1>3. port \in Seq(Message) /\ present \subseteq Path /\ Creating /\ todo \subseteq Path
  BY <1>2 DEF TypeOK, ManagerTypeOK, DaemonTypeOK, Creating
<1> PICK m \in Message : m \in Adds(x) /\ port' = Append(port, m)
  BY <1>2, AddedMessage DEF Adds
<1>4. ASSUME NEW p \in Path, p # x PROVE Returning(p)' <=> Returning(p)
  BY <1>2, <1>4 DEF Returning, AddedSignals
<1>5. ASSUME NEW p \in present \cap Gatt, NEW q \in Over(p)
      PROVE  WireOrder(p, q)' /\ ReplyOrder(p, q)' /\ PortOrder(p, q)'
  <2> DEFINE B == Adds(p)  R == Replaces(q)
  <2>1. /\ WireOrder(p, q) /\ ReplyOrder(p, q) /\ PortOrder(p, q)
        /\ q < p /\ q \in Nat /\ p \in Path /\ p \in Nat
    BY <1>3, <1>5, OverFacts, ParentFacts DEF TreeInv
  <2>2. WireOrder(p, q)'
    BY <1>2, <2>1 DEF WireOrder, Moves, AddedSignals, RemovedSignals
  <2>3. p = x => q \notin todo
    BY <1>2, <2>1
  <2>4. ReplyOrder(p, q)'
    BY <1>2, <1>4, <2>1, <2>3 DEF ReplyOrder
  <2>5. /\ Followed(port, R, B) /\ m \notin R => Followed(port', R, B)
        /\ m \in B /\ m \notin R => Followed(port', R, B)
    BY <1>3, FollowedAppend
  <2>6. Followed(port', R, B) \/ Returning(p)'
    <3>1. CASE p = x
      <4>1. m \in B /\ m \notin R
        BY <2>1, <3>1 DEF Adds, Replaces
      <4> QED BY <2>5, <4>1
    <3>2. CASE p # x
      <4>1. m \in R => q = x
        BY DEF Adds, Replaces
      <4>2. m \in R => Returning(p)
        BY <1>2, <2>1, <4>1 DEF ReplyOrder
      <4>3. Followed(port, R, B) \/ Returning(p)
        BY <2>1 DEF PortOrder
      <4> HIDE DEF B, R
      <4> QED BY <1>4, <2>1, <2>5, <3>2, <4>2, <4>3
    <3> QED BY <3>1, <3>2
  <2>7. PortOrder(p, q)'
    BY <2>6 DEF PortOrder, Adds, Replaces, Message
  <2> QED BY <2>2, <2>4, <2>7
<1>6. ASSUME NEW p \in present \cap Gatt PROVE Complete(p)'
  <2> DEFINE B == Adds(p)
  <2>1. (Holds(port', B) <=> Holds(port, B) \/ m \in B) /\ Complete(p) /\ p \in Path
    BY <1>3, <1>6, HoldsAppend DEF TreeInv
  <2>2. Complete(p)' <=> (DeviceOf(p) \in devices /\ ~ Holds(port', B) /\ ~ Returning(p)'
                            => p \in linked)
    BY <1>2 DEF Complete, Adds, Message
  <2>3. CASE p = x
    BY <2>1, <2>2, <2>3
  <2>4. CASE p # x
    BY <1>4, <2>1, <2>2, <2>4 DEF Complete
  <2> QED BY <2>3, <2>4
<1> QED BY <1>2, <1>3, <1>5, <1>6 DEF TreeInv, TreeClosed

\* A step that leaves the wire and the reply alone and posts nothing that
\* replaces an object.
LEMMA BystanderTree ==
  ASSUME TypeOK, TreeInv, UNCHANGED <<wire, todo, devices, linked>>,
         present' \subseteq present, TreeClosed(present'), Creating' => Creating,
         UNCHANGED port \/ \E m \in Message : /\ port' = Append(port, m)
                                              /\ \A q : m \notin Replaces(q)
  PROVE  TreeInv'
<1>1. port \in Seq(Message)
  BY DEF TypeOK, ManagerTypeOK
<1>2. ASSUME NEW p \in present \cap Gatt, NEW q \in Over(p)
      PROVE  WireOrder(p, q)' /\ ReplyOrder(p, q)' /\ PortOrder(p, q)'
  <2>1. WireOrder(p, q) /\ ReplyOrder(p, q) /\ PortOrder(p, q)
    BY <1>2 DEF TreeInv
  <2>2. Followed(port, Replaces(q), Adds(p)) => Followed(port', Replaces(q), Adds(p))
    <3>1. ASSUME NEW m \in Message, port' = Append(port, m), m \notin Replaces(q)
          PROVE  Followed(port, Replaces(q), Adds(p)) => Followed(port', Replaces(q), Adds(p))
      BY <1>1, <3>1, FollowedAppend
    <3> QED BY <3>1
  <2>3. Returning(p)' <=> Returning(p)
    BY DEF Returning, AddedSignals
  <2> QED BY <2>1, <2>2, <2>3
          DEF WireOrder, ReplyOrder, PortOrder, Moves, AddedSignals, RemovedSignals, Adds, Replaces, Message
<1>3. ASSUME NEW p \in present \cap Gatt, Creating' PROVE Complete(p)'
  <2>1. Complete(p)
    BY <1>3 DEF TreeInv
  <2>2. Holds(port, Adds(p)) => Holds(port', Adds(p))
    <3>1. ASSUME NEW m \in Message, port' = Append(port, m)
          PROVE  Holds(port, Adds(p)) => Holds(port', Adds(p))
      BY <1>1, <3>1, HoldsAppend
    <3> QED BY <3>1
  <2>3. Returning(p)' <=> Returning(p)
    BY DEF Returning, AddedSignals
  <2> QED BY <2>1, <2>2, <2>3 DEF Complete, Adds, Message
<1> QED BY <1>2, <1>3 DEF TreeInv, TreeClosed

\* Nothing is queued and no client is being created.
LEMMA IdleTree ==
  ASSUME wire' = <<>>, port' = <<>>, todo' = {}, ~ Creating', TreeClosed(present')
  PROVE  TreeInv'
<1>1. \A T, A : Followed(wire', T, A) /\ Followed(port', T, A)
  BY DEF Followed
<1>2. ASSUME NEW p, NEW q PROVE WireOrder(p, q)' /\ ReplyOrder(p, q)' /\ PortOrder(p, q)'
  BY <1>1 DEF WireOrder, ReplyOrder, PortOrder
<1> QED BY <1>2 DEF TreeInv, TreeClosed

\* The daemon sends a signal: of an object that appears it says so, and it moves
\* none that others lie under.
LEMMA SentTree ==
  ASSUME TypeOK, TreeInv, UNCHANGED <<phase, port, todo, devices, linked>>,
         TreeClosed(present'), NEW m \in Signal, wire' = Append(wire, m),
         \A p \in present' \cap Gatt : /\ p \in present \/ m \in AddedSignals(p)
                                       /\ \A q \in Over(p) : m \notin Moves(q)
  PROVE  TreeInv'
<1>1. wire \in Seq(Signal)
  BY DEF TypeOK, DaemonTypeOK
<1>2. ASSUME NEW p \in present' \cap Gatt
      PROVE  Returning(p)' <=> Returning(p) \/ m \in AddedSignals(p)
  BY <1>1, HoldsAppend DEF Returning, AddedSignals
<1>3. ASSUME NEW p \in present' \cap Gatt, NEW q \in Over(p)
      PROVE  WireOrder(p, q)' /\ ReplyOrder(p, q)' /\ PortOrder(p, q)'
  <2> DEFINE A == AddedSignals(p)  T == Moves(q)
  <2>1. /\ Followed(wire, T, A) /\ m \notin T => Followed(wire', T, A)
        /\ m \in A /\ m \notin T => Followed(wire', T, A)
    BY <1>1, FollowedAppend
  <2>2. m \notin T
    BY <1>3
  <2>3. CASE m \in A
    BY <1>2, <2>1, <2>2, <2>3
       DEF WireOrder, ReplyOrder, PortOrder, Moves, AddedSignals, RemovedSignals
  <2>4. CASE p \in present
    <3>1. WireOrder(p, q) /\ ReplyOrder(p, q) /\ PortOrder(p, q)
      BY <1>3, <2>4 DEF TreeInv
    <3> QED BY <1>2, <2>1, <2>2, <3>1
            DEF WireOrder, ReplyOrder, PortOrder, Moves, AddedSignals, RemovedSignals,
                Adds, Replaces, Message
  <2> QED BY <1>3, <2>3, <2>4
<1>4. ASSUME NEW p \in present' \cap Gatt, Creating' PROVE Complete(p)'
  <2>1. CASE m \in AddedSignals(p)
    BY <1>2, <2>1 DEF Complete
  <2>2. CASE p \in present
    <3>1. Complete(p)
      BY <1>4, <2>2 DEF TreeInv, Creating
    <3> QED BY <1>2, <3>1 DEF Complete, Adds, Message
  <2> QED BY <2>1, <2>2
<1> QED BY <1>3, <1>4 DEF TreeInv, TreeClosed

LEMMA DaemonTree ==
  ASSUME TypeOK, CleanInv, TreeInv, DaemonStep
  PROVE  TreeInv'
<1>1. TreeClosed(present) /\ present \subseteq Path /\ stamp \in Nat /\ wire \in Seq(Signal)
  BY DEF TreeInv, TypeOK, DaemonTypeOK
<1>2. /\ UNCHANGED <<phase, port, todo, devices, linked>>
      /\ Creating' => Creating
  BY DEF DaemonStep, DaemonAppear, DaemonVanish, DaemonChange, DaemonCrash, managerVars, clientVars,
         Creating
<1>3. CASE DaemonCrash
  <2>1. wire' = wire /\ present' = {} /\ TreeClosed(present')
    BY <1>3 DEF DaemonCrash, Crash, TreeClosed
  <2> QED BY <1>2, <2>1, BystanderTree
<1>4. ~ Listening => wire = <<>> /\ port = <<>> /\ todo = {} /\ ~ Creating'
  BY <1>2 DEF Listening, CleanInv, Creating, TypeOK, ManagerTypeOK, Phases
<1>5. ASSUME NEW x \in Path, DaemonAppear(x) PROVE TreeInv'
  <2>1. /\ x \notin present /\ present' = present \cup {x} /\ ParentPresent(present, x)
        /\ wire' = IF Listening THEN Append(wire, InterfacesAdded(x, truth'[x])) ELSE wire
        /\ truth'[x] \in Values
    BY <1>5, DaemonStepType DEF DaemonAppear, Appear, Route, TypeOK, DaemonTypeOK
  <2>2. TreeClosed(present') /\ present' \subseteq Path
    BY <1>1, <2>1 DEF TreeClosed, ParentPresent
  <2>3. CASE Listening
    <3> PICK m : m = InterfacesAdded(x, truth'[x])
      OBVIOUS
    <3>1. m \in Signal /\ m.sig = "added" /\ m.path = x
      BY <1>1, <2>1 DEF InterfacesAdded, Signal
    <3>2. ASSUME NEW p \in present' \cap Gatt
          PROVE  /\ p \in present \/ m \in AddedSignals(p)
                 /\ \A q \in Over(p) : m \notin Moves(q)
      <4>1. p \in present \/ m \in AddedSignals(p)
        BY <2>1, <3>1 DEF AddedSignals
      <4>2. ASSUME NEW q \in Over(p) PROVE q # x
        <5>1. q \in Nat /\ q < p /\ p \in Nat
          BY <2>2, <4>2, OverFacts, ParentFacts
        <5>2. CASE p = x
          BY <5>1, <5>2
        <5>3. CASE p \in present
          BY <1>1, <2>1, <4>2, <5>3, OverFacts
        <5> QED BY <2>1, <5>2, <5>3
      <4> QED BY <3>1, <4>1, <4>2 DEF Moves, AddedSignals, RemovedSignals
    <3> QED BY <1>2, <2>1, <2>2, <2>3, <3>1, <3>2, SentTree
  <2> QED BY <1>2, <1>4, <2>1, <2>2, <2>3, IdleTree
<1>6. ASSUME NEW x \in Path, DaemonVanish(x) PROVE TreeInv'
  <2>1. /\ x \in present /\ present' = present \ {x} /\ \A r \in present : Parent[r] # x
        /\ wire' = IF Listening THEN Append(wire, InterfacesRemoved(x)) ELSE wire
    BY <1>6 DEF DaemonVanish, Vanish, Route
  <2>2. TreeClosed(present')
    BY <1>1, <2>1 DEF TreeClosed, ParentPresent
  <2>3. CASE Listening
    <3> PICK m : m = InterfacesRemoved(x)
      OBVIOUS
    <3>1. m \in Signal /\ m.path = x
      BY <1>1, ValueFacts DEF InterfacesRemoved, Signal
    <3>2. ASSUME NEW p \in present' \cap Gatt
          PROVE  p \in present /\ \A q \in Over(p) : m \notin Moves(q)
      <4>1. p \in present \cap Gatt
        BY <2>1
      <4>2. \A q \in Over(p) : q # x
        BY <1>1, <2>1, <4>1, OverFacts
      <4> QED BY <3>1, <4>1, <4>2 DEF Moves, AddedSignals, RemovedSignals
    <3> QED BY <1>2, <2>1, <2>2, <2>3, <3>1, <3>2, SentTree
  <2> QED BY <1>2, <1>4, <2>1, <2>2, <2>3, IdleTree
<1>7. ASSUME NEW x \in Path, NEW F \in SUBSET Field, DaemonChange(x, F) PROVE TreeInv'
  <2>1. /\ present' = present
        /\ wire' = IF x \in Subscribed THEN Append(wire, PropertiesChanged(x, F)) ELSE wire
    BY <1>7 DEF DaemonChange, Change, Route
  <2>2. CASE x \in Subscribed
    <3> PICK m : m = PropertiesChanged(x, F)
      OBVIOUS
    <3>1. [f \in Field |-> IF f \in F THEN stamp + 1 ELSE Blank] \in Values
      BY <1>1 DEF Values, Blank
    <3>2. m \in Signal /\ m.sig = "changed"
      BY <1>1, <3>1 DEF PropertiesChanged, Signal
    <3>3. \A q : m \notin Moves(q)
      BY <3>2 DEF Moves, AddedSignals, RemovedSignals
    <3> QED BY <1>1, <1>2, <2>1, <2>2, <3>2, <3>3, SentTree
  <2> QED BY <1>1, <1>2, <2>1, <2>2, BystanderTree
<1> QED BY <1>3, <1>5, <1>6, <1>7 DEF DaemonStep

\* _onEvent: an object is unlinked only by a message that replaces its parent or
\* its device, and a device joins by one that replaces it.
LEMMA HandlerKeeps ==
  ASSUME TypeOK, OnEvent, NEW p \in Gatt,
         \A q \in Over(p) : Head(port) \notin Replaces(q)
  PROVE  /\ DeviceOf(p) \in devices' => DeviceOf(p) \in devices
         /\ Head(port) \notin Adds(p) /\ p \in linked => p \in linked'
         /\ /\ Head(port) \in Adds(p) /\ DeviceOf(p) \in devices
            /\ p \notin Service => Parent[p] \in gatt
            => p \in linked'
<1>1. port \in Seq(Message) /\ port # <<>>
  BY DEF OnEvent, OnSentinel, OnAdapterProps, OnDeviceProps, OnCharProps, OnDeviceAdded,
         OnDeviceRemoved, OnServiceAdded, OnCharAdded, OnDescAdded, OnObjectRemoved, OnResult,
         Receive, TypeOK, ManagerTypeOK
<1>2. PICK m \in Message : m = Head(port)
  BY <1>1, MessageTail
<1>3. m.path \in PathsOf[m.tag]
  BY <1>1, <1>2, MessageTail
<1>4. /\ p \in Path /\ DeviceOf(p) \in Device /\ Parent[p] # p
      /\ \A q : q \in {Parent[p], DeviceOf(p)} /\ m.path = q
           => m.tag \notin {"DeviceAdded", "DeviceRemoved", "ServiceAdded", "CharAdded"}
  <2>1. p \in Path /\ p \in Nat /\ Parent[p] < p /\ DeviceOf(p) \in Device
    BY DeviceOfFacts, ParentFacts
  <2> QED BY <1>2, <2>1 DEF Over, Replaces
<1>5. /\ m \in Adds(p) <=> m.path = p /\ m.tag = AddTag(p)
      /\ AddTag(p) \in {"ServiceAdded", "CharAdded", "DescAdded"}
  <2>1. p \in Service \/ p \in Char \/ p \in Desc
    BY DEF Gatt
  <2> QED BY <1>4, <2>1, AddTagFacts DEF Adds
<1>6. CASE UNCHANGED <<devices, linked>> /\ m.tag \notin {"ServiceAdded", "CharAdded", "DescAdded"}
  <2>1. m \notin Adds(p)
    BY <1>5, <1>6
  <2> QED BY <1>2, <1>6, <2>1
<1>7. CASE OnDeviceAdded \/ OnDeviceRemoved
  <2>1. /\ m.tag \in {"DeviceAdded", "DeviceRemoved"} /\ m.path \in Device
        /\ devices' \subseteq devices \cup {m.path}
        /\ linked' = linked \ Below(m.path)
    BY <1>2, <1>3, <1>7, PathsOfFacts DEF OnDeviceAdded, OnDeviceRemoved, Receive
  <2>2. m.path # DeviceOf(p) /\ p \notin Below(m.path)
    BY <1>4, <2>1, DeviceOfFacts
  <2>3. m \notin Adds(p)
    BY <1>5, <2>1
  <2> QED BY <1>2, <2>1, <2>2, <2>3
<1>8. CASE OnServiceAdded \/ OnCharAdded \/ OnDescAdded
  <2>1. /\ m.tag \in {"ServiceAdded", "CharAdded", "DescAdded"} /\ m.path \in Gatt
        /\ m.tag = "DescAdded" => m.path \in Desc
        /\ UNCHANGED devices
        /\ \/ UNCHANGED linked /\ DeviceOf(m.path) \notin devices
           \/ /\ linked' = (linked \ Children(m.path)) \cup {m.path}
           \/ /\ linked' = (linked \ Children(m.path))
              /\ m.path \notin Service /\ Parent[m.path] \notin gatt
    <3>1. CASE OnServiceAdded
      <4>1. m.path \in Service /\ m.path \in Gatt /\ DeviceOf(m.path) = Parent[m.path]
        BY <1>2, <1>3, <3>1, PathsOfFacts, DeviceOfFacts DEF OnServiceAdded, Receive, Gatt
      <4> QED BY <1>2, <3>1, <4>1 DEF OnServiceAdded, Receive, AddGatt
    <3>2. CASE OnCharAdded
      <4>1. m.path \in Char /\ m.path \in Gatt /\ m.path \notin Service
        BY <1>2, <1>3, <3>2, PathsOfFacts, ParentFacts DEF OnCharAdded, Receive, Gatt
      <4> QED BY <1>2, <3>2, <4>1 DEF OnCharAdded, Receive, AddGatt
    <3>3. CASE OnDescAdded
      <4>1. m.path \in Desc /\ m.path \in Gatt /\ m.path \notin Service
        BY <1>2, <1>3, <3>3, PathsOfFacts, ParentFacts DEF OnDescAdded, Receive, Gatt
      <4> QED BY <1>2, <3>3, <4>1 DEF OnDescAdded, Receive, AddGatt
    <3> QED BY <1>8, <3>1, <3>2, <3>3
  <2>2. m.path # Parent[p]
    <3>1. Parent[p] \notin Desc
      BY ParentFacts DEF Gatt
    <3> QED BY <1>4, <2>1, <3>1
  <2>3. p \notin Children(m.path)
    BY <2>2 DEF Children
  <2>4. m \notin Adds(p) => m.path # p
    <3>1. m.path = p => m.tag = AddTag(p)
      BY <1>3, <2>1, AddTagFacts, PathsOfFacts, ParentFacts DEF Gatt
    <3> QED BY <1>5, <3>1
  <2>5. m \in Adds(p) => m.path = p
    BY <1>5
  <2> QED BY <1>2, <2>1, <2>3, <2>4, <2>5
<1>9. \/ UNCHANGED <<devices, linked>> /\ m.tag \notin {"ServiceAdded", "CharAdded", "DescAdded"}
      \/ OnDeviceAdded \/ OnDeviceRemoved \/ OnServiceAdded \/ OnCharAdded \/ OnDescAdded
  BY <1>2 DEF OnEvent, OnSentinel, OnAdapterProps, OnDeviceProps, OnCharProps, OnObjectRemoved,
              OnResult, Receive, clientVars
<1> QED BY <1>6, <1>7, <1>8, <1>9

LEMMA OnEventTree ==
  ASSUME TypeOK, CleanInv, TreeInv, OnEvent
  PROVE  TreeInv'
<1>1. /\ phase = "running" /\ port # <<>> /\ port' = Tail(port)
      /\ UNCHANGED <<present, wire, phase, todo>>
  BY DEF OnEvent, OnSentinel, OnAdapterProps, OnDeviceProps, OnCharProps, OnDeviceAdded,
         OnDeviceRemoved, OnServiceAdded, OnCharAdded, OnDescAdded, OnObjectRemoved, OnResult,
         Receive, daemonVars, reply
<1>2. /\ wire \in Seq(Signal) /\ port \in Seq(Message) /\ present \subseteq Path
      /\ todo = {} /\ Creating /\ linked \subseteq gatt /\ TreeClosed(present)
  BY <1>1 DEF TypeOK, DaemonTypeOK, ManagerTypeOK, ClientTypeOK, CleanInv, Creating, TreeInv
<1>3. ASSUME NEW p PROVE Returning(p)' <=> Returning(p)
  BY <1>1 DEF Returning, AddedSignals
<1>4. ASSUME NEW p \in present \cap Gatt, NEW q \in Over(p)
      PROVE  WireOrder(p, q)' /\ ReplyOrder(p, q)' /\ PortOrder(p, q)'
  <2>1. WireOrder(p, q) /\ ReplyOrder(p, q) /\ PortOrder(p, q)
    BY <1>4 DEF TreeInv
  <2>2. Followed(port, Replaces(q), Adds(p)) => Followed(port', Replaces(q), Adds(p))
    BY <1>1, <1>2, FollowedTail
  <2> QED BY <1>1, <1>3, <2>1, <2>2
          DEF WireOrder, ReplyOrder, PortOrder, Moves, AddedSignals, RemovedSignals, Adds, Replaces, Message
<1>5. ASSUME NEW p \in present \cap Gatt, DeviceOf(p) \in devices',
             ~ Holds(port', Adds(p)), ~ Returning(p)
      PROVE  p \in linked'
  <2>1. \A q \in Over(p) : ~ Holds(port, Replaces(q))
    <3> SUFFICES ASSUME NEW q \in Over(p) PROVE ~ Holds(port, Replaces(q))
      OBVIOUS
    <3>1. Followed(port, Replaces(q), Adds(p))
      BY <1>5 DEF TreeInv, PortOrder
    <3> QED BY <1>1, <1>2, <1>5, <3>1, FollowedTail
  <2>2. \A q \in Over(p) : Head(port) \notin Replaces(q)
    BY <1>1, <1>2, <2>1, HoldsTail
  <2>3. /\ DeviceOf(p) \in devices
        /\ Head(port) \notin Adds(p) /\ p \in linked => p \in linked'
        /\ Head(port) \in Adds(p) /\ (p \notin Service => Parent[p] \in gatt) => p \in linked'
    BY <1>5, <2>2, HandlerKeeps
  <2>4. CASE Head(port) \notin Adds(p)
    <3>1. ~ Holds(port, Adds(p))
      BY <1>1, <1>2, <1>5, <2>4, HoldsTail
    <3>2. Complete(p)
      BY <1>2 DEF TreeInv
    <3> QED BY <1>5, <2>3, <2>4, <3>1, <3>2 DEF Complete
  <2>5. CASE Head(port) \in Adds(p)
    <3> SUFFICES ASSUME p \in Char \cup Desc PROVE Parent[p] \in gatt
      BY <2>3, <2>5 DEF Gatt
    <3> PICK r : r = Parent[p]
      OBVIOUS
    <3>1. r \in Gatt /\ r \in present /\ DeviceOf(r) = DeviceOf(p) /\ r \in Over(p) /\ r \in Path
      <4>1. r \in Over(p)
        BY DEF Over
      <4> QED BY <1>2, <4>1, DeviceOfFacts, OverFacts
    <3>2. ~ Holds(port, Adds(r))
      <4>1. r \notin Desc
        BY ParentFacts DEF Gatt
      <4>2. Adds(r) \subseteq Replaces(r)
        BY <3>1, <4>1, AddTagFacts DEF Gatt, Adds, Replaces
      <4> QED BY <2>1, <3>1, <4>2 DEF Holds
    <3>3. ~ Returning(r)
      <4>1. Followed(wire, Moves(r), AddedSignals(p))
        BY <3>1 DEF TreeInv, WireOrder
      <4>2. Holds(wire, AddedSignals(r)) => Holds(wire, AddedSignals(p))
        BY <4>1 DEF Holds, Followed, Moves
      <4> QED BY <1>2, <1>5, <4>2 DEF Returning
    <3>4. Complete(r)
      BY <1>2, <3>1 DEF TreeInv
    <3> QED BY <1>2, <2>3, <3>1, <3>2, <3>3, <3>4 DEF Complete
  <2> QED BY <2>4, <2>5
<1>6. \A p \in present \cap Gatt : Complete(p)'
  BY <1>3, <1>5 DEF Complete, Adds, Message
<1> QED BY <1>1, <1>2, <1>4, <1>6 DEF TreeInv, TreeClosed

\* startNotify() and stopNotify() post their answers.
LEMMA CallPosts ==
  ASSUME CallStep
  PROVE  /\ phase = "running" /\ phase' = phase
         /\ UNCHANGED <<present, wire, todo, snapped, snap, clientVars>>
         /\ \/ UNCHANGED port
            \/ \E m \in Message : port' = Append(port, m) /\ \A q : m \notin Replaces(q)
<1>1. PICK c \in Char :
        \/ \E op \in {"start", "stop"} :
             \/ GattMethodReturns(op, c) \/ GattCallFails(op, c)
             \/ GattCallBlocks(op, c) \/ GattCallUnbuilt(op, c)
        \/ start_notify(c) \/ stop_notify(c)
        \/ \E op \in {"start", "stop"} : post_success(op, c)
  BY DEF CallStep
<1>2. \E op, from, to : GattStep(op, c, from, to)
  BY <1>1 DEF GattMethodReturns, GattCallFails, GattCallBlocks, GattCallUnbuilt,
              start_notify, stop_notify, post_success
<1>3. UNCHANGED port \/ \E t \in {"StartDone", "StopDone", "Failed"} : post_glaze(t, c, {}, NoValues)
  BY <1>1 DEF GattMethodReturns, GattCallFails, GattCallBlocks, GattCallUnbuilt,
              start_notify, stop_notify, post_success
<1>4. ASSUME NEW t \in {"StartDone", "StopDone", "Failed"}, post_glaze(t, c, {}, NoValues)
      PROVE  \E m \in Message : port' = Append(port, m) /\ \A q : m \notin Replaces(q)
  <2>1. Msg(t, c, {}, NoValues) \in Message
    BY MsgType, PathsOfFacts, ValueFacts DEF Tags
  <2> QED BY <1>4, <2>1 DEF post_glaze, Msg, Replaces
<1> QED BY <1>2, <1>3, <1>4 DEF GattStep, daemonVars, reply, CallStep

\* One step per action of the bridge.
LEMMA TreeInvNext == TypeOK /\ CleanInv /\ TreeInv /\ [Next]_vars => TreeInv'
<1> SUFFICES ASSUME TypeOK, CleanInv, TreeInv, [Next]_vars PROVE TreeInv'
  OBVIOUS
<1>1. TreeClosed(present)
  BY DEF TreeInv
<1>2. CASE DaemonStep
  BY <1>2, DaemonTree
<1>3. CASE Connect
  <2>1. /\ phase = "idle" /\ phase' = "constructed"
        /\ UNCHANGED <<present, wire, todo, port>>
    BY <1>3 DEF Connect, Construct, daemonVars, reply
  <2> QED BY <1>1, <2>1, IdleTree DEF CleanInv, Creating
<1>4. CASE Snapshot
  <2>1. /\ phase = "constructed" /\ todo' = present
        /\ UNCHANGED <<present, wire, port, devices, linked>>
    BY <1>4 DEF Snapshot, get_managed_objects, daemonVars, clientVars
  <2>2. \A p \in present : Returning(p)'
    BY <2>1 DEF Returning
  <2>3. \A p \in present \cap Gatt : \A q \in Over(p) : WireOrder(p, q)'
    BY <2>1 DEF TreeInv, WireOrder, Moves, AddedSignals, RemovedSignals
  <2> QED BY <1>1, <2>1, <2>2, <2>3 DEF TreeInv, ReplyOrder, PortOrder, Complete, TreeClosed
<1>5. CASE PostSnapshot
  BY <1>5, PostTree
<1>6. CASE CreateReturns
  <2>1. /\ phase = "posting" /\ post_glaze("Sentinel", Root, {}, NoValues)
        /\ UNCHANGED <<present, wire, todo, devices, linked>>
    BY <1>6 DEF CreateReturns, FinishCreate, daemonVars, reply, clientVars
  <2>2. Msg("Sentinel", Root, {}, NoValues) \in Message
    BY MsgType, PathsOfFacts, ValueFacts DEF Tags
  <2>3. \A q : Msg("Sentinel", Root, {}, NoValues) \notin Replaces(q)
    BY DEF Msg, Replaces
  <2> QED BY <1>1, <2>1, <2>2, <2>3, BystanderTree DEF post_glaze, Creating
<1>7. CASE CreateThrows \/ Close
  <2>1. /\ phase' \in {"idle", "destroyed"} /\ wire' = <<>> /\ port' = <<>> /\ todo' = {}
        /\ present' = present
    BY <1>7 DEF CreateThrows, CreateFails, Close, CloseClient, bluez_client_destroy, Teardown
  <2> QED BY <1>1, <2>1, IdleTree DEF Creating
<1>8. CASE EventLoop
  BY <1>8, EventLoopTree
<1>9. CASE CallStep
  <2>1. /\ phase' = phase /\ UNCHANGED <<present, wire, todo, devices, linked>>
        /\ \/ UNCHANGED port
           \/ \E m \in Message : port' = Append(port, m) /\ \A q : m \notin Replaces(q)
    BY <1>9, CallPosts DEF clientVars
  <2> QED BY <1>1, <2>1, BystanderTree DEF Creating
<1>10. CASE OnEvent
  BY <1>10, OnEventTree
<1>11. CASE UserCall \/ UNCHANGED vars
  <2>1. UNCHANGED <<present, wire, phase, todo, port, devices, linked>>
    BY <1>11 DEF UserCall, Notify, vars, daemonVars, managerVars, clientVars, reply
  <2> QED BY <1>1, <2>1, BystanderTree DEF Creating
<1> QED BY <1>2, <1>3, <1>4, <1>5, <1>6, <1>7, <1>8, <1>9, <1>10, <1>11 DEF Next, Work

\* In every state of the bridge, an object that exists and whose parent or device
\* is thrown away is under way behind it, and an object that nothing is under way
\* for is linked.
THEOREM TreeFollows == Spec => []TreeInv
<1>1. Init => TreeInv
  <2> SUFFICES ASSUME Init PROVE TreeInv
    OBVIOUS
  <2>1. /\ TreeClosed(present) /\ wire = <<>> /\ port = <<>> /\ todo = {} /\ ~ Creating
    BY DEF Init, DaemonInit, ManagerInit, Creating, TreeClosed
  <2> QED BY <2>1 DEF TreeInv, WireOrder, ReplyOrder, PortOrder, Followed
<1>2. DevicesInv /\ TreeInv /\ [Next]_vars => TreeInv'
  BY TreeInvNext DEF DevicesInv
<1> QED BY <1>1, <1>2, InvariantHolds, PTL DEF Spec

\* The GATT objects of a known device are all in its maps once every signal and
\* message has been handled, although 0x04, 0x06 and 0x07 throw away the objects
\* below the one they bring.
THEOREM GattIsComplete == Spec => []GattComplete
<1>1. DevicesInv /\ TreeInv => GattComplete
  <2> SUFFICES ASSUME DevicesInv, TreeInv, Quiescent,
                      NEW p \in present \cap Gatt, DeviceOf(p) \in devices
               PROVE  p \in linked
    BY DEF GattComplete, Gatt
  <2>1. wire = <<>> /\ port = <<>> /\ todo = {} /\ Creating
    BY DEF Quiescent, DevicesInv, CleanInv, Creating
  <2>2. Complete(p)
    BY <2>1 DEF TreeInv
  <2> QED BY <2>1, <2>2 DEF Complete, Returning, Holds
<1> QED BY <1>1, InvariantHolds, TreeFollows, PTL

-----------------------------------------------------------------------------
(***************************************************************************)
(* connect() waits for the sentinel.  Until it comes, the objects of the   *)
(* reply are those the client has, then those of the messages before the   *)
(* sentinel, then those still to be posted, in the order of the paths: so  *)
(* a parent is handled before its children and throws none away.           *)
(***************************************************************************)
Known == adapters \cup devices \cup linked

Sentinel(i) == port[i].tag = "Sentinel"
Early(i) == \A j \in DOMAIN port : j <= i => ~ Sentinel(j)

\* The i-th message of the queue brings an object of the reply as the reply has it.
Brings(i) ==
  LET p == port[i].path
  IN  /\ p \in snapped \ (todo \cup Known)
      /\ port[i] = Msg(AddTag(p), p, Field, snap[p])
      /\ \A q \in todo : p < q
      /\ \A j \in DOMAIN port : j < i => port[j].path < p

Filling ==
  /\ TreeClosed(snapped) /\ todo \subseteq snapped
  /\ Known \subseteq snapped \ todo /\ gatt = linked
  /\ \A p \in Known : cache[p] = snap[p] /\ \A q \in snapped \ Known : p < q
  /\ phase = "running" <=> \E i \in DOMAIN port : Sentinel(i)
  /\ \A i \in DOMAIN port : Early(i) => Brings(i)
  /\ \A p \in snapped \ (todo \cup Known) : \E i \in DOMAIN port : Early(i) /\ port[i].path = p

SnapInv ==
  /\ phase \in {"idle", "constructed", "posting"} => ~ ready /\ Known = {} /\ gatt = {}
  /\ Creating /\ ~ ready => Filling

\* What is posted after the sentinel is not early.
LEMMA BystanderFills ==
  ASSUME TypeOK, SnapInv, UNCHANGED <<phase, todo, snapped, snap, clientVars>>,
         \/ UNCHANGED port
         \/ phase = "running" /\ \E m \in Message : port' = Append(port, m)
  PROVE  SnapInv'
<1>1. UNCHANGED <<ready, adapters, devices, gatt, linked, cache, Known>>
  BY DEF clientVars, Known
<1>2. CASE UNCHANGED port
  <2>1. Filling' <=> Filling
    <3>1. \A i : (Early(i)' <=> Early(i)) /\ (Brings(i)' <=> Brings(i)) /\ (Sentinel(i)' <=> Sentinel(i))
      BY <1>1, <1>2 DEF Early, Brings, Sentinel, Msg
    <3> QED BY <1>1, <1>2, <3>1 DEF Filling, TreeClosed
  <2> QED BY <1>1, <2>1 DEF SnapInv, Creating
<1>3. ASSUME phase = "running", NEW m \in Message, port' = Append(port, m) PROVE SnapInv'
  <2> SUFFICES ASSUME Creating, ~ ready, Filling PROVE Filling'
    BY <1>1, <1>3 DEF SnapInv, Creating
  <2> PICK n \in Nat : n = Len(port)
    BY Grown DEF TypeOK, ManagerTypeOK
  <2>1. /\ DOMAIN port = 1 .. n /\ DOMAIN port' = 1 .. n + 1
        /\ \A i \in 1 .. n : port'[i] = port[i]
    BY <1>3, Grown DEF TypeOK, ManagerTypeOK
  <2> PICK s \in 1 .. n : Sentinel(s)
    BY <1>3, <2>1 DEF Filling
  <2>2. /\ \A i \in 1 .. n : Sentinel(i)' <=> Sentinel(i)
        /\ s \in DOMAIN port'
    BY <2>1 DEF Sentinel
  <2>3. ASSUME NEW i \in 1 .. n + 1, Early(i)' PROVE i \in 1 .. n /\ Early(i) /\ i < s
    <3>1. ~ (s <= i)
      BY <2>2, <2>3 DEF Early
    <3>2. i \in 1 .. n /\ i < s
      BY <3>1
    <3>3. Early(i)
      BY <2>1, <2>2, <2>3 DEF Early
    <3> QED BY <3>2, <3>3
  <2>4. ASSUME NEW i \in 1 .. n, Early(i) PROVE Early(i)'
    <3>1. \A j \in 1 .. n + 1 : j <= i => j \in 1 .. n
      OBVIOUS
    <3> QED BY <2>1, <2>2, <2>4, <3>1 DEF Early
  <2>5. ASSUME NEW i \in 1 .. n, Brings(i) PROVE Brings(i)'
    <3>1. \A j \in 1 .. n + 1 : j < i => j \in 1 .. n
      OBVIOUS
    <3> QED BY <1>1, <2>1, <2>5, <3>1 DEF Brings, Msg
  <2>6. \A i \in DOMAIN port' : Early(i)' => Brings(i)'
    BY <2>1, <2>3, <2>5 DEF Filling
  <2>7. ASSUME NEW p \in snapped' \ (todo' \cup Known')
        PROVE  \E i \in DOMAIN port' : Early(i)' /\ port'[i].path = p
    <3>1. PICK i \in 1 .. n : Early(i) /\ port[i].path = p
      BY <1>1, <2>1, <2>7 DEF Filling
    <3> QED BY <2>1, <2>4, <3>1
  <2>8. phase' = "running" /\ \E i \in DOMAIN port' : Sentinel(i)'
    BY <1>3, <2>2
  <2> QED BY <1>1, <2>6, <2>7, <2>8 DEF Filling, TreeClosed
<1> QED BY <1>2, <1>3

\* bluez_client_create posts an object of the reply, and at last the sentinel.
LEMMA PostFills ==
  ASSUME TypeOK, SnapInv, phase = "posting", UNCHANGED <<snapped, snap, clientVars>>,
         \/ /\ phase' = "posting"
            /\ \E x \in todo : /\ \A q \in todo : x <= q
                               /\ Msg(AddTag(x), x, Field, snap[x]) \in Message
                               /\ port' = Append(port, Msg(AddTag(x), x, Field, snap[x]))
                               /\ todo' = todo \ {x}
         \/ /\ phase' = "running" /\ todo = {} /\ todo' = {}
            /\ Msg("Sentinel", Root, {}, NoValues) \in Message
            /\ port' = Append(port, Msg("Sentinel", Root, {}, NoValues))
  PROVE  SnapInv'
<1>1. /\ UNCHANGED <<ready, adapters, devices, gatt, linked, cache, Known>>
      /\ Known = {} /\ gatt = {} /\ linked = {} /\ ~ ready /\ Filling
  BY DEF clientVars, Known, SnapInv, Creating
<1> SUFFICES Filling'
  BY <1>1 DEF SnapInv
<1> PICK m \in Message : port' = Append(port, m)
  OBVIOUS
<1> PICK n \in Nat : n = Len(port)
  BY Grown DEF TypeOK, ManagerTypeOK
<1>2. /\ DOMAIN port = 1 .. n /\ DOMAIN port' = 1 .. n + 1
      /\ \A i \in 1 .. n : port'[i] = port[i]
      /\ port'[n + 1] = m
  BY Grown DEF TypeOK, ManagerTypeOK
<1>3. \A i \in 1 .. n : ~ Sentinel(i) /\ ~ Sentinel(i)'
  BY <1>1, <1>2 DEF Filling, Sentinel
<1>4. ASSUME NEW i \in 1 .. n PROVE Early(i) /\ Early(i)' /\ Brings(i)
  <2>1. \A j \in 1 .. n + 1 : j <= i => j \in 1 .. n
    OBVIOUS
  <2>2. Early(i) /\ Early(i)'
    BY <1>2, <1>3, <2>1 DEF Early
  <2> QED BY <1>1, <1>2, <2>2 DEF Filling
<1>5. ASSUME NEW i \in 1 .. n, todo' \subseteq todo PROVE Brings(i)'
  <2>1. \A j \in 1 .. n + 1 : j < i => j \in 1 .. n
    OBVIOUS
  <2>2. Brings(i)
    BY <1>4
  <2> QED BY <1>1, <1>2, <1>5, <2>1, <2>2 DEF Brings, Msg
<1>6. \A p \in snapped \ todo : \E i \in 1 .. n : port'[i].path = p
  BY <1>1, <1>2 DEF Filling
<1>7. ASSUME NEW x \in todo, \A q \in todo : x <= q, phase' = "posting",
             m = Msg(AddTag(x), x, Field, snap[x]), todo' = todo \ {x}
      PROVE  Filling'
  <2>1. x \in snapped /\ x \in Path /\ x \in Nat /\ todo \subseteq Nat
    <3>1. todo \subseteq Path
      BY DEF TypeOK, ManagerTypeOK
    <3>2. todo \subseteq snapped
      BY <1>1 DEF Filling
    <3> QED BY <3>1, <3>2, ParentFacts
  <2>2. ~ Sentinel(n + 1)' /\ port'[n + 1].path = x
    <3>1. m.tag = AddTag(x) /\ m.path = x /\ AddTag(x) # "Sentinel"
      BY <1>7, <2>1, AddTagFacts DEF Msg
    <3> QED BY <1>2, <3>1 DEF Sentinel
  <2>3. \A i \in 1 .. n + 1 : ~ Sentinel(i)'
    <3>1. \A i \in 1 .. n + 1 : i \in 1 .. n \/ i = n + 1
      OBVIOUS
    <3> QED BY <1>3, <2>2, <3>1
  <2>4. \A i \in 1 .. n + 1 : Early(i)'
    BY <1>2, <2>3 DEF Early
  <2>5. Brings(n + 1)'
    <3>1. \A j \in 1 .. n : port'[j].path < x
      BY <1>2, <1>4, <1>7 DEF Brings
    <3>2. \A j \in 1 .. n + 1 : j < n + 1 => j \in 1 .. n
      OBVIOUS
    <3>3. \A q \in todo' : x < q
      BY <1>7, <2>1
    <3> QED BY <1>1, <1>2, <1>7, <2>1, <2>2, <3>1, <3>2, <3>3 DEF Brings, Msg
  <2>6. \A i \in 1 .. n + 1 : Brings(i)'
    <3>1. \A i \in 1 .. n + 1 : i \in 1 .. n \/ i = n + 1
      OBVIOUS
    <3>2. todo' \subseteq todo
      BY <1>7
    <3> QED BY <1>5, <2>5, <3>1, <3>2
  <2>7. \A p \in snapped \ todo' : \E i \in 1 .. n + 1 : port'[i].path = p
    <3>1. \A p \in snapped \ todo' : p \in snapped \ todo \/ p = x
      BY <1>7
    <3>2. n + 1 \in 1 .. n + 1 /\ 1 .. n \subseteq 1 .. n + 1
      OBVIOUS
    <3> QED BY <1>6, <2>2, <3>1, <3>2
  <2> QED BY <1>1, <1>2, <1>7, <2>3, <2>4, <2>6, <2>7 DEF Filling, TreeClosed
<1>8. ASSUME phase' = "running", todo = {}, todo' = {}, m = Msg("Sentinel", Root, {}, NoValues)
      PROVE  Filling'
  <2>1. Sentinel(n + 1)' /\ n + 1 \in 1 .. n + 1
    BY <1>2, <1>8 DEF Sentinel, Msg
  <2>2. ASSUME NEW i \in 1 .. n + 1, Early(i)' PROVE i \in 1 .. n
    <3>1. ~ (n + 1 <= i)
      BY <1>2, <2>1, <2>2 DEF Early
    <3> QED BY <3>1
  <2>3. \A i \in 1 .. n + 1 : Early(i)' => Brings(i)'
    BY <1>5, <1>8, <2>2
  <2>4. \A p \in snapped : \E i \in 1 .. n + 1 : Early(i)' /\ port'[i].path = p
    <3>1. 1 .. n \subseteq 1 .. n + 1
      OBVIOUS
    <3> QED BY <1>4, <1>6, <1>8, <3>1
  <2> QED BY <1>1, <1>2, <1>8, <2>1, <2>3, <2>4 DEF Filling, TreeClosed
<1> QED
  <2>1. CASE phase' = "posting"
    <3>1. PICK x \in todo : /\ \A q \in todo : x <= q
                            /\ port' = Append(port, Msg(AddTag(x), x, Field, snap[x]))
                            /\ Msg(AddTag(x), x, Field, snap[x]) \in Message
                            /\ todo' = todo \ {x}
      BY <2>1
    <3>2. m = Msg(AddTag(x), x, Field, snap[x])
      BY <1>2, <3>1, Grown DEF TypeOK, ManagerTypeOK
    <3> QED BY <1>7, <2>1, <3>1, <3>2
  <2>2. CASE phase' = "running"
    <3>1. /\ todo = {} /\ todo' = {} /\ port' = Append(port, Msg("Sentinel", Root, {}, NoValues))
          /\ Msg("Sentinel", Root, {}, NoValues) \in Message
      BY <2>2
    <3>2. m = Msg("Sentinel", Root, {}, NoValues)
      BY <1>2, <3>1, Grown DEF TypeOK, ManagerTypeOK
    <3> QED BY <1>8, <2>2, <3>1, <3>2
  <2> QED BY <2>1, <2>2

\* _onEvent: an object that comes after its parent and before those below it
\* joins the client, and throws none away.
LEMMA EarlyHandled ==
  ASSUME TypeOK, OnEvent, NEW p \in Path \ Known, NEW v \in Values,
         Head(port) = Msg(AddTag(p), p, Field, v),
         gatt = linked, \A q \in Known : q < p, p \in Gatt => Over(p) \subseteq Known
  PROVE  /\ UNCHANGED ready /\ Known' = Known \cup {p} /\ gatt' = linked'
         /\ cache' = [cache EXCEPT ![p] = v]
<1> PICK m : m = Head(port)
  OBVIOUS
<1>1. /\ m.tag = AddTag(p) /\ m.path = p /\ m.mask = Field /\ m.vals = v
      /\ p \in Path /\ p \in Nat
  BY ParentFacts DEF Msg
<1>2. /\ adapters \subseteq Adapter /\ devices \subseteq Device /\ linked \subseteq Gatt
      /\ cache \in [Path -> Values] /\ Known \subseteq Nat
  BY ParentFacts, KindFacts DEF TypeOK, ClientTypeOK, Known, Gatt
<1>3. \A q \in Known : ~ (p < q)
  BY <1>1, <1>2
<1>4. Children(p) \cap linked = {}
  BY <1>3, ParentFacts DEF Children, Known
<1>5. CASE p \in Adapter
  <2>1. m.tag = "AdapterProps"
    BY <1>1, <1>5, AddTagFacts
  <2>2. OnAdapterProps
    BY <2>1 DEF OnEvent, OnSentinel, OnAdapterProps, OnDeviceProps, OnCharProps, OnDeviceAdded,
         OnDeviceRemoved, OnServiceAdded, OnCharAdded, OnDescAdded, OnObjectRemoved, OnResult,
         Receive
  <2>3. updateProps(v, m) = v
    <3>1. \A f \in Field : (IF f \in Field \cap Tracked THEN v[f] ELSE v[f]) = v[f]
      OBVIOUS
    <3>2. updateProps(v, m) = [f \in Field |-> v[f]]
      BY <1>1, <3>1 DEF updateProps
    <3> QED BY <3>2 DEF Values
  <2>4. p \notin adapters
    BY DEF Known
  <2> QED BY <1>1, <1>2, <2>2, <2>3, <2>4 DEF OnAdapterProps, Known
<1>6. CASE p \in Device
  <2>1. m.tag = "DeviceAdded"
    BY <1>1, <1>6, AddTagFacts
  <2>2. OnDeviceAdded
    BY <2>1 DEF OnEvent, OnSentinel, OnAdapterProps, OnDeviceProps, OnCharProps, OnDeviceAdded,
         OnDeviceRemoved, OnServiceAdded, OnCharAdded, OnDescAdded, OnObjectRemoved, OnResult,
         Receive
  <2>3. linked \ Below(p) = linked
    <3>1. ASSUME NEW q \in linked, q \in Below(p) PROVE FALSE
      <4>1. q \in Gatt /\ q \in Known
        BY <1>2, <3>1 DEF Known
      <4>2. p < q
        BY <1>6, <3>1, <4>1, DeviceOfFacts
      <4> QED BY <1>3, <4>1, <4>2
    <3> QED BY <3>1
  <2> QED BY <1>1, <1>2, <2>2, <2>3 DEF OnDeviceAdded, Known
<1>7. CASE p \in Gatt
  <2>1. Parent[p] \in Known /\ DeviceOf(p) \in Known /\ DeviceOf(p) \in devices
    <3>1. DeviceOf(p) \in Device /\ Parent[p] \in Known /\ DeviceOf(p) \in Known
      BY <1>7, DeviceOfFacts DEF Over
    <3> QED BY <1>2, <3>1, ParentFacts DEF Known
  <2>2. linked \ Children(p) = linked
    BY <1>4
  <2>3. ASSUME AddGatt(m, TRUE), UNCHANGED <<ready, adapters, devices>>
        PROVE  /\ UNCHANGED ready /\ Known' = Known \cup {p} /\ gatt' = linked'
               /\ cache' = [cache EXCEPT ![p] = v]
    BY <1>1, <2>2, <2>3 DEF AddGatt, Known
  <2>4. CASE p \in Service
    <3>1. m.tag = "ServiceAdded" /\ Parent[p] \in devices
      BY <1>1, <2>1, <2>4, AddTagFacts, DeviceOfFacts, <1>7
    <3>2. OnServiceAdded
      BY <3>1 DEF OnEvent, OnSentinel, OnAdapterProps, OnDeviceProps, OnCharProps, OnDeviceAdded,
           OnDeviceRemoved, OnServiceAdded, OnCharAdded, OnDescAdded, OnObjectRemoved, OnResult,
           Receive
    <3> QED BY <1>1, <2>3, <3>1, <3>2 DEF OnServiceAdded
  <2>5. p \in Char \cup Desc => Parent[p] \in gatt
    <3>1. p \in Char \cup Desc => Parent[p] \in Gatt
      BY ParentFacts DEF Gatt
    <3> QED BY <1>2, <2>1, <3>1, ParentFacts DEF Known
  <2>6. CASE p \in Char
    <3>1. m.tag = "CharAdded" /\ (Parent[p] \in gatt) = TRUE
      BY <1>1, <2>5, <2>6, AddTagFacts
    <3>2. OnCharAdded
      BY <3>1 DEF OnEvent, OnSentinel, OnAdapterProps, OnDeviceProps, OnCharProps, OnDeviceAdded,
           OnDeviceRemoved, OnServiceAdded, OnCharAdded, OnDescAdded, OnObjectRemoved, OnResult,
           Receive
    <3>3. AddGatt(m, TRUE) /\ UNCHANGED <<ready, adapters, devices>>
      BY <1>1, <2>1, <3>1, <3>2 DEF OnCharAdded
    <3> QED BY <2>3, <3>3
  <2>7. CASE p \in Desc
    <3>1. m.tag = "DescAdded" /\ (Parent[p] \in gatt) = TRUE
      BY <1>1, <2>5, <2>7, AddTagFacts
    <3>2. OnDescAdded
      BY <3>1 DEF OnEvent, OnSentinel, OnAdapterProps, OnDeviceProps, OnCharProps, OnDeviceAdded,
           OnDeviceRemoved, OnServiceAdded, OnCharAdded, OnDescAdded, OnObjectRemoved, OnResult,
           Receive
    <3>3. AddGatt(m, TRUE) /\ UNCHANGED <<ready, adapters, devices>>
      BY <1>1, <2>1, <3>1, <3>2 DEF OnDescAdded
    <3> QED BY <2>3, <3>3
  <2> QED BY <1>7, <2>4, <2>6, <2>7 DEF Gatt
<1> QED BY <1>5, <1>6, <1>7, KindFacts DEF Gatt

\* _onEvent: the sentinel ends the filling, and what comes before it fills.
LEMMA OnEventFills ==
  ASSUME TypeOK, CleanInv, SnapInv, OnEvent
  PROVE  SnapInv'
<1>1. /\ phase = "running" /\ port # <<>> /\ port' = Tail(port)
      /\ UNCHANGED <<phase, todo, snapped, snap>>
  BY DEF OnEvent, OnSentinel, OnAdapterProps, OnDeviceProps, OnCharProps, OnDeviceAdded,
         OnDeviceRemoved, OnServiceAdded, OnCharAdded, OnDescAdded, OnObjectRemoved, OnResult,
         Receive, reply
<1>2. /\ port \in Seq(Message) /\ todo = {} /\ snapped \subseteq Path /\ snapped \subseteq Nat
      /\ snap \in [Path -> Values]
  BY <1>1, ParentFacts DEF TypeOK, ManagerTypeOK, CleanInv
<1> SUFFICES ASSUME ~ ready' PROVE Filling'
  BY <1>1 DEF SnapInv
<1>3. ~ OnSentinel /\ ~ ready
  <2>1. ~ OnSentinel
    BY DEF OnSentinel
  <2>2. ready' = ready
    BY <2>1 DEF OnEvent, OnAdapterProps, OnDeviceProps, OnCharProps, OnDeviceAdded,
         OnDeviceRemoved, OnServiceAdded, OnCharAdded, OnDescAdded, OnObjectRemoved, OnResult,
         clientVars
  <2> QED BY <2>1, <2>2
<1>4. Filling
  BY <1>1, <1>3 DEF SnapInv, Creating
<1> PICK n \in Nat \ {0} : n = Len(port)
  BY <1>1, <1>2, Shrunk
<1>5. /\ DOMAIN port = 1 .. n /\ DOMAIN port' = 1 .. n - 1 /\ 1 \in 1 .. n
      /\ \A i \in 1 .. n - 1 : i + 1 \in 1 .. n /\ port'[i] = port[i + 1]
      /\ Head(port) = port[1]
  BY <1>1, <1>2, Shrunk
<1>6. ~ Sentinel(1)
  BY <1>3, <1>5 DEF Sentinel, OnEvent, OnSentinel, OnAdapterProps, OnDeviceProps, OnCharProps,
         OnDeviceAdded, OnDeviceRemoved, OnServiceAdded, OnCharAdded, OnDescAdded,
         OnObjectRemoved, OnResult, Receive
<1>7. Early(1)
  BY <1>5, <1>6 DEF Early
<1> PICK p : p = port[1].path
  OBVIOUS
<1>8. /\ p \in snapped \ Known /\ Head(port) = Msg(AddTag(p), p, Field, snap[p])
      /\ p \in Path /\ p \in Nat /\ snap[p] \in Values
  BY <1>2, <1>4, <1>5, <1>7 DEF Filling, Brings
<1>9. ASSUME NEW i \in 1 .. n, i # 1, Early(i)
      PROVE  Brings(i) /\ p < port[i].path /\ port[i].path \in snapped \ Known
  BY <1>4, <1>5, <1>9 DEF Filling, Brings
<1>10. ASSUME NEW q \in snapped \ Known, q # p
       PROVE  p < q /\ \E i \in 1 .. n : i # 1 /\ Early(i) /\ port[i].path = q
  <2>1. PICK i \in 1 .. n : Early(i) /\ port[i].path = q
    BY <1>2, <1>4, <1>5, <1>10 DEF Filling
  <2> QED BY <1>9, <1>10, <2>1
<1>11. \A q \in Known : q < p
  BY <1>4, <1>8 DEF Filling
<1>12. ASSUME p \in Gatt PROVE Over(p) \subseteq Known
  <2> SUFFICES ASSUME NEW q \in Over(p) PROVE q \in Known
    OBVIOUS
  <2>1. TreeClosed(snapped)
    BY <1>4 DEF Filling
  <2>2. q \in snapped /\ q \in Nat /\ q < p
    BY <1>2, <1>8, <1>12, <2>1, OverFacts
  <2> QED BY <1>8, <1>10, <2>2
<1>13. /\ UNCHANGED ready /\ Known' = Known \cup {p} /\ gatt' = linked'
       /\ cache' = [cache EXCEPT ![p] = snap[p]]
  BY <1>4, <1>8, <1>11, <1>12, EarlyHandled DEF Filling
<1>14. \A i \in 1 .. n - 1 : Sentinel(i)' <=> Sentinel(i + 1)
  BY <1>5 DEF Sentinel
<1>15. ASSUME NEW i \in 1 .. n - 1 PROVE Early(i)' <=> Early(i + 1)
  <2>1. ASSUME Early(i)', NEW j \in 1 .. n, j <= i + 1 PROVE ~ Sentinel(j)
    <3>1. j # 1 => j - 1 \in 1 .. n - 1 /\ j - 1 <= i /\ j - 1 + 1 = j
      BY <2>1
    <3>2. j # 1 => ~ Sentinel(j - 1)'
      BY <1>5, <2>1, <3>1 DEF Early
    <3> QED BY <1>6, <1>14, <3>1, <3>2
  <2>2. ASSUME Early(i + 1), NEW j \in 1 .. n - 1, j <= i PROVE ~ Sentinel(j)'
    <3>1. j + 1 \in 1 .. n /\ j + 1 <= i + 1
      BY <2>2
    <3> QED BY <1>5, <1>14, <2>2, <3>1 DEF Early
  <2> QED BY <1>5, <2>1, <2>2 DEF Early
<1>16. ASSUME NEW i \in 1 .. n - 1, Early(i)' PROVE Brings(i)'
  <2>1. i + 1 \in 1 .. n /\ i + 1 # 1 /\ Early(i + 1)
    BY <1>5, <1>15, <1>16
  <2> PICK q : q = port[i + 1].path
    OBVIOUS
  <2>2. /\ Brings(i + 1) /\ p < q /\ q \in snapped \ Known
    BY <1>9, <2>1
  <2>3. q \in snapped' \ (todo' \cup Known')
    BY <1>1, <1>2, <1>8, <1>13, <2>2
  <2>4. \A j \in 1 .. n - 1 : j < i => port'[j].path < q
    <3>1. \A j \in 1 .. n - 1 : j < i => j + 1 \in 1 .. n /\ j + 1 < i + 1
      OBVIOUS
    <3> QED BY <1>5, <2>2, <3>1 DEF Brings
  <2>5. port'[i] = Msg(AddTag(q), q, Field, snap'[q]) /\ port'[i].path = q
    BY <1>1, <1>5, <2>2 DEF Brings, Msg
  <2>6. \A r \in todo' : q < r
    BY <1>1, <1>2
  <2> QED BY <1>5, <2>3, <2>4, <2>5, <2>6 DEF Brings
<1>17. ASSUME NEW q \in snapped' \ (todo' \cup Known')
       PROVE  \E i \in 1 .. n - 1 : Early(i)' /\ port'[i].path = q
  <2>1. q \in snapped \ Known /\ q # p
    BY <1>1, <1>13, <1>17
  <2>2. PICK i \in 1 .. n : i # 1 /\ Early(i) /\ port[i].path = q
    BY <1>10, <2>1
  <2>3. i - 1 \in 1 .. n - 1 /\ i - 1 + 1 = i
    BY <2>2
  <2> QED BY <1>5, <1>15, <2>2, <2>3
<1>18. \E i \in 1 .. n - 1 : Sentinel(i)'
  <2>1. PICK s \in 1 .. n : Sentinel(s)
    BY <1>1, <1>4, <1>5 DEF Filling
  <2>2. s - 1 \in 1 .. n - 1 /\ s - 1 + 1 = s
    BY <1>6, <2>1
  <2> QED BY <1>14, <2>1, <2>2
<1>19. ASSUME NEW q \in Known'
       PROVE  cache'[q] = snap'[q] /\ \A r \in snapped' \ Known' : q < r
  <2>1. CASE q = p
    BY <1>1, <1>8, <1>10, <1>13, <2>1 DEF TypeOK, ClientTypeOK
  <2>2. CASE q \in Known /\ q # p
    <3>1. cache[q] = snap[q] /\ \A r \in snapped \ Known : q < r
      BY <1>4, <2>2 DEF Filling
    <3>2. cache'[q] = cache[q]
      <4>1. q \in Path
        BY <2>2, KindFacts DEF TypeOK, ClientTypeOK, Known
      <4> QED BY <1>13, <2>2, <4>1 DEF TypeOK, ClientTypeOK
    <3> QED BY <1>1, <1>13, <3>1, <3>2
  <2> QED BY <1>13, <1>19, <2>1, <2>2
<1>20. TreeClosed(snapped)' /\ todo' \subseteq snapped' /\ Known' \subseteq snapped' \ todo'
  BY <1>1, <1>2, <1>4, <1>8, <1>13 DEF Filling, TreeClosed
<1> QED BY <1>1, <1>5, <1>13, <1>16, <1>17, <1>18, <1>19, <1>20 DEF Filling

LEMMA SnapInvNext == TypeOK /\ CleanInv /\ TreeInv /\ SnapInv /\ [Next]_vars => SnapInv'
<1> SUFFICES ASSUME TypeOK, CleanInv, TreeInv, SnapInv, [Next]_vars PROVE SnapInv'
  OBVIOUS
<1>1. CASE Snapshot
  <2>1. /\ phase = "constructed" /\ phase' = "posting"
        /\ todo' = present /\ snapped' = present /\ port' = port
        /\ UNCHANGED <<ready, adapters, devices, gatt, linked, cache, Known>>
    BY <1>1 DEF Snapshot, get_managed_objects, clientVars, Known
  <2>2. /\ port = <<>> /\ Known = {} /\ gatt = {} /\ linked = {} /\ ~ ready
        /\ TreeClosed(present)
    BY <2>1 DEF CleanInv, Creating, SnapInv, Known, TreeInv
  <2>3. DOMAIN port' = {}
    BY <2>1, <2>2
  <2>4. Filling'
    BY <2>1, <2>2, <2>3 DEF Filling, TreeClosed
  <2> QED BY <2>1, <2>2, <2>4 DEF SnapInv
<1>2. CASE PostSnapshot
  <2>1. PICK p \in Path : PostObject(p)
    BY <1>2 DEF PostSnapshot
  <2>2. /\ phase = "posting" /\ p \in todo /\ \A q \in todo : p <= q
        /\ on_interfaces_added(p, snap[p]) /\ todo' = todo \ {p} /\ snap[p] \in Values
        /\ phase' = "posting" /\ UNCHANGED <<snapped, snap, clientVars>>
    BY <1>2, <2>1 DEF PostObject, PostSnapshot, TypeOK, ManagerTypeOK
  <2>3. /\ Msg(AddTag(p), p, Field, snap[p]) \in Message
        /\ port' = Append(port, Msg(AddTag(p), p, Field, snap[p]))
    BY <2>2, AddedMessage DEF Adds
  <2> QED BY <2>2, <2>3, PostFills
<1>3. CASE CreateReturns
  <2>1. /\ phase = "posting" /\ todo = {} /\ todo' = {} /\ phase' = "running"
        /\ port' = Append(port, Msg("Sentinel", Root, {}, NoValues))
        /\ UNCHANGED <<snapped, snap, clientVars>>
    BY <1>3 DEF CreateReturns, FinishCreate, reply, post_glaze
  <2>2. Msg("Sentinel", Root, {}, NoValues) \in Message
    BY MsgType, PathsOfFacts, ValueFacts DEF Tags
  <2> QED BY <2>1, <2>2, PostFills
<1>4. CASE EventLoop
  <2>1. phase = "running" /\ UNCHANGED <<phase, todo, snapped, snap, clientVars>>
    BY <1>4 DEF EventLoop, DispatchAdded, DispatchRemoved, DispatchChanged, DispatchUnmatched,
                Dispatch, reply
  <2>2. UNCHANGED port \/ \E m \in Message : port' = Append(port, m)
    BY <1>4, EventLoopPosts
  <2> QED BY <2>1, <2>2, BystanderFills
<1>5. CASE CallStep
  <2>1. /\ phase = "running" /\ UNCHANGED <<phase, todo, snapped, snap, clientVars>>
        /\ UNCHANGED port \/ \E m \in Message : port' = Append(port, m)
    BY <1>5, CallPosts
  <2> QED BY <2>1, BystanderFills
<1>6. CASE OnEvent
  BY <1>6, OnEventFills
<1>7. CASE DaemonStep \/ UserCall \/ UNCHANGED vars
  <2>1. UNCHANGED <<phase, todo, snapped, snap, port, clientVars>>
    BY <1>7 DEF DaemonStep, DaemonAppear, DaemonVanish, DaemonChange, DaemonCrash, UserCall, Notify,
                vars, managerVars, reply
  <2> QED BY <2>1, BystanderFills
<1>8. CASE Connect \/ CreateThrows
  <2>1. /\ phase \in {"idle", "constructed", "posting"} /\ phase' \in {"idle", "constructed"}
        /\ UNCHANGED clientVars
    BY <1>8 DEF Connect, Construct, CreateThrows, CreateFails, Teardown
  <2>2. UNCHANGED <<ready, gatt, Known>>
    BY <2>1 DEF clientVars, Known
  <2> QED BY <2>1, <2>2 DEF SnapInv, Creating
<1>9. CASE Close
  BY <1>9 DEF Close, CloseClient, bluez_client_destroy, Teardown, SnapInv, Creating
<1> QED BY <1>1, <1>2, <1>3, <1>4, <1>5, <1>6, <1>7, <1>8, <1>9 DEF Next, Work

LEMMA SnapInvHolds == Spec => []SnapInv
<1>1. Init => SnapInv
  BY DEF Init, ManagerInit, ClientInit, SnapInv, Known, Creating
<1>2. DevicesInv /\ TreeInv /\ SnapInv /\ [Next]_vars => SnapInv'
  BY SnapInvNext DEF DevicesInv
<1> QED BY <1>1, <1>2, InvariantHolds, TreeFollows, PTL DEF Spec

\* connect() returns only when the client holds the whole snapshot, every cached
\* property as the reply has it, although messages for objects that came or went
\* since may already be queued.
THEOREM SnapshotComplete == Spec => SnapshotBeforeReady
<1> DEFINE Whole ==
      /\ devices' = snapped \cap Device
      /\ adapters' = snapped \cap Adapter
      /\ \A p \in devices' \cup adapters' : cache'[p] = snap[p]
      /\ linked' = {p \in snapped \cap (Service \cup Char \cup Desc) : DeviceOf(p) \in snapped}
<1>1. DevicesInv /\ SnapInv /\ [Next]_vars => (ready' /\ ~ ready => Whole)
  <2> SUFFICES ASSUME DevicesInv, SnapInv, [Next]_vars, ready', ~ ready PROVE Whole
    OBVIOUS
  <2>1. OnSentinel
    <3>1. CASE OnEvent
      BY <3>1 DEF OnEvent, OnAdapterProps, OnDeviceProps, OnCharProps, OnDeviceAdded,
                  OnDeviceRemoved, OnServiceAdded, OnCharAdded, OnDescAdded, OnObjectRemoved,
                  OnResult, clientVars
    <3>2. CASE ~ OnEvent
      <4>1. UNCHANGED clientVars
        BY <3>2 DEF Next, Work, DaemonStep, DaemonAppear, DaemonVanish, DaemonChange, DaemonCrash,
                    Connect, Snapshot, PostSnapshot, CreateReturns, CreateThrows, EventLoop,
                    CallStep, UserCall, Notify, Close, CloseClient, vars
      <4> QED BY <4>1 DEF clientVars
    <3> QED BY <3>1, <3>2
  <2>2. /\ phase = "running" /\ port # <<>> /\ Head(port).tag = "Sentinel"
        /\ UNCHANGED <<adapters, devices, linked, cache>>
    BY <2>1 DEF OnSentinel, Receive
  <2>3. /\ port \in Seq(Message) /\ snapped \subseteq Path /\ todo = {}
        /\ adapters \subseteq Adapter /\ devices \subseteq Device /\ linked \subseteq Gatt
    BY <2>2 DEF DevicesInv, CleanInv, TypeOK, ManagerTypeOK, ClientTypeOK, Gatt
  <2>4. Filling
    BY <2>2 DEF SnapInv, Creating
  <2>5. \A i \in DOMAIN port : ~ Early(i)
    <3>1. Head(port) = port[1] /\ 1 \in DOMAIN port /\ \A i \in DOMAIN port : 1 <= i
      BY <2>2, <2>3, Shrunk
    <3> QED BY <2>2, <3>1 DEF Early, Sentinel
  <2>6. snapped = Known
    BY <2>3, <2>4, <2>5 DEF Filling
  <2>7. /\ snapped \cap Adapter = adapters /\ snapped \cap Device = devices
        /\ snapped \cap Gatt = linked
    BY <2>3, <2>6, ParentFacts DEF Known
  <2>8. ASSUME NEW p \in snapped \cap Gatt PROVE DeviceOf(p) \in snapped
    BY <2>3, <2>4, <2>8, OverFacts DEF Filling, Over
  <2>9. \A p \in devices \cup adapters : cache[p] = snap[p]
    BY <2>4 DEF Filling, Known
  <2> QED BY <2>2, <2>7, <2>8, <2>9 DEF Gatt
<1>2. SnapshotBeforeReady <=> [][ready' /\ ~ ready => Whole]_vars
  BY DEF SnapshotBeforeReady
<1>3. DevicesInv /\ SnapInv /\ [Next]_vars => [ready' /\ ~ ready => Whole]_vars
  BY <1>1
<1> QED BY <1>2, <1>3, InvariantHolds, SnapInvHolds, PTL DEF Spec
=============================================================================
