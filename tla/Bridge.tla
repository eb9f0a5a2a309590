------------------------------- MODULE Bridge -------------------------------
(***************************************************************************)
(* bluez_native_comms as a whole: bluetoothd, the event loop thread and    *)
(* the Dart isolate, and what the Dart object tree promises about the      *)
(* daemon's.  The history variables record what the code does not keep.    *)
(***************************************************************************)
EXTENDS BlueZClient, Integers

CONSTANT MaxPending   \* bound on calls of startNotify and stopNotify not answered yet

ASSUME PendingAssumption == MaxPending \in Nat

VARIABLES
  gap,        \* property changes that no installed match covered
  stopped,    \* characteristics whose last call reported a stop
  unanswered, \* calls of startNotify and stopNotify whose Future is pending
  lost,       \* ... those of them that nobody will answer
  ghosts      \* devices the client has heard of, or will, that went in a crash

history == <<gap, stopped, unanswered, lost, ghosts>>
vars == <<daemonVars, managerVars, clientVars, history>>

Creating == phase \in {"posting", "running"}
Pairs(S) == S \X Tracked
Pending(s, p) == \E i \in DOMAIN wire : wire[i].sig = s /\ wire[i].path = p

\* A change of p made now reaches the client: a match for p is installed, and
\* it will still be when the signals ahead of this one have been dispatched.
Live(p) == Creating /\ p \in Subscribed /\ ~ Pending("removed", p)

\* The values that the last queued InterfacesAdded of p carries.
QueuedValues(p) ==
  LET S == {i \in DOMAIN wire : wire[i].sig = "added" /\ wire[i].path = p}
  IN  wire[CHOOSE i \in S : \A j \in S : j <= i].vals

Init ==
  /\ DaemonInit
  /\ ManagerInit
  /\ ClientInit
  /\ gap = {}
  /\ stopped = {}
  /\ unanswered = 0 /\ lost = 0
  /\ ghosts = {}

(***************************************************************************)
(* The daemon.                                                             *)
(***************************************************************************)
DaemonAppear(p) ==
  /\ Appear(p, Listening)
  /\ gap' = IF p \in Char THEN gap \cup Pairs({p}) ELSE gap \ Pairs({p})
  /\ ghosts' = ghosts \ {p}
  /\ UNCHANGED <<managerVars, clientVars, stopped, unanswered, lost>>

DaemonVanish(p) ==
  /\ Vanish(p, Listening)
  /\ UNCHANGED <<managerVars, clientVars, history>>

\* GATT services and descriptors have no property that changes.
DaemonChange(p, F) ==
  /\ p \in Adapter \cup Device \cup Char
  /\ Change(p, F, p \in Subscribed)
  /\ gap' = IF Live(p) THEN gap \ ({p} \X F)
            ELSE IF Creating THEN gap \cup ({p} \X (F \cap Tracked))
            ELSE gap
  /\ UNCHANGED <<managerVars, clientVars, stopped, unanswered, lost, ghosts>>

\* Nothing in the library watches the owner of org.bluez.
DaemonCrash ==
  /\ Crash
  /\ ghosts' = IF Listening THEN ghosts \cup (present \cap Device) ELSE ghosts
  /\ UNCHANGED <<managerVars, clientVars, gap, stopped, unanswered, lost>>

DaemonStep ==
  \/ DaemonCrash
  \/ \E p \in Path : \/ DaemonAppear(p)
                     \/ DaemonVanish(p)
                     \/ \E F \in SUBSET Field : DaemonChange(p, F)

(***************************************************************************)
(* connect(), up to the return of bluez_client_create.                     *)
(***************************************************************************)
Connect ==
  /\ Construct
  /\ UNCHANGED <<clientVars, history>>

\* An InterfacesAdded still queued will overwrite what the reply says, even when
\* its object went in a crash since.
Snapshot ==
  /\ get_managed_objects
  /\ gap' = Pairs(Char) \cup
            {e \in Pairs(present) : /\ Pending("added", e[1])
                                    /\ QueuedValues(e[1])[e[2]] # truth[e[1]][e[2]]}
  /\ ghosts' = {p \in ghosts : Pending("added", p)}
  /\ UNCHANGED <<clientVars, stopped, unanswered, lost>>

PostSnapshot ==
  /\ \E p \in Path : PostObject(p)
  /\ UNCHANGED <<clientVars, history>>

CreateReturns ==
  /\ FinishCreate
  /\ UNCHANGED <<clientVars, history>>

CreateThrows ==
  /\ CreateFails
  /\ gap' = {}
  /\ ghosts' = {}
  /\ UNCHANGED <<clientVars, stopped, unanswered, lost>>

(***************************************************************************)
(* The event loop thread.                                                  *)
(***************************************************************************)
EventLoop ==
  /\ DispatchAdded \/ DispatchRemoved \/ DispatchChanged \/ DispatchUnmatched
  /\ UNCHANGED <<clientVars, history>>

(***************************************************************************)
(* startNotify() and stopNotify() block the isolate's thread.  The caller  *)
(* holds an object for the characteristic, current or not.                 *)
(***************************************************************************)
IsResult(m) == m.tag \in {"StartDone", "StopDone", "Failed"}

Notify(op, c) ==
  /\ phase = "running"
  /\ call = NoCall
  /\ cache[c] # NoValues
  /\ unanswered < MaxPending
  /\ unanswered' = unanswered + 1
  /\ call' = [op |-> op, char |-> c, at |-> "method"]
  /\ stopped' = IF op = "start" THEN stopped \ {c} ELSE stopped
  /\ UNCHANGED <<daemonVars, phase, reply, proxies, port, clientVars, gap, lost, ghosts>>

UserCall == \E c \in Char : Notify("start", c) \/ Notify("stop", c)

\* Nothing is owed to a stream whose match is dropped.
CallStep ==
  \E c \in Char :
    \/ /\ \E op \in {"start", "stop"} :
            GattMethodReturns(op, c) \/ GattCallFails(op, c) \/ GattCallBlocks(op, c)
       /\ UNCHANGED <<clientVars, history>>
    \/ /\ \E op \in {"start", "stop"} : GattCallUnbuilt(op, c)
       /\ lost' = lost + 1
       /\ UNCHANGED <<clientVars, gap, stopped, unanswered, ghosts>>
    \/ start_notify(c) /\ UNCHANGED <<clientVars, history>>
    \/ /\ stop_notify(c)
       /\ gap' = gap \cup Pairs({c})
       /\ UNCHANGED <<clientVars, stopped, unanswered, lost, ghosts>>
    \/ post_success("start", c) /\ UNCHANGED <<clientVars, history>>
    \/ /\ post_success("stop", c)
       /\ stopped' = stopped \cup {c}
       /\ UNCHANGED <<clientVars, gap, unanswered, lost, ghosts>>

(***************************************************************************)
(* The isolate's own event loop.                                           *)
(***************************************************************************)
OnEvent ==
  /\ \/ OnSentinel \/ OnAdapterProps \/ OnDeviceProps \/ OnCharProps
     \/ OnDeviceAdded \/ OnDeviceRemoved \/ OnServiceAdded \/ OnCharAdded
     \/ OnDescAdded \/ OnObjectRemoved \/ OnResult
  /\ unanswered' = IF IsResult(Head(port)) THEN unanswered - 1 ELSE unanswered
  /\ UNCHANGED <<gap, stopped, lost, ghosts>>

Close ==
  /\ CloseClient
  /\ ghosts' = {}
  /\ UNCHANGED <<gap, stopped, unanswered, lost>>

\* What the client's threads do by themselves.
Work == \/ Snapshot \/ PostSnapshot \/ CreateReturns \/ CreateThrows
        \/ EventLoop \/ CallStep \/ OnEvent

Next == DaemonStep \/ Connect \/ Work \/ UserCall \/ Close

Spec == Init /\ [][Next]_vars

\* Each thread is scheduled, each D-Bus call is answered, and a lock that is given
\* back is had: that two threads block each other for good is a step of the model
\* (GattCallBlocks), after which neither has one.  Nothing makes the daemon or the
\* user move.
FairSpec ==
  /\ Spec
  /\ WF_vars(Snapshot \/ PostSnapshot \/ CreateReturns \/ CreateThrows)
  /\ WF_vars(EventLoop)
  /\ WF_vars(CallStep)
  /\ WF_vars(OnEvent)

-----------------------------------------------------------------------------
TypeOK ==
  /\ DaemonTypeOK
  /\ ManagerTypeOK
  /\ ClientTypeOK
  /\ gap \subseteq Pairs(Path)
  /\ stopped \subseteq Char
  /\ unanswered \in Int /\ lost \in Nat
  /\ ghosts \subseteq Device \ present

Quiescent == phase = "running" /\ call = NoCall /\ wire = <<>> /\ port = <<>>

\* BlueZClient.devices: once every signal and message has been handled, the
\* client knows exactly the devices that exist, although InterfacesAdded and
\* InterfacesRemoved sent before the snapshot are replayed after it, and those
\* that went with a crashed daemon and have not come back, which nobody removes.
DevicesConverge == Quiescent => devices = (present \cap Device) \cup ghosts

\* The GATT objects of a known device are all in its maps, each listed by the
\* current object of its parent, although a replayed 0x04 or 0x06 throws the
\* objects below it away.
GattComplete ==
  Quiescent => \A p \in present \cap (Service \cup Char \cup Desc) :
                 DeviceOf(p) \in devices => p \in linked

\* A cached property differs from the daemon's only if its last change fell
\* where no match for the object was installed, or was overwritten by an
\* InterfacesAdded older than the snapshot.
CacheLagsOnlyInGap ==
  Quiescent => \A p \in present \cap (adapters \cup devices) : \A f \in Tracked :
                 cache[p][f] = truth[p][f] \/ <<p, f>> \in gap

\* The stream of a subscribed characteristic has carried the last value that
\* changed while its match was installed.
NotifyDelivers ==
  Quiescent => \A c \in present \cap gatt \cap Char :
                 emitted[c] = truth[c][Value] \/ <<c, Value>> \in gap

\* When stopNotify() has been answered, no value follows the answer.
QuietAfterStop ==
  \A c \in stopped : \A i \in DOMAIN port :
    port[i].tag = "CharProps" /\ port[i].path = c
      => \E j \in DOMAIN port : j > i /\ port[j].tag = "StopDone" /\ port[j].path = c

\* connect() returns only when the client holds the whole snapshot: "all
\* adapters and already-known devices are populated" (bluez_client.dart:96).
SnapshotBeforeReady ==
  [][ready' /\ ~ ready =>
       /\ devices' = snapped \cap Device
       /\ adapters' = snapped \cap Adapter
       /\ \A p \in devices' \cup adapters' : cache'[p] = snap[p]
       /\ linked' = {p \in snapped \cap (Service \cup Char \cup Desc) : DeviceOf(p) \in snapped}
    ]_vars

\* connect() answers, one way or the other, unless close() comes first, or the
\* threads block each other over a characteristic that the client knows before
\* the sentinel has been handled.
ConnectAnswers ==
  phase = "constructed" ~> ready \/ phase \in {"idle", "destroyed"} \/ Blocked

\* A startNotify() or stopNotify() is answered and its Future completes, whatever
\* the daemon replies, unless close() comes first or the threads block each other.
\* What is lost is a call whose bridge object could not be built: the error is
\* printed (bluez_bridge.cpp:238 and 250) and its Future is pending for ever.
CallsAnswered ==
  unanswered > lost ~> unanswered = lost \/ phase = "destroyed" \/ Blocked

\* While the client runs, its devices end up being the daemon's, and the ghosts,
\* unless a notification call and a handler block each other: then the list stays
\* what it was.
DevicesEventuallyCurrent ==
  <>[](phase = "running" => devices = (present \cap Device) \cup ghosts \/ Blocked)

\* "Posting all changes to Dart" (object_manager.h:7): the removal of an object
\* the client knows is posted.
RemovalsPosted ==
  [][DispatchRemoved /\ Head(wire).path \in adapters \cup devices \cup gatt
       => port' # port]_vars
=============================================================================
