-------------------------- MODULE ClientLifecycle --------------------------
(***************************************************************************)
(* connect() and close() of one BlueZClient, called by several tasks of    *)
(* the isolate.  A task runs until its next await, so its steps interleave *)
(* with the other tasks' and with the events of the native side.  What the *)
(* events say is the business of module Bridge.                            *)
(***************************************************************************)
EXTENDS Naturals, Sequences, FiniteSets

CONSTANTS
  Task,        \* callers of connect() or close(), one call each
  NoTask,      \* stands for Dart's null
  MaxCreated,  \* bound on the native contexts created
  MaxQueue     \* bound on the messages in the events port

ASSUME TaskAssumption == NoTask \notin Task
ASSUME LifecycleBounds == MaxCreated \in Nat /\ MaxQueue \in Nat

VARIABLES
  pc,         \* what each task is doing
  connected,  \* _connected
  handle,     \* _handle: the number of a native context, Null for null
  snapshot,   \* _initialSnapshotDone: the task its future is awaited by
  open,       \* whether _eventsPort is open
  queue,      \* messages posted to _eventsPort
  closed,     \* the event stream controllers that have been closed
  created,    \* number of native contexts created
  live,       \* native contexts not yet destroyed
  everClosed  \* some close() has begun

vars == <<pc, connected, handle, snapshot, open, queue, closed, created, live, everClosed>>

Null == 0
Controllers == {"deviceAdded", "deviceRemoved", "adapterChanged"}
Steps == {"idle", "waiting", "resumed", "connected", "threw",
          "closingAdded", "closingRemoved", "closingChanged", "closed"}

Init ==
  /\ pc = [t \in Task |-> "idle"]
  /\ connected = FALSE /\ handle = Null /\ snapshot = NoTask
  /\ open = FALSE /\ queue = <<>> /\ closed = {}
  /\ created = 0 /\ live = {} /\ everClosed = FALSE

Goto(t, step) == pc' = [pc EXCEPT ![t] = step]

(***************************************************************************)
(* connect().  bluez_client_create blocks the isolate, so everything up to *)
(* the await is one step.                                                  *)
(***************************************************************************)
ConnectAgain(t) ==
  /\ pc[t] = "idle"
  /\ connected
  /\ Goto(t, "connected")
  /\ UNCHANGED <<connected, handle, snapshot, open, queue, closed, created, live, everClosed>>

\* Faulty variants: the guard forgotten, and the sentinel forgotten.
ConnectCreates_unguarded(t) ==
  /\ pc[t] = "idle"
  /\ created < MaxCreated
  /\ connected' = TRUE
  /\ created' = created + 1
  /\ live' = live \cup {created + 1}
  /\ handle' = created + 1
  /\ snapshot' = t
  /\ open' = TRUE
  /\ queue' = <<"sentinel">>
  /\ Goto(t, "waiting")
  /\ UNCHANGED <<closed, everClosed>>

ConnectCreates_silent(t) ==
  /\ pc[t] = "idle"
  /\ ~ connected
  /\ created < MaxCreated
  /\ connected' = TRUE
  /\ created' = created + 1
  /\ live' = live \cup {created + 1}
  /\ handle' = created + 1
  /\ snapshot' = t
  /\ open' = TRUE
  /\ queue' = <<>>
  /\ Goto(t, "waiting")
  /\ UNCHANGED <<closed, everClosed>>

\* The snapshot, if there is any, and the sentinel are posted before create returns.
ConnectCreates(t) ==
  /\ pc[t] = "idle"
  /\ ~ connected
  /\ created < MaxCreated
  /\ connected' = TRUE
  /\ created' = created + 1
  /\ live' = live \cup {created + 1}
  /\ handle' = created + 1
  /\ snapshot' = t
  /\ open' = TRUE
  /\ queue' \in {<<"sentinel">>, <<"event", "sentinel">>}
  /\ Goto(t, "waiting")
  /\ UNCHANGED <<closed, everClosed>>

\* A null handle: the port is closed again and connect() may be retried.
ConnectThrows(t) ==
  /\ pc[t] = "idle"
  /\ ~ connected
  /\ Goto(t, "threw")
  /\ UNCHANGED <<connected, handle, snapshot, open, queue, closed, created, live, everClosed>>

ConnectReturns(t) ==
  /\ pc[t] = "resumed"
  /\ Goto(t, "connected")
  /\ UNCHANGED <<connected, handle, snapshot, open, queue, closed, created, live, everClosed>>

(***************************************************************************)
(* close(): destroy, close the port, then await the three controllers.     *)
(***************************************************************************)
DestroyHandle ==
  /\ live' = live \ {handle}
  /\ handle' = Null

\* Faulty variant: the port is closed with the last controller instead.
CloseBegins_port_open(t) ==
  /\ pc[t] = "idle"
  /\ DestroyHandle
  /\ closed' = closed \cup {"deviceAdded"}
  /\ everClosed' = TRUE
  /\ Goto(t, "closingAdded")
  /\ UNCHANGED <<connected, snapshot, open, queue, created>>

CloseBegins(t) ==
  /\ pc[t] = "idle"
  /\ DestroyHandle
  /\ open' = FALSE
  /\ queue' = <<>>
  /\ closed' = closed \cup {"deviceAdded"}
  /\ everClosed' = TRUE
  /\ Goto(t, "closingAdded")
  /\ UNCHANGED <<connected, snapshot, created>>

CloseGoesOn(t) ==
  /\ \/ /\ pc[t] = "closingAdded"
        /\ closed' = closed \cup {"deviceRemoved"}
        /\ Goto(t, "closingRemoved")
     \/ /\ pc[t] = "closingRemoved"
        /\ closed' = closed \cup {"adapterChanged"}
        /\ Goto(t, "closingChanged")
     \/ /\ pc[t] = "closingChanged"
        /\ Goto(t, "closed")
        /\ UNCHANGED closed
  /\ UNCHANGED <<connected, handle, snapshot, open, queue, created, live, everClosed>>

(***************************************************************************)
(* The native event loop posts; _onEvent runs between two steps of tasks.  *)
(***************************************************************************)
PostEvent ==
  /\ handle \in live
  /\ Len(queue) < MaxQueue
  /\ queue' = Append(queue, "event")
  /\ UNCHANGED <<pc, connected, handle, snapshot, open, closed, created, live, everClosed>>

Deliver(m) ==
  /\ open
  /\ queue # <<>>
  /\ Head(queue) = m
  /\ queue' = Tail(queue)
  /\ UNCHANGED <<connected, handle, open, closed, created, live, everClosed>>

OnSnapshotDone ==
  /\ Deliver("sentinel")
  /\ pc' = IF snapshot # NoTask THEN [pc EXCEPT ![snapshot] = "resumed"] ELSE pc
  /\ snapshot' = NoTask

\* Cases 0x01..0x08: they use _handle! and add to the controllers.
OnObjectEvent ==
  /\ Deliver("event")
  /\ UNCHANGED <<pc, snapshot>>

Next ==
  \/ \E t \in Task : \/ ConnectAgain(t) \/ ConnectCreates(t) \/ ConnectThrows(t)
                     \/ ConnectReturns(t) \/ CloseBegins(t) \/ CloseGoesOn(t)
  \/ PostEvent \/ OnSnapshotDone \/ OnObjectEvent

Spec == Init /\ [][Next]_vars

\* The isolate handles its messages and resumes its tasks; nobody has to call.
FairSpec ==
  /\ Spec
  /\ WF_vars(OnSnapshotDone \/ OnObjectEvent)
  /\ \A t \in Task : WF_vars(ConnectReturns(t)) /\ WF_vars(CloseGoesOn(t))

-----------------------------------------------------------------------------
TypeOK ==
  /\ pc \in [Task -> Steps]
  /\ connected \in BOOLEAN /\ open \in BOOLEAN /\ everClosed \in BOOLEAN
  /\ handle \in 0 .. MaxCreated
  /\ snapshot \in Task \cup {NoTask}
  /\ queue \in Seq({"sentinel", "event"})
  /\ closed \subseteq Controllers
  /\ created \in 0 .. MaxCreated
  /\ live \subseteq 1 .. MaxCreated

\* Every native context that has not been destroyed is the one the client
\* holds: overlapping connect() and close() calls leak none and free none twice.
NoLeak == live = {handle} \ {Null}

\* _onEvent never runs without a native handle, although close() suspends three
\* times after destroying it.
EventsNeedHandle == [][OnSnapshotDone \/ OnObjectEvent => handle \in live]_vars

\* connect() returns once the snapshot has been handled, unless close() began.
ConnectCompletes ==
  \A t \in Task : pc[t] = "waiting" ~> pc[t] = "connected" \/ everClosed

\* connect() connects to BlueZ (bluez_client.dart:69): a call that returns at
\* once leaves the caller with a native handle, even on a client closed before.
ConnectConnects ==
  [][\A t \in Task : pc[t] = "idle" /\ pc'[t] = "connected" => handle' # Null]_vars
============================================================================
