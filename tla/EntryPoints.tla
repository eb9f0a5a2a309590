----------------------------- MODULE EntryPoints -----------------------------
(***************************************************************************)
(* The exported functions of bluez_bridge.cpp against the event loop: two  *)
(* threads, and the two locks they share.  The isolate calls one function  *)
(* at a time; the loop thread runs the signal handlers of ObjectManager    *)
(* and the reply callbacks of DeviceBridge.  proxies_mutex_ protects the   *)
(* three maps of proxies.  The sdbus connection has a lock of its own      *)
(* (external, recursive): the loop holds it while it dispatches a message, *)
(* a blocking call until its reply is there, and a match needs it to be    *)
(* installed or removed.  One adapter, device, characteristic, service and *)
(* descriptor are enough: the locks do not depend on the path.             *)
(***************************************************************************)
EXTENDS Naturals

CONSTANTS
  MaxCalls,    \* bound on the calls of the isolate, bluez_client_destroy aside
  MaxSignals   \* bound on the signals of the daemon

ASSUME BoundsAssumption == MaxCalls \in Nat \ {0} /\ MaxSignals \in Nat

VARIABLES
  at,       \* where the isolate is, "dart" outside native code
  made,     \* number of calls so far
  calls,    \* the function of each call
  answers,  \* how many messages the result port of each call got
  loop,     \* where the loop thread is
  event,    \* what it dispatches
  seen,     \* number of signals so far
  leaving,  \* leaveEventLoop has been called
  pending,  \* calls whose reply a callback waits for
  conn,     \* holder of the connection's lock
  mutex,    \* holder of proxies_mutex_
  proxies   \* objects with a proxy in notify_, device_ or adapter_proxies_

isolateVars == <<at, made, calls>>
loopVars    == <<loop, event, seen>>
lockVars    == <<conn, mutex>>
vars == <<isolateVars, loopVars, lockVars, answers, leaving, pending, proxies>>

AdapterCall == {"start_discovery", "stop_discovery", "set_discovery_filter",
                "remove_device", "adapter_set_property"}
DeviceCall  == {"cancel_pairing", "device_set_property"}
AsyncCall   == {"connect", "disconnect", "pair"}
ValueCall   == {"char_read", "char_write", "desc_read", "desc_write"}
NotifyCall  == {"start_notify", "stop_notify"}
PortCall    == AsyncCall \cup ValueCall \cup NotifyCall
Function    == AdapterCall \cup DeviceCall \cup PortCall
None        == "none"

Watched   == {"adapter", "device", "char"}
Unwatched == {"service", "desc"}
Event ==
  [kind : {"added", "removed", "changed"}, of : Watched \cup Unwatched, call : {0}]
    \cup [kind : {"reply"}, of : {None}, call : 1 .. MaxCalls]
Nothing == [kind |-> None, of |-> None, call |-> 0]

Current == IF made = 0 THEN None ELSE calls[made]

Init ==
  /\ at = "dart" /\ made = 0
  /\ calls = [c \in 1 .. MaxCalls |-> None]
  /\ answers = [c \in 1 .. MaxCalls |-> 0]
  /\ loop = "poll" /\ event = Nothing /\ seen = 0
  /\ leaving = FALSE
  /\ pending = {}
  /\ conn = "free" /\ mutex = "free"
  /\ proxies \in SUBSET {"adapter", "device"}

(***************************************************************************)
(* The isolate: from Dart into a function, through the bridge objects, and *)
(* back.  A bridge is built and gone within the call.                      *)
(***************************************************************************)
Move(from, to) == at = from /\ at' = to

TakesConn(t)  == conn = "free" /\ conn' = t
DropsConn     == conn' = "free"
TakesMutex(t) == mutex = "free" /\ mutex' = t
DropsMutex    == mutex' = "free"

\* A message for the result port of call c.
PostResult(c) == answers' = [answers EXCEPT ![c] = @ + 1]

Enter(f, to) ==
  /\ Move("dart", to)
  /\ made < MaxCalls
  /\ made' = made + 1
  /\ calls' = [calls EXCEPT ![made + 1] = f]
  /\ UNCHANGED <<loopVars, lockVars, answers, leaving, pending, proxies>>

\* A property whose value is not one byte long is not set.
EnterAdapter ==
  \/ \E f \in AdapterCall : Enter(f, "call")
  \/ Enter("adapter_set_property", "return")

EnterDevice ==
  \/ \E f \in DeviceCall : Enter(f, "call")
  \/ Enter("device_set_property", "return")

EnterAsync == \E f \in AsyncCall : Enter(f, "send")

EnterGatt == \E f \in ValueCall \cup NotifyCall : Enter(f, "call")

\* A blocking call takes the connection and keeps it until the reply.
CallMethod ==
  /\ Move("call", "reply")
  /\ TakesConn("isolate")
  /\ UNCHANGED <<made, calls, loopVars, mutex, answers, leaving, pending, proxies>>

Reply(to) ==
  /\ Move("reply", to)
  /\ DropsConn
  /\ UNCHANGED <<made, calls, loopVars, mutex, answers, leaving, pending, proxies>>

\* The functions without a port have nowhere to report an error: it is printed,
\* and cancel_pairing drops it.
SetterReturns ==
  /\ Current \in AdapterCall \cup DeviceCall
  /\ Reply("return")

ValueReturns ==
  /\ Current \in ValueCall
  /\ Reply("post")

\* Faulty variant: an error of the call is printed, not posted.
NotifyReturns_printed ==
  /\ Current \in NotifyCall
  /\ Reply("lock") \/ Reply("return")

NotifyReturns ==
  /\ Current \in NotifyCall
  /\ Reply("lock") \/ Reply("post")

\* callMethodAsync sends and leaves a callback that owns the proxy.
CallMethodAsync ==
  /\ Move("send", "return")
  /\ conn = "free"
  /\ pending' = pending \cup {made}
  /\ UNCHANGED <<made, calls, loopVars, lockVars, answers, leaving, proxies>>

\* Faulty variant: the map is changed without the mutex.
LockProxies_missing ==
  /\ Move("lock", IF Current = "start_notify" THEN "find" ELSE "erase")
  /\ UNCHANGED <<made, calls, loopVars, lockVars, answers, leaving, pending, proxies>>

LockProxies ==
  /\ Move("lock", IF Current = "start_notify" THEN "find" ELSE "erase")
  /\ TakesMutex("isolate")
  /\ UNCHANGED <<made, calls, loopVars, conn, answers, leaving, pending, proxies>>

FindNotify ==
  /\ Move("find", IF "char" \in proxies THEN "unlock" ELSE "match")
  /\ UNCHANGED <<made, calls, loopVars, lockVars, answers, leaving, pending, proxies>>

\* uponSignal asks the bus for a match; a failure unwinds to the catch of
\* start_notify, which answers as well.
MatchNotify ==
  /\ Move("match", "insert") \/ Move("match", "unlock")
  /\ conn = "free"
  /\ UNCHANGED <<made, calls, loopVars, lockVars, answers, leaving, pending, proxies>>

InsertNotify ==
  /\ Move("insert", "unlock")
  /\ proxies' = proxies \cup {"char"}
  /\ UNCHANGED <<made, calls, loopVars, lockVars, answers, leaving, pending>>

\* Erasing the proxy removes its match, if there is one.
EraseNotify ==
  /\ Move("erase", "unlock")
  /\ "char" \in proxies => conn = "free"
  /\ proxies' = proxies \ {"char"}
  /\ UNCHANGED <<made, calls, loopVars, lockVars, answers, leaving, pending>>

UnlockNotify ==
  /\ Move("unlock", "post")
  /\ DropsMutex
  /\ UNCHANGED <<made, calls, loopVars, conn, answers, leaving, pending, proxies>>

\* post_success, post_value_result or post_error.
PostAnswer ==
  /\ Move("post", "return")
  /\ PostResult(made)
  /\ UNCHANGED <<made, calls, loopVars, lockVars, leaving, pending, proxies>>

Return ==
  /\ Move("return", "dart")
  /\ UNCHANGED <<made, calls, loopVars, lockVars, answers, leaving, pending, proxies>>

\* Faulty variant: the loop is not told to end.
LeaveEventLoop_missing ==
  /\ Move("dart", "join")
  /\ UNCHANGED <<made, calls, loopVars, lockVars, answers, leaving, pending, proxies>>

\* Faulty variant: the maps are locked before the loop has ended.
LeaveEventLoop_locked ==
  /\ Move("dart", "join")
  /\ leaving' = TRUE
  /\ TakesMutex("isolate")
  /\ UNCHANGED <<made, calls, loopVars, conn, answers, pending, proxies>>

\* bluez_client_destroy: stop the loop, wait for its thread, delete everything.
LeaveEventLoop ==
  /\ Move("dart", "join")
  /\ leaving' = TRUE
  /\ UNCHANGED <<made, calls, loopVars, lockVars, answers, pending, proxies>>

\* Faulty variant: the thread is detached, not joined.
Join_missing ==
  /\ Move("join", "delete")
  /\ UNCHANGED <<made, calls, loopVars, lockVars, answers, leaving, pending, proxies>>

Join ==
  /\ Move("join", "delete")
  /\ loop = "exited"
  /\ UNCHANGED <<made, calls, loopVars, lockVars, answers, leaving, pending, proxies>>

\* ~ObjectManager clears the maps under the mutex; the connection goes last, and
\* with it the callbacks that still wait.
Delete ==
  /\ Move("delete", "destroyed")
  /\ mutex = "free"
  /\ conn = "free"
  /\ proxies' = {}
  /\ pending' = {}
  /\ UNCHANGED <<made, calls, loopVars, lockVars, answers, leaving>>

(***************************************************************************)
(* The loop thread.                                                        *)
(***************************************************************************)
Go(from, to) == loop = from /\ loop' = to

\* A message is taken off the connection and its handler runs.
Dispatch(e, to) ==
  /\ Go("poll", to)
  /\ TakesConn("loop")
  /\ event' = e
  /\ UNCHANGED <<isolateVars, mutex, answers, leaving, pending, proxies>>

Signal(k, o, to) ==
  /\ seen < MaxSignals
  /\ seen' = seen + 1
  /\ Dispatch([kind |-> k, of |-> o, call |-> 0], to)

\* on_interfaces_added posts, then subscribes to an adapter or a device.
InterfacesAdded ==
  \E o \in Watched \cup Unwatched :
    Signal("added", o, IF o \in {"adapter", "device"} THEN "lock" ELSE "leave")

\* on_interfaces_removed posts for a device, and drops what was subscribed.
InterfacesRemoved ==
  \E o \in Watched \cup Unwatched :
    Signal("removed", o, IF o \in Watched THEN "lock" ELSE "leave")

\* The callback of a subscription posts what changed.
PropertiesChanged == \E o \in proxies : Signal("changed", o, "leave")

ReplyArrives ==
  /\ \E c \in pending : Dispatch([kind |-> "reply", of |-> None, call |-> c], "reply")
  /\ UNCHANGED seen

LockForHandler ==
  /\ Go("lock", IF event.kind = "added" THEN "find" ELSE "erase")
  /\ TakesMutex("loop")
  /\ UNCHANGED <<isolateVars, event, seen, conn, answers, leaving, pending, proxies>>

\* The loop has the connection: the match is installed at once, or refused.
FindProps ==
  /\ \/ event.of \notin proxies /\ Go("find", "insert")
     \/ Go("find", "unlock")
  /\ UNCHANGED <<isolateVars, event, seen, lockVars, answers, leaving, pending, proxies>>

InsertProps ==
  /\ Go("insert", "unlock")
  /\ proxies' = proxies \cup {event.of}
  /\ UNCHANGED <<isolateVars, event, seen, lockVars, answers, leaving, pending>>

EraseProps ==
  /\ Go("erase", "unlock")
  /\ proxies' = proxies \ {event.of}
  /\ UNCHANGED <<isolateVars, event, seen, lockVars, answers, leaving, pending>>

UnlockProps ==
  /\ Go("unlock", "leave")
  /\ DropsMutex
  /\ UNCHANGED <<isolateVars, event, seen, conn, answers, leaving, pending, proxies>>

\* Faulty variant: only success is posted.
InvokeReply_success_only ==
  /\ Go("reply", "leave")
  /\ PostResult(event.call) \/ UNCHANGED answers
  /\ pending' = pending \ {event.call}
  /\ UNCHANGED <<isolateVars, event, seen, lockVars, leaving, proxies>>

\* uponReplyInvoke: success or error, one message either way.
InvokeReply ==
  /\ Go("reply", "leave")
  /\ PostResult(event.call)
  /\ pending' = pending \ {event.call}
  /\ UNCHANGED <<isolateVars, event, seen, lockVars, leaving, proxies>>

LeaveHandler ==
  /\ Go("leave", "poll")
  /\ DropsConn
  /\ event' = Nothing
  /\ UNCHANGED <<isolateVars, seen, mutex, answers, leaving, pending, proxies>>

ExitLoop ==
  /\ leaving
  /\ Go("poll", "exited")
  /\ UNCHANGED <<isolateVars, event, seen, lockVars, answers, leaving, pending, proxies>>

-----------------------------------------------------------------------------
Enters == EnterAdapter \/ EnterDevice \/ EnterAsync \/ EnterGatt \/ LeaveEventLoop

GoesOn ==
  \/ CallMethod \/ SetterReturns \/ ValueReturns \/ NotifyReturns \/ CallMethodAsync
  \/ LockProxies \/ FindNotify \/ MatchNotify \/ InsertNotify \/ EraseNotify
  \/ UnlockNotify \/ PostAnswer \/ Return \/ Join \/ Delete

Signals == InterfacesAdded \/ InterfacesRemoved \/ PropertiesChanged

LoopGoesOn ==
  \/ LockForHandler \/ FindProps \/ InsertProps \/ EraseProps \/ UnlockProps
  \/ ReplyArrives \/ InvokeReply \/ LeaveHandler \/ ExitLoop

Next == Enters \/ GoesOn \/ Signals \/ LoopGoesOn

Spec == Init /\ [][Next]_vars

\* Both threads are scheduled, and every call is replied to or times out.  The
\* caller need not call anything, nor the daemon signal anything.
FairSpec == Spec /\ WF_vars(GoesOn) /\ WF_vars(LoopGoesOn)

(***************************************************************************)
(* Properties.                                                             *)
(***************************************************************************)
TypeOK ==
  /\ at \in {"dart", "call", "reply", "send", "lock", "find", "match", "insert",
             "erase", "unlock", "post", "return", "join", "delete", "destroyed"}
  /\ made \in 0 .. MaxCalls
  /\ calls \in [1 .. MaxCalls -> Function \cup {None}]
  /\ answers \in [1 .. MaxCalls -> Nat]
  /\ loop \in {"poll", "lock", "find", "insert", "erase", "unlock", "reply", "leave",
               "exited"}
  /\ event \in Event \cup {Nothing}
  /\ seen \in Nat
  /\ leaving \in BOOLEAN
  /\ pending \subseteq 1 .. MaxCalls
  /\ conn \in {"free", "isolate", "loop"}
  /\ mutex \in {"free", "isolate", "loop"}
  /\ proxies \subseteq Watched

InMaps(where) == where \in {"find", "match", "insert", "erase"}

IsolateBlocked ==
  \/ at \in {"call", "send", "match"} /\ conn = "loop"
  \/ at = "erase" /\ "char" \in proxies /\ conn = "loop"
  \/ at = "lock" /\ mutex = "loop"
  \/ at = "join" /\ loop # "exited"
  \/ at = "delete" /\ mutex = "loop"

LoopBlocked == loop = "lock" /\ mutex = "isolate"

\* Each thread waits for the other.
Deadlocked == IsolateBlocked /\ LoopBlocked

\* object_manager.h:10 - the two threads are never both inside the maps.
NoMapRace == ~ (InMaps(at) /\ InMaps(loop))

\* Call c has come back, to a client that is not destroyed.
Over(c) ==
  \/ c < made /\ at # "destroyed"
  \/ c = made /\ at \in {"dart", "join"}

\* A call never gets two answers, a call without a port none; one that has come
\* back has its answer, or a callback that still waits to give it.
AnswersOnce ==
  \A c \in 1 .. made :
    /\ answers[c] <= (IF calls[c] \in PortCall THEN 1 ELSE 0)
    /\ c \in pending => answers[c] = 0
    /\ Over(c) /\ calls[c] \in PortCall => answers[c] = 1 \/ c \in pending

\* bluez_client_destroy deletes the context only when nobody is left in it: the
\* loop thread is gone and no lock is held.
QuietAfterDestroy ==
  at \in {"delete", "destroyed"} =>
    loop = "exited" /\ conn = "free" /\ mutex = "free" /\ event = Nothing

\* The threads can block each other in one place only: the isolate installs or
\* removes the match of a notification with the mutex held, while a handler that
\* has the connection wants the mutex.
DeadlockOnlyInNotify ==
  Deadlocked =>
    /\ at \in {"match", "erase"}
    /\ Current \in NotifyCall
    /\ event.kind \in {"added", "removed"}

\* Every exported function returns, unless the threads block each other.
EntryPointsReturn == at \notin {"dart", "destroyed"} ~> at \in {"dart", "destroyed"} \/ Deadlocked

\* Every call with a port is answered, unless the client is destroyed first or
\* the threads block each other.
PortsAnswered ==
  \A c \in 1 .. MaxCalls :
    calls[c] \in PortCall ~> answers[c] = 1 \/ leaving \/ Deadlocked

\* gatt_bridge.h:42,46 - start_notify and stop_notify post 0xFF or a BlueZError.
NotifyAnswered ==
  \A c \in 1 .. MaxCalls : calls[c] \in NotifyCall ~> answers[c] = 1
=============================================================================
