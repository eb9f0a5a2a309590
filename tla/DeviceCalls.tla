---------------------------- MODULE DeviceCalls ----------------------------
(***************************************************************************)
(* The calls of a BlueZDevice and of its GATT objects.  connect(),         *)
(* disconnect() and pair() return at once from native code; the reply is   *)
(* posted by the event loop to a port of the call, and connect() and       *)
(* disconnect() then wait until their object shows the change.  One device *)
(* is enough: its object may be replaced while calls on it are pending.    *)
(***************************************************************************)
EXTENDS Naturals, Sequences, FiniteSets

CONSTANTS
  Task,       \* callers, one call each
  MaxEvents   \* bound on the changes of the device

ASSUME EventsAssumption == MaxEvents \in Nat

VARIABLES
  exists, truth,  \* the daemon: whether the device exists, and its properties
  events,         \* number of changes so far
  asked,          \* calls the daemon has not answered
  wire,           \* signals and replies on the connection, in the order sent
  subscribed,     \* the device is a key of device_proxies_
  unread,         \* how many messages of wire precede that match
  open,           \* the native client has not been destroyed
  port,           \* messages of the isolate, for the events port and for calls
  current,        \* number of the BlueZDevice in _devices, None for none
  made,           \* number of BlueZDevice objects created
  props,          \* _props of each of them
  pc, op, object  \* what each caller does, which call it makes, on which object

VARIABLES lost, said  \* history: changes without a match, state at each reply

daemonVars == <<exists, truth, events, asked, lost, said>>
nativeVars == <<wire, subscribed, unread, open>>
objectVars == <<current, made, props>>
callVars   == <<pc, op, object>>
vars == <<daemonVars, nativeVars, port, objectVars, callVars>>

Flag   == {"Connected", "ServicesResolved"}
None   == 0
Object == 1 .. MaxEvents + 1

Asynchronous == {"connect", "disconnect", "pair"}

\* What a call waits for before it returns: the flag and its value.
Awaited == [connect    |-> <<"Connected", TRUE>>,
            disconnect |-> <<"Connected", FALSE>>,
            resolve    |-> <<"ServicesResolved", TRUE>>]

Shows(values, k) == k \in DOMAIN Awaited => values[Awaited[k][1]] = Awaited[k][2]

Changed(f, v)   == [kind |-> "changed", flag |-> f, value |-> v]
Added(values)   == [kind |-> "added", values |-> values]
Removed         == [kind |-> "removed"]
Result(t, ok)   == [kind |-> "result", task |-> t, ok |-> ok]

Init ==
  /\ exists = TRUE
  /\ truth \in [Flag -> BOOLEAN]
  /\ events = 0 /\ asked = {}
  /\ wire = <<>> /\ subscribed = TRUE /\ unread = 0 /\ open = TRUE
  /\ port = <<>>
  /\ current = 1 /\ made = 1
  /\ props = [o \in Object |-> truth]
  /\ pc = [t \in Task |-> "idle"]
  /\ op = [t \in Task |-> "pair"]
  /\ object = [t \in Task |-> None]
  /\ lost = {}
  /\ said = [t \in Task |-> {}]

(***************************************************************************)
(* bluetoothd.                                                             *)
(***************************************************************************)
Tick == events < MaxEvents /\ events' = events + 1

Send(m) == wire' = IF open THEN Append(wire, m) ELSE wire

\* The match is installed, and still will be when the signal is dispatched.
Covered == subscribed /\ \A i \in DOMAIN wire : wire[i].kind # "removed"

Flip(f) ==
  /\ Tick
  /\ exists
  /\ truth' = [truth EXCEPT ![f] = ~ @]
  /\ IF subscribed THEN Send(Changed(f, truth'[f])) ELSE UNCHANGED wire
  /\ lost' = IF Covered THEN lost \ {f} ELSE lost \cup {f}
  /\ UNCHANGED <<exists, asked, said, subscribed, unread, open, port, objectVars, callVars>>

Vanish ==
  /\ Tick
  /\ exists
  /\ exists' = FALSE
  /\ Send(Removed)
  /\ UNCHANGED <<truth, asked, lost, said, subscribed, unread, open, port, objectVars, callVars>>

Appear ==
  /\ Tick
  /\ ~ exists
  /\ exists' = TRUE
  /\ truth' \in [Flag -> BOOLEAN]
  /\ Send(Added(truth'))
  /\ lost' = {}
  /\ UNCHANGED <<asked, said, subscribed, unread, open, port, objectVars, callVars>>

\* The daemon answers a call, or sd-bus reports that it took too long.
Answer(t) ==
  /\ t \in asked
  /\ asked' = asked \ {t}
  /\ \E ok \in BOOLEAN : (ok => exists) /\ Send(Result(t, ok))
  /\ said' = [said EXCEPT ![t] = IF exists THEN {<<f, truth[f]>> : f \in Flag \ lost} ELSE {}]
  /\ UNCHANGED <<exists, truth, events, lost, subscribed, unread, open, port, objectVars, callVars>>

(***************************************************************************)
(* The event loop: signal handlers of ObjectManager and reply callbacks of *)
(* DeviceBridge, in the order of the connection.                           *)
(***************************************************************************)
Dispatch(kind) ==
  /\ open
  /\ wire # <<>>
  /\ Head(wire).kind = kind
  /\ wire' = Tail(wire)
  /\ UNCHANGED <<daemonVars, open, objectVars, callVars>>

ReadOn == unread' = IF unread = 0 THEN 0 ELSE unread - 1

Post(m) == port' = Append(port, m)

\* Faulty variant: only success is reported.
DispatchReply_success_only ==
  /\ Dispatch("result")
  /\ IF Head(wire).ok THEN Post(Head(wire)) ELSE UNCHANGED port
  /\ ReadOn
  /\ UNCHANGED subscribed

\* Faulty variant: a reply goes ahead of the events posted before it.
DispatchReply_first ==
  /\ Dispatch("result")
  /\ port' = <<Head(wire)>> \o port
  /\ ReadOn
  /\ UNCHANGED subscribed

DispatchReply ==
  /\ Dispatch("result")
  /\ Post(Head(wire))
  /\ ReadOn
  /\ UNCHANGED subscribed

DispatchChanged ==
  /\ Dispatch("changed")
  /\ subscribed
  /\ Post(Head(wire))
  /\ ReadOn
  /\ UNCHANGED subscribed

\* No match, or one installed after the message may have been read.
DispatchUnmatched ==
  /\ Dispatch("changed")
  /\ ~ subscribed \/ unread > 0
  /\ ReadOn
  /\ UNCHANGED <<subscribed, port>>

DispatchAdded ==
  /\ Dispatch("added")
  /\ Post(Head(wire))
  /\ subscribed' = TRUE
  /\ IF subscribed THEN ReadOn ELSE unread' = Len(wire')

DispatchRemoved ==
  /\ Dispatch("removed")
  /\ Post(Head(wire))
  /\ subscribed' = FALSE
  /\ unread' = 0

EventLoop == \/ DispatchReply \/ DispatchChanged \/ DispatchUnmatched
             \/ DispatchAdded \/ DispatchRemoved

(***************************************************************************)
(* The callers.  One may hold any object the client has handed out.  No    *)
(* call is made on a client that has been closed.                          *)
(***************************************************************************)
Begin(t, o, k, step) ==
  /\ open
  /\ pc[t] = "idle"
  /\ pc' = [pc EXCEPT ![t] = step]
  /\ op' = [op EXCEPT ![t] = k]
  /\ object' = [object EXCEPT ![t] = o]
  /\ UNCHANGED <<exists, truth, events, lost, said, nativeVars, objectVars>>

\* connect(), disconnect() and pair(): native code sends the method call.
call_device_method_async(t, o) ==
  /\ \E k \in Asynchronous : Begin(t, o, k, "asked")
  /\ asked' = asked \cup {t}
  /\ UNCHANGED port

\* readValue() and writeValue(): native code makes the method call and posts the
\* result before it returns.  The isolate takes nothing meanwhile, so what the
\* event loop posts while the call lasts is posted before this step.
BlockingCall(t, o) ==
  \E ok \in BOOLEAN :
    /\ ok => exists
    /\ Post(Result(t, ok))
    /\ UNCHANGED asked

GattCall(t, o) == Begin(t, o, "gatt", "asked") /\ BlockingCall(t, o)

waitForServicesResolved(t, o) ==
  /\ Begin(t, o, "resolve", IF Shows(props[o], "resolve") THEN "done" ELSE "waiting")
  /\ UNCHANGED <<asked, port>>

\* The calls not answered yet are gone with the connection.
Close ==
  /\ open
  /\ open' = FALSE
  /\ wire' = <<>> /\ asked' = {} /\ subscribed' = FALSE /\ unread' = 0
  /\ UNCHANGED <<exists, truth, events, lost, said, port, objectVars, callVars>>

(***************************************************************************)
(* The isolate takes a message.                                            *)
(***************************************************************************)
Take(kind) ==
  /\ port # <<>>
  /\ Head(port).kind = kind
  /\ port' = Tail(port)
  /\ UNCHANGED <<daemonVars, nativeVars, op, object>>

\* Faulty variant: no look at the flag before waiting for the next change.
OnResult_waits ==
  /\ Take("result")
  /\ LET t == Head(port).task IN
     pc' = [pc EXCEPT ![t] = IF ~ Head(port).ok THEN "threw"
                             ELSE IF op[t] \in DOMAIN Awaited THEN "waiting" ELSE "done"]
  /\ UNCHANGED objectVars

\* Faulty variant: whatever arrives is taken for success.
OnResult_unread ==
  /\ Take("result")
  /\ LET t == Head(port).task IN
     pc' = [pc EXCEPT ![t] = IF Shows(props[object[t]], op[t]) THEN "done" ELSE "waiting"]
  /\ UNCHANGED objectVars

\* _awaitResult, and what the caller does next without giving up its turn.
OnResult ==
  /\ Take("result")
  /\ LET t == Head(port).task IN
     pc' = [pc EXCEPT ![t] = IF ~ Head(port).ok THEN "threw"
                             ELSE IF Shows(props[object[t]], op[t]) THEN "done" ELSE "waiting"]
  /\ UNCHANGED objectVars

\* Faulty variant: any change ends the wait.
Wake_on_any(o, values) ==
  pc' = [t \in Task |-> IF pc[t] = "waiting" /\ object[t] = o /\ values # props[o]
                        THEN "done" ELSE pc[t]]

\* Faulty variant: the values are compared after they were stored.
Wake_too_late(o, values) == UNCHANGED pc

\* propertiesChanged fires if the update changed something, and ends the waits
\* on this object whose condition now holds.
Wake(o, values) ==
  pc' = [t \in Task |-> IF /\ pc[t] = "waiting" /\ object[t] = o
                           /\ values # props[o] /\ Shows(values, op[t])
                        THEN "done" ELSE pc[t]]

OnChanged ==
  LET m == Head(port) IN
  /\ Take("changed")
  /\ open
  /\ IF current # None
     THEN /\ props' = [props EXCEPT ![current][m.flag] = m.value]
          /\ Wake(current, props'[current])
     ELSE UNCHANGED <<props, pc>>
  /\ UNCHANGED <<current, made>>

\* A new object takes the place of the one there may be.
OnAdded ==
  /\ Take("added")
  /\ open
  /\ made' = made + 1
  /\ current' = made'
  /\ props' = [props EXCEPT ![made'] = Head(port).values]
  /\ UNCHANGED pc

OnRemoved ==
  /\ Take("removed")
  /\ open
  /\ current' = None
  /\ UNCHANGED <<made, props, pc>>

\* close() has closed the events port; results go to ports of their own.
OnClosedPort ==
  /\ ~ open
  /\ \E kind \in {"changed", "added", "removed"} : Take(kind)
  /\ UNCHANGED <<objectVars, pc>>

OnMessage == OnResult \/ OnChanged \/ OnAdded \/ OnRemoved \/ OnClosedPort

Next ==
  \/ \E f \in Flag : Flip(f)
  \/ Vanish \/ Appear
  \/ \E t \in Task : Answer(t)
  \/ \E t \in Task, o \in 1 .. made : \/ call_device_method_async(t, o)
                                      \/ GattCall(t, o)
                                      \/ waitForServicesResolved(t, o)
  \/ EventLoop \/ OnMessage \/ Close

Spec == Init /\ [][Next]_vars

\* The event loop and the isolate run, and every call is answered or times out.
FairSpec ==
  /\ Spec
  /\ WF_vars(EventLoop)
  /\ WF_vars(OnMessage)
  /\ \A t \in Task : WF_vars(Answer(t))

-----------------------------------------------------------------------------
TypeOK ==
  /\ exists \in BOOLEAN /\ subscribed \in BOOLEAN /\ open \in BOOLEAN
  /\ truth \in [Flag -> BOOLEAN]
  /\ events \in 0 .. MaxEvents
  /\ asked \subseteq Task
  /\ unread \in 0 .. Len(wire)
  /\ made \in Object /\ current \in 0 .. made
  /\ props \in [Object -> [Flag -> BOOLEAN]]
  /\ pc \in [Task -> {"idle", "asked", "waiting", "done", "threw"}]
  /\ op \in [Task -> Asynchronous \cup {"gatt", "resolve"}]
  /\ object \in [Task -> Object \cup {None}]
  /\ lost \subseteq Flag
  /\ said \in [Task -> SUBSET (Flag \X BOOLEAN)]

\* A caller that handles the daemon's reply sees the device as the daemon saw it
\* when it replied, except for changes no match covered: replies and signals
\* share one connection, one event loop and one queue, so neither overtakes.
RepliesInOrder ==
  open /\ port # <<>> /\ Head(port).kind = "result"
    => LET t == Head(port).task IN
       said[t] # {} => current # None /\ \A e \in said[t] : props[current][e[1]] = e[2]

\* connect(), disconnect() and waitForServicesResolved() never wait for what
\* their object shows already: no change slips between the look and the wait.
NoMissedWakeup == \A t \in Task : pc[t] = "waiting" => ~ Shows(props[object[t]], op[t])

\* When one of them returns normally, its object shows what it waited for.
ReturnsAsPromised ==
  [][\A t \in Task : pc[t] # "done" /\ pc'[t] = "done" => Shows(props'[object'[t]], op'[t])]_vars

\* As long as the client is open, the answer of a pending call is in exactly one
\* place: with the daemon, on the connection or in the isolate's queue.
AnsweredOnce ==
  open => \A t \in Task :
    LET places(q) == Cardinality({i \in DOMAIN q : q[i].kind = "result" /\ q[i].task = t})
    IN  (IF t \in asked THEN 1 ELSE 0) + places(wire) + places(port)
          = IF pc[t] = "asked" THEN 1 ELSE 0

\* The results a queue holds, and whose they are.
Results(q) == {<<q[i].task, q[i].ok>> : i \in {j \in DOMAIN q : q[j].kind = "result"}}
Verdicts   == Results(wire) \cup Results(port)

\* The callers whose object shows what their call is for.
Satisfied == {t \in Task : Shows(props[object[t]], op[t])}

Promise == INSTANCE CallPromise WITH
  state    <- pc,
  shown    <- Satisfied,
  verdicts <- Verdicts,
  closed   <- ~ open

\* The calls implement CallPromise: a Future throws if and only if the daemon's
\* answer to this very call was an error, and completes neither before its object
\* shows what it waits for nor later than in the step in which it does.
ImplementsPromise == Promise!Spec

\* Every call gets its result, unless the client is closed.
CallsReturn == \A t \in Task : pc[t] = "asked" ~> pc[t] # "asked" \/ ~ open

\* A caller does not wait for ever on the current object of a device that keeps
\* the awaited value, if the change to it was covered by a match.
EventuallyWoken ==
  \A t \in Task :
    []<>(pc[t] = "waiting" /\ open /\ object[t] = current /\ Awaited[op[t]][1] \notin lost
           => ~ exists \/ ~ Shows(truth, op[t]))

\* "Connect/Disconnect/Pair post results to a per-call result_port"
\* (device_bridge.h:5): every call gets a result.
ResultPosted == \A t \in Task : pc[t] = "asked" ~> pc[t] # "asked"
=============================================================================
