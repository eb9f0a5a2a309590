------------------------- MODULE DeviceCallsProofs -------------------------
(***************************************************************************)
(* Nobody waits for what is already so, and nobody returns before it is.   *)
(* Both rest on two facts: an object is handed out before it is waited on, *)
(* and a message changes the properties of the current object only, in the *)
(* step that looks at those who wait on it.  Every call has one answer     *)
(* until the client is closed, wherever it is at the time; and when the    *)
(* answer is handled, the changes sent before it have been.                *)
(***************************************************************************)
EXTENDS DeviceCalls, QueueOutcomeProofs

Steps == {"idle", "asked", "waiting", "done", "threw"}
Ops   == {"connect", "disconnect", "pair", "gatt", "resolve"}

Handed ==
  /\ made \in Nat
  /\ props = [o \in Object |-> props[o]]
  /\ pc \in [Task -> Steps]
  /\ op \in [Task -> Ops]
  /\ object \in [Task -> Nat]
  /\ \A t \in Task : object[t] <= made

WaitInv == Handed /\ NoMissedWakeup

PromiseKept ==
  \A t \in Task : pc[t] # "done" /\ pc'[t] = "done" => Shows(props'[object'[t]], op'[t])

\* What the daemon, the event loop and close() do is no business of the callers
\* until the isolate has taken a message.
LEMMA NextCases ==
  ASSUME Next
  PROVE  \/ UNCHANGED <<objectVars, callVars>>
         \/ \E t \in Task, o \in 1 .. made :
              \/ call_device_method_async(t, o)
              \/ GattCall(t, o)
              \/ waitForServicesResolved(t, o)
         \/ OnMessage
  BY Zenon DEF Next, Flip, Vanish, Appear, Answer, EventLoop, DispatchReply, DispatchChanged,
     DispatchUnmatched, DispatchAdded, DispatchRemoved, Dispatch, Close

LEMMA InitWaits ==
  ASSUME Init
  PROVE  WaitInv
<1>1. made \in Nat /\ props = [o \in Object |-> props[o]]
  BY DEF Init
<1>2. pc \in [Task -> Steps] /\ op \in [Task -> Ops]
  BY DEF Init, Steps, Ops
<1>3. object \in [Task -> Nat] /\ \A t \in Task : object[t] <= made
  BY DEF Init, None
<1>4. \A t \in Task : pc[t] # "waiting"
  BY DEF Init
<1> QED BY <1>1, <1>2, <1>3, <1>4 DEF WaitInv, Handed, NoMissedWakeup

LEMMA UnchangedWaits ==
  ASSUME WaitInv, UNCHANGED <<objectVars, callVars>>
  PROVE  WaitInv' /\ PromiseKept
  BY DEF WaitInv, Handed, NoMissedWakeup, PromiseKept, objectVars, callVars

\* A call begins: only waitForServicesResolved() looks at the flag at once.
LEMMA CallWaits ==
  ASSUME WaitInv, NEW t \in Task, NEW o \in 1 .. made,
         \/ call_device_method_async(t, o)
         \/ GattCall(t, o)
         \/ waitForServicesResolved(t, o)
  PROVE  WaitInv' /\ PromiseKept
<1>1. PICK k \in Ops, step \in Steps :
        /\ Begin(t, o, k, step)
        /\ step = "waiting" => ~ Shows(props[o], k)
        /\ step = "done" => Shows(props[o], k)
  <2>1. CASE call_device_method_async(t, o)
    <3>1. PICK k \in Asynchronous : Begin(t, o, k, "asked")
      BY <2>1 DEF call_device_method_async
    <3>2. k \in Ops
      BY DEF Asynchronous, Ops
    <3> QED BY <3>1, <3>2 DEF Steps
  <2>2. CASE GattCall(t, o)
    <3>1. Begin(t, o, "gatt", "asked")
      BY <2>2 DEF GattCall
    <3> QED BY <3>1 DEF Ops, Steps
  <2>3. CASE waitForServicesResolved(t, o)
    <3> DEFINE ends == IF Shows(props[o], "resolve") THEN "done" ELSE "waiting"
    <3>1. Begin(t, o, "resolve", ends)
      BY <2>3 DEF waitForServicesResolved
    <3>2. /\ ends \in Steps
          /\ ends = "waiting" => ~ Shows(props[o], "resolve")
          /\ ends = "done" => Shows(props[o], "resolve")
      BY DEF Steps
    <3> HIDE DEF ends
    <3> QED BY <3>1, <3>2 DEF Ops
  <2> QED BY <2>1, <2>2, <2>3
<1>2. /\ pc' = [pc EXCEPT ![t] = step]
      /\ op' = [op EXCEPT ![t] = k]
      /\ object' = [object EXCEPT ![t] = o]
      /\ UNCHANGED <<current, made, props>>
  BY <1>1 DEF Begin, objectVars
<1>3. Handed'
  BY <1>2 DEF WaitInv, Handed
<1>4. NoMissedWakeup'
  BY <1>1, <1>2 DEF WaitInv, Handed, NoMissedWakeup
<1>5. PromiseKept
  BY <1>1, <1>2 DEF WaitInv, Handed, PromiseKept
<1> QED BY <1>3, <1>4, <1>5 DEF WaitInv

\* A result arrives: the look at the flag and the decision to wait are one step.
LEMMA ResultWaits ==
  ASSUME WaitInv, OnResult
  PROVE  WaitInv' /\ PromiseKept
<1> DEFINE m == Head(port)
           step(t) == IF ~ m.ok THEN "threw"
                      ELSE IF Shows(props[object[t]], op[t]) THEN "done" ELSE "waiting"
<1>1. /\ pc' = [pc EXCEPT ![m.task] = step(m.task)]
      /\ UNCHANGED <<current, made, props, op, object>>
  BY DEF OnResult, Take, objectVars
<1>2. Handed'
  BY <1>1 DEF WaitInv, Handed, Steps
<1>3. NoMissedWakeup'
  BY <1>1 DEF WaitInv, Handed, NoMissedWakeup
<1>4. PromiseKept
  BY <1>1 DEF WaitInv, Handed, PromiseKept
<1> QED BY <1>2, <1>3, <1>4 DEF WaitInv

\* A change arrives: those it satisfies are woken, for the others nothing is so.
LEMMA ChangeWaits ==
  ASSUME WaitInv, OnChanged
  PROVE  WaitInv' /\ PromiseKept
<1>1. CASE UNCHANGED <<props, pc>>
  BY <1>1, UnchangedWaits DEF OnChanged, Take, objectVars, callVars
<1>2. CASE ~ UNCHANGED <<props, pc>>
  <2>1. /\ Wake(current, props'[current])
        /\ UNCHANGED <<current, made, op, object>>
        /\ props' = [props EXCEPT ![current][Head(port).flag] = Head(port).value]
    BY <1>2 DEF OnChanged, Take
  <2>2. props' = [o \in Object |-> props'[o]]
    BY <2>1 DEF WaitInv, Handed
  <2>3. \A o \in Nat : o # current => props'[o] = props[o]
    BY <2>1 DEF WaitInv, Handed
  <2>4. pc' \in [Task -> Steps]
    BY <2>1 DEF WaitInv, Handed, Wake, Steps
  <2>5. Handed'
    BY <2>1, <2>2, <2>4 DEF WaitInv, Handed
  <2>6. ASSUME NEW t \in Task
        PROVE  /\ pc'[t] = "waiting" => ~ Shows(props'[object'[t]], op'[t])
               /\ pc[t] # "done" /\ pc'[t] = "done" => Shows(props'[object'[t]], op'[t])
    <3>1. CASE pc[t] = "waiting" /\ object[t] = current
      BY <2>1, <3>1 DEF WaitInv, Handed, NoMissedWakeup, Wake
    <3>2. CASE ~ (pc[t] = "waiting" /\ object[t] = current)
      BY <2>1, <2>3, <3>2 DEF WaitInv, Handed, NoMissedWakeup, Wake
    <3> QED BY <3>1, <3>2
  <2> QED BY <2>5, <2>6 DEF WaitInv, NoMissedWakeup, PromiseKept
<1> QED BY <1>1, <1>2

\* A new object arrives: nobody holds it yet.
LEMMA AddedWaits ==
  ASSUME WaitInv, OnAdded
  PROVE  WaitInv' /\ PromiseKept
<1>1. /\ made' = made + 1
      /\ props' = [props EXCEPT ![made'] = Head(port).values]
      /\ UNCHANGED <<pc, op, object>>
  BY DEF OnAdded, Take
<1>2. props' = [o \in Object |-> props'[o]]
  BY <1>1 DEF WaitInv, Handed
<1>3. \A t \in Task : props'[object[t]] = props[object[t]]
  BY <1>1 DEF WaitInv, Handed
<1> QED BY <1>1, <1>2, <1>3 DEF WaitInv, Handed, NoMissedWakeup, PromiseKept

LEMMA RemovedWaits ==
  ASSUME WaitInv, OnRemoved
  PROVE  WaitInv' /\ PromiseKept
  BY DEF OnRemoved, Take, WaitInv, Handed, NoMissedWakeup, PromiseKept

LEMMA StepWaits ==
  ASSUME WaitInv, [Next]_vars
  PROVE  WaitInv' /\ [PromiseKept]_vars
<1>1. CASE UNCHANGED vars
  BY <1>1, UnchangedWaits DEF vars
<1>2. CASE Next
  <2>1. CASE OnClosedPort
    BY <2>1, UnchangedWaits DEF OnClosedPort, Take, objectVars, callVars
  <2> QED BY <1>2, <2>1, NextCases, UnchangedWaits, CallWaits, ResultWaits, ChangeWaits,
             AddedWaits, RemovedWaits DEF OnMessage
<1> QED BY <1>1, <1>2

\* In every reachable state, for any number of callers and of changes, nobody
\* waits for a flag that the object in hand already shows.
THEOREM NeverWaitsInVain == Spec => []NoMissedWakeup
<1>1. Init => WaitInv
  BY InitWaits
<1>2. WaitInv /\ [Next]_vars => WaitInv'
  BY StepWaits
<1>3. WaitInv => NoMissedWakeup
  BY DEF WaitInv
<1> QED BY <1>1, <1>2, <1>3, PTL DEF Spec

\* A call of connect(), disconnect() or waitForServicesResolved() returns
\* normally only in a step that leaves its object showing what it waited for.
THEOREM ReturnsKeepPromise == Spec => ReturnsAsPromised
<1>1. Init => WaitInv
  BY InitWaits
<1>2. WaitInv /\ [Next]_vars => WaitInv' /\ [PromiseKept]_vars
  BY StepWaits
<1>3. Spec => [][PromiseKept]_vars
  BY <1>1, <1>2, PTL DEF Spec
<1> QED BY <1>3 DEF ReturnsAsPromised, PromiseKept

(***************************************************************************)
(* Every call has one answer.  Its number in a queue is counted, and each  *)
(* step takes an answer from one place to the next.                        *)
(***************************************************************************)
Message ==
  [kind : {"changed"}, flag : Flag, value : BOOLEAN]
    \cup [kind : {"added"}, values : [Flag -> BOOLEAN]]
    \cup [kind : {"removed"}]
    \cup [kind : {"result"}, task : Task, ok : BOOLEAN]

IsAnswer(m, t) == m.kind = "result" /\ m.task = t
Answers(q, t)  == Cardinality({i \in DOMAIN q : q[i].kind = "result" /\ q[i].task = t})

LEMMA AnswersCounted ==
  ASSUME NEW S, NEW q \in Seq(S), NEW t
  PROVE  /\ Answers(q, t) = Count(q, {m \in S : IsAnswer(m, t)})
         /\ Answers(q, t) \in Nat
         /\ Answers(q, t) = 0 => \A i \in DOMAIN q : ~ IsAnswer(q[i], t)
<1>1. {i \in DOMAIN q : q[i].kind = "result" /\ q[i].task = t}
        = {i \in DOMAIN q : q[i] \in {m \in S : IsAnswer(m, t)}}
  BY DEF IsAnswer
<1>2. Answers(q, t) = Count(q, {m \in S : IsAnswer(m, t)})
  BY <1>1 DEF Answers, Count
<1>3. \A i \in DOMAIN q : q[i] \in S
  OBVIOUS
<1> QED BY <1>2, <1>3, CountType

LEMMA AnswersAppend ==
  ASSUME NEW S, NEW q \in Seq(S), NEW m \in S, NEW t
  PROVE  Answers(Append(q, m), t) = Answers(q, t) + (IF IsAnswer(m, t) THEN 1 ELSE 0)
<1> DEFINE A == {n \in S : IsAnswer(n, t)}
           r == Append(q, m)
<1>1. r \in Seq(S) /\ (m \in A <=> IsAnswer(m, t))
  OBVIOUS
<1>2. Count(r, A) = Count(q, A) + (IF m \in A THEN 1 ELSE 0)
  BY CountAppend
<1>3. Answers(r, t) = Count(r, A) /\ Answers(q, t) = Count(q, A)
  BY <1>1, AnswersCounted
<1> QED BY <1>1, <1>2, <1>3

LEMMA AnswersTail ==
  ASSUME NEW S, NEW q \in Seq(S), q # <<>>, NEW t
  PROVE  Answers(q, t) = Answers(Tail(q), t) + (IF IsAnswer(Head(q), t) THEN 1 ELSE 0)
<1> DEFINE A == {n \in S : IsAnswer(n, t)}
           r == Tail(q)
<1>1. r \in Seq(S) /\ (Head(q) \in A <=> IsAnswer(Head(q), t))
  OBVIOUS
<1>2. Count(q, A) = Count(r, A) + (IF Head(q) \in A THEN 1 ELSE 0)
  BY CountTail
<1>3. Answers(r, t) = Count(r, A) /\ Answers(q, t) = Count(q, A)
  BY <1>1, AnswersCounted
<1> QED BY <1>1, <1>2, <1>3

\* The answers of a pending call: with the daemon, on the wire, in the port.
Once(t) ==
  (IF t \in asked THEN 1 ELSE 0) + Answers(wire, t) + Answers(port, t)
    = IF pc[t] = "asked" THEN 1 ELSE 0

OnceInv ==
  /\ truth \in [Flag -> BOOLEAN]
  /\ asked \subseteq Task
  /\ pc \in [Task -> Steps]
  /\ open => /\ wire \in Seq(Message) /\ port \in Seq(Message)
             /\ \A t \in Task : Once(t)

\* A signal is sent, or nothing is.
LEMMA SignalOnce ==
  ASSUME OnceInv, UNCHANGED <<asked, port, pc, open>>, truth' \in [Flag -> BOOLEAN],
         \/ UNCHANGED wire
         \/ \E m \in Message : m.kind # "result" /\ Send(m)
  PROVE  OnceInv'
<1>1. CASE UNCHANGED wire \/ ~ open
  BY <1>1 DEF OnceInv, Once, Answers
<1>2. CASE open /\ ~ UNCHANGED wire
  <2>1. PICK m \in Message : m.kind # "result" /\ wire' = Append(wire, m)
    BY <1>2 DEF Send
  <2>2. wire \in Seq(Message) /\ wire' \in Seq(Message)
    BY <1>2, <2>1 DEF OnceInv
  <2>3. ASSUME NEW t \in Task PROVE Answers(wire', t) = Answers(wire, t)
    <3>1. Answers(wire, t) \in Nat
      BY <2>2, AnswersCounted
    <3>2. Answers(wire', t) = Answers(wire, t) + (IF IsAnswer(m, t) THEN 1 ELSE 0)
      BY <2>1, <2>2, AnswersAppend
    <3>3. ~ IsAnswer(m, t)
      BY <2>1 DEF IsAnswer
    <3> QED BY <3>1, <3>2, <3>3
  <2>4. \A t \in Task : Answers(port', t) = Answers(port, t)
    BY DEF Answers
  <2> QED BY <1>2, <2>2, <2>3, <2>4 DEF OnceInv, Once
<1> QED BY <1>1, <1>2

LEMMA DaemonOnce ==
  ASSUME OnceInv, (\E f \in Flag : Flip(f)) \/ Vanish \/ Appear
  PROVE  OnceInv'
<1>1. ASSUME NEW f \in Flag, Flip(f) PROVE OnceInv'
  <2>1. truth' \in [Flag -> BOOLEAN] /\ truth'[f] \in BOOLEAN
    BY <1>1 DEF OnceInv, Flip
  <2>2. Changed(f, truth'[f]) \in Message /\ Changed(f, truth'[f]).kind # "result"
    BY <2>1 DEF Changed, Message
  <2>3. UNCHANGED wire \/ Send(Changed(f, truth'[f]))
    BY <1>1 DEF Flip
  <2>4. UNCHANGED <<asked, port, pc, open>>
    BY <1>1 DEF Flip, callVars
  <2> QED BY <2>1, <2>2, <2>3, <2>4, SignalOnce
<1>2. CASE Vanish
  <2>1. Removed \in Message /\ Removed.kind # "result"
    BY DEF Removed, Message
  <2>2. Send(Removed) /\ UNCHANGED <<truth, asked, port, pc, open>>
    BY <1>2 DEF Vanish, callVars
  <2>3. truth' \in [Flag -> BOOLEAN]
    BY <2>2 DEF OnceInv
  <2> QED BY <2>1, <2>2, <2>3, SignalOnce
<1>3. CASE Appear
  <2>1. truth' \in [Flag -> BOOLEAN] /\ Send(Added(truth')) /\ UNCHANGED <<asked, port, pc, open>>
    BY <1>3 DEF Appear, callVars
  <2>2. Added(truth') \in Message /\ Added(truth').kind # "result"
    BY <2>1 DEF Added, Message
  <2> QED BY <2>1, <2>2, SignalOnce
<1> QED BY <1>1, <1>2, <1>3

\* The daemon's answer leaves the calls asked and joins the wire.
LEMMA AnswerOnce ==
  ASSUME OnceInv, NEW t \in Task, Answer(t)
  PROVE  OnceInv'
<1>1. PICK ok \in BOOLEAN : Send(Result(t, ok))
  BY DEF Answer
<1>2. t \in asked /\ asked' = asked \ {t} /\ UNCHANGED <<truth, port, pc, open>>
  BY DEF Answer, callVars
<1>3. CASE ~ open
  BY <1>2, <1>3 DEF OnceInv
<1>4. CASE open
  <2>1. wire' = Append(wire, Result(t, ok)) /\ Result(t, ok) \in Message
    BY <1>1, <1>4 DEF Send, Result, Message
  <2>2. wire \in Seq(Message) /\ wire' \in Seq(Message) /\ port \in Seq(Message)
    BY <1>4, <2>1 DEF OnceInv
  <2>3. ASSUME NEW u \in Task PROVE Once(u)'
    <3>1. Answers(wire', u) = Answers(wire, u) + (IF u = t THEN 1 ELSE 0)
      BY <2>1, <2>2, AnswersAppend DEF IsAnswer, Result
    <3>2. Answers(port', u) = Answers(port, u)
      BY <1>2 DEF Answers
    <3>3. Answers(wire, u) \in Nat /\ Answers(port, u) \in Nat
      BY <2>2, AnswersCounted
    <3> QED BY <1>2, <1>4, <3>1, <3>2, <3>3 DEF OnceInv, Once
  <2> QED BY <1>2, <1>4, <2>2, <2>3 DEF OnceInv
<1> QED BY <1>3, <1>4

\* What the event loop takes off the wire it posts, or it is a change nobody
\* has a match for.
LEMMA EventLoopOnce ==
  ASSUME OnceInv, EventLoop
  PROVE  OnceInv'
<1>1. /\ open /\ wire # <<>> /\ wire' = Tail(wire)
      /\ UNCHANGED <<truth, asked, pc, open>>
      /\ \/ port' = Append(port, Head(wire))
         \/ port' = port /\ Head(wire).kind # "result"
  BY Zenon DEF EventLoop, DispatchReply, DispatchChanged, DispatchUnmatched, DispatchAdded,
     DispatchRemoved, Dispatch, Post, daemonVars, callVars
<1>2. wire \in Seq(Message) /\ port \in Seq(Message) /\ Head(wire) \in Message
  BY <1>1 DEF OnceInv
<1>3. wire' \in Seq(Message) /\ port' \in Seq(Message)
  <2>1. Tail(wire) \in Seq(Message)
    BY <1>1, <1>2
  <2>2. Append(port, Head(wire)) \in Seq(Message)
    BY <1>2
  <2> QED BY Zenon, <1>1, <1>2, <2>1, <2>2
<1>4. ASSUME NEW t \in Task PROVE Once(t)'
  <2>1. Answers(wire, t) = Answers(wire', t) + (IF IsAnswer(Head(wire), t) THEN 1 ELSE 0)
    BY <1>1, <1>2, AnswersTail
  <2>2. Answers(port', t) = Answers(port, t) + (IF IsAnswer(Head(wire), t) THEN 1 ELSE 0)
    <3>1. CASE port' = Append(port, Head(wire))
      BY <1>2, <3>1, AnswersAppend
    <3>2. CASE port' = port /\ Head(wire).kind # "result"
      <4>1. Answers(port, t) \in Nat
        BY <1>2, AnswersCounted
      <4> QED BY <3>2, <4>1 DEF IsAnswer
    <3> QED BY <1>1, <3>1, <3>2
  <2>3. Answers(wire', t) \in Nat /\ Answers(port, t) \in Nat
    BY <1>2, <1>3, AnswersCounted
  <2> QED BY <1>1, <2>1, <2>2, <2>3 DEF OnceInv, Once
<1> QED BY <1>1, <1>3, <1>4 DEF OnceInv

\* A call is asked once, or answered before it returns.
LEMMA CallOnce ==
  ASSUME OnceInv, NEW t \in Task, NEW o \in 1 .. made,
         \/ call_device_method_async(t, o)
         \/ GattCall(t, o)
         \/ waitForServicesResolved(t, o)
  PROVE  OnceInv'
<1>1. PICK k \in Ops, step \in Steps : Begin(t, o, k, step)
  <2>1. CASE call_device_method_async(t, o)
    BY <2>1 DEF call_device_method_async, Asynchronous, Ops, Steps
  <2>2. CASE GattCall(t, o)
    BY <2>2 DEF GattCall, Ops, Steps
  <2>3. CASE waitForServicesResolved(t, o)
    BY <2>3 DEF waitForServicesResolved, Ops, Steps
  <2> QED BY <2>1, <2>2, <2>3
<1>2. /\ open /\ pc[t] = "idle" /\ UNCHANGED <<truth, wire, open>>
      /\ pc' = [pc EXCEPT ![t] = step]
  BY <1>1 DEF Begin, nativeVars
<1>3. wire \in Seq(Message) /\ port \in Seq(Message) /\ pc \in [Task -> Steps]
  BY <1>2 DEF OnceInv
<1>4. \A u \in Task : Answers(wire, u) \in Nat /\ Answers(port, u) \in Nat
  BY <1>3, AnswersCounted
<1>5. \A u \in Task : Answers(wire', u) = Answers(wire, u)
  BY <1>2 DEF Answers
<1>6. t \notin asked /\ Answers(wire, t) = 0 /\ Answers(port, t) = 0
  BY <1>2, <1>4 DEF OnceInv, Once
<1> DEFINE before == \A u \in Task : Once(u) /\ pc'[u] = IF u = t THEN step ELSE pc[u]
<1>7. before /\ pc' \in [Task -> Steps]
  BY <1>2, <1>3 DEF OnceInv
<1>8. CASE call_device_method_async(t, o)
  <2>1. asked' = asked \cup {t} /\ UNCHANGED port /\ pc'[t] = "asked"
    BY <1>3, <1>8 DEF call_device_method_async, Begin
  <2>2. \A u \in Task : Answers(port', u) = Answers(port, u)
    BY <2>1 DEF Answers
  <2>3. ASSUME NEW u \in Task PROVE Once(u)'
    <3>1. Once(u) /\ Answers(wire, u) \in Nat /\ Answers(port, u) \in Nat
      BY <1>4, <1>7
    <3>2. Answers(wire', u) = Answers(wire, u)
      BY <1>5
    <3>3. CASE u = t
      <4>1. pc'[u] = "asked"
        BY <3>3, <2>1
      <4>2. (IF u \in asked' THEN 1 ELSE 0) + Answers(wire', u) + Answers(port', u) = 1
        BY <1>6, <3>2, <3>3, <2>1, <2>2
      <4> QED BY <4>1, <4>2 DEF Once
    <3>4. CASE u # t
      <4>1. pc'[u] = pc[u] /\ Answers(port', u) = Answers(port, u) /\ (u \in asked' <=> u \in asked)
        BY <1>7, <3>1, <3>4, <2>1, <2>2
      <4> QED BY <3>1, <3>2, <4>1 DEF Once
    <3> QED BY <3>3, <3>4
  <2> QED BY <1>2, <1>3, <1>7, <2>1, <2>3 DEF OnceInv
<1>9. CASE GattCall(t, o)
  <2>1. PICK ok \in BOOLEAN : Post(Result(t, ok))
    BY <1>9 DEF GattCall, BlockingCall
  <2>2. UNCHANGED asked /\ pc'[t] = "asked"
    BY <1>3, <1>9 DEF GattCall, BlockingCall, Begin
  <2>3. Result(t, ok) \in Message /\ port' = Append(port, Result(t, ok))
    BY <2>1 DEF Result, Message, Post
  <2>4. \A u \in Task : Answers(port', u) = Answers(port, u) + (IF u = t THEN 1 ELSE 0)
    BY <1>3, <2>3, AnswersAppend DEF IsAnswer, Result
  <2>5. port' \in Seq(Message)
    BY <1>3, <2>3
  <2>6. ASSUME NEW u \in Task PROVE Once(u)'
    <3>1. Once(u) /\ Answers(wire, u) \in Nat /\ Answers(port, u) \in Nat
      BY <1>4, <1>7
    <3>2. Answers(wire', u) = Answers(wire, u)
      BY <1>5
    <3>3. CASE u = t
      <4>1. pc'[u] = "asked"
        BY <3>3, <2>2
      <4>2. (IF u \in asked' THEN 1 ELSE 0) + Answers(wire', u) + Answers(port', u) = 1
        BY <1>6, <3>2, <3>3, <2>2, <2>4
      <4> QED BY <4>1, <4>2 DEF Once
    <3>4. CASE u # t
      <4>1. pc'[u] = pc[u] /\ Answers(port', u) = Answers(port, u) /\ (u \in asked' <=> u \in asked)
        BY <1>7, <3>1, <3>4, <2>2, <2>4
      <4> QED BY <3>1, <3>2, <4>1 DEF Once
    <3> QED BY <3>3, <3>4
  <2> QED BY <1>2, <1>3, <1>7, <2>2, <2>5, <2>6 DEF OnceInv
<1>10. CASE waitForServicesResolved(t, o)
  <2>1. UNCHANGED <<asked, port>> /\ pc'[t] # "asked"
    BY <1>3, <1>10 DEF waitForServicesResolved, Begin
  <2>2. \A u \in Task : Answers(port', u) = Answers(port, u)
    BY <2>1 DEF Answers
  <2> QED BY <1>2, <1>3, <1>4, <1>5, <1>6, <2>1, <2>2 DEF OnceInv, Once
<1> QED BY <1>8, <1>9, <1>10

\* A result ends the asking; what else is taken is no answer.
LEMMA MessageOnce ==
  ASSUME OnceInv, OnMessage
  PROVE  OnceInv'
<1>1. /\ port # <<>> /\ port' = Tail(port)
      /\ UNCHANGED <<truth, asked, wire, open>>
  BY Zenon DEF OnMessage, OnResult, OnChanged, OnAdded, OnRemoved, OnClosedPort, Take, daemonVars,
     nativeVars
<1> DEFINE m == Head(port)
<1>2. \/ /\ m.kind = "result"
         /\ \E s \in {"threw", "done", "waiting"} : pc' = [pc EXCEPT ![m.task] = s]
      \/ m.kind # "result" /\ UNCHANGED pc
      \/ m.kind # "result" /\ \E o, v : Wake(o, v)
  <2>1. CASE OnResult
    BY <2>1 DEF OnResult, Take
  <2>2. CASE OnChanged
    BY <2>2 DEF OnChanged, Take
  <2>3. CASE OnAdded \/ OnRemoved \/ OnClosedPort
    BY <2>3 DEF OnAdded, OnRemoved, OnClosedPort, Take
  <2> QED BY <2>1, <2>2, <2>3 DEF OnMessage
<1>3. pc' \in [Task -> Steps]
  BY <1>2 DEF OnceInv, Steps, Wake
<1>4. CASE ~ open
  BY <1>1, <1>3, <1>4 DEF OnceInv
<1>5. CASE open
  <2>1. wire \in Seq(Message) /\ port \in Seq(Message) /\ port' \in Seq(Message)
    BY <1>1, <1>5 DEF OnceInv
  <2>2. ASSUME NEW t \in Task PROVE Once(t)'
    <3>1. Answers(port, t) = Answers(port', t) + (IF IsAnswer(m, t) THEN 1 ELSE 0)
      BY <1>1, <2>1, AnswersTail
    <3>2. /\ Answers(wire', t) = Answers(wire, t)
          /\ Answers(wire, t) \in Nat /\ Answers(port', t) \in Nat
      <4>1. wire' = wire
        BY <1>1
      <4> QED BY <2>1, <4>1, AnswersCounted
    <3>3. Once(t)
      BY <1>5 DEF OnceInv
    <3>4. IF IsAnswer(m, t) THEN pc'[t] # "asked" ELSE pc'[t] = "asked" <=> pc[t] = "asked"
      BY <1>2 DEF OnceInv, IsAnswer, Wake
    <3>5. CASE IsAnswer(m, t)
      BY <1>1, <3>1, <3>2, <3>3, <3>4, <3>5 DEF Once
    <3>6. CASE ~ IsAnswer(m, t)
      BY <1>1, <3>1, <3>2, <3>3, <3>4, <3>6 DEF Once
    <3> QED BY <3>5, <3>6
  <2> QED BY <1>1, <1>3, <1>5, <2>1, <2>2 DEF OnceInv
<1> QED BY <1>4, <1>5

LEMMA OnceInit == Init => OnceInv
<1> SUFFICES ASSUME Init PROVE OnceInv
  OBVIOUS
<1>1. \A t \in Task : Answers(<<>>, t) = 0
  <2> SUFFICES ASSUME NEW t \in Task PROVE Answers(<<>>, t) = 0
    OBVIOUS
  <2>1. {i \in DOMAIN <<>> : <<>>[i].kind = "result" /\ <<>>[i].task = t} = {}
    OBVIOUS
  <2> QED BY <2>1, FS_EmptySet DEF Answers
<1> QED BY <1>1 DEF Init, OnceInv, Once, Steps

LEMMA OnceNext ==
  ASSUME OnceInv, [Next]_vars
  PROVE  OnceInv'
<1>1. CASE UNCHANGED vars
  BY <1>1 DEF vars, daemonVars, nativeVars, callVars, OnceInv, Once, Answers
<1>2. CASE Close
  BY <1>2 DEF Close, OnceInv, callVars
<1> QED BY <1>1, <1>2, DaemonOnce, AnswerOnce, EventLoopOnce, CallOnce, MessageOnce DEF Next

\* While the client is open, the answer of a pending call is in exactly one place,
\* and nobody else has one: none is lost between the bus, the event loop's
\* callbacks and the result ports, and none is given twice.
THEOREM AnswersInOnePlace == Spec => []AnsweredOnce
<1>1. OnceInv => AnsweredOnce
  BY DEF OnceInv, Once, Answers, AnsweredOnce
<1> QED BY <1>1, OnceInit, OnceNext, PTL DEF Spec

(***************************************************************************)
(* A reply is handled on the state it was sent in.  Both queues are read   *)
(* up to the reply: what they say last of a property before it is what the *)
(* daemon said, or they say nothing and it was so before.                  *)
(***************************************************************************)
\* m makes the current object show v for property f; m makes it show another
\* value, or takes it away.
Tells(m, f, v) ==
  \/ m.kind = "changed" /\ m.flag = f /\ m.value = v
  \/ m.kind = "added" /\ m.values[f] = v
Denies(m, f, v) ==
  \/ m.kind = "removed"
  \/ m.kind = "changed" /\ m.flag = f /\ m.value # v
  \/ m.kind = "added" /\ m.values[f] # v

\* A change is sure to be handed on if the match it was sent to will still be
\* there when its turn comes.
Heard(i) ==
  wire[i].kind = "changed"
    => subscribed /\ unread < i /\ \A j \in 1 .. i - 1 : wire[j].kind # "removed"

WireTells(f, v)  == {i \in DOMAIN wire : Tells(wire[i], f, v) /\ Heard(i)}
WireDenies(f, v) == {i \in DOMAIN wire : Denies(wire[i], f, v)}
PortTells(f, v)  == {i \in DOMAIN port : Tells(port[i], f, v)}
PortDenies(f, v) == {i \in DOMAIN port : Denies(port[i], f, v)}

Shown(f, v) == current # None /\ props[current][f] = v

\* The isolate will show v for f after n messages of its queue; after all of
\* them and what comes of n messages of the wire.
PortShows(f, v, n) == Prevails(PortTells(f, v), PortDenies(f, v), n, Shown(f, v))
WireShows(f, v, n) ==
  Prevails(WireTells(f, v), WireDenies(f, v), n, PortShows(f, v, Len(port)))

\* The client will know the device after n messages of the isolate's queue.
Arrivals   == {i \in DOMAIN port : port[i].kind = "added"}
Departures == {i \in DOMAIN port : port[i].kind = "removed"}
Listed(n)  == Prevails(Arrivals, Departures, n, current # None)

Additions == {m \in Message : m.kind = "added"}

\* The object a message of the queues will make has a number.
NumberInv ==
  /\ events \in 0 .. MaxEvents
  /\ made \in Nat \ {0} /\ current \in 0 .. made
  /\ made + Count(port, Additions) + Count(wire, Additions) <= events + 1
  /\ props \in [Object -> [Flag -> BOOLEAN]]

ListedInv ==
  /\ subscribed \in BOOLEAN /\ unread \in 0 .. Len(wire)
  /\ subscribed => Listed(Len(port))
  /\ \A i \in DOMAIN port : port[i].kind = "changed" => Listed(i - 1)

SaidInv ==
  /\ said \in [Task -> SUBSET (Flag \X BOOLEAN)]
  /\ \A t \in Task : pc[t] = "idle" => said[t] = {}
  /\ lost \subseteq Flag

WireOrder ==
  /\ exists => \A f \in Flag \ lost, v \in BOOLEAN :
                 truth[f] = v => WireShows(f, v, Len(wire))
  /\ \A i \in DOMAIN wire : wire[i].kind = "result"
       => \A e \in said[wire[i].task] : WireShows(e[1], e[2], i - 1)

PortOrder ==
  \A i \in DOMAIN port : port[i].kind = "result"
    => \A e \in said[port[i].task] : PortShows(e[1], e[2], i - 1)

InOrder == NumberInv /\ ListedInv /\ SaidInv /\ WireOrder /\ PortOrder

OrderInv ==
  /\ OnceInv
  /\ open => InOrder

LEMMA PositionsType ==
  ASSUME wire \in Seq(Message), port \in Seq(Message), NEW f, NEW v
  PROVE  /\ WireTells(f, v) \in SUBSET (Nat \ {0}) /\ WireDenies(f, v) \in SUBSET (Nat \ {0})
         /\ PortTells(f, v) \in SUBSET (Nat \ {0}) /\ PortDenies(f, v) \in SUBSET (Nat \ {0})
         /\ Arrivals \in SUBSET (Nat \ {0}) /\ Departures \in SUBSET (Nat \ {0})
<1>1. DOMAIN wire \in SUBSET (Nat \ {0}) /\ DOMAIN port \in SUBSET (Nat \ {0})
  OBVIOUS
<1> QED BY <1>1 DEF WireTells, WireDenies, PortTells, PortDenies, Arrivals, Departures

\* What is said up to a place of a queue is not changed by what joins it behind.
LEMMA WireKept ==
  ASSUME wire \in Seq(Message), port \in Seq(Message), NEW m \in Message,
         wire' = Append(wire, m), UNCHANGED <<port, current, props, subscribed, unread>>,
         NEW f, NEW v, NEW n \in 0 .. Len(wire), WireShows(f, v, n)
  PROVE  WireShows(f, v, n)'
<1>1. wire' \in Seq(Message) /\ \A i \in 1 .. n : i \in DOMAIN wire /\ i \in DOMAIN wire' /\ wire'[i] = wire[i]
  BY Grown
<1>2. PortShows(f, v, Len(port))' <=> PortShows(f, v, Len(port))
  BY DEF PortShows, PortTells, PortDenies, Shown
<1>3. \A i \in 1 .. n : Heard(i)' <=> Heard(i)
  BY <1>1 DEF Heard
<1>4. \A i \in 1 .. n : /\ i \in WireTells(f, v)' <=> i \in WireTells(f, v)
                        /\ i \in WireDenies(f, v)' <=> i \in WireDenies(f, v)
  BY <1>1, <1>3 DEF WireTells, WireDenies, Tells, Denies
<1>5. /\ WireTells(f, v) \in SUBSET (Nat \ {0}) /\ WireDenies(f, v) \in SUBSET (Nat \ {0})
      /\ WireTells(f, v)' \in SUBSET (Nat \ {0}) /\ WireDenies(f, v)' \in SUBSET (Nat \ {0})
  BY <1>1, PositionsType DEF WireTells, WireDenies
<1> DEFINE A == WireTells(f, v)  B == WireTells(f, v)'
           R == WireDenies(f, v) T == WireDenies(f, v)'
           b == PortShows(f, v, Len(port))  c == PortShows(f, v, Len(port))'
<1>6. /\ A \in SUBSET Nat /\ B \in SUBSET Nat /\ R \in SUBSET Nat /\ T \in SUBSET Nat
      /\ n \in Nat /\ b => c
      /\ \A i \in A : i <= n => i \in B
      /\ \A i \in T : i <= n => i \in R
  BY <1>2, <1>4, <1>5
<1>7. Prevails(A, R, n, b)
  BY DEF WireShows
<1> HIDE DEF A, B, R, T, b, c
<1>8. Prevails(B, T, n, c)
  BY <1>6, <1>7, PrevailsMore
<1> QED BY <1>8 DEF WireShows, B, T, c

LEMMA WireLast ==
  ASSUME wire \in Seq(Message), port \in Seq(Message), NEW m \in Message,
         wire' = Append(wire, m), UNCHANGED <<port, current, props, subscribed, unread>>,
         NEW f, NEW v, ~ Denies(m, f, v)
  PROVE  /\ Tells(m, f, v) /\ Heard(Len(wire))' => WireShows(f, v, Len(wire))'
         /\ WireShows(f, v, Len(wire)) /\ ~ (Tells(m, f, v) /\ Heard(Len(wire))')
              => WireShows(f, v, Len(wire))'
<1> PICK n \in Nat : n = Len(wire)
  BY Grown
<1> DEFINE B == WireTells(f, v)'  T == WireDenies(f, v)'
           c == PortShows(f, v, Len(port))'
<1>1. /\ wire' \in Seq(Message) /\ n \in 0 .. Len(wire) /\ Len(wire') = n + 1
      /\ n + 1 \in DOMAIN wire' /\ wire'[n + 1] = m
  BY Grown
<1>2. B \in SUBSET Nat /\ T \in SUBSET Nat
  BY <1>1 DEF WireTells, WireDenies
<1>3. n + 1 \notin T /\ (n + 1 \in B <=> Tells(m, f, v) /\ Heard(n + 1)')
  BY <1>1 DEF WireTells, WireDenies, Tells, Denies
<1>4. WireShows(f, v, n) => Prevails(B, T, n, c)
  BY <1>1, WireKept DEF WireShows
<1>5. WireShows(f, v, Len(wire))' <=> Prevails(B, T, n + 1, c)
  BY <1>1 DEF WireShows
<1> HIDE DEF B, T, c
<1>6. /\ n + 1 \in B => Prevails(B, T, n + 1, c)
      /\ n + 1 \notin B /\ Prevails(B, T, n, c) => Prevails(B, T, n + 1, c)
  BY <1>1, <1>2, <1>3, PrevailsNext
<1> QED BY <1>1, <1>3, <1>4, <1>5, <1>6

LEMMA PortKept ==
  ASSUME port \in Seq(Message), NEW m \in Message,
         port' = Append(port, m), UNCHANGED <<current, props>>,
         NEW n \in 0 .. Len(port)
  PROVE  /\ \A f, v : PortShows(f, v, n) => PortShows(f, v, n)'
         /\ Listed(n) => Listed(n)'
<1>1. /\ port' \in Seq(Message) /\ n \in Nat /\ DOMAIN port \subseteq Nat /\ DOMAIN port' \subseteq Nat
      /\ \A i \in 1 .. n : i \in DOMAIN port /\ i \in DOMAIN port' /\ port'[i] = port[i]
      /\ \A i \in DOMAIN port \cup DOMAIN port' : i <= n => i \in 1 .. n
  BY Grown
<1>2. ASSUME NEW f, NEW v, PortShows(f, v, n) PROVE PortShows(f, v, n)'
  <2> DEFINE A == PortTells(f, v)  B == PortTells(f, v)'
             R == PortDenies(f, v) T == PortDenies(f, v)'
             b == Shown(f, v) c == Shown(f, v)'
  <2>1. /\ A \in SUBSET Nat /\ B \in SUBSET Nat /\ R \in SUBSET Nat /\ T \in SUBSET Nat
        /\ b => c
    BY <1>1 DEF PortTells, PortDenies, Shown
  <2>2. /\ \A i \in A : i <= n => i \in B
        /\ \A i \in T : i <= n => i \in R
    BY <1>1 DEF PortTells, PortDenies, Tells, Denies
  <2>3. Prevails(A, R, n, b)
    BY <1>2 DEF PortShows
  <2> HIDE DEF A, B, R, T, b, c
  <2>4. Prevails(B, T, n, c)
    BY <1>1, <2>1, <2>2, <2>3, PrevailsMore
  <2> QED BY <2>4 DEF PortShows, B, T, c
<1>3. ASSUME Listed(n) PROVE Listed(n)'
  <2> DEFINE A == Arrivals  B == Arrivals'
             R == Departures T == Departures'
             b == current # None c == (current # None)'
  <2>1. /\ A \in SUBSET Nat /\ B \in SUBSET Nat /\ R \in SUBSET Nat /\ T \in SUBSET Nat
        /\ b => c
    BY <1>1 DEF Arrivals, Departures
  <2>2. /\ \A i \in A : i <= n => i \in B
        /\ \A i \in T : i <= n => i \in R
    BY <1>1 DEF Arrivals, Departures
  <2>3. Prevails(A, R, n, b)
    BY <1>3 DEF Listed
  <2> HIDE DEF A, B, R, T, b, c
  <2>4. Prevails(B, T, n, c)
    BY <1>1, <2>1, <2>2, <2>3, PrevailsMore
  <2> QED BY <2>4 DEF Listed, B, T, c
<1> QED BY <1>2, <1>3

LEMMA PortLast ==
  ASSUME port \in Seq(Message), NEW m \in Message,
         port' = Append(port, m), UNCHANGED <<current, props>>
  PROVE  /\ \A f, v : /\ Tells(m, f, v) /\ ~ Denies(m, f, v) => PortShows(f, v, Len(port))'
                      /\ ~ Tells(m, f, v) /\ ~ Denies(m, f, v) /\ PortShows(f, v, Len(port))
                           => PortShows(f, v, Len(port))'
         /\ m.kind = "added" => Listed(Len(port))'
         /\ m.kind \notin {"added", "removed"} /\ Listed(Len(port)) => Listed(Len(port))'
<1> PICK n \in Nat : n = Len(port)
  BY Grown
<1>1. /\ port' \in Seq(Message) /\ n \in 0 .. Len(port) /\ Len(port') = n + 1
      /\ n + 1 \in DOMAIN port' /\ port'[n + 1] = m /\ DOMAIN port' \subseteq Nat
  BY Grown
<1>2. ASSUME NEW f, NEW v, ~ Denies(m, f, v)
      PROVE  /\ Tells(m, f, v) => PortShows(f, v, Len(port))'
             /\ ~ Tells(m, f, v) /\ PortShows(f, v, n) => PortShows(f, v, Len(port))'
  <2> DEFINE B == PortTells(f, v)'  T == PortDenies(f, v)'  c == Shown(f, v)'
  <2>1. B \in SUBSET Nat /\ T \in SUBSET Nat
    BY <1>1 DEF PortTells, PortDenies
  <2>2. n + 1 \notin T /\ (n + 1 \in B <=> Tells(m, f, v))
    BY <1>1, <1>2 DEF PortTells, PortDenies, Tells, Denies
  <2>3. PortShows(f, v, n) => Prevails(B, T, n, c)
    BY <1>1, PortKept DEF PortShows
  <2>4. PortShows(f, v, Len(port))' <=> Prevails(B, T, n + 1, c)
    BY <1>1 DEF PortShows
  <2> HIDE DEF B, T, c
  <2>5. /\ n + 1 \in B => Prevails(B, T, n + 1, c)
        /\ n + 1 \notin B /\ Prevails(B, T, n, c) => Prevails(B, T, n + 1, c)
    BY <1>1, <2>1, <2>2, PrevailsNext
  <2> QED BY <2>2, <2>3, <2>4, <2>5
<1>3. ASSUME m.kind # "removed"
      PROVE  /\ m.kind = "added" => Listed(Len(port))'
             /\ m.kind # "added" /\ Listed(n) => Listed(Len(port))'
  <2> DEFINE B == Arrivals'  T == Departures'  c == (current # None)'
  <2>1. B \in SUBSET Nat /\ T \in SUBSET Nat
    BY <1>1 DEF Arrivals, Departures
  <2>2. n + 1 \notin T /\ (n + 1 \in B <=> m.kind = "added")
    BY <1>1, <1>3 DEF Arrivals, Departures
  <2>3. Listed(n) => Prevails(B, T, n, c)
    BY <1>1, PortKept DEF Listed
  <2>4. Listed(Len(port))' <=> Prevails(B, T, n + 1, c)
    BY <1>1 DEF Listed
  <2> HIDE DEF B, T, c
  <2>5. /\ n + 1 \in B => Prevails(B, T, n + 1, c)
        /\ n + 1 \notin B /\ Prevails(B, T, n, c) => Prevails(B, T, n + 1, c)
    BY <1>1, <2>1, <2>2, PrevailsNext
  <2> QED BY <2>2, <2>3, <2>4, <2>5
<1> QED BY <1>2, <1>3

\* The isolate takes a message: what it did counts as done.
LEMMA PortTaken ==
  ASSUME port \in Seq(Message), port # <<>>, port' = Tail(port), NEW n \in Nat
  PROVE  /\ \A f, v :
              /\ PortShows(f, v, n + 1)
              /\ Tells(Head(port), f, v) => Shown(f, v)'
              /\ ~ Tells(Head(port), f, v) /\ ~ Denies(Head(port), f, v) /\ Shown(f, v)
                   => Shown(f, v)'
              => PortShows(f, v, n)'
         /\ /\ Listed(n + 1)
            /\ Head(port).kind = "added" => (current # None)'
            /\ Head(port).kind \notin {"added", "removed"} /\ current # None => (current # None)'
            => Listed(n)'
<1>1. /\ Head(port) = port[1] /\ 1 \in DOMAIN port
      /\ DOMAIN port \subseteq Nat \ {0} /\ DOMAIN port' \subseteq Nat \ {0}
      /\ \A i \in 1 .. n : i + 1 \in DOMAIN port <=> i \in DOMAIN port'
      /\ \A i \in DOMAIN port' : port'[i] = port[i + 1]
  BY Shrunk
<1>2. ASSUME NEW f, NEW v, PortShows(f, v, n + 1),
             Tells(Head(port), f, v) => Shown(f, v)',
             ~ Tells(Head(port), f, v) /\ ~ Denies(Head(port), f, v) /\ Shown(f, v) => Shown(f, v)'
      PROVE  PortShows(f, v, n)'
  <2> DEFINE A == PortTells(f, v)  B == PortTells(f, v)'
             R == PortDenies(f, v) T == PortDenies(f, v)'
             b == Shown(f, v) c == Shown(f, v)'
  <2>1. /\ A \in SUBSET Nat /\ B \in SUBSET Nat /\ R \in SUBSET Nat /\ T \in SUBSET Nat
        /\ 0 \notin A \cup B \cup T
    BY <1>1 DEF PortTells, PortDenies
  <2>2. /\ \A i \in 1 .. n : i + 1 \in A => i \in B
        /\ \A i \in 1 .. n : i \in T => i + 1 \in R
    BY <1>1 DEF PortTells, PortDenies, Tells, Denies
  <2>3. (1 \in A <=> Tells(Head(port), f, v)) /\ (1 \in R <=> Denies(Head(port), f, v))
    BY <1>1 DEF PortTells, PortDenies, Tells, Denies
  <2>4. (1 \in A => c) /\ (1 \notin A \cup R => (b => c))
    BY <1>2, <2>3
  <2>5. Prevails(A, R, n + 1, b)
    BY <1>2 DEF PortShows
  <2> HIDE DEF A, B, R, T, b, c
  <2>6. Prevails(B, T, n, c)
    BY <2>1, <2>2, <2>4, <2>5, PrevailsShift
  <2> QED BY <2>6 DEF PortShows, B, T, c
<1>3. ASSUME Listed(n + 1),
             Head(port).kind = "added" => (current # None)',
             Head(port).kind \notin {"added", "removed"} /\ current # None => (current # None)'
      PROVE  Listed(n)'
  <2> DEFINE A == Arrivals  B == Arrivals'
             R == Departures T == Departures'
             b == current # None c == (current # None)'
  <2>1. /\ A \in SUBSET Nat /\ B \in SUBSET Nat /\ R \in SUBSET Nat /\ T \in SUBSET Nat
        /\ 0 \notin A \cup B \cup T
    BY <1>1 DEF Arrivals, Departures
  <2>2. /\ \A i \in 1 .. n : i + 1 \in A => i \in B
        /\ \A i \in 1 .. n : i \in T => i + 1 \in R
    BY <1>1 DEF Arrivals, Departures
  <2>3. (1 \in A <=> Head(port).kind = "added") /\ (1 \in R <=> Head(port).kind = "removed")
    BY <1>1 DEF Arrivals, Departures
  <2>4. (1 \in A => c) /\ (1 \notin A \cup R => (b => c))
    BY <1>3, <2>3
  <2>5. Prevails(A, R, n + 1, b)
    BY <1>3 DEF Listed
  <2> HIDE DEF A, B, R, T, b, c
  <2>6. Prevails(B, T, n, c)
    BY <2>1, <2>2, <2>4, <2>5, PrevailsShift
  <2> QED BY <2>6 DEF Listed, B, T, c
<1> QED BY <1>2, <1>3

\* What the isolate will have heard is all that matters of it to the wire.
LEMMA WireBase ==
  ASSUME wire \in Seq(Message), UNCHANGED <<wire, subscribed, unread>>,
         NEW f, NEW v, NEW n \in Nat, WireShows(f, v, n),
         PortShows(f, v, Len(port)) => PortShows(f, v, Len(port))'
  PROVE  WireShows(f, v, n)'
<1> DEFINE A == WireTells(f, v)  R == WireDenies(f, v)
           b == PortShows(f, v, Len(port)) c == PortShows(f, v, Len(port))'
<1>1. A \in SUBSET Nat /\ R \in SUBSET Nat
  BY DEF WireTells, WireDenies
<1>2. WireTells(f, v)' = A /\ WireDenies(f, v)' = R
  BY DEF WireTells, WireDenies, Heard
<1>3. Prevails(A, R, n, b) /\ (b => c)
  BY DEF WireShows
<1>4. WireShows(f, v, n)' <=> Prevails(A, R, n, c)
  BY <1>2 DEF WireShows
<1> HIDE DEF A, R, b, c
<1>5. Prevails(A, R, n, c)
  BY <1>1, <1>3, PrevailsMore
<1> QED BY <1>4, <1>5

\* The event loop takes a signal: what it tells is posted, or nobody heard it.
LEMMA WireTaken ==
  ASSUME wire \in Seq(Message), wire # <<>>, wire' = Tail(wire),
         NEW f, NEW v, NEW n \in Nat, WireShows(f, v, n + 1),
         \A i \in 1 .. Len(wire) - 1 : Heard(i + 1) => Heard(i)',
         Tells(Head(wire), f, v) /\ Heard(1) => PortShows(f, v, Len(port))',
         ~ Denies(Head(wire), f, v) /\ PortShows(f, v, Len(port)) => PortShows(f, v, Len(port))'
  PROVE  WireShows(f, v, n)'
<1> DEFINE A == WireTells(f, v)  B == WireTells(f, v)'
           R == WireDenies(f, v) T == WireDenies(f, v)'
           b == PortShows(f, v, Len(port)) c == PortShows(f, v, Len(port))'
<1>1. /\ Head(wire) = wire[1] /\ 1 \in DOMAIN wire
      /\ DOMAIN wire \subseteq Nat \ {0} /\ DOMAIN wire' \subseteq Nat \ {0}
      /\ \A i \in 1 .. n : i + 1 \in DOMAIN wire <=> i \in DOMAIN wire'
      /\ \A i \in DOMAIN wire' : wire'[i] = wire[i + 1] /\ i \in 1 .. Len(wire) - 1
  BY Shrunk
<1>2. /\ A \in SUBSET Nat /\ B \in SUBSET Nat /\ R \in SUBSET Nat /\ T \in SUBSET Nat
      /\ 0 \notin A \cup B \cup T
  BY <1>1 DEF WireTells, WireDenies
<1>3. ASSUME NEW i \in 1 .. n
      PROVE  (i + 1 \in A => i \in B) /\ (i \in T => i + 1 \in R)
  BY <1>1 DEF WireTells, WireDenies, Tells, Denies
<1>4. /\ 1 \in A <=> Tells(Head(wire), f, v) /\ Heard(1)
      /\ 1 \in R <=> Denies(Head(wire), f, v)
  BY <1>1 DEF WireTells, WireDenies, Tells, Denies
<1>5. (1 \in A => c) /\ (1 \notin A \cup R => (b => c))
  BY <1>4
<1>6. Prevails(A, R, n + 1, b)
  BY DEF WireShows
<1> HIDE DEF A, B, R, T, b, c
<1>7. Prevails(B, T, n, c)
  BY <1>2, <1>3, <1>5, <1>6, PrevailsShift
<1> QED BY <1>7 DEF WireShows, B, T, c

\* A queue that one message joins holds one addition more, or as many.
LEMMA AdditionsAppend ==
  ASSUME NEW q \in Seq(Message), NEW m \in Message
  PROVE  /\ Count(q, Additions) \in Nat /\ Count(Append(q, m), Additions) \in Nat
         /\ Count(Append(q, m), Additions)
              = Count(q, Additions) + (IF m.kind = "added" THEN 1 ELSE 0)
<1> DEFINE A == Additions
<1>1. m \in A <=> m.kind = "added"
  BY DEF Additions
<1>2. Append(q, m) \in Seq(Message)
  OBVIOUS
<1>3. Count(q, A) \in Nat /\ Count(Append(q, m), A) \in Nat
  BY <1>2, CountType
<1>4. Count(Append(q, m), A) = Count(q, A) + (IF m \in A THEN 1 ELSE 0)
  BY CountAppend
<1> HIDE DEF A
<1>5. Count(Append(q, m), A) = Count(q, A) + (IF m.kind = "added" THEN 1 ELSE 0)
  BY <1>1, <1>4
<1> QED BY <1>3, <1>5 DEF A

LEMMA AdditionsTail ==
  ASSUME NEW q \in Seq(Message), q # <<>>
  PROVE  /\ Count(q, Additions) \in Nat /\ Count(Tail(q), Additions) \in Nat
         /\ Count(q, Additions)
              = Count(Tail(q), Additions) + (IF Head(q).kind = "added" THEN 1 ELSE 0)
<1> DEFINE A == Additions
<1>1. Head(q) \in Message /\ Tail(q) \in Seq(Message)
  OBVIOUS
<1>2. Head(q) \in A <=> Head(q).kind = "added"
  BY <1>1 DEF Additions
<1>3. Count(q, A) \in Nat /\ Count(Tail(q), A) \in Nat
  BY <1>1, CountType
<1>4. Count(q, A) = Count(Tail(q), A) + (IF Head(q) \in A THEN 1 ELSE 0)
  BY CountTail
<1> HIDE DEF A
<1>5. Count(q, A) = Count(Tail(q), A) + (IF Head(q).kind = "added" THEN 1 ELSE 0)
  BY <1>2, <1>4
<1> QED BY <1>3, <1>5 DEF A

\* What the daemon sends concerns the wire only.
LEMMA SentOrder ==
  ASSUME OnceInv, open, InOrder, NEW m \in Message,
         wire' = Append(wire, m), UNCHANGED <<port, subscribed, unread, objectVars, pc>>
  PROVE  /\ ListedInv'
         /\ \A f, v : \A n \in 0 .. Len(wire) : WireShows(f, v, n) => WireShows(f, v, n)'
         /\ \A f, v : \A n : PortShows(f, v, n) => PortShows(f, v, n)'
         /\ \/ events' \in 0 .. MaxEvents /\ events' = events + 1
            \/ m.kind # "added" /\ events' = events
            => NumberInv'
<1>1. wire \in Seq(Message) /\ port \in Seq(Message) /\ Len(wire') = Len(wire) + 1 /\ Len(wire) \in Nat
      /\ UNCHANGED <<current, props, made>>
  BY Grown DEF OnceInv, objectVars
<1>2. \A f, v : \A n \in 0 .. Len(wire) : WireShows(f, v, n) => WireShows(f, v, n)'
  BY <1>1, WireKept
<1>3. \A f, v : \A n : PortShows(f, v, n) => PortShows(f, v, n)'
  BY <1>1 DEF PortShows, PortTells, PortDenies, Shown
<1>4. \A n : Listed(n)' <=> Listed(n)
  BY <1>1 DEF Listed, Arrivals, Departures
<1>5. ListedInv'
  <2>1. unread' \in 0 .. Len(wire')
    BY <1>1 DEF InOrder, ListedInv
  <2>2. Listed(Len(port))' <=> Listed(Len(port))
    BY <1>1 DEF Listed, Arrivals, Departures
  <2> QED BY <1>4, <2>1, <2>2 DEF InOrder, ListedInv
<1>6. ASSUME \/ events' \in 0 .. MaxEvents /\ events' = events + 1
             \/ m.kind # "added" /\ events' = events
      PROVE  NumberInv'
  <2> DEFINE a == Count(wire, Additions)  b == Count(wire', Additions)
             d == Count(port, Additions)
  <2>1. a \in Nat /\ b = a + (IF m.kind = "added" THEN 1 ELSE 0)
    BY <1>1, AdditionsAppend
  <2>2. d \in Nat /\ Count(port, Additions)' = d /\ Count(wire, Additions)' = b
    BY <1>1, CountType DEF Additions
  <2>3. made + d + a <= events + 1 /\ made \in Nat /\ events \in Nat /\ events \in 0 .. MaxEvents
    BY EventsAssumption DEF InOrder, NumberInv
  <2> HIDE DEF a, b, d
  <2>4. made + d + b <= events' + 1 /\ events' \in 0 .. MaxEvents
    BY <1>6, <2>1, <2>2, <2>3
  <2>5. made \in Nat \ {0} /\ current \in 0 .. made /\ props \in [Object -> [Flag -> BOOLEAN]]
    BY DEF InOrder, NumberInv
  <2> QED BY <1>1, <2>2, <2>4, <2>5 DEF NumberInv
<1> QED BY <1>2, <1>3, <1>5, <1>6

\* A signal of the daemon says how the device is from now on.
LEMMA DaemonOrder ==
  ASSUME OnceInv, open, InOrder, (\E f \in Flag : Flip(f)) \/ Vanish \/ Appear
  PROVE  InOrder'
<1>1. /\ UNCHANGED <<port, subscribed, unread, objectVars, pc, said>>
      /\ events' = events + 1 /\ events \in Nat /\ events' \in 0 .. MaxEvents
  <2>1. UNCHANGED <<port, subscribed, unread, objectVars, pc, said>> /\ Tick
    BY Zenon DEF Flip, Vanish, Appear, callVars
  <2> QED BY <2>1, EventsAssumption DEF Tick, InOrder, NumberInv
<1>2. wire \in Seq(Message) /\ port \in Seq(Message) /\ Len(wire) \in Nat
  BY DEF OnceInv
<1>3. SaidInv'
  <2>1. lost' \subseteq Flag
    BY DEF Flip, Vanish, Appear, InOrder, SaidInv
  <2> QED BY <1>1, <2>1 DEF InOrder, SaidInv
\* A signal on the wire leaves the results where they were.
<1>4. ASSUME NEW m \in Message, m.kind # "result", wire' = Append(wire, m)
      PROVE  /\ ListedInv' /\ NumberInv' /\ PortOrder'
             /\ \A i \in DOMAIN wire' : wire'[i].kind = "result"
                  => \A e \in said'[wire'[i].task] : WireShows(e[1], e[2], i - 1)'
             /\ \A f, v : \A n \in 0 .. Len(wire) : WireShows(f, v, n) => WireShows(f, v, n)'
  <2>1. /\ ListedInv' /\ NumberInv'
        /\ \A f, v : \A n \in 0 .. Len(wire) : WireShows(f, v, n) => WireShows(f, v, n)'
        /\ \A f, v : \A n : PortShows(f, v, n) => PortShows(f, v, n)'
    BY <1>1, <1>4, SentOrder
  <2>2. PortOrder'
    BY <1>1, <2>1 DEF InOrder, PortOrder
  <2>3. ASSUME NEW i \in DOMAIN wire', wire'[i].kind = "result"
        PROVE  \A e \in said'[wire'[i].task] : WireShows(e[1], e[2], i - 1)'
    <3>1. i \in DOMAIN wire /\ wire'[i] = wire[i] /\ i - 1 \in 0 .. Len(wire)
      BY <1>2, <1>4, <2>3, Grown
    <3> QED BY <1>1, <2>1, <2>3, <3>1 DEF InOrder, WireOrder
  <2> QED BY <2>1, <2>2, <2>3
<1>5. ASSUME NEW f \in Flag, Flip(f) PROVE InOrder'
  <2>1. PICK w \in BOOLEAN : truth' = [truth EXCEPT ![f] = w]
    BY <1>5 DEF Flip, OnceInv
  <2>2. /\ truth'[f] = w /\ \A g \in Flag : g # f => truth'[g] = truth[g]
        /\ exists /\ exists'
    BY <1>5, <2>1 DEF Flip, OnceInv
  <2>3. PICK m \in Message : m = Changed(f, w)
    BY DEF Changed, Message
  <2>4. m.kind = "changed" /\ m.flag = f /\ m.value = w
    BY <2>3 DEF Changed
  <2>5. CASE ~ subscribed
    <3>1. wire' = wire /\ lost' = lost \cup {f}
      BY <1>5, <2>5 DEF Flip, Covered
    <3>2. \A g, v : \A n : WireShows(g, v, n)' <=> WireShows(g, v, n)
      BY <1>1, <3>1 DEF WireShows, WireTells, WireDenies, Heard, PortShows, PortTells,
                       PortDenies, Shown, objectVars
    <3>3. WireOrder'
      <4>1. ASSUME NEW g \in Flag \ lost', NEW v \in BOOLEAN, truth'[g] = v
            PROVE  WireShows(g, v, Len(wire))'
        <5>1. WireShows(g, v, Len(wire))
          BY <2>2, <3>1, <4>1 DEF InOrder, WireOrder
        <5>2. WireShows(g, v, Len(wire))' <=> WireShows(g, v, Len(wire))
          BY <1>1, <3>1 DEF WireShows, WireTells, WireDenies, Heard, PortShows, PortTells,
                           PortDenies, Shown, objectVars
        <5> QED BY <5>1, <5>2
      <4>2. \A i \in DOMAIN wire' : wire'[i].kind = "result"
              => \A e \in said'[wire'[i].task] : WireShows(e[1], e[2], i - 1)'
        BY <1>1, <3>1, <3>2 DEF InOrder, WireOrder
      <4> QED BY <4>1, <4>2 DEF WireOrder
    <3>4. PortOrder' /\ ListedInv'
      BY <1>1, <3>1 DEF InOrder, PortOrder, ListedInv, PortShows, PortTells, PortDenies,
                       Shown, Listed, Arrivals, Departures, objectVars
    <3>5. NumberInv'
      <4>1. UNCHANGED <<made, current, props, port, wire>>
        BY <1>1, <3>1 DEF objectVars
      <4>2. Count(port, Additions)' = Count(port, Additions)
            /\ Count(wire, Additions)' = Count(wire, Additions)
        BY <4>1 DEF Additions, Message
      <4>3. Count(port, Additions) \in Nat /\ Count(wire, Additions) \in Nat
        BY <1>2, CountType
      <4>4. made \in Nat \ {0} /\ made + Count(port, Additions) + Count(wire, Additions) <= events + 1
        BY DEF InOrder, NumberInv
      <4>5. (made + Count(port, Additions) + Count(wire, Additions) <= events + 1)'
        BY <1>1, <4>1, <4>2, <4>3, <4>4
      <4> QED BY <1>1, <4>1, <4>4, <4>5 DEF InOrder, NumberInv
    <3> QED BY <1>3, <3>3, <3>4, <3>5 DEF InOrder
  <2>6. CASE subscribed
    <3>1. wire' = Append(wire, m) /\ lost' = IF Covered THEN lost \ {f} ELSE lost \cup {f}
      BY <1>5, <2>2, <2>3, <2>6 DEF Flip, Send
    <3>2. ASSUME NEW g \in Flag \ lost', NEW v \in BOOLEAN, truth'[g] = v
          PROVE  WireShows(g, v, Len(wire))'
      <4>1. CASE g = f
        <5>1. Covered
          BY <3>1, <4>1
        <5>2. Tells(m, g, v) /\ ~ Denies(m, g, v)
          BY <2>2, <2>4, <3>2, <4>1 DEF Tells, Denies
        <5>3. Heard(Len(wire))'
          <6>1. /\ Len(wire') = Len(wire) + 1 /\ unread \in 0 .. Len(wire) /\ unread' = unread
                /\ subscribed' /\ \A j \in 1 .. Len(wire) : wire'[j] = wire[j] /\ j \in DOMAIN wire
            BY <1>1, <1>2, <2>6, <3>1, Grown DEF InOrder, ListedInv
          <6>2. \A j \in 1 .. Len(wire') - 1 : wire'[j].kind # "removed"
            BY <1>2, <5>1, <6>1 DEF Covered
          <6>3. unread' < Len(wire')
            BY <1>2, <6>1
          <6> QED BY <6>1, <6>2, <6>3 DEF Heard
        <5> QED BY <1>1, <1>2, <3>1, <5>2, <5>3, WireLast DEF objectVars
      <4>2. CASE g # f
        <5>1. WireShows(g, v, Len(wire))
          BY <2>2, <3>1, <3>2, <4>2 DEF InOrder, WireOrder
        <5>2. ~ Tells(m, g, v) /\ ~ Denies(m, g, v)
          BY <2>4, <4>2 DEF Tells, Denies
        <5> QED BY <1>1, <1>2, <3>1, <5>1, <5>2, WireLast DEF objectVars
      <4> QED BY <4>1, <4>2
    <3>3. /\ ListedInv' /\ NumberInv' /\ PortOrder'
          /\ \A i \in DOMAIN wire' : wire'[i].kind = "result"
               => \A e \in said'[wire'[i].task] : WireShows(e[1], e[2], i - 1)'
      BY <1>4, <2>4, <3>1
    <3>4. WireOrder'
      BY <3>2, <3>3 DEF WireOrder
    <3> QED BY <1>3, <3>3, <3>4 DEF InOrder
  <2> QED BY <2>5, <2>6
<1>6. CASE Vanish
  <2>1. PICK m \in Message : m = Removed
    BY DEF Removed, Message
  <2>2. wire' = Append(wire, m) /\ ~ exists' /\ m.kind # "result"
    BY <1>6, <2>1 DEF Vanish, Send, Removed
  <2>3. /\ ListedInv' /\ NumberInv' /\ PortOrder'
        /\ \A i \in DOMAIN wire' : wire'[i].kind = "result"
             => \A e \in said'[wire'[i].task] : WireShows(e[1], e[2], i - 1)'
    BY <1>4, <2>2
  <2> QED BY <1>3, <2>2, <2>3 DEF InOrder, WireOrder
<1>7. CASE Appear
  <2>1. PICK t \in [Flag -> BOOLEAN] : truth' = t
    BY <1>7 DEF Appear
  <2>2. PICK m \in Message : m = Added(t)
    BY DEF Added, Message
  <2>3. wire' = Append(wire, m) /\ m.kind = "added" /\ m.values = t
    BY <1>7, <2>1, <2>2 DEF Appear, Send, Added
  <2>4. ASSUME NEW g \in Flag, NEW v \in BOOLEAN, truth'[g] = v
        PROVE  WireShows(g, v, Len(wire))'
    <3>1. Tells(m, g, v) /\ ~ Denies(m, g, v)
      BY <2>1, <2>3, <2>4 DEF Tells, Denies
    <3>2. Heard(Len(wire))'
      <4>1. wire'[Len(wire')] = m
        BY <1>2, <2>3, Grown
      <4> QED BY <2>3, <4>1 DEF Heard
    <3> QED BY <1>1, <1>2, <2>3, <3>1, <3>2, WireLast DEF objectVars
  <2>5. /\ ListedInv' /\ NumberInv' /\ PortOrder'
        /\ \A i \in DOMAIN wire' : wire'[i].kind = "result"
             => \A e \in said'[wire'[i].task] : WireShows(e[1], e[2], i - 1)'
    BY <1>4, <2>3
  <2> QED BY <1>3, <2>4, <2>5 DEF InOrder, WireOrder
<1> QED BY <1>5, <1>6, <1>7

\* A reply is sent behind what the daemon has said of the device.
LEMMA AnswerOrder ==
  ASSUME OnceInv, open, InOrder, NEW t \in Task, Answer(t)
  PROVE  InOrder'
<1>1. PICK ok \in BOOLEAN : Send(Result(t, ok))
  BY DEF Answer
<1>2. /\ UNCHANGED <<exists, truth, events, lost, port, subscribed, unread, objectVars, pc, open>>
      /\ t \in asked
      /\ said' = [said EXCEPT ![t] = IF exists THEN {<<f, truth[f]>> : f \in Flag \ lost} ELSE {}]
  BY DEF Answer, callVars
<1>3. PICK m \in Message : m = Result(t, ok)
  BY DEF Result, Message
<1>4. wire' = Append(wire, m) /\ m.kind = "result" /\ m.task = t
  BY <1>1, <1>3 DEF Send, Result
<1>5. wire \in Seq(Message) /\ port \in Seq(Message) /\ Len(wire) \in Nat
  BY DEF OnceInv
<1>6. /\ ListedInv' /\ NumberInv'
      /\ \A f, v : \A n \in 0 .. Len(wire) : WireShows(f, v, n) => WireShows(f, v, n)'
      /\ \A f, v : \A n : PortShows(f, v, n) => PortShows(f, v, n)'
  BY <1>2, <1>4, SentOrder DEF InOrder, NumberInv
\* It is the only one of this call.
<1>7. /\ pc[t] = "asked"
      /\ \A i \in DOMAIN wire : ~ IsAnswer(wire[i], t)
      /\ \A i \in DOMAIN port : ~ IsAnswer(port[i], t)
  <2>1. Once(t) /\ Answers(wire, t) \in Nat /\ Answers(port, t) \in Nat
    BY <1>5, AnswersCounted DEF OnceInv
  <2>2. pc[t] = "asked" /\ Answers(wire, t) = 0 /\ Answers(port, t) = 0
    BY <1>2, <2>1 DEF Once
  <2> QED BY <1>5, <2>2, AnswersCounted
<1>8. /\ said \in [Task -> SUBSET (Flag \X BOOLEAN)]
      /\ \A u \in Task : u # t => said'[u] = said[u]
      /\ \A e \in said'[t] : exists /\ \E f \in Flag \ lost : e[1] = f /\ e[2] = truth[f]
  BY <1>2 DEF InOrder, SaidInv
<1>9. SaidInv'
  <2>1. said' \in [Task -> SUBSET (Flag \X BOOLEAN)]
    BY <1>2, <1>8 DEF OnceInv
  <2> QED BY <1>2, <1>7, <1>8, <2>1 DEF InOrder, SaidInv
<1>10. PortOrder'
  <2> SUFFICES ASSUME NEW i \in DOMAIN port, port[i].kind = "result",
                      NEW e \in said'[port[i].task]
               PROVE  PortShows(e[1], e[2], i - 1)'
    BY <1>2 DEF PortOrder
  <2>1. port[i] \in Message
    BY <1>5
  <2>2. port[i].task \in Task /\ port[i].task # t
    BY <1>7, <2>1 DEF IsAnswer, Message
  <2> QED BY <1>6, <1>8, <2>2 DEF InOrder, PortOrder
<1>11. WireOrder'
  <2>1. ASSUME exists', NEW f \in Flag \ lost', NEW v \in BOOLEAN, truth'[f] = v
        PROVE  WireShows(f, v, Len(wire))'
    <3>1. WireShows(f, v, Len(wire)) /\ ~ Tells(m, f, v) /\ ~ Denies(m, f, v)
      BY <1>2, <1>4, <2>1 DEF InOrder, WireOrder, Tells, Denies
    <3> QED BY <1>2, <1>4, <1>5, <3>1, WireLast DEF objectVars
  <2>2. ASSUME NEW i \in DOMAIN wire', wire'[i].kind = "result", NEW e \in said'[wire'[i].task]
        PROVE  WireShows(e[1], e[2], i - 1)'
    <3>1. CASE i \in DOMAIN wire
      <4>1. wire'[i] = wire[i] /\ wire[i] \in Message /\ i - 1 \in 0 .. Len(wire)
        BY <1>4, <1>5, <3>1
      <4>2. wire[i].task \in Task /\ wire[i].task # t
        BY <1>7, <2>2, <3>1, <4>1 DEF IsAnswer, Message
      <4>3. WireShows(e[1], e[2], i - 1)
        BY <1>8, <2>2, <3>1, <4>1, <4>2 DEF InOrder, WireOrder
      <4> QED BY <1>6, <4>1, <4>3
    <3>2. CASE i \notin DOMAIN wire
      <4>1. wire'[i] = m /\ i - 1 = Len(wire) /\ i - 1 \in 0 .. Len(wire)
        BY <1>4, <1>5, <2>2, <3>2, Grown
      <4>2. PICK f \in Flag \ lost : exists /\ e[1] = f /\ e[2] = truth[f]
        BY <1>4, <1>8, <2>2, <4>1
      <4>3. e[2] \in BOOLEAN
        BY <4>2 DEF OnceInv
      <4>4. WireShows(e[1], e[2], i - 1)
        BY <4>1, <4>2, <4>3 DEF InOrder, WireOrder
      <4> QED BY <1>6, <4>1, <4>4
    <3> QED BY <3>1, <3>2
  <2> QED BY <2>1, <2>2 DEF WireOrder
<1> QED BY <1>6, <1>9, <1>10, <1>11 DEF InOrder

\* What the event loop takes off the wire it posts, unless it is a change that
\* was not sure to be handed on.
LEMMA EventLoopOrder ==
  ASSUME OnceInv, open, InOrder, EventLoop
  PROVE  InOrder'
<1>1. /\ wire # <<>> /\ wire' = Tail(wire)
      /\ UNCHANGED <<exists, truth, events, lost, said, pc, current, made, props, open>>
      /\ \/ port' = Append(port, Head(wire)) /\ (Head(wire).kind = "changed" => subscribed)
         \/ port' = port /\ Head(wire).kind = "changed" /\ (~ subscribed \/ unread > 0)
  BY Zenon DEF EventLoop, DispatchReply, DispatchChanged, DispatchUnmatched, DispatchAdded,
     DispatchRemoved, Dispatch, Post, daemonVars, callVars, objectVars
<1>2. PICK h \in Message : h = Head(wire)
  BY <1>1 DEF OnceInv
<1>3. /\ wire \in Seq(Message) /\ port \in Seq(Message) /\ wire' \in Seq(Message)
      /\ Len(wire) \in Nat \ {0} /\ Len(wire') = Len(wire) - 1
      /\ DOMAIN wire' = 1 .. Len(wire) - 1 /\ DOMAIN wire = 1 .. Len(wire) /\ wire[1] = h
      /\ \A i \in 1 .. Len(wire) - 1 : wire'[i] = wire[i + 1]
  BY <1>1, <1>2, Shrunk DEF OnceInv
<1>4. subscribed \in BOOLEAN /\ unread \in Nat /\ unread <= Len(wire)
  BY <1>3 DEF InOrder, ListedInv
<1>5. /\ subscribed' \in BOOLEAN /\ unread' \in 0 .. Len(wire')
      /\ h.kind = "removed" => ~ subscribed'
      /\ h.kind \notin {"added", "removed"} => subscribed' = subscribed
      /\ h.kind # "removed" /\ subscribed
           => subscribed' /\ unread' = IF unread = 0 THEN 0 ELSE unread - 1
  <2>1. \/ h.kind \in {"result", "changed"} /\ ReadOn /\ subscribed' = subscribed
        \/ h.kind = "added" /\ subscribed' = TRUE /\ (IF subscribed THEN ReadOn ELSE unread' = Len(wire'))
        \/ h.kind = "removed" /\ subscribed' = FALSE /\ unread' = 0
    <3>1. CASE DispatchReply \/ DispatchChanged \/ DispatchUnmatched
      BY <1>2, <3>1 DEF DispatchReply, DispatchChanged, DispatchUnmatched, Dispatch
    <3>2. CASE DispatchAdded
      BY <1>2, <3>2 DEF DispatchAdded, Dispatch
    <3>3. CASE DispatchRemoved
      BY <1>2, <3>3 DEF DispatchRemoved, Dispatch
    <3> QED BY <3>1, <3>2, <3>3 DEF EventLoop
  <2>2. ReadOn => unread' \in 0 .. Len(wire')
    BY <1>3, <1>4 DEF ReadOn
  <2>3. 0 \in 0 .. Len(wire') /\ Len(wire') \in 0 .. Len(wire')
    BY <1>3
  <2>4. subscribed' \in BOOLEAN /\ unread' \in 0 .. Len(wire')
    BY <1>4, <2>1, <2>2, <2>3
  <2> QED BY <2>1, <2>4 DEF ReadOn
<1>6. ASSUME NEW i \in 1 .. Len(wire) - 1, Heard(i + 1) PROVE Heard(i)'
  <2> SUFFICES ASSUME wire[i + 1].kind = "changed" PROVE Heard(i)'
    BY <1>3 DEF Heard
  <2>1. subscribed /\ unread < i + 1 /\ \A j \in 1 .. i : wire[j].kind # "removed"
    BY <1>3, <1>6 DEF Heard
  <2>2. h.kind # "removed"
    BY <1>3, <2>1
  <2>3. subscribed' /\ unread' < i
    BY <1>4, <1>5, <2>1, <2>2
  <2>4. \A j \in 1 .. i - 1 : wire'[j].kind # "removed"
    BY <1>3, <2>1
  <2> QED BY <2>3, <2>4 DEF Heard
<1>7. ASSUME NEW f, NEW v
      PROVE  /\ Tells(h, f, v) /\ Heard(1) => PortShows(f, v, Len(port))'
             /\ ~ Denies(h, f, v) /\ PortShows(f, v, Len(port)) => PortShows(f, v, Len(port))'
  <2>1. CASE port' = Append(port, h)
    <3>1. Tells(h, f, v) => ~ Denies(h, f, v)
      BY DEF Tells, Denies
    <3> QED BY <1>1, <1>3, <2>1, <3>1, PortLast
  <2>2. CASE port' = port /\ h.kind = "changed" /\ (~ subscribed \/ unread > 0)
    <3>1. ~ Heard(1)
      BY <1>3, <1>4, <2>2 DEF Heard
    <3>2. PortShows(f, v, Len(port))' <=> PortShows(f, v, Len(port))
      BY <1>1, <2>2 DEF PortShows, PortTells, PortDenies, Shown
    <3> QED BY <3>1, <3>2
  <2> QED BY <1>1, <1>2, <2>1, <2>2
<1>8. ASSUME NEW f, NEW v, NEW n \in Nat, WireShows(f, v, n + 1)
      PROVE  WireShows(f, v, n)'
  BY <1>1, <1>2, <1>3, <1>6, <1>7, <1>8, WireTaken
<1>9. WireOrder'
  <2>1. ASSUME exists', NEW f \in Flag \ lost', NEW v \in BOOLEAN, truth'[f] = v
        PROVE  WireShows(f, v, Len(wire))'
    <3>1. PICK n \in Nat : n = Len(wire')
      BY <1>3
    <3>2. WireShows(f, v, n + 1)
      BY <1>1, <1>3, <2>1, <3>1 DEF InOrder, WireOrder
    <3> QED BY <1>8, <3>1, <3>2
  <2>2. ASSUME NEW i \in DOMAIN wire', wire'[i].kind = "result", NEW e \in said'[wire'[i].task]
        PROVE  WireShows(e[1], e[2], i - 1)'
    <3>1. PICK n \in Nat : n = i - 1
      BY <1>3
    <3>2. i + 1 \in DOMAIN wire /\ wire'[i] = wire[i + 1] /\ (i + 1) - 1 = n + 1
      BY <1>3, <3>1
    <3>3. WireShows(e[1], e[2], n + 1)
      BY <1>1, <2>2, <3>2 DEF InOrder, WireOrder
    <3>4. WireShows(e[1], e[2], n)'
      BY <1>8, <3>3
    <3> QED BY <3>1, <3>4
  <2> QED BY <2>1, <2>2 DEF WireOrder
<1>10. PortOrder'
  <2> SUFFICES ASSUME NEW i \in DOMAIN port', port'[i].kind = "result", NEW e \in said'[port'[i].task]
               PROVE  PortShows(e[1], e[2], i - 1)'
    BY DEF PortOrder
  <2>1. CASE port' = port
    BY <1>1, <2>1 DEF InOrder, PortOrder, PortShows, PortTells, PortDenies, Shown
  <2>2. CASE port' = Append(port, h)
    <3>1. CASE i \in DOMAIN port
      <4>1. port'[i] = port[i] /\ i - 1 \in 0 .. Len(port)
        BY <1>3, <2>2, <3>1
      <4>2. PortShows(e[1], e[2], i - 1)
        BY <1>1, <3>1, <4>1 DEF InOrder, PortOrder
      <4> QED BY <1>1, <1>3, <2>2, <4>1, <4>2, PortKept
    <3>2. CASE i \notin DOMAIN port
      <4>1. port'[i] = h /\ i - 1 = Len(port) /\ i - 1 \in 0 .. Len(port)
        BY <1>3, <2>2, <3>2, Grown
      <4>2. WireShows(e[1], e[2], 0)
        BY <1>1, <1>3, <4>1 DEF InOrder, WireOrder
      <4>3. PortShows(e[1], e[2], Len(port))
        <5> DEFINE A == WireTells(e[1], e[2])  R == WireDenies(e[1], e[2])
                   b == PortShows(e[1], e[2], Len(port))
        <5>1. A \in SUBSET Nat /\ R \in SUBSET Nat /\ 0 \notin A
          BY <1>3 DEF WireTells, WireDenies
        <5>2. Prevails(A, R, 0, b)
          BY <4>2 DEF WireShows
        <5> HIDE DEF A, R, b
        <5>3. b
          BY <5>1, <5>2, PrevailsNone
        <5> QED BY <5>3 DEF b
      <4>4. PortShows(e[1], e[2], i - 1)
        BY <4>1, <4>3
      <4> QED BY <1>1, <1>3, <2>2, <4>1, <4>4, PortKept
    <3> QED BY <3>1, <3>2
  <2> QED BY <1>1, <1>2, <2>1, <2>2
<1>11. ListedInv'
  <2>1. CASE port' = port /\ h.kind = "changed"
    <3>1. \A n : Listed(n)' <=> Listed(n)
      BY <1>1, <2>1 DEF Listed, Arrivals, Departures
    <3>2. Listed(Len(port))' <=> Listed(Len(port))
      BY <1>1, <2>1 DEF Listed, Arrivals, Departures
    <3> QED BY <1>5, <2>1, <3>1, <3>2 DEF InOrder, ListedInv
  <2>2. CASE port' = Append(port, h) /\ (h.kind = "changed" => subscribed)
    <3>1. subscribed' => Listed(Len(port))'
      BY <1>1, <1>3, <1>5, <2>2, PortLast DEF InOrder, ListedInv
    <3>2. ASSUME NEW i \in DOMAIN port', port'[i].kind = "changed" PROVE Listed(i - 1)'
      <4>1. CASE i \in DOMAIN port
        <5>1. port'[i] = port[i] /\ i - 1 \in 0 .. Len(port)
          BY <1>3, <2>2, <4>1
        <5>2. Listed(i - 1)
          BY <3>2, <4>1, <5>1 DEF InOrder, ListedInv
        <5> QED BY <1>1, <1>3, <2>2, <5>1, <5>2, PortKept
      <4>2. CASE i \notin DOMAIN port
        <5>1. port'[i] = h /\ i - 1 = Len(port) /\ i - 1 \in 0 .. Len(port)
          BY <1>3, <2>2, <3>2, <4>2, Grown
        <5>2. Listed(i - 1)
          BY <2>2, <3>2, <5>1 DEF InOrder, ListedInv
        <5> QED BY <1>1, <1>3, <2>2, <5>1, <5>2, PortKept
      <4> QED BY <4>1, <4>2
    <3> QED BY <1>5, <3>1, <3>2 DEF ListedInv
  <2> QED BY <1>1, <1>2, <2>1, <2>2
<1>12. NumberInv'
  <2> DEFINE a == Count(wire, Additions)  b == Count(wire', Additions)
             c == Count(port, Additions)  d == Count(port', Additions)
             k == IF h.kind = "added" THEN 1 ELSE 0
  <2>1. a \in Nat /\ b \in Nat /\ a = b + k
    BY <1>1, <1>2, <1>3, AdditionsTail
  <2>2. c \in Nat /\ d \in Nat /\ d = c + k
    <3>1. CASE port' = port /\ h.kind = "changed"
      <4>1. c \in Nat
        BY <1>3, CountType
      <4> QED BY <3>1, <4>1
    <3>2. CASE port' = Append(port, h)
      BY <1>3, <3>2, AdditionsAppend
    <3> QED BY <1>1, <1>2, <3>1, <3>2
  <2>3. made + c + a <= events + 1 /\ made \in Nat
    BY DEF InOrder, NumberInv
  <2>4. Count(wire, Additions)' = b /\ Count(port, Additions)' = d
    BY DEF Additions, Message
  <2> HIDE DEF a, b, c, d, k
  <2>5. made + d + b <= events + 1
    <3>1. events \in Nat /\ k \in Nat
      BY EventsAssumption DEF InOrder, NumberInv, k
    <3> QED BY <2>1, <2>2, <2>3, <3>1
  <2> QED BY <1>1, <2>4, <2>5 DEF InOrder, NumberInv
<1>13. SaidInv'
  BY <1>1 DEF InOrder, SaidInv
<1> QED BY <1>9, <1>10, <1>11, <1>12, <1>13 DEF InOrder

\* The daemon has said nothing to a call that has just begun.
LEMMA CallOrder ==
  ASSUME OnceInv, open, InOrder, NEW t \in Task, NEW o \in 1 .. made,
         \/ call_device_method_async(t, o)
         \/ GattCall(t, o)
         \/ waitForServicesResolved(t, o)
  PROVE  InOrder'
<1>1. /\ UNCHANGED <<exists, truth, events, lost, said, wire, subscribed, unread, current, made, props>>
      /\ pc[t] = "idle" /\ \A u \in Task : pc'[u] = "idle" => pc[u] = "idle"
  <2>1. PICK k \in Ops, step \in Steps \ {"idle"} : Begin(t, o, k, step)
    <3>1. CASE call_device_method_async(t, o)
      BY <3>1 DEF call_device_method_async, Asynchronous, Ops, Steps
    <3>2. CASE GattCall(t, o)
      BY <3>2 DEF GattCall, Ops, Steps
    <3>3. CASE waitForServicesResolved(t, o)
      BY <3>3 DEF waitForServicesResolved, Ops, Steps
    <3> QED BY <3>1, <3>2, <3>3
  <2> QED BY <2>1 DEF Begin, OnceInv, nativeVars, objectVars
<1>2. \/ port' = port
      \/ \E m \in Message : port' = Append(port, m) /\ m.kind = "result" /\ m.task = t
  <2>1. CASE GattCall(t, o)
    <3>1. PICK ok \in BOOLEAN : Post(Result(t, ok))
      BY <2>1 DEF GattCall, BlockingCall
    <3>2. Result(t, ok) \in Message /\ Result(t, ok).kind = "result" /\ Result(t, ok).task = t
      BY DEF Result, Message
    <3> QED BY <3>1, <3>2 DEF Post
  <2>2. CASE call_device_method_async(t, o) \/ waitForServicesResolved(t, o)
    BY <2>2 DEF call_device_method_async, waitForServicesResolved
  <2> QED BY <2>1, <2>2
<1>3. wire \in Seq(Message) /\ port \in Seq(Message) /\ Len(wire) \in Nat
  BY DEF OnceInv
<1>4. SaidInv'
  BY <1>1 DEF InOrder, SaidInv
<1>5. CASE port' = port
  <2>1. WireOrder' /\ PortOrder' /\ ListedInv'
    <3>1. \A f, v : \A n : PortShows(f, v, n)' <=> PortShows(f, v, n)
      BY <1>1, <1>5 DEF PortShows, PortTells, PortDenies, Shown
    <3>2. \A n : Listed(n)' <=> Listed(n)
      BY <1>1, <1>5 DEF Listed, Arrivals, Departures
    <3>3. Listed(Len(port))' <=> Listed(Len(port))
      BY <1>1, <1>5 DEF Listed, Arrivals, Departures
    <3>4. \A f, v : \A n : WireShows(f, v, n)' <=> WireShows(f, v, n)
      BY <1>1, <1>5 DEF WireShows, WireTells, WireDenies, Heard, PortShows, PortTells,
                       PortDenies, Shown
    <3>5. \A f, v : WireShows(f, v, Len(wire))' <=> WireShows(f, v, Len(wire))
      BY <1>1, <1>5 DEF WireShows, WireTells, WireDenies, Heard, PortShows, PortTells,
                       PortDenies, Shown
    <3>6. WireOrder'
      BY <1>1, <3>4, <3>5 DEF InOrder, WireOrder
    <3>7. PortOrder'
      BY <1>1, <1>5, <3>1 DEF InOrder, PortOrder
    <3>8. ListedInv'
      BY <1>1, <1>5, <3>2, <3>3 DEF InOrder, ListedInv
    <3> QED BY <3>6, <3>7, <3>8
  <2>2. NumberInv'
    BY <1>1, <1>5 DEF InOrder, NumberInv, Additions, Message
  <2> QED BY <1>4, <2>1, <2>2 DEF InOrder
<1>6. ASSUME NEW m \in Message, port' = Append(port, m), m.kind = "result", m.task = t
      PROVE  InOrder'
  <2>1. /\ \A n \in 0 .. Len(port) : /\ \A f, v : PortShows(f, v, n) => PortShows(f, v, n)'
                                     /\ Listed(n) => Listed(n)'
        /\ \A f, v : PortShows(f, v, Len(port)) => PortShows(f, v, Len(port))'
        /\ Listed(Len(port)) => Listed(Len(port))'
    <3>1. ASSUME NEW f, NEW v PROVE ~ Tells(m, f, v) /\ ~ Denies(m, f, v)
      BY <1>6 DEF Tells, Denies
    <3>2. \A n \in 0 .. Len(port) : /\ \A f, v : PortShows(f, v, n) => PortShows(f, v, n)'
                                    /\ Listed(n) => Listed(n)'
      BY <1>1, <1>3, <1>6, PortKept
    <3>3. /\ \A f, v : PortShows(f, v, Len(port)) => PortShows(f, v, Len(port))'
          /\ Listed(Len(port)) => Listed(Len(port))'
      BY <1>1, <1>3, <1>6, <3>1, PortLast
    <3> QED BY <3>2, <3>3
  <2>2. \A f, v : \A n \in Nat : WireShows(f, v, n) => WireShows(f, v, n)'
    BY <1>1, <1>3, <2>1, WireBase
  <2>3. WireOrder'
    <3>1. ASSUME exists', NEW f \in Flag \ lost', NEW v \in BOOLEAN, truth'[f] = v
          PROVE  WireShows(f, v, Len(wire))'
      <4>1. PICK n \in Nat : n = Len(wire) /\ n = Len(wire')
        BY <1>1, <1>3
      <4>2. WireShows(f, v, n)
        BY <1>1, <3>1, <4>1 DEF InOrder, WireOrder
      <4> QED BY <2>2, <4>1, <4>2
    <3>2. ASSUME NEW i \in DOMAIN wire', wire'[i].kind = "result", NEW e \in said'[wire'[i].task]
          PROVE  WireShows(e[1], e[2], i - 1)'
      <4>1. i \in DOMAIN wire /\ i - 1 \in Nat /\ wire' = wire
        BY <1>1, <1>3
      <4>2. WireShows(e[1], e[2], i - 1)
        BY <1>1, <3>2, <4>1 DEF InOrder, WireOrder
      <4> QED BY <2>2, <4>1, <4>2
    <3> QED BY <3>1, <3>2 DEF WireOrder
  <2>4. PortOrder' /\ ListedInv'
    <3>1. ASSUME NEW i \in DOMAIN port'
          PROVE  \/ i \in DOMAIN port /\ port'[i] = port[i] /\ i - 1 \in 0 .. Len(port)
                 \/ port'[i].kind = "result" /\ said'[port'[i].task] = {}
      <4>1. CASE i \in DOMAIN port
        BY <1>3, <1>6, <4>1
      <4>2. CASE i \notin DOMAIN port
        <5>1. port'[i] = m
          BY <1>3, <1>6, <4>2, Grown
        <5> QED BY <1>1, <1>6, <5>1 DEF InOrder, SaidInv
      <4> QED BY <4>1, <4>2
    <3>2. PortOrder'
      BY <1>1, <2>1, <3>1 DEF InOrder, PortOrder
    <3>3. ListedInv'
      BY <1>1, <2>1, <3>1 DEF InOrder, ListedInv
    <3> QED BY <3>2, <3>3
  <2>5. NumberInv'
    <3> DEFINE a == Count(wire, Additions)
               c == Count(port, Additions)  d == Count(port', Additions)
    <3>1. c \in Nat /\ d = c
      BY <1>3, <1>6, AdditionsAppend
    <3>2. Count(wire, Additions)' = a /\ Count(port, Additions)' = d
      BY <1>1 DEF Additions, Message
    <3> HIDE DEF a, c, d
    <3> QED BY <1>1, <3>1, <3>2 DEF InOrder, NumberInv, a, c
  <2> QED BY <1>4, <2>3, <2>4, <2>5 DEF InOrder
<1> QED BY <1>2, <1>5, <1>6

\* The isolate takes a message: its object shows what the message tells.
LEMMA MessageOrder ==
  ASSUME OnceInv, open, InOrder, OnMessage
  PROVE  InOrder'
<1>1. /\ port # <<>> /\ port' = Tail(port)
      /\ UNCHANGED <<exists, truth, events, lost, said, wire, subscribed, unread, open>>
  BY Zenon DEF OnMessage, OnResult, OnChanged, OnAdded, OnRemoved, OnClosedPort, Take, daemonVars,
     nativeVars
<1>2. PICK h \in Message : h = Head(port)
  BY <1>1 DEF OnceInv
<1>3. /\ wire \in Seq(Message) /\ port \in Seq(Message) /\ port' \in Seq(Message)
      /\ Len(wire) \in Nat /\ Len(port) \in Nat \ {0} /\ Len(port') = Len(port) - 1
      /\ DOMAIN port' = 1 .. Len(port) - 1 /\ DOMAIN port = 1 .. Len(port) /\ port[1] = h
      /\ \A i \in 1 .. Len(port) - 1 : port'[i] = port[i + 1]
  BY <1>1, <1>2, Shrunk DEF OnceInv
<1>4. /\ made \in Nat \ {0} /\ current \in 0 .. made /\ made <= events + 1
      /\ events \in 0 .. MaxEvents /\ props \in [Object -> [Flag -> BOOLEAN]]
      /\ made \in Object
      /\ made + (IF h.kind = "added" THEN 1 ELSE 0) + Count(port', Additions)
           + Count(wire, Additions) <= events + 1
      /\ Count(port', Additions) \in Nat /\ Count(wire, Additions) \in Nat
  <2> DEFINE a == Count(wire, Additions)  c == Count(port, Additions)
             d == Count(port', Additions) k == IF h.kind = "added" THEN 1 ELSE 0
  <2>1. d \in Nat /\ c = d + k
    BY <1>1, <1>2, <1>3, AdditionsTail
  <2>2. a \in Nat /\ k \in Nat
    BY <1>3, CountType
  <2>3. /\ made \in Nat \ {0} /\ current \in 0 .. made /\ events \in 0 .. MaxEvents
        /\ made + c + a <= events + 1 /\ props \in [Object -> [Flag -> BOOLEAN]]
    BY DEF InOrder, NumberInv
  <2> HIDE DEF a, c, d, k
  <2>4. made + k + d + a <= events + 1 /\ made <= events + 1 /\ made \in Object
    BY EventsAssumption, <2>1, <2>2, <2>3 DEF Object
  <2> QED BY <2>1, <2>2, <2>3, <2>4 DEF a, d, k
\* What becomes of the current object.
<1>5. /\ h.kind = "result" => UNCHANGED <<made, current, props>>
      /\ h.kind = "changed" => /\ UNCHANGED <<made, current>> /\ current # None
                               /\ props' = [props EXCEPT ![current][h.flag] = h.value]
      /\ h.kind = "added" => /\ made' = made + 1 /\ current' = made + 1
                             /\ props' = [props EXCEPT ![made + 1] = h.values]
      /\ h.kind = "removed" => UNCHANGED <<made, props>> /\ current' = None
  <2>1. h.kind = "changed" => current # None
    <3> SUFFICES ASSUME h.kind = "changed" PROVE current # None
      OBVIOUS
    <3>1. Listed(0)
      BY <1>3 DEF InOrder, ListedInv
    <3> DEFINE A == Arrivals  R == Departures  b == current # None
    <3>2. A \in SUBSET Nat /\ R \in SUBSET Nat /\ 0 \notin A
      BY <1>3 DEF Arrivals, Departures
    <3>3. Prevails(A, R, 0, b)
      BY <3>1 DEF Listed
    <3> HIDE DEF A, R, b
    <3>4. b
      BY <3>2, <3>3, PrevailsNone
    <3> QED BY <3>4 DEF b
  <2>2. CASE OnResult
    BY <1>2, <2>2 DEF OnResult, Take, objectVars
  <2>3. CASE OnChanged
    BY <1>2, <2>1, <2>3 DEF OnChanged, Take
  <2>4. CASE OnAdded
    BY <1>2, <2>4 DEF OnAdded, Take
  <2>5. CASE OnRemoved
    BY <1>2, <2>5 DEF OnRemoved, Take
  <2>6. ~ OnClosedPort
    BY DEF OnClosedPort
  <2> QED BY <2>2, <2>3, <2>4, <2>5, <2>6 DEF OnMessage
<1>6. NumberInv'
  <2>1. Count(port, Additions)' = Count(port', Additions)
        /\ Count(wire, Additions)' = Count(wire, Additions)
    BY <1>1 DEF Additions, Message
  <2>2. /\ made' \in Nat \ {0} /\ current' \in 0 .. made'
        /\ made' = made + (IF h.kind = "added" THEN 1 ELSE 0)
    BY <1>4, <1>5 DEF None, Message
  <2>3. props' \in [Object -> [Flag -> BOOLEAN]]
    <3>1. CASE h.kind = "changed"
      <4>1. h.flag \in Flag /\ h.value \in BOOLEAN
        BY <3>1 DEF Message
      <4> QED BY <1>4, <1>5, <3>1, <4>1
    <3>2. CASE h.kind = "added"
      <4>1. h.values \in [Flag -> BOOLEAN]
        BY <3>2 DEF Message
      <4> QED BY <1>4, <1>5, <3>2, <4>1
    <3>3. CASE h.kind \in {"result", "removed"}
      BY <1>4, <1>5, <3>3
    <3> QED BY <3>1, <3>2, <3>3 DEF Message
  <2>4. (made + Count(port, Additions) + Count(wire, Additions) <= events + 1)'
    BY <1>1, <1>4, <2>1, <2>2
  <2> QED BY <1>1, <1>4, <2>2, <2>3, <2>4 DEF NumberInv
<1>7. ASSUME NEW f \in Flag, NEW v
      PROVE  /\ Tells(h, f, v) => Shown(f, v)'
             /\ ~ Denies(h, f, v) /\ Shown(f, v) => Shown(f, v)'
  <2>1. CASE h.kind = "result"
    BY <1>5, <2>1 DEF Tells, Shown
  <2>2. CASE h.kind = "changed"
    <3>1. current \in Object /\ h.flag \in Flag
      <4>1. h.flag \in Flag
        BY <2>2 DEF Message
      <4>2. current # 0
        BY <1>5, <2>2 DEF None
      <4>3. current \in Object
        BY <1>4, <4>2, EventsAssumption DEF Object
      <4> QED BY <4>1, <4>3
    <3>2. /\ current' = current /\ current' # None
          /\ props'[current][h.flag] = h.value
          /\ f # h.flag => props'[current][f] = props[current][f]
      BY <1>4, <1>5, <2>2, <3>1
    <3> QED BY <2>2, <3>2 DEF Tells, Denies, Shown
  <2>3. CASE h.kind = "added"
    <3>1. made + 1 \in Object /\ made + 1 # None
      <4>1. made + 1 <= events + 1 /\ events <= MaxEvents /\ events \in Nat
        BY <1>4, <2>3, EventsAssumption
      <4> QED BY <1>4, <4>1, EventsAssumption DEF Object, None
    <3>2. current' = made + 1 /\ props'[made + 1] = h.values
      BY <1>4, <1>5, <2>3, <3>1
    <3> QED BY <2>3, <3>1, <3>2 DEF Tells, Denies, Shown
  <2>4. CASE h.kind = "removed"
    BY <2>4 DEF Tells, Denies
  <2> QED BY <2>1, <2>2, <2>3, <2>4 DEF Message
<1>8. ASSUME NEW n \in Nat, NEW f \in Flag, NEW v, PortShows(f, v, n + 1)
      PROVE  PortShows(f, v, n)'
  BY <1>1, <1>2, <1>3, <1>7, <1>8, PortTaken
<1>9. ASSUME NEW n \in Nat, Listed(n + 1) PROVE Listed(n)'
  <2>1. /\ h.kind = "added" => (current # None)'
        /\ h.kind \notin {"added", "removed"} /\ current # None => (current # None)'
    BY <1>4, <1>5 DEF Message, None
  <2> QED BY <1>1, <1>2, <1>3, <1>9, <2>1, PortTaken
<1>10. PICK k \in Nat : k = Len(port') /\ Len(port) = k + 1
  BY <1>3
<1>11. ListedInv'
  <2>1. subscribed' => Listed(Len(port))'
    BY <1>1, <1>9, <1>10 DEF InOrder, ListedInv
  <2>2. ASSUME NEW i \in DOMAIN port', port'[i].kind = "changed" PROVE Listed(i - 1)'
    <3>1. PICK n \in Nat : n = i - 1
      BY <1>3
    <3>2. i + 1 \in DOMAIN port /\ port'[i] = port[i + 1] /\ (i + 1) - 1 = n + 1
      BY <1>3, <3>1
    <3>3. Listed(n + 1)
      BY <2>2, <3>2 DEF InOrder, ListedInv
    <3> QED BY <1>9, <3>1, <3>3
  <2> QED BY <1>1, <2>1, <2>2 DEF InOrder, ListedInv
<1>12. PortOrder'
  <2> SUFFICES ASSUME NEW i \in DOMAIN port', port'[i].kind = "result", NEW e \in said'[port'[i].task]
               PROVE  PortShows(e[1], e[2], i - 1)'
    BY DEF PortOrder
  <2>1. PICK n \in Nat : n = i - 1
    BY <1>3
  <2>2. i + 1 \in DOMAIN port /\ port'[i] = port[i + 1] /\ (i + 1) - 1 = n + 1
        /\ port[i + 1] \in Message
    BY <1>3, <2>1
  <2>3. e \in said[port[i + 1].task] /\ port[i + 1].kind = "result"
    BY <1>1, <2>2
  <2>4. e[1] \in Flag
    BY <2>2, <2>3 DEF InOrder, SaidInv, Message
  <2>5. PortShows(e[1], e[2], n + 1)
    BY <2>2, <2>3 DEF InOrder, PortOrder
  <2> QED BY <1>8, <2>1, <2>4, <2>5
<1>13. WireOrder'
  <2>1. ASSUME NEW f \in Flag, NEW v, NEW n \in Nat, WireShows(f, v, n)
        PROVE  WireShows(f, v, n)'
    <3>1. PortShows(f, v, Len(port)) => PortShows(f, v, Len(port))'
      BY <1>8, <1>10
    <3> QED BY <1>1, <1>3, <2>1, <3>1, WireBase
  <2>2. ASSUME exists', NEW f \in Flag \ lost', NEW v \in BOOLEAN, truth'[f] = v
        PROVE  WireShows(f, v, Len(wire))'
    <3>1. PICK n \in Nat : n = Len(wire) /\ n = Len(wire')
      BY <1>1, <1>3
    <3>2. WireShows(f, v, n)
      BY <1>1, <2>2, <3>1 DEF InOrder, WireOrder
    <3> QED BY <2>1, <3>1, <3>2
  <2>3. ASSUME NEW i \in DOMAIN wire', wire'[i].kind = "result", NEW e \in said'[wire'[i].task]
        PROVE  WireShows(e[1], e[2], i - 1)'
    <3>1. i \in DOMAIN wire /\ i - 1 \in Nat /\ wire' = wire /\ wire[i] \in Message
      BY <1>1, <1>3
    <3>2. WireShows(e[1], e[2], i - 1) /\ e[1] \in Flag
      BY <1>1, <2>3, <3>1 DEF InOrder, WireOrder, SaidInv, Message
    <3> QED BY <2>1, <3>1, <3>2
  <2> QED BY <2>2, <2>3 DEF WireOrder
<1>14. SaidInv'
  <2>1. \A t \in Task : pc'[t] = "idle" => pc[t] = "idle"
    <3>1. CASE OnResult
      BY <3>1 DEF OnResult, Take, OnceInv
    <3>2. CASE OnChanged
      BY <3>2 DEF OnChanged, Take, Wake
    <3>3. CASE OnAdded \/ OnRemoved \/ OnClosedPort
      BY <3>3 DEF OnAdded, OnRemoved, OnClosedPort
    <3> QED BY <3>1, <3>2, <3>3 DEF OnMessage
  <2> QED BY <1>1, <2>1 DEF InOrder, SaidInv
<1> QED BY <1>6, <1>11, <1>12, <1>13, <1>14 DEF InOrder

LEMMA OrderInit == Init => InOrder
<1> SUFFICES ASSUME Init PROVE InOrder
  OBVIOUS
<1>1. \A A : Count(<<>>, A) = 0
  <2> SUFFICES ASSUME NEW A PROVE Count(<<>>, A) = 0
    OBVIOUS
  <2>1. {i \in DOMAIN <<>> : <<>>[i] \in A} = {}
    OBVIOUS
  <2> QED BY <2>1, FS_EmptySet DEF Count
<1>2. NumberInv
  BY <1>1, EventsAssumption DEF Init, NumberInv, Object
<1>3. ListedInv
  BY DEF Init, ListedInv, Listed, Prevails, Arrivals, Departures, None
<1>4. SaidInv
  BY DEF Init, SaidInv
<1>5. PortOrder
  BY DEF Init, PortOrder
<1>6. WireOrder
  <2>1. ASSUME NEW f \in Flag \ lost, NEW v \in BOOLEAN, truth[f] = v
        PROVE  WireShows(f, v, Len(wire))
    <3>1. Shown(f, v)
      BY <2>1, EventsAssumption DEF Init, Shown, None, Object
    <3>2. PortTells(f, v) = {} /\ PortDenies(f, v) = {} /\ WireTells(f, v) = {} /\ WireDenies(f, v) = {}
      BY DEF Init, PortTells, PortDenies, WireTells, WireDenies
    <3>3. PortShows(f, v, Len(port))
      BY <3>1, <3>2 DEF PortShows, Prevails
    <3> QED BY <3>2, <3>3 DEF WireShows, Prevails
  <2> QED BY <2>1 DEF Init, WireOrder
<1> QED BY <1>2, <1>3, <1>4, <1>5, <1>6 DEF InOrder

LEMMA OrderInvHolds == Spec => []OrderInv
<1>1. Init => OrderInv
  BY OnceInit, OrderInit DEF OrderInv
<1>2. OrderInv /\ [Next]_vars => OrderInv'
  <2> SUFFICES ASSUME OrderInv, [Next]_vars PROVE OrderInv'
    OBVIOUS
  <2>1. OnceInv'
    BY OnceNext DEF OrderInv
  <2>2. open' => open
    BY Zenon DEF Next, vars, Flip, Vanish, Appear, Answer, call_device_method_async, GattCall,
       waitForServicesResolved, Begin, EventLoop, DispatchReply, DispatchChanged,
       DispatchUnmatched, DispatchAdded, DispatchRemoved, Dispatch, OnMessage, OnResult,
       OnChanged, OnAdded, OnRemoved, OnClosedPort, Take, Close, nativeVars
  <2>3. ASSUME open, InOrder, open' PROVE InOrder'
    <3>1. CASE UNCHANGED vars
      <4>1. UNCHANGED <<exists, truth, events, lost, said, wire, subscribed, unread, port,
                        current, made, props, pc>>
        BY <3>1 DEF vars, daemonVars, nativeVars, objectVars, callVars
      <4>2. \A f, v : \A n : PortShows(f, v, n)' <=> PortShows(f, v, n)
        BY <4>1 DEF PortShows, PortTells, PortDenies, Shown
      <4>3. \A n : Listed(n)' <=> Listed(n)
        BY <4>1 DEF Listed, Arrivals, Departures
      <4>4. Listed(Len(port))' <=> Listed(Len(port))
        BY <4>1 DEF Listed, Arrivals, Departures
      <4>5. \A f, v : /\ \A n : WireShows(f, v, n)' <=> WireShows(f, v, n)
                      /\ WireShows(f, v, Len(wire))' <=> WireShows(f, v, Len(wire))
        BY <4>1 DEF WireShows, WireTells, WireDenies, Heard, PortShows, PortTells,
                    PortDenies, Shown
      <4>6. WireOrder'
        BY <2>3, <4>1, <4>5 DEF InOrder, WireOrder
      <4>7. PortOrder' /\ ListedInv' /\ SaidInv'
        BY <2>3, <4>1, <4>2, <4>3, <4>4 DEF InOrder, PortOrder, ListedInv, SaidInv
      <4>8. NumberInv'
        BY <2>3, <4>1 DEF InOrder, NumberInv, Additions, Message
      <4> QED BY <4>6, <4>7, <4>8 DEF InOrder
    <3>2. CASE Close
      BY <2>3, <3>2 DEF Close
    <3>3. OnceInv
      BY DEF OrderInv
    <3> QED BY <2>3, <3>1, <3>2, <3>3, DaemonOrder, AnswerOrder, EventLoopOrder, CallOrder,
               MessageOrder DEF Next
  <2> QED BY <2>1, <2>2, <2>3 DEF OrderInv
<1> QED BY <1>1, <1>2, PTL DEF Spec

\* A caller that handles the daemon's reply sees the device as the daemon saw it
\* when it replied, whatever calls, signals and replacements of the object were
\* under way, except for changes that no match was sure to hand on.
THEOREM RepliesKeepOrder == Spec => []RepliesInOrder
<1>1. OrderInv => RepliesInOrder
  <2> SUFFICES ASSUME OrderInv, open, port # <<>>, Head(port).kind = "result",
                      NEW e \in said[Head(port).task]
               PROVE  current # None /\ props[current][e[1]] = e[2]
    BY DEF RepliesInOrder
  <2>1. port \in Seq(Message) /\ 1 \in DOMAIN port /\ port[1] = Head(port) /\ 1 - 1 = 0
    BY DEF OrderInv, OnceInv
  <2>2. PortShows(e[1], e[2], 0)
    BY <2>1 DEF OrderInv, InOrder, PortOrder
  <2>3. PortTells(e[1], e[2]) \in SUBSET Nat /\ 0 \notin PortTells(e[1], e[2])
    BY <2>1 DEF PortTells
  <2>4. Shown(e[1], e[2])
    BY <2>2, <2>3 DEF PortShows, Prevails
  <2> QED BY <2>4 DEF Shown
<1> QED BY <1>1, OrderInvHolds, PTL

(***************************************************************************)
(* The calls implement CallPromise.  A verdict is a result in one of the   *)
(* queues, which have one for each call at most, even after close(); the   *)
(* step that takes it is the one in which the caller learns it.            *)
(***************************************************************************)
\* What m adds to the results of a queue.
Own(m) == IF m.kind = "result" THEN {<<m.task, m.ok>>} ELSE {}

LEMMA ResultsAppend ==
  ASSUME NEW q \in Seq(Message), NEW m \in Message
  PROVE  Results(Append(q, m)) = Results(q) \cup Own(m)
<1> DEFINE r == Append(q, m)
<1>1. /\ DOMAIN q = 1 .. Len(q) /\ DOMAIN r = 1 .. Len(q) + 1 /\ Len(q) \in Nat
      /\ r[Len(q) + 1] = m /\ \A i \in 1 .. Len(q) : r[i] = q[i]
  BY Grown
<1> HIDE DEF r
<1>2. ASSUME NEW x \in Results(r) PROVE x \in Results(q) \cup Own(m)
  <2>1. PICK i \in DOMAIN r : r[i].kind = "result" /\ x = <<r[i].task, r[i].ok>>
    BY <1>2 DEF Results
  <2>2. CASE i = Len(q) + 1
    BY <1>1, <2>1, <2>2 DEF Own
  <2>3. CASE i # Len(q) + 1
    <3>1. i \in DOMAIN q /\ r[i] = q[i]
      BY <1>1, <2>1, <2>3
    <3> QED BY <2>1, <3>1 DEF Results
  <2> QED BY <2>2, <2>3
<1>3. ASSUME NEW x \in Results(q) PROVE x \in Results(r)
  <2>1. PICK i \in DOMAIN q : q[i].kind = "result" /\ x = <<q[i].task, q[i].ok>>
    BY <1>3 DEF Results
  <2>2. i \in DOMAIN r /\ r[i] = q[i]
    BY <1>1, <2>1
  <2> QED BY <2>1, <2>2 DEF Results
<1>4. ASSUME NEW x \in Own(m) PROVE x \in Results(r)
  <2>1. m.kind = "result" /\ x = <<m.task, m.ok>>
    BY <1>4 DEF Own
  <2>2. Len(q) + 1 \in DOMAIN r /\ r[Len(q) + 1] = m
    BY <1>1
  <2> QED BY <2>1, <2>2 DEF Results
<1> QED BY <1>2, <1>3, <1>4 DEF r

LEMMA ResultsTail ==
  ASSUME NEW q \in Seq(Message), q # <<>>
  PROVE  Results(q) = Results(Tail(q)) \cup Own(Head(q))
<1> DEFINE r == Tail(q)
<1>1. /\ DOMAIN q = 1 .. Len(q) /\ DOMAIN r = 1 .. Len(q) - 1 /\ Len(q) \in Nat \ {0}
      /\ q[1] = Head(q) /\ \A i \in 1 .. Len(q) - 1 : r[i] = q[i + 1]
  BY Shrunk
<1> HIDE DEF r
<1>2. ASSUME NEW x \in Results(q) PROVE x \in Results(r) \cup Own(Head(q))
  <2>1. PICK i \in DOMAIN q : q[i].kind = "result" /\ x = <<q[i].task, q[i].ok>>
    BY <1>2 DEF Results
  <2>2. CASE i = 1
    BY <1>1, <2>1, <2>2 DEF Own
  <2>3. CASE i # 1
    <3>1. i - 1 \in DOMAIN r /\ r[i - 1] = q[i]
      BY <1>1, <2>1, <2>3
    <3> QED BY <2>1, <3>1 DEF Results
  <2> QED BY <2>2, <2>3
<1>3. ASSUME NEW x \in Results(r) PROVE x \in Results(q)
  <2>1. PICK i \in DOMAIN r : r[i].kind = "result" /\ x = <<r[i].task, r[i].ok>>
    BY <1>3 DEF Results
  <2>2. i + 1 \in DOMAIN q /\ r[i] = q[i + 1]
    BY <1>1, <2>1
  <2> QED BY <2>1, <2>2 DEF Results
<1>4. ASSUME NEW x \in Own(Head(q)) PROVE x \in Results(q)
  <2>1. Head(q).kind = "result" /\ x = <<Head(q).task, Head(q).ok>>
    BY <1>4 DEF Own
  <2>2. 1 \in DOMAIN q /\ q[1] = Head(q)
    BY <1>1
  <2> QED BY <2>1, <2>2 DEF Results
<1> QED BY <1>2, <1>3, <1>4 DEF r

\* A result is an answer of the call whose it is.
LEMMA ResultsCounted ==
  ASSUME NEW q \in Seq(Message), NEW t \in Task, NEW ok, <<t, ok>> \in Results(q)
  PROVE  Answers(q, t) >= 1 /\ ok \in BOOLEAN
<1>1. PICK i \in DOMAIN q : q[i].kind = "result" /\ <<t, ok>> = <<q[i].task, q[i].ok>>
  BY DEF Results
<1>2. IsAnswer(q[i], t) /\ ok = q[i].ok
  BY <1>1 DEF IsAnswer
<1>3. Answers(q, t) # 0 /\ Answers(q, t) \in Nat
  BY <1>1, <1>2, AnswersCounted
<1>4. q[i] \in Message
  BY <1>1
<1>5. q[i].ok \in BOOLEAN
  BY <1>1, <1>4 DEF Message
<1> QED BY <1>2, <1>3, <1>5

\* Two results that differ are two answers.
LEMMA ResultsDistinct ==
  ASSUME NEW q \in Seq(Message), NEW t \in Task,
         <<t, TRUE>> \in Results(q), <<t, FALSE>> \in Results(q)
  PROVE  Answers(q, t) >= 2
<1> DEFINE I == {i \in DOMAIN q : q[i].kind = "result" /\ q[i].task = t}
<1>1. PICK i \in I : q[i].ok = TRUE
  BY DEF Results
<1>2. PICK j \in I : q[j].ok = FALSE
  BY DEF Results
<1>3. IsFiniteSet(I)
  <2>1. I = {n \in DOMAIN q : q[n] \in {m \in Message : IsAnswer(m, t)}}
    BY DEF IsAnswer
  <2> HIDE DEF I
  <2> QED BY <2>1, CountType
<1>4. {i, j} \subseteq I /\ i # j
  BY <1>1, <1>2
<1> HIDE DEF I
<1>5. IsFiniteSet({i}) /\ Cardinality({i}) = 1
  BY FS_Singleton
<1>6. Cardinality({i} \cup {j}) = 1 + 1
  <2>1. j \notin {i}
    BY <1>4
  <2>2. Cardinality({i} \cup {j}) = IF j \in {i} THEN Cardinality({i}) ELSE Cardinality({i}) + 1
    BY Zenon, <1>5, FS_AddElement
  <2> QED BY Zenon, <1>5, <2>1, <2>2
<1>7. {i, j} = {i} \cup {j}
  OBVIOUS
<1>8. Cardinality({i, j}) <= Cardinality(I) /\ Cardinality(I) \in Nat
  BY <1>3, <1>4, FS_Subset, FS_CardinalityType
<1>9. Answers(q, t) = Cardinality(I)
  BY DEF Answers, I
<1> QED BY <1>6, <1>7, <1>8, <1>9

LEMMA NoResults == Results(<<>>) = {}
  BY DEF Results

\* close() leaves the results in the isolate's queue, and takes the rest along.
ClosedInv ==
  ~ open => /\ asked = {} /\ wire = <<>> /\ port \in Seq(Message)
            /\ \A t \in Task : Answers(port, t) <= (IF pc[t] = "asked" THEN 1 ELSE 0)

PromiseInv == WaitInv /\ OnceInv /\ ClosedInv

LEMMA NoAnswers ==
  ASSUME NEW t
  PROVE  Answers(<<>>, t) = 0
<1>1. {i \in DOMAIN <<>> : <<>>[i].kind = "result" /\ <<>>[i].task = t} = {}
  OBVIOUS
<1> QED BY <1>1, FS_EmptySet DEF Answers

\* A call has one answer at most, and none if it has not been asked.
LEMMA AtMostOne ==
  ASSUME PromiseInv
  PROVE  /\ wire \in Seq(Message) /\ port \in Seq(Message)
         /\ \A t \in Task :
              /\ Answers(wire, t) \in Nat /\ Answers(port, t) \in Nat
              /\ (IF t \in asked THEN 1 ELSE 0) + Answers(wire, t) + Answers(port, t)
                   <= (IF pc[t] = "asked" THEN 1 ELSE 0)
<1>1. wire \in Seq(Message) /\ port \in Seq(Message)
  <2>1. CASE open
    BY <2>1 DEF PromiseInv, OnceInv
  <2>2. CASE ~ open
    <3>1. wire = <<>> /\ port \in Seq(Message)
      BY <2>2 DEF PromiseInv, ClosedInv
    <3> QED BY <3>1
  <2> QED BY <2>1, <2>2
<1>2. ASSUME NEW t \in Task
      PROVE  /\ Answers(wire, t) \in Nat /\ Answers(port, t) \in Nat
             /\ (IF t \in asked THEN 1 ELSE 0) + Answers(wire, t) + Answers(port, t)
                  <= (IF pc[t] = "asked" THEN 1 ELSE 0)
  <2>1. Answers(wire, t) \in Nat /\ Answers(port, t) \in Nat
    BY <1>1, AnswersCounted
  <2>2. CASE open
    BY <2>1, <2>2 DEF PromiseInv, OnceInv, Once
  <2>3. CASE ~ open
    <3>1. asked = {} /\ Answers(wire, t) = 0
      BY <2>3, NoAnswers DEF PromiseInv, ClosedInv
    <3>2. Answers(port, t) <= (IF pc[t] = "asked" THEN 1 ELSE 0)
      BY <2>3 DEF PromiseInv, ClosedInv
    <3> QED BY <2>1, <3>1, <3>2
  <2> QED BY <2>2, <2>3
<1> QED BY <1>1, <1>2

\* What is done while the client is closed: nothing reaches it any more.
LEMMA ClosedNext ==
  ASSUME PromiseInv, [Next]_vars
  PROVE  ClosedInv'
<1>1. CASE open
  <2>1. CASE Close
    <3>1. asked' = {} /\ wire' = <<>> /\ UNCHANGED <<port, pc>>
      BY <2>1 DEF Close, callVars
    <3>2. \A t \in Task : Answers(port, t)' = Answers(port, t)
      BY <3>1 DEF Answers
    <3>3. port \in Seq(Message)
          /\ \A t \in Task : Answers(port, t) <= (IF pc[t] = "asked" THEN 1 ELSE 0)
      <4> SUFFICES ASSUME NEW t \in Task
                   PROVE  Answers(port, t) <= (IF pc[t] = "asked" THEN 1 ELSE 0)
        BY AtMostOne
      <4> QED BY AtMostOne
    <3> QED BY <3>1, <3>2, <3>3 DEF ClosedInv
  <2>2. CASE ~ Close
    <3>1. open'
      BY Zenon, <1>1, <2>2 DEF Next, vars, Flip, Vanish, Appear, Answer,
         call_device_method_async, GattCall, waitForServicesResolved, Begin, EventLoop,
         DispatchReply, DispatchChanged, DispatchUnmatched, DispatchAdded, DispatchRemoved,
         Dispatch, OnMessage, OnResult, OnChanged, OnAdded, OnRemoved, OnClosedPort, Take,
         nativeVars
    <3> QED BY <3>1 DEF ClosedInv
  <2> QED BY <2>1, <2>2
<1>2. CASE ~ open
  <2>1. /\ asked = {} /\ wire = <<>> /\ port \in Seq(Message)
        /\ \A t \in Task : Answers(port, t) <= (IF pc[t] = "asked" THEN 1 ELSE 0)
    BY <1>2 DEF PromiseInv, ClosedInv
  <2>2. CASE UNCHANGED <<asked, wire, port, pc>>
    BY <2>1, <2>2 DEF ClosedInv, Answers
  <2>3. ASSUME \/ UNCHANGED vars
               \/ (\E f \in Flag : Flip(f)) \/ Vanish \/ Appear
        PROVE  UNCHANGED <<asked, wire, port, pc>>
    BY <1>2, <2>3 DEF vars, daemonVars, nativeVars, callVars, Flip, Vanish, Appear, Send
  <2>4. CASE OnMessage
    <3>1. /\ port # <<>> /\ port' = Tail(port) /\ Head(port) \in Message
          /\ UNCHANGED <<asked, wire>>
      <4>1. port # <<>> /\ port' = Tail(port) /\ UNCHANGED <<asked, wire>>
        BY Zenon, <2>4 DEF OnMessage, OnResult, OnChanged, OnAdded, OnRemoved, OnClosedPort, Take,
           daemonVars, nativeVars
      <4> QED BY <2>1, <4>1
    <3>2. port' \in Seq(Message)
      BY <2>1, <3>1
    <3>3. ASSUME NEW t \in Task
          PROVE  Answers(port, t)' <= (IF pc'[t] = "asked" THEN 1 ELSE 0)
      <4>1. /\ Answers(port, t) = Answers(port', t) + (IF IsAnswer(Head(port), t) THEN 1 ELSE 0)
            /\ Answers(port', t) \in Nat
        BY <2>1, <3>1, <3>2, AnswersTail, AnswersCounted
      <4>2. ~ IsAnswer(Head(port), t) => pc'[t] = pc[t]
        <5>1. pc \in [Task -> Steps]
          BY DEF PromiseInv, OnceInv
        <5>2. CASE OnResult
          BY <5>1, <5>2 DEF OnResult, Take, IsAnswer
        <5>3. CASE OnChanged \/ OnAdded \/ OnRemoved \/ OnClosedPort
          BY <1>2, <5>3 DEF OnChanged, OnAdded, OnRemoved, OnClosedPort
        <5> QED BY <2>4, <5>2, <5>3 DEF OnMessage
      <4>3. Answers(port, t) <= (IF pc[t] = "asked" THEN 1 ELSE 0)
        BY <2>1
      <4> QED BY <4>1, <4>2, <4>3
    <3> QED BY <2>1, <3>1, <3>2, <3>3 DEF ClosedInv
  <2>5. CASE \/ \E t \in Task : Answer(t)
             \/ \E t \in Task, o \in 1 .. made : \/ call_device_method_async(t, o)
                                                 \/ GattCall(t, o)
                                                 \/ waitForServicesResolved(t, o)
             \/ EventLoop \/ Close
    BY Zenon, <1>2, <2>1, <2>5 DEF Answer, call_device_method_async, GattCall,
       waitForServicesResolved, Begin, EventLoop, DispatchReply, DispatchChanged,
       DispatchUnmatched, DispatchAdded, DispatchRemoved, Dispatch, Close
  <2> QED BY <2>2, <2>3, <2>4, <2>5 DEF Next
<1> QED BY <1>1, <1>2

LEMMA PromiseInvHolds == Spec => []PromiseInv
<1>1. Init => PromiseInv
  BY InitWaits, OnceInit DEF PromiseInv, ClosedInv, Init
<1>2. PromiseInv /\ [Next]_vars => PromiseInv'
  BY StepWaits, OnceNext, ClosedNext DEF PromiseInv
<1> QED BY <1>1, <1>2, PTL DEF Spec

LEMMA PromiseStutters ==
  ASSUME UNCHANGED <<pc, open, objectVars, callVars>>, Verdicts' = Verdicts
  PROVE  UNCHANGED Promise!vars
<1>1. Satisfied' = Satisfied
  BY DEF Satisfied, Shows, Awaited, objectVars, callVars
<1> QED BY <1>1 DEF Promise!vars

\* What the device does is no verdict.
LEMMA DaemonPromised ==
  ASSUME PromiseInv, (\E f \in Flag : Flip(f)) \/ Vanish \/ Appear
  PROVE  UNCHANGED Promise!vars
<1>1. UNCHANGED <<port, pc, open, objectVars, callVars>>
  BY DEF Flip, Vanish, Appear, callVars
<1>2. \/ UNCHANGED wire
      \/ \E m \in Message : m.kind # "result" /\ wire' = Append(wire, m)
  <2>1. ASSUME NEW m \in Message, m.kind # "result", Send(m)
        PROVE  UNCHANGED wire \/ \E n \in Message : n.kind # "result" /\ wire' = Append(wire, n)
    BY <2>1 DEF Send
  <2>2. ASSUME NEW f \in Flag, Flip(f)
        PROVE  UNCHANGED wire \/ \E n \in Message : n.kind # "result" /\ wire' = Append(wire, n)
    <3>1. truth'[f] \in BOOLEAN
      BY <2>2 DEF PromiseInv, OnceInv, Flip
    <3>2. Changed(f, truth'[f]) \in Message /\ Changed(f, truth'[f]).kind # "result"
      BY <3>1 DEF Changed, Message
    <3>3. UNCHANGED wire \/ Send(Changed(f, truth'[f]))
      BY <2>2 DEF Flip
    <3> QED BY <2>1, <3>2, <3>3
  <2>3. Removed \in Message /\ Removed.kind # "result"
    BY DEF Removed, Message
  <2>4. ASSUME Appear PROVE Added(truth') \in Message /\ Added(truth').kind # "result"
    BY <2>4 DEF Appear, Added, Message
  <2> QED BY <2>1, <2>2, <2>3, <2>4 DEF Vanish, Appear
<1>3. Results(wire') = Results(wire)
  <2>1. CASE UNCHANGED wire
    BY <2>1
  <2>2. CASE \E m \in Message : m.kind # "result" /\ wire' = Append(wire, m)
    BY <2>2, AtMostOne, ResultsAppend DEF Own
  <2> QED BY <1>2, <2>1, <2>2
<1>4. Verdicts' = Verdicts
  BY <1>1, <1>3 DEF Verdicts
<1> QED BY <1>1, <1>4, PromiseStutters

\* The daemon's answer is its verdict.
LEMMA AnswerPromised ==
  ASSUME PromiseInv, NEW t \in Task, Answer(t)
  PROVE  Promise!Decide(t)
<1>1. t \in asked /\ UNCHANGED <<port, pc, open, objectVars, callVars>>
  BY DEF Answer, callVars
<1>2. open
  BY <1>1 DEF PromiseInv, ClosedInv
<1>3. PICK ok \in BOOLEAN : wire' = Append(wire, Result(t, ok))
  BY <1>2 DEF Answer, Send
<1>4. Result(t, ok) \in Message /\ Own(Result(t, ok)) = {<<t, ok>>}
  BY DEF Result, Message, Own
<1>5. Verdicts' = Verdicts \cup {<<t, ok>>}
  <2>1. Results(wire') = Results(wire) \cup {<<t, ok>>}
    BY <1>3, <1>4, AtMostOne, ResultsAppend
  <2> QED BY <1>1, <2>1 DEF Verdicts
<1>6. pc[t] = "asked" /\ \A b \in BOOLEAN : <<t, b>> \notin Verdicts
  <2>1. pc[t] = "asked" /\ Answers(wire, t) = 0 /\ Answers(port, t) = 0
    BY <1>1, AtMostOne
  <2>2. ASSUME NEW b \in BOOLEAN, <<t, b>> \in Verdicts PROVE FALSE
    BY <2>1, <2>2, AtMostOne, ResultsCounted DEF Verdicts
  <2> QED BY <2>1, <2>2
<1>7. Satisfied' = Satisfied
  BY <1>1 DEF Satisfied, Shows, Awaited, objectVars, callVars
<1> QED BY <1>1, <1>2, <1>5, <1>6, <1>7 DEF Promise!Decide

\* The event loop hands results on and drops none.
LEMMA EventLoopPromised ==
  ASSUME PromiseInv, EventLoop
  PROVE  UNCHANGED Promise!vars
<1>1. /\ open /\ wire # <<>> /\ wire' = Tail(wire)
      /\ UNCHANGED <<pc, open, objectVars, callVars>>
      /\ \/ port' = Append(port, Head(wire))
         \/ port' = port /\ Head(wire).kind # "result"
  BY Zenon DEF EventLoop, DispatchReply, DispatchChanged, DispatchUnmatched, DispatchAdded,
     DispatchRemoved, Dispatch, Post, callVars
<1>2. wire \in Seq(Message) /\ port \in Seq(Message) /\ Head(wire) \in Message
  BY <1>1, AtMostOne
<1>3. Results(wire) = Results(wire') \cup Own(Head(wire))
  BY <1>1, <1>2, ResultsTail
<1>4. Results(port') = Results(port) \cup Own(Head(wire))
  <2>1. CASE port' = Append(port, Head(wire))
    BY <1>2, <2>1, ResultsAppend
  <2>2. CASE port' = port /\ Head(wire).kind # "result"
    BY <2>2 DEF Own
  <2> QED BY <1>1, <2>1, <2>2
<1>5. Verdicts' = Verdicts
  BY <1>3, <1>4 DEF Verdicts
<1> QED BY <1>1, <1>5, PromiseStutters

\* A call begins.
LEMMA CallPromised ==
  ASSUME PromiseInv, NEW t \in Task, NEW o \in 1 .. made,
         \/ call_device_method_async(t, o)
         \/ GattCall(t, o)
         \/ waitForServicesResolved(t, o)
  PROVE  Promise!Ask(t) \/ Promise!Watch(t)
<1> DEFINE rest == IF Shows(props[o], "resolve") THEN "done" ELSE "waiting"
<1>1. PICK k \in Ops, step \in Steps :
        /\ Begin(t, o, k, step)
        /\ \/ step = "asked" /\ (call_device_method_async(t, o) \/ GattCall(t, o))
           \/ k = "resolve" /\ step = rest /\ UNCHANGED port
  <2>1. CASE call_device_method_async(t, o)
    BY <2>1 DEF call_device_method_async, Asynchronous, Ops, Steps
  <2>2. CASE GattCall(t, o)
    BY <2>2 DEF GattCall, Ops, Steps
  <2>3. CASE waitForServicesResolved(t, o)
    <3>1. Begin(t, o, "resolve", rest) /\ UNCHANGED port
      BY <2>3 DEF waitForServicesResolved
    <3>2. rest \in Steps /\ "resolve" \in Ops
      BY DEF Steps, Ops
    <3> HIDE DEF rest
    <3> QED BY <3>1, <3>2
  <2> QED BY <2>1, <2>2, <2>3
<1>2. /\ open /\ open' = open /\ pc[t] = "idle" /\ pc' = [pc EXCEPT ![t] = step]
      /\ op' = [op EXCEPT ![t] = k] /\ object' = [object EXCEPT ![t] = o]
      /\ UNCHANGED <<wire, props>>
  BY <1>1 DEF Begin, nativeVars, objectVars
<1>3. pc \in [Task -> Steps] /\ op \in [Task -> Ops] /\ object \in [Task -> Nat]
  BY DEF PromiseInv, WaitInv, Handed
<1>4. /\ t \in Satisfied' <=> Shows(props[o], k)
      /\ \A u \in Task \ {t} : u \in Satisfied' <=> u \in Satisfied
  <2>1. op'[t] = k /\ object'[t] = o
    BY <1>2, <1>3
  <2>2. \A u \in Task \ {t} : op'[u] = op[u] /\ object'[u] = object[u]
    BY <1>2, <1>3
  <2> QED BY <1>2, <2>1, <2>2 DEF Satisfied, Shows, Awaited
<1>5. Satisfied' \in {Satisfied \cup {t}, Satisfied \ {t}}
  <2>1. Satisfied' \subseteq Task /\ Satisfied \subseteq Task
    BY DEF Satisfied
  <2>2. CASE t \in Satisfied'
    BY <1>4, <2>1, <2>2
  <2>3. CASE t \notin Satisfied'
    BY <1>4, <2>1, <2>3
  <2> QED BY <2>2, <2>3
<1>6. Promise!Begin(t)
  BY <1>2, <1>5 DEF Promise!Begin
<1>7. CASE step = "asked" /\ call_device_method_async(t, o)
  <2>1. Verdicts' = Verdicts
    BY <1>2, <1>7 DEF call_device_method_async, Verdicts
  <2> QED BY <1>2, <1>6, <1>7, <2>1 DEF Promise!Ask
<1>8. CASE step = "asked" /\ GattCall(t, o)
  <2>1. PICK ok \in BOOLEAN : port' = Append(port, Result(t, ok))
    BY <1>8 DEF GattCall, BlockingCall, Post
  <2>2. Result(t, ok) \in Message /\ Own(Result(t, ok)) = {<<t, ok>>}
    BY DEF Result, Message, Own
  <2>3. Results(port') = Results(port) \cup {<<t, ok>>}
    BY <2>1, <2>2, AtMostOne, ResultsAppend
  <2>4. Verdicts' = Verdicts \cup {<<t, ok>>}
    BY <1>2, <2>3 DEF Verdicts
  <2> QED BY <1>2, <1>6, <1>8, <2>4 DEF Promise!Ask
<1>9. CASE k = "resolve" /\ step = rest /\ UNCHANGED port
  <2>1. Verdicts' = Verdicts
    BY <1>2, <1>9 DEF Verdicts
  <2>2. step = IF t \in Satisfied' THEN "done" ELSE "waiting"
    BY <1>4, <1>9
  <2> QED BY <1>2, <1>6, <2>1, <2>2 DEF Promise!Watch
<1> QED BY <1>1, <1>7, <1>8, <1>9

\* A message is taken: a result is the verdict of the call it is for, a change is
\* noticed by all who wait for it, and a new object is one that nobody waits on.
LEMMA MessagePromised ==
  ASSUME PromiseInv, OnMessage
  PROVE  (\E t \in Task : Promise!Learn(t)) \/ Promise!Show \/ UNCHANGED Promise!vars
<1> DEFINE m == Head(port)
<1>1. /\ port # <<>> /\ port' = Tail(port)
      /\ UNCHANGED <<wire, open, op, object>>
  BY Zenon DEF OnMessage, OnResult, OnChanged, OnAdded, OnRemoved, OnClosedPort, Take, nativeVars
<1>2. port \in Seq(Message) /\ port' \in Seq(Message) /\ m \in Message
  BY <1>1, AtMostOne
<1>3. Results(port) = Results(port') \cup Own(m)
  BY <1>1, <1>2, ResultsTail
<1>4. /\ pc \in [Task -> Steps] /\ made \in Nat
      /\ props = [o \in Object |-> props[o]]
      /\ object \in [Task -> Nat] /\ \A t \in Task : object[t] <= made
  BY DEF PromiseInv, WaitInv, Handed
<1>5. m.kind # "result" => Verdicts' = Verdicts
  BY <1>1, <1>3 DEF Verdicts, Own
<1>6. CASE OnResult
  <2>1. m.kind = "result" /\ UNCHANGED objectVars
    BY <1>6 DEF OnResult, Take
  <2>2. PICK t \in Task, ok \in BOOLEAN : m.task = t /\ m.ok = ok
    BY <1>2, <2>1 DEF Message
  <2>3. Satisfied' = Satisfied
    BY <1>1, <2>1 DEF Satisfied, Shows, Awaited, objectVars
  <2>4. Shows(props[object[t]], op[t]) <=> t \in Satisfied
    BY DEF Satisfied
  <2>5. pc' = [pc EXCEPT ![t] = IF ~ ok THEN "threw"
                                ELSE IF t \in Satisfied THEN "done" ELSE "waiting"]
    BY <1>6, <2>2, <2>4 DEF OnResult
  <2>6. /\ Answers(port, t) = Answers(port', t) + 1
        /\ Answers(wire, t) \in Nat /\ Answers(port', t) \in Nat
    <3>1. IsAnswer(m, t)
      BY <2>1, <2>2 DEF IsAnswer
    <3> QED BY <1>1, <1>2, <3>1, AtMostOne, AnswersTail, AnswersCounted
  <2>7. pc[t] = "asked" /\ Answers(wire, t) = 0 /\ Answers(port', t) = 0
    BY <2>6, AtMostOne
  <2>8. Verdicts = Results(wire) \cup Results(port') \cup {<<t, ok>>}
    BY <1>3, <2>1, <2>2 DEF Verdicts, Own
  <2>9. <<t, ok>> \notin Results(wire) \cup Results(port')
    BY <1>2, <2>7, AtMostOne, ResultsCounted
  <2>10. Verdicts' = Verdicts \ {<<t, ok>>} /\ <<t, ok>> \in Verdicts
    <3>1. Verdicts' = Results(wire) \cup Results(port')
      BY <1>1 DEF Verdicts
    <3> QED BY <2>8, <2>9, <3>1
  <2>11. Promise!Learn(t)
    BY <1>1, <2>3, <2>5, <2>7, <2>10 DEF Promise!Learn
  <2> QED BY <2>11
<1>7. CASE OnChanged
  <2>1. m.kind = "changed" /\ open
    BY <1>7 DEF OnChanged, Take
  <2>2. CASE current = None
    <3>1. UNCHANGED <<pc, objectVars>>
      BY <1>7, <2>2 DEF OnChanged, objectVars
    <3> QED BY <1>1, <1>5, <2>1, <3>1, PromiseStutters DEF callVars
  <2>3. CASE current # None
    <3>1. /\ props' = [props EXCEPT ![current][m.flag] = m.value]
          /\ Wake(current, props'[current])
      BY <1>7, <2>3 DEF OnChanged
    <3>2. \A o \in Nat : o # current => props'[o] = props[o]
      BY <1>4, <3>1
    <3>3. ASSUME NEW t \in Task, pc[t] = "waiting", t \in Satisfied'
          PROVE  pc'[t] = "done"
      <4>1. Shows(props'[object[t]], op[t])
        BY <1>1, <3>3 DEF Satisfied
      <4>2. ~ Shows(props[object[t]], op[t])
        BY <3>3 DEF PromiseInv, WaitInv, NoMissedWakeup
      <4>3. object[t] = current /\ props'[current] # props[current]
        BY <1>4, <3>2, <4>1, <4>2
      <4> QED BY <3>1, <3>3, <4>1, <4>3 DEF Wake
    <3>4. ASSUME NEW t \in Task, ~ (pc[t] = "waiting" /\ t \in Satisfied')
          PROVE  pc'[t] = pc[t]
      <4>1. Shows(props'[object[t]], op[t]) => t \in Satisfied'
        BY <1>1 DEF Satisfied
      <4> QED BY <3>1, <3>4, <4>1 DEF Wake
    <3>5. pc' = [t \in Task |-> IF pc[t] = "waiting" /\ t \in Satisfied' THEN "done" ELSE pc[t]]
      <4>1. pc' = [t \in Task |-> pc'[t]]
        BY <3>1 DEF Wake
      <4> QED BY <3>3, <3>4, <4>1
    <3>6. Satisfied' \in SUBSET Task
      BY DEF Satisfied
    <3>7. Promise!Show
      BY <1>1, <1>5, <2>1, <3>5, <3>6 DEF Promise!Show
    <3> QED BY <3>7
  <2> QED BY <2>2, <2>3
<1>8. CASE OnAdded
  <2>1. m.kind = "added" /\ UNCHANGED pc /\ props' = [props EXCEPT ![made + 1] = m.values]
    BY <1>8 DEF OnAdded, Take
  <2>2. \A t \in Task : props'[object[t]] = props[object[t]]
    BY <1>4, <2>1
  <2>3. Satisfied' = Satisfied
    BY <1>1, <2>2 DEF Satisfied
  <2> QED BY <1>1, <1>5, <2>1, <2>3 DEF Promise!vars
<1>9. CASE OnRemoved
  <2>1. m.kind = "removed" /\ UNCHANGED <<pc, props>>
    BY <1>9 DEF OnRemoved, Take
  <2>2. Satisfied' = Satisfied
    BY <1>1, <2>1 DEF Satisfied
  <2> QED BY <1>1, <1>5, <2>1, <2>2 DEF Promise!vars
<1>10. CASE OnClosedPort
  <2>1. m.kind # "result" /\ UNCHANGED <<pc, objectVars>>
    BY <1>10 DEF OnClosedPort, Take
  <2> QED BY <1>1, <1>5, <2>1, PromiseStutters DEF callVars
<1> QED BY <1>6, <1>7, <1>8, <1>9, <1>10 DEF OnMessage

LEMMA ClosePromised ==
  ASSUME PromiseInv, Close
  PROVE  Promise!Close
<1>1. /\ open /\ open' = FALSE /\ wire' = <<>> /\ UNCHANGED <<port, pc, objectVars, callVars>>
  BY DEF Close, callVars
<1>2. Satisfied' = Satisfied
  BY <1>1 DEF Satisfied, Shows, Awaited, objectVars, callVars
<1>3. Verdicts' \in SUBSET Verdicts
  BY <1>1, NoResults DEF Verdicts
<1> QED BY <1>1, <1>2, <1>3 DEF Promise!Close

\* For any number of callers, objects and changes, and whenever the client is
\* closed, the calls of a device implement CallPromise: what a caller is told is
\* what the daemon decided about this call, once, and nobody returns before or
\* waits after the object shows what the call is for.
THEOREM PromiseImplemented == Spec => ImplementsPromise
<1>1. Init => Promise!Init
  <2> SUFFICES ASSUME Init PROVE Promise!Init
    OBVIOUS
  <2>1. Verdicts = {} /\ Satisfied \in SUBSET Task
    BY NoResults DEF Init, Verdicts, Satisfied
  <2>2. pc = [t \in Task |-> "idle"] /\ open = TRUE
    BY DEF Init
  <2> QED BY <2>1, <2>2 DEF Promise!Init
<1>2. PromiseInv /\ [Next]_vars => [Promise!Next]_(Promise!vars)
  <2> SUFFICES ASSUME PromiseInv, [Next]_vars
               PROVE  Promise!Next \/ UNCHANGED Promise!vars
    OBVIOUS
  <2>1. CASE UNCHANGED vars
    <3>1. UNCHANGED <<pc, open, wire, port, objectVars, callVars>>
      BY <2>1 DEF vars, nativeVars, callVars
    <3>2. Verdicts' = Verdicts
      BY <3>1 DEF Verdicts
    <3> QED BY <3>1, <3>2, PromiseStutters
  <2>2. CASE (\E f \in Flag : Flip(f)) \/ Vanish \/ Appear
    BY <2>2, DaemonPromised
  <2>3. ASSUME NEW t \in Task, Answer(t) PROVE Promise!Next
    BY <2>3, AnswerPromised DEF Promise!Next
  <2>4. ASSUME NEW t \in Task, NEW o \in 1 .. made,
               \/ call_device_method_async(t, o)
               \/ GattCall(t, o)
               \/ waitForServicesResolved(t, o)
        PROVE  Promise!Next
    <3>1. Promise!Ask(t) \/ Promise!Watch(t)
      BY <2>4, CallPromised
    <3> QED BY <3>1 DEF Promise!Next
  <2>5. CASE EventLoop
    BY <2>5, EventLoopPromised
  <2>6. CASE OnMessage
    BY <2>6, MessagePromised DEF Promise!Next
  <2>7. CASE Close
    BY <2>7, ClosePromised DEF Promise!Next
  <2> QED BY <2>1, <2>2, <2>3, <2>4, <2>5, <2>6, <2>7 DEF Next
<1> QED BY <1>1, <1>2, PromiseInvHolds, PTL DEF Spec, ImplementsPromise, Promise!Spec

\* At every moment a verdict under way is on a call that still asks, and there is
\* one of them at a time, even when the client has been closed meanwhile; and
\* nobody waits for what is so already.
THEOREM AlwaysKept == Spec => []Promise!Kept
<1>1. PromiseInv => Promise!Kept
  <2> SUFFICES ASSUME PromiseInv, NEW t \in Task
               PROVE  /\ \A ok \in BOOLEAN : <<t, ok>> \in Verdicts => pc[t] = "asked"
                      /\ ~ {<<t, TRUE>>, <<t, FALSE>>} \subseteq Verdicts
                      /\ pc[t] = "waiting" => t \notin Satisfied
    BY DEF Promise!Kept
  <2>1. ASSUME NEW ok \in BOOLEAN, <<t, ok>> \in Verdicts PROVE pc[t] = "asked"
    BY <2>1, AtMostOne, ResultsCounted DEF Verdicts
  <2>2. pc[t] = "waiting" => t \notin Satisfied
    BY DEF PromiseInv, WaitInv, NoMissedWakeup, Satisfied
  <2>3. ASSUME <<t, TRUE>> \in Verdicts, <<t, FALSE>> \in Verdicts PROVE FALSE
    <3>1. /\ wire \in Seq(Message) /\ port \in Seq(Message)
          /\ Answers(wire, t) \in Nat /\ Answers(port, t) \in Nat
          /\ Answers(wire, t) + Answers(port, t) <= 1
      BY AtMostOne
    <3>2. CASE <<t, TRUE>> \in Results(wire) /\ <<t, FALSE>> \in Results(wire)
      <4>1. Answers(wire, t) >= 2
        BY Zenon, <3>1, <3>2, ResultsDistinct
      <4> QED BY <3>1, <4>1
    <3>3. CASE <<t, TRUE>> \in Results(port) /\ <<t, FALSE>> \in Results(port)
      <4>1. Answers(port, t) >= 2
        BY Zenon, <3>1, <3>3, ResultsDistinct
      <4> QED BY <3>1, <4>1
    <3>4. CASE \E a, b : <<t, a>> \in Results(wire) /\ <<t, b>> \in Results(port)
      BY <3>1, <3>4, ResultsCounted
    <3> QED BY <2>3, <3>2, <3>3, <3>4 DEF Verdicts
  <2> QED BY <2>1, <2>2, <2>3
<1> QED BY <1>1, PromiseInvHolds, PTL
=============================================================================
