----------------------- MODULE ClientLifecycleProofs -----------------------
(* Theorems of ClientLifecycle, for any number of tasks and contexts.      *)
EXTENDS ClientLifecycle, TLAPS

\* What holds between two steps of the isolate: the live contexts are the one in
\* _handle, an open port has a handle behind it, and a client that is not
\* connected has none.
Held ==
  /\ created \in Nat
  /\ NoLeak
  /\ open => handle # Null
  /\ ~ connected => handle = Null

\* No operation of the isolate or of the native side breaks it.
LEMMA HeldKept == Held /\ [Next]_vars => Held'
<1> SUFFICES ASSUME Held, [Next]_vars PROVE Held'
  OBVIOUS
<1> USE DEF Held, NoLeak, Null
<1>1. ASSUME NEW t \in Task, ConnectCreates(t) PROVE Held'
  BY <1>1 DEF ConnectCreates
<1>2. ASSUME NEW t \in Task, CloseBegins(t) PROVE Held'
  BY <1>2 DEF CloseBegins, DestroyHandle
<1>3. ASSUME NEW t \in Task,
             ConnectAgain(t) \/ ConnectThrows(t) \/ ConnectReturns(t) \/ CloseGoesOn(t)
      PROVE  Held'
  BY <1>3 DEF ConnectAgain, ConnectThrows, ConnectReturns, CloseGoesOn
<1>4. CASE PostEvent \/ OnSnapshotDone \/ OnObjectEvent
  BY <1>4 DEF PostEvent, OnSnapshotDone, OnObjectEvent, Deliver
<1>5. CASE UNCHANGED vars
  BY <1>5 DEF vars
<1>6. QED
  BY <1>1, <1>2, <1>3, <1>4, <1>5 DEF Next

\* connect() and close(), however they overlap, leave exactly the context in
\* _handle alive: bluez_client_create and bluez_client_destroy are paired.
THEOREM LeaksNothing == Spec => []NoLeak
<1>1. Init => Held
  BY DEF Init, Held, NoLeak, Null
<1>2. Held /\ [Next]_vars => Held'
  BY HeldKept
<1>3. Held => NoLeak
  BY DEF Held
<1>4. QED
  BY <1>1, <1>2, <1>3, PTL DEF Spec

\* _onEvent, whose cases use _handle!, never runs without a live context.
THEOREM EventsHaveHandle == Spec => EventsNeedHandle
<1> DEFINE Needs == OnSnapshotDone \/ OnObjectEvent => handle \in live
<1>1. Init => Held
  BY DEF Init, Held, NoLeak, Null
<1>2. Held /\ [Next]_vars => Held'
  BY HeldKept
<1>3. Held /\ [Next]_vars => [Needs]_vars
  BY DEF Held, NoLeak, OnSnapshotDone, OnObjectEvent, Deliver
<1>4. QED
  BY <1>1, <1>2, <1>3, PTL DEF Spec, EventsNeedHandle
============================================================================
