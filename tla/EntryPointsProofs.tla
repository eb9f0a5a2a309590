-------------------------- MODULE EntryPointsProofs --------------------------
(***************************************************************************)
(* The safety properties of EntryPoints for any number of calls and        *)
(* signals.  The inductive invariant says who holds which lock where, and  *)
(* what is known of the current call and event at each place.              *)
(***************************************************************************)
EXTENDS EntryPoints, TLAPS

\* Inside subscribe_char_notify or unsubscribe_char_notify.
InNotify == {"find", "match", "insert", "erase", "unlock"}
\* Inside the functions of the signal handlers that lock the maps.
InProps == {"find", "insert", "erase", "unlock"}

LocksInv ==
  /\ conn = "isolate" <=> at = "reply"
  /\ conn = "loop" <=> loop \notin {"poll", "exited"}
  /\ mutex = "isolate" <=> at \in InNotify
  /\ mutex = "loop" <=> loop \in InProps

EventInv ==
  /\ loop \in {"poll", "exited"} => event = Nothing
  /\ loop = "lock" => event.kind \in {"added", "removed"}
  /\ loop \in InProps \cup {"lock"} => event.of \in Watched
  /\ loop = "reply" => event.call \in pending

CallInv ==
  /\ \A c \in 1 .. MaxCalls : c <= made => calls[c] \in Function
  /\ at \in {"call", "reply", "send", "lock", "post", "return"} \cup InNotify => made # 0
  /\ at \in {"call", "reply"} => Current \in Function \ AsyncCall
  /\ at = "send" => Current \in AsyncCall
  /\ at \in InNotify \cup {"lock"} => Current \in NotifyCall
  /\ at = "post" => Current \in NotifyCall \cup ValueCall

\* Call c is still to be made, or is the current one and not answered yet.
Open(c) ==
  \/ c > made
  \/ /\ c = made
     /\ at \in {"call", "reply", "send", "lock", "post"} \cup InNotify

AnswersInv ==
  \A c \in 1 .. MaxCalls :
    /\ Open(c) => answers[c] = 0 /\ c \notin pending
    /\ answers[c] # 0 => answers[c] = 1 /\ calls[c] \in PortCall
    /\ c \in pending => answers[c] = 0 /\ calls[c] \in AsyncCall
    /\ ~ Open(c) /\ calls[c] \in PortCall =>
         answers[c] = 1 \/ c \in pending \/ at = "destroyed"

DestroyInv == at \in {"delete", "destroyed"} => loop = "exited"

Inv == TypeOK /\ LocksInv /\ EventInv /\ CallInv /\ AnswersInv /\ DestroyInv

\* The parts of the invariant, and the shapes every action is made of.
USE BoundsAssumption DEF vars, isolateVars, loopVars, lockVars, Move, Go, TakesConn,
  DropsConn, TakesMutex, DropsMutex, AdapterCall, DeviceCall, AsyncCall, ValueCall,
  NotifyCall, PortCall, Function, None, Watched, Unwatched, Event, Nothing

\* The isolate enters a function.
LEMMA EntersInv == Inv /\ Enters => Inv'
<1> SUFFICES ASSUME Inv, Enters PROVE Inv'
  OBVIOUS
<1> USE DEF Inv, TypeOK, LocksInv, EventInv, CallInv, AnswersInv, DestroyInv, Open, Current,
             InNotify, InProps
<1>1. CASE EnterAdapter
  <2>1. TypeOK'
    <3>1. PICK f \in Function, to \in {"call", "return"} : Enter(f, to)
      BY <1>1 DEF EnterAdapter
    <3>2. calls' \in [1 .. MaxCalls -> Function \cup {None}] /\ made' \in 0 .. MaxCalls
      BY <3>1 DEF Enter
    <3> QED
      BY <3>1, <3>2 DEF Enter
  <2>2. LocksInv'
    BY <1>1 DEF EnterAdapter, Enter
  <2>3. EventInv'
    BY <1>1 DEF EnterAdapter, Enter
  <2>4. CallInv'
    BY <1>1 DEF EnterAdapter, Enter
  <2>5. AnswersInv'
    BY <1>1 DEF EnterAdapter, Enter
  <2>6. DestroyInv'
    BY <1>1 DEF EnterAdapter, Enter
  <2> QED
    BY <2>1, <2>2, <2>3, <2>4, <2>5, <2>6
<1>2. CASE EnterDevice
  <2>1. TypeOK'
    <3>1. PICK f \in Function, to \in {"call", "return"} : Enter(f, to)
      BY <1>2 DEF EnterDevice
    <3>2. calls' \in [1 .. MaxCalls -> Function \cup {None}] /\ made' \in 0 .. MaxCalls
      BY <3>1 DEF Enter
    <3> QED
      BY <3>1, <3>2 DEF Enter
  <2>2. LocksInv'
    BY <1>2 DEF EnterDevice, Enter
  <2>3. EventInv'
    BY <1>2 DEF EnterDevice, Enter
  <2>4. CallInv'
    BY <1>2 DEF EnterDevice, Enter
  <2>5. AnswersInv'
    BY <1>2 DEF EnterDevice, Enter
  <2>6. DestroyInv'
    BY <1>2 DEF EnterDevice, Enter
  <2> QED
    BY <2>1, <2>2, <2>3, <2>4, <2>5, <2>6
<1>3. CASE EnterAsync
  BY <1>3 DEF EnterAsync, Enter
<1>4. CASE EnterGatt
  BY <1>4 DEF EnterGatt, Enter
<1>5. CASE LeaveEventLoop
  BY <1>5 DEF LeaveEventLoop
<1> QED
  BY <1>1, <1>2, <1>3, <1>4, <1>5 DEF Enters

\* The isolate goes on inside a function.
LEMMA GoesOnInv == Inv /\ GoesOn => Inv'
<1> SUFFICES ASSUME Inv, GoesOn PROVE Inv'
  OBVIOUS
<1> USE DEF Inv, TypeOK, LocksInv, EventInv, CallInv, AnswersInv, DestroyInv, Open, Current,
             InNotify, InProps
<1>1. CASE CallMethod
  BY <1>1 DEF CallMethod
<1>2. CASE SetterReturns
  BY <1>2 DEF SetterReturns, Reply
<1>3. CASE ValueReturns
  BY <1>3 DEF ValueReturns, Reply
<1>4. CASE NotifyReturns
  <2>1. TypeOK'
    BY <1>4 DEF NotifyReturns, Reply
  <2>2. LocksInv'
    BY <1>4 DEF NotifyReturns, Reply
  <2>3. EventInv'
    BY <1>4 DEF NotifyReturns, Reply
  <2>4. CallInv'
    BY <1>4 DEF NotifyReturns, Reply
  <2>5. AnswersInv'
    BY <1>4 DEF NotifyReturns, Reply
  <2>6. DestroyInv'
    BY <1>4 DEF NotifyReturns, Reply
  <2> QED
    BY <2>1, <2>2, <2>3, <2>4, <2>5, <2>6
<1>5. CASE CallMethodAsync
  BY <1>5 DEF CallMethodAsync
<1>6. CASE LockProxies
  BY <1>6 DEF LockProxies
<1>7. CASE FindNotify
  BY <1>7 DEF FindNotify
<1>8. CASE MatchNotify
  BY <1>8 DEF MatchNotify
<1>9. CASE InsertNotify
  BY <1>9 DEF InsertNotify
<1>10. CASE EraseNotify
  BY <1>10 DEF EraseNotify
<1>11. CASE UnlockNotify
  BY <1>11 DEF UnlockNotify
<1>12. CASE PostAnswer
  BY <1>12 DEF PostAnswer, PostResult
<1>13. CASE Return
  BY <1>13 DEF Return
<1>14. CASE Join
  BY <1>14 DEF Join
<1>15. CASE Delete
  BY <1>15 DEF Delete
<1> QED
  BY <1>1, <1>2, <1>3, <1>4, <1>5, <1>6, <1>7, <1>8, <1>9, <1>10, <1>11, <1>12, <1>13, <1>14, <1>15 DEF GoesOn

\* A signal is dispatched.
LEMMA SignalsInv == Inv /\ Signals => Inv'
<1> SUFFICES ASSUME Inv, Signals PROVE Inv'
  OBVIOUS
<1> USE DEF Inv, TypeOK, LocksInv, EventInv, CallInv, AnswersInv, DestroyInv, Open, Current,
             InNotify, InProps
<1>1. CASE InterfacesAdded
  BY <1>1 DEF InterfacesAdded, Signal, Dispatch, Go
<1>2. CASE InterfacesRemoved
  BY <1>2 DEF InterfacesRemoved, Signal, Dispatch, Go
<1>3. CASE PropertiesChanged
  BY <1>3 DEF PropertiesChanged, Signal, Dispatch, Go
<1> QED
  BY <1>1, <1>2, <1>3 DEF Signals

\* The loop thread goes on.
LEMMA LoopGoesOnInv == Inv /\ LoopGoesOn => Inv'
<1> SUFFICES ASSUME Inv, LoopGoesOn PROVE Inv'
  OBVIOUS
<1> USE DEF Inv, TypeOK, LocksInv, EventInv, CallInv, AnswersInv, DestroyInv, Open, Current,
             InNotify, InProps
<1>1. CASE LockForHandler
  BY <1>1 DEF LockForHandler
<1>2. CASE FindProps
  BY <1>2 DEF FindProps
<1>3. CASE InsertProps
  <2>1. TypeOK'
    BY <1>3 DEF InsertProps
  <2>2. LocksInv'
    BY <1>3 DEF InsertProps
  <2>3. EventInv'
    BY <1>3 DEF InsertProps
  <2>4. CallInv'
    BY <1>3 DEF InsertProps
  <2>5. AnswersInv'
    BY <1>3 DEF InsertProps
  <2>6. DestroyInv'
    BY <1>3 DEF InsertProps
  <2> QED
    BY <2>1, <2>2, <2>3, <2>4, <2>5, <2>6
<1>4. CASE EraseProps
  <2>1. TypeOK'
    BY <1>4 DEF EraseProps
  <2>2. LocksInv'
    BY <1>4 DEF EraseProps
  <2>3. EventInv'
    BY <1>4 DEF EraseProps
  <2>4. CallInv'
    BY <1>4 DEF EraseProps
  <2>5. AnswersInv'
    BY <1>4 DEF EraseProps
  <2>6. DestroyInv'
    BY <1>4 DEF EraseProps
  <2> QED
    BY <2>1, <2>2, <2>3, <2>4, <2>5, <2>6
<1>5. CASE UnlockProps
  BY <1>5 DEF UnlockProps
<1>6. CASE ReplyArrives
  BY <1>6 DEF ReplyArrives, Dispatch, Go
<1>7. CASE InvokeReply
  <2>1. TypeOK'
    <3>1. event.call \in 1 .. MaxCalls
      BY <1>7 DEF InvokeReply
    <3>2. answers' \in [1 .. MaxCalls -> Nat]
      BY <1>7, <3>1 DEF InvokeReply, PostResult
    <3> QED
      BY <1>7, <3>2 DEF InvokeReply
  <2>2. LocksInv'
    BY <1>7 DEF InvokeReply, PostResult, Go
  <2>3. EventInv'
    BY <1>7 DEF InvokeReply, PostResult, Go
  <2>4. CallInv'
    BY <1>7 DEF InvokeReply, PostResult, Go
  <2>5. AnswersInv'
    BY <1>7 DEF InvokeReply, PostResult, Go
  <2>6. DestroyInv'
    BY <1>7 DEF InvokeReply, PostResult, Go
  <2> QED
    BY <2>1, <2>2, <2>3, <2>4, <2>5, <2>6
<1>8. CASE LeaveHandler
  BY <1>8 DEF LeaveHandler
<1>9. CASE ExitLoop
  BY <1>9 DEF ExitLoop
<1> QED
  BY <1>1, <1>2, <1>3, <1>4, <1>5, <1>6, <1>7, <1>8, <1>9 DEF LoopGoesOn

-----------------------------------------------------------------------------
\* The isolate enters the client's functions with every lock free of it.
LEMMA InitInv == Init => Inv
<1> SUFFICES ASSUME Init PROVE Inv
  OBVIOUS
<1>1. TypeOK
  <2>1. /\ calls \in [1 .. MaxCalls -> Function \cup {None}]
        /\ answers \in [1 .. MaxCalls -> Nat]
    BY DEF Init
  <2>2. made \in 0 .. MaxCalls /\ seen \in Nat
    BY DEF Init
  <2>3. event \in Event \cup {Nothing} /\ proxies \subseteq Watched /\ pending = {}
    BY DEF Init
  <2> QED
    BY <2>1, <2>2, <2>3 DEF Init, TypeOK
<1>2. LocksInv /\ EventInv /\ DestroyInv
  BY DEF Init, LocksInv, EventInv, DestroyInv, InNotify, InProps
<1>3. CallInv /\ AnswersInv
  BY DEF Init, CallInv, AnswersInv, Open, Current, InNotify
<1> QED
  BY <1>1, <1>2, <1>3 DEF Inv

LEMMA NextInv == Inv /\ [Next]_vars => Inv'
<1>1. Inv /\ UNCHANGED vars => Inv'
  BY DEF Inv, TypeOK, LocksInv, EventInv, CallInv, AnswersInv, DestroyInv, Open,
         Current, InNotify, InProps
<1> QED
  BY <1>1, EntersInv, GoesOnInv, SignalsInv, LoopGoesOnInv DEF Next

\* The locks, the current call and the answers are always as Inv says.
THEOREM Invariance == Spec => []Inv
  BY InitInv, NextInv, PTL DEF Spec

\* object_manager.h:10 for any number of calls and signals: the mutex keeps the
\* two threads out of each other's way in the maps of proxies.
THEOREM NoRace == Spec => []NoMapRace
<1>1. Inv => NoMapRace
  <2> SUFFICES ASSUME Inv, InMaps(at), InMaps(loop) PROVE FALSE
    BY DEF NoMapRace
  <2>1. mutex = "isolate"
    BY DEF Inv, LocksInv, InMaps, InNotify
  <2>2. mutex = "loop"
    BY DEF Inv, TypeOK, LocksInv, InMaps, InProps
  <2> QED
    BY <2>1, <2>2
<1> QED
  BY Invariance, <1>1, PTL

\* Every port of bluez_bridge.h gets its one answer, from the call itself or from
\* a callback that is still to run.
THEOREM OneAnswer == Spec => []AnswersOnce
<1>1. Inv => AnswersOnce
  <2> SUFFICES ASSUME Inv, NEW c \in 1 .. made
               PROVE  /\ answers[c] <= (IF calls[c] \in PortCall THEN 1 ELSE 0)
                      /\ c \in pending => answers[c] = 0
                      /\ Over(c) /\ calls[c] \in PortCall => answers[c] = 1 \/ c \in pending
    BY DEF AnswersOnce
  <2>1. c \in 1 .. MaxCalls /\ answers[c] \in Nat
    BY DEF Inv, TypeOK
  <2>2. Over(c) => ~ Open(c) /\ at # "destroyed"
    BY DEF Over, Open, Inv, TypeOK, InNotify
  <2> QED
    BY <2>1, <2>2 DEF Inv, AnswersInv
<1> QED
  BY Invariance, <1>1, PTL

\* bluez_client_destroy frees the context only when the loop thread is gone.
THEOREM DestroyIsQuiet == Spec => []QuietAfterDestroy
<1>1. Inv => QuietAfterDestroy
  BY DEF Inv, TypeOK, LocksInv, EventInv, DestroyInv, QuietAfterDestroy, InNotify, InProps
<1> QED
  BY Invariance, <1>1, PTL

\* There is no deadlock but the one of start_notify and stop_notify.
THEOREM OnlyDeadlock == Spec => []DeadlockOnlyInNotify
<1>1. Inv => DeadlockOnlyInNotify
  BY DEF Inv, LocksInv, EventInv, CallInv, DeadlockOnlyInNotify, Deadlocked,
         IsolateBlocked, LoopBlocked, InNotify, InProps
<1> QED
  BY Invariance, <1>1, PTL
=============================================================================
