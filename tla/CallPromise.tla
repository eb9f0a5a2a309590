---------------------------- MODULE CallPromise ----------------------------
(***************************************************************************)
(* What a call of a BlueZDevice promises, without the daemon, the          *)
(* connection, the event loop and the queue between the caller and its     *)
(* answer: a Future that throws if that was the daemon's verdict on this   *)
(* very call, and otherwise completes in the moment in which the object    *)
(* shows what the call is for.                                             *)
(***************************************************************************)
CONSTANT Task

VARIABLES
  state,     \* what became of each call
  shown,     \* the calls whose object shows what they are for
  verdicts,  \* what the daemon decided and the caller does not know yet
  closed     \* the client has been closed

vars == <<state, shown, verdicts, closed>>

TypeOK ==
  /\ state \in [Task -> {"idle", "asked", "waiting", "done", "threw"}]
  /\ shown \subseteq Task
  /\ verdicts \subseteq Task \X BOOLEAN
  /\ closed \in BOOLEAN

Init ==
  /\ state = [t \in Task |-> "idle"]
  /\ shown \in SUBSET Task
  /\ verdicts = {}
  /\ closed = FALSE

\* The caller chooses an object and an operation, which no other call notices.
Begin(t) ==
  /\ ~ closed
  /\ state[t] = "idle"
  /\ shown' \in {shown \cup {t}, shown \ {t}}
  /\ UNCHANGED closed

\* connect(), disconnect() and pair() return before the daemon has decided,
\* readValue() and writeValue() afterwards.
Ask(t) ==
  /\ Begin(t)
  /\ state' = [state EXCEPT ![t] = "asked"]
  /\ verdicts' \in {verdicts} \cup {verdicts \cup {<<t, ok>>} : ok \in BOOLEAN}

\* waitForServicesResolved()
Watch(t) ==
  /\ Begin(t)
  /\ state' = [state EXCEPT ![t] = IF t \in shown' THEN "done" ELSE "waiting"]
  /\ UNCHANGED verdicts

\* The daemon decides once.
Decide(t) ==
  /\ ~ closed
  /\ state[t] = "asked"
  /\ \A ok \in BOOLEAN : <<t, ok>> \notin verdicts
  /\ \E ok \in BOOLEAN : verdicts' = verdicts \cup {<<t, ok>>}
  /\ UNCHANGED <<state, shown, closed>>

\* The caller learns what the daemon decided, and nothing else.
Learn(t) ==
  /\ state[t] = "asked"
  /\ \E ok \in BOOLEAN :
       /\ <<t, ok>> \in verdicts
       /\ verdicts' = verdicts \ {<<t, ok>>}
       /\ state' = [state EXCEPT ![t] = IF ~ ok THEN "threw"
                                        ELSE IF t \in shown THEN "done" ELSE "waiting"]
  /\ UNCHANGED <<shown, closed>>

\* The objects change, and whoever waited for that does so no longer.
Show ==
  /\ ~ closed
  /\ shown' \in SUBSET Task
  /\ state' = [t \in Task |-> IF state[t] = "waiting" /\ t \in shown' THEN "done" ELSE state[t]]
  /\ UNCHANGED <<verdicts, closed>>

\* Verdicts under way may be lost, but none is made up.
Close ==
  /\ ~ closed
  /\ closed' = TRUE
  /\ verdicts' \in SUBSET verdicts
  /\ UNCHANGED <<state, shown>>

Next ==
  \/ Show \/ Close
  \/ \E t \in Task : Ask(t) \/ Watch(t) \/ Decide(t) \/ Learn(t)

Spec == Init /\ [][Next]_vars

\* A verdict is on a call that asked, there is one at a time, and nobody waits
\* for what is so already.
Kept ==
  \A t \in Task :
    /\ \A ok \in BOOLEAN : <<t, ok>> \in verdicts => state[t] = "asked"
    /\ ~ {<<t, TRUE>>, <<t, FALSE>>} \subseteq verdicts
    /\ state[t] = "waiting" => t \notin shown
=============================================================================
