------------------------------- MODULE Mirror -------------------------------
(***************************************************************************)
(* What BlueZClient.devices promises about the daemon's devices, without   *)
(* the threads and queues it is built from: a set that follows another,    *)
(* late and one element at a time, and that is right about every element   *)
(* it has nothing left to hear about.                                      *)
(***************************************************************************)
CONSTANT Device

VARIABLES
  up,      \* the client follows the daemon
  there,   \* the devices that exist
  ghosts,  \* devices that went without a word while the client was up
  view,    \* the devices the client lists
  behind   \* devices about which something is still under way

vars == <<up, there, ghosts, view, behind>>

TypeOK ==
  /\ up \in BOOLEAN
  /\ there \subseteq Device
  /\ ghosts \subseteq Device \ there
  /\ view \subseteq Device
  /\ behind \subseteq Device

Init ==
  /\ up = FALSE
  /\ there \in SUBSET Device
  /\ ghosts = {}
  /\ view = {}
  /\ behind = {}

\* A device comes or goes, and while the client is up it will hear of it.
Announce(p) == behind' = IF up THEN behind \cup {p} ELSE behind

Appear(p) ==
  /\ p \notin there
  /\ there' = there \cup {p}
  /\ ghosts' = ghosts \ {p}
  /\ Announce(p)
  /\ UNCHANGED <<up, view>>

Vanish(p) ==
  /\ p \in there
  /\ there' = there \ {p}
  /\ Announce(p)
  /\ UNCHANGED <<up, ghosts, view>>

Crash ==
  /\ there' = {}
  /\ ghosts' = IF up THEN ghosts \cup there ELSE ghosts
  /\ UNCHANGED <<up, view, behind>>

\* The client starts with an empty list and everything to learn.
Start ==
  /\ ~ up
  /\ up' = TRUE
  /\ view = {}
  /\ ghosts' \in SUBSET (Device \ there)
  /\ behind' \in SUBSET Device
  /\ there \cup ghosts' \subseteq behind'
  /\ UNCHANGED <<there, view>>

\* News of p arrives; when it is the last there is, it is right.
Learn(p) ==
  /\ up
  /\ p \in behind
  /\ view' \in {view \cup {p}, view \ {p}}
  /\ behind' \in {behind, behind \ {p}}
  /\ p \notin behind' => (p \in view' <=> p \in there \cup ghosts)
  /\ UNCHANGED <<up, there, ghosts>>

Stop ==
  /\ up
  /\ up' = FALSE
  /\ ghosts' = {}
  /\ behind' = {}
  /\ UNCHANGED <<there, view>>

Next ==
  \/ Crash \/ Start \/ Stop
  \/ \E p \in Device : Appear(p) \/ Vanish(p) \/ Learn(p)

Spec == Init /\ [][Next]_vars

\* The list is right about every device that nothing is under way about.
Faithful == up => \A p \in Device \ behind : p \in view <=> p \in there \cup ghosts
=============================================================================
