---------------------------- MODULE BlueZDaemon ----------------------------
(***************************************************************************)
(* bluetoothd and the system bus, as far as native/src/object_manager.cpp  *)
(* depends on them.  Nothing here is code of the repository: the daemon    *)
(* keeps a tree of objects, and each change of the tree sends one signal   *)
(* on the FIFO connection of every client that has a match for it.         *)
(***************************************************************************)
EXTENDS Naturals, Sequences, FiniteSets

CONSTANTS
  Path,       \* object paths, numbered in the lexicographic order of the strings
  Kind,       \* Kind[p]: which of the five BlueZ interfaces object p carries
  Parent,     \* Parent[p]: the object p lies under, Root when it is left out
  Tracked,    \* properties with a change bit (Connected, RSSI, Powered...)
  Value,      \* the one of them that notifications of a characteristic carry
  Untracked,  \* properties without one (Address, UUIDs, TxPower, Notifying...)
  MaxStamp    \* bound on the number of daemon events

Root  == 0
Field == Tracked \cup Untracked
Kinds == {"adapter", "device", "service", "char", "desc"}

ASSUME PathAssumption ==
  /\ Path \subseteq Nat \ {Root}
  /\ IsFiniteSet(Path)

\* A path is a proper prefix of the paths below it, so it comes before them.
ASSUME TreeAssumption ==
  /\ Kind \in [Path -> Kinds]
  /\ Parent \in [Path -> Path \cup {Root}]
  /\ \A p \in Path : Parent[p] < p
  /\ \A p \in Path :
       CASE Kind[p] = "adapter" -> Parent[p] = Root
         [] Kind[p] = "device"  -> Parent[p] = Root \/ Kind[Parent[p]] = "adapter"
         [] Kind[p] = "service" -> Parent[p] # Root /\ Kind[Parent[p]] = "device"
         [] Kind[p] = "char"    -> Parent[p] # Root /\ Kind[Parent[p]] = "service"
         [] Kind[p] = "desc"    -> Parent[p] # Root /\ Kind[Parent[p]] = "char"

ASSUME FieldAssumption ==
  /\ Value \in Tracked
  /\ Tracked \cap Untracked = {}

ASSUME BoundAssumption == MaxStamp \in Nat \ {0}

Adapter == {p \in Path : Kind[p] = "adapter"}
Device  == {p \in Path : Kind[p] = "device"}
Service == {p \in Path : Kind[p] = "service"}
Char    == {p \in Path : Kind[p] = "char"}
Desc    == {p \in Path : Kind[p] = "desc"}

VARIABLES
  present,   \* the objects that exist
  truth,     \* truth[p][f]: stamp of the last change of property f of p
  stamp,     \* number of daemon events so far
  wire       \* signals routed to this client and not yet dispatched

daemonVars == <<present, truth, stamp, wire>>

\* A property value is the stamp of the event that set it; Blank is what a
\* default-constructed struct holds, and no property ever has that value.
Blank  == 0
Values == [Field -> Nat]
NoValues == [f \in Field |-> Blank]

Signal == [sig : {"added", "removed", "changed"}, path : Path,
           mask : SUBSET Field, vals : Values, at : Nat]

InterfacesAdded(p, v) ==
  [sig |-> "added", path |-> p, mask |-> Field, vals |-> v, at |-> stamp + 1]
InterfacesRemoved(p) ==
  [sig |-> "removed", path |-> p, mask |-> {}, vals |-> NoValues, at |-> stamp + 1]
PropertiesChanged(p, F) ==
  [sig |-> "changed", path |-> p, mask |-> F,
   vals |-> [f \in Field |-> IF f \in F THEN stamp + 1 ELSE Blank],
   at |-> stamp + 1]

Route(matched, s) == wire' = IF matched THEN Append(wire, s) ELSE wire

ParentPresent(S, p) == Parent[p] \in S \cup {Root}

DaemonInit ==
  /\ present \in {S \in SUBSET Path : \A p \in S : ParentPresent(S, p)}
  /\ truth = [p \in Path |-> [f \in Field |-> 1]]
  /\ stamp = 1
  /\ wire = <<>>

Tick == stamp < MaxStamp /\ stamp' = stamp + 1

\* An object appears under an existing parent, with fresh properties.
Appear(p, listening) ==
  /\ Tick
  /\ p \notin present
  /\ ParentPresent(present, p)
  /\ present' = present \cup {p}
  /\ truth' = [truth EXCEPT ![p] = [f \in Field |-> stamp + 1]]
  /\ Route(listening, InterfacesAdded(p, truth'[p]))

\* An object disappears after everything below it.
Vanish(p, listening) ==
  /\ Tick
  /\ p \in present
  /\ \A q \in present : Parent[q] # p
  /\ present' = present \ {p}
  /\ Route(listening, InterfacesRemoved(p))
  /\ UNCHANGED truth

\* The properties F of an object change in one PropertiesChanged.
Change(p, F, matched) ==
  /\ Tick
  /\ p \in present
  /\ F # {}
  /\ truth' = [truth EXCEPT ![p] = [f \in Field |-> IF f \in F THEN stamp + 1 ELSE @[f]]]
  /\ Route(matched, PropertiesChanged(p, F))
  /\ UNCHANGED present

\* The daemon dies and its objects with it; no signal says so.  A new one starts
\* with no objects, under the same name org.bluez, so the matches stay good.
Crash ==
  /\ Tick
  /\ present # {}
  /\ present' = {}
  /\ UNCHANGED <<truth, wire>>

DaemonTypeOK ==
  /\ present \subseteq Path
  /\ truth \in [Path -> Values]
  /\ stamp \in Nat
  /\ wire \in Seq(Signal)
============================================================================
