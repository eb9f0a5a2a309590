------------------------------ MODULE MCBridge ------------------------------
(***************************************************************************)
(* Object trees for TLC.  A path is a number; the numbers keep the order   *)
(* of the path strings.                                                    *)
(***************************************************************************)
EXTENDS BridgeInvariant

\* An adapter with one device under it.
AdapterPath   == {1, 2}
AdapterKind   == <<"adapter", "device">>
AdapterParent == <<Root, 1>>

\* One device with a service, a characteristic and a descriptor.
GattPath   == 1 .. 4
GattKind   == <<"device", "service", "char", "desc">>
GattParent == <<Root, 1, 2, 3>>

\* The same without the descriptor.
NotifyPath   == 1 .. 3
NotifyKind   == <<"device", "service", "char">>
NotifyParent == <<Root, 1, 2>>
=============================================================================
