--------------------------- MODULE PropertyUpdates ---------------------------
(***************************************************************************)
(* What becomes of the properties of an object: from the dictionary in a   *)
(* D-Bus signal through extract_*_props or a PropertiesChanged callback,   *)
(* the bytes of WireCodec and changedMask to _props in Dart.  One object   *)
(* is followed; its messages are handled as they are sent, for Bridge is   *)
(* about their order.  The run of this module also runs WireCodec's own    *)
(* steps, while no object is followed.                                     *)
(***************************************************************************)
EXTENDS WireCodec

CONSTANTS
  MaxUpdates,  \* bound on the signals about the object after the first
  Signals(_)   \* for a struct with a mask: the fields that one PropertiesChanged
               \*   gives values to, and those it invalidates

ASSUME UpdatesAssumption == MaxUpdates \in Nat

VARIABLES
  kind,     \* struct the object is posted as, None before there is one
  truth,    \* the daemon's dictionary of the object
  props,    \* _props of the object in Dart
  told,     \* the list last added to propertiesChanged
  updates,  \* number of signals so far
  stale     \* history: fields whose value no message has brought

objectVars == <<kind, truth, props, told, updates, stale>>

None == "none"
Path == <<1>>

(***************************************************************************)
(* object_manager.cpp.                                                     *)
(***************************************************************************)
\* The D-Bus property behind each field, object path and changedMask aside.
AdapterKeys ==
  [address |-> "Address", name |-> "Name", alias |-> "Alias", powered |-> "Powered",
   discoverable |-> "Discoverable", pairable |-> "Pairable",
   discovering |-> "Discovering", discoverableTimeout |-> "DiscoverableTimeout",
   uuids |-> "UUIDs"]

DeviceKeys ==
  [adapterPath |-> "Adapter", address |-> "Address", addressType |-> "AddressType",
   name |-> "Name", alias |-> "Alias", rssi |-> "RSSI", txPower |-> "TxPower",
   appearance |-> "Appearance", deviceClass |-> "Class", paired |-> "Paired",
   trusted |-> "Trusted", blocked |-> "Blocked", connected |-> "Connected",
   servicesResolved |-> "ServicesResolved", legacyPairing |-> "LegacyPairing",
   uuids |-> "UUIDs", manufacturerData |-> "ManufacturerData",
   serviceData |-> "ServiceData"]

GattServiceKeys ==
  [devicePath |-> "Device", uuid |-> "UUID", primary |-> "Primary", handle |-> "Handle"]

GattCharKeys ==
  [servicePath |-> "Service", uuid |-> "UUID", value |-> "Value",
   notifying |-> "Notifying", writeAcquired |-> "WriteAcquired",
   notifyAcquired |-> "NotifyAcquired", handle |-> "Handle", mtu |-> "MTU",
   flags |-> "Flags"]

GattDescKeys ==
  [charPath |-> "Characteristic", uuid |-> "UUID", value |-> "Value", handle |-> "Handle"]

Keys == [AdapterProps |-> AdapterKeys, DeviceProps |-> DeviceKeys,
         GattServiceProps |-> GattServiceKeys, GattCharProps |-> GattCharKeys,
         GattDescProps |-> GattDescKeys]

\* The type of a field.
Type(k, name) == fields[k][Position(fields[k], name)][2]

\* A member the code leaves alone: zero, FALSE or empty.
Default(type) == CASE type = "bool"                 -> FALSE
                   [] type \in {"i16", "u16", "u32"} -> 0
                   [] OTHER                          -> <<>>

\* get_prop: a property the dictionary lacks has its default.
get_prop(dictionary, key, type) ==
  IF key \in DOMAIN dictionary THEN dictionary[key] ELSE Default(type)

\* ~0u: every field of a snapshot is valid.
AllBits == Word - 1

HasMask == {"AdapterProps", "DeviceProps"}

\* The struct with these properties; only two structs have a mask.
Masked(k, mask, s) ==
  [name \in Names(fields[k]) |->
     CASE name = "objectPath"  -> Path
       [] name = "changedMask" -> mask
       [] OTHER                -> s[name]]

\* extract_adapter_props, extract_device_props, extract_service_props ...
extract_props(k, dictionary) ==
  Masked(k, AllBits,
         [name \in DOMAIN Keys[k] |-> get_prop(dictionary, Keys[k][name], Type(k, name))])

\* AdapterChangedBit and DeviceChangedBit.
NativeBits == [
  AdapterProps |-> [powered |-> 1, discovering |-> 2, discoverable |-> 4, pairable |-> 8,
                    alias |-> 16],
  DeviceProps  |-> [connected |-> 1, rssi |-> 2, paired |-> 4, servicesResolved |-> 8,
                    name |-> 16, trusted |-> 32, blocked |-> 64, alias |-> 128]]

\* The bits of these fields, set one after the other.
MaskOf(k, names) ==
  LET bit(name) == IF name \in names THEN NativeBits[k][name] ELSE 0
  IN  IF k = "AdapterProps"
      THEN bit("powered") + bit("discovering") + bit("discoverable") + bit("pairable")
           + bit("alias")
      ELSE bit("connected") + bit("rssi") + bit("paired") + bit("servicesResolved")
           + bit("name") + bit("trusted") + bit("blocked") + bit("alias")

\* Faulty variant: what the signal does not carry is filled in as in a snapshot.
partial_props_snapshot(k, changed) ==
  Masked(k, AllBits,
         [name \in DOMAIN Keys[k] |-> get_prop(changed, Keys[k][name], Type(k, name))])

\* The struct a PropertiesChanged callback posts: the changed fields that have a
\* bit.  The list of invalidated properties is not looked at.
partial_props(k, changed) ==
  LET names == {name \in DOMAIN NativeBits[k] : Keys[k][name] \in DOMAIN changed}
  IN  Masked(k, MaskOf(k, names),
             [name \in DOMAIN Keys[k] |->
                IF name \in names THEN changed[Keys[k][name]] ELSE Default(Type(k, name))])

(***************************************************************************)
(* The bytes, and the Dart objects.                                        *)
(***************************************************************************)
\* What GlazeCodec makes of a struct posted to the events port.
Received(k, x) ==
  LET bytes == encode_struct(fields[k], x)
  IN  decode(reads[k], [buffer |-> bytes, base |-> 0, length |-> Len(bytes)], 0).out

\* The constants of types.dart that updateProps tests the mask with.
DartBits == [
  AdapterProps |-> [powered |-> 1, discovering |-> 2, discoverable |-> 4, pairable |-> 8,
                    alias |-> 16],
  DeviceProps  |-> [connected |-> 1, rssi |-> 2, paired |-> 4, servicesResolved |-> 8,
                    name |-> 16, trusted |-> 32, blocked |-> 64, alias |-> 128]]

HasBit(mask, bit) == (mask \div bit) % 2 = 1

\* Fields that updateProps takes from a message with this mask.
Taken(k, mask) == {name \in DOMAIN DartBits[k] : HasBit(mask, DartBits[k][name])}

\* updateProps: what has no bit stays as it was.
updateProps(k, p) ==
  LET taken == Taken(k, p.changedMask) \cup {"changedMask"}
  IN  [name \in DOMAIN props |-> IF name \in taken THEN p[name] ELSE props[name]]

\* Faulty variant: compared after it was stored.
Differing_stored(old, new, names) == {name \in names : new[name] # new[name]}

\* BlueZDevice compares before it stores, and reports what differs.
Differing(old, new, names) == {name \in names : old[name] # new[name]}

(***************************************************************************)
(* Signals about the object.                                               *)
(***************************************************************************)
ASSUME SignalsAssumption ==
  \A k \in HasMask : \A s \in Signals(k) :
    s.changed \in SUBSET DOMAIN Keys[k] /\ s.invalidated \in SUBSET DOMAIN Keys[k]

Tracked(k) == IF k \in HasMask THEN DOMAIN NativeBits[k] ELSE {}

Signalled == updates < MaxUpdates /\ updates' = updates + 1

\* The two ends of what a field takes.
First(type)   == Sample(type)[1]
Extreme(type) == Sample(type)[Len(Sample(type))]

\* The D-Bus properties of some fields, and the type of a property.
PropertiesOf(k, names) == {Keys[k][name] : name \in names}
KeyType(k, key)  == Type(k, CHOOSE name \in DOMAIN Keys[k] : Keys[k][name] = key)

\* A dictionary of the daemon: every property has the second value of its type,
\* but one, which is missing or extreme.
Dictionary(k) ==
  LET usual == [key \in PropertiesOf(k, DOMAIN Keys[k]) |-> Sample(KeyType(k, key))[2]]
  IN  UNION {{[other \in DOMAIN usual \ {Keys[k][name]} |-> usual[other]],
              [usual EXCEPT ![Keys[k][name]] = Extreme(Type(k, name))]} :
             name \in DOMAIN Keys[k]}

ValueOf(k, name) == get_prop(truth, Keys[k][name], Type(k, name))

\* InterfacesAdded, or the snapshot, for the first time: Dart makes an object.
\* BlueZAdapter gets the properties again, from updateProps.
Appear(k) ==
  /\ kind = None /\ tag = 0
  /\ kind' = k
  /\ truth' \in Dictionary(k)
  /\ props' = Received(k, extract_props(k, truth'))
  /\ told' = {} /\ stale' = {}
  /\ UNCHANGED updates

\* The object has gone and another appears at its path.  A device is made anew; a
\* removed adapter was not posted, and the one in Dart is updated.
Reappear ==
  /\ kind # None
  /\ Signalled
  /\ truth' \in Dictionary(kind)
  /\ told' = {}
  /\ LET p == Received(kind, extract_props(kind, truth'))
     IN  IF kind = "AdapterProps"
         THEN /\ props' = updateProps(kind, p)
              /\ stale' = DOMAIN Keys[kind] \ Tracked(kind)
         ELSE props' = p /\ stale' = {}
  /\ UNCHANGED kind

\* The values of a signal: each of these properties has an end of its range.
Changed(k, names, extreme) ==
  [key \in PropertiesOf(k, names) |->
     IF key \in PropertiesOf(k, extreme) THEN Extreme(KeyType(k, key)) ELSE First(KeyType(k, key))]

\* The dictionary after a signal.
Overwritten(dictionary, gone, changed) ==
  [key \in (DOMAIN dictionary \ gone) \cup DOMAIN changed |->
     IF key \in DOMAIN changed THEN changed[key] ELSE dictionary[key]]

\* PropertiesChanged: some properties have new values and some have none any more.
PropertiesChanged(names, extreme, gone) ==
  /\ Signalled
  /\ PropertiesOf(kind, gone) \subseteq DOMAIN truth
  /\ stale' = (stale \cup names \cup gone) \ (names \cap Tracked(kind))
  /\ LET changed == Changed(kind, names, extreme)
     IN  /\ truth' = Overwritten(truth, PropertiesOf(kind, gone), changed)
         /\ props' = updateProps(kind, Received(kind, partial_props(kind, changed)))
  /\ told' = IF kind = "DeviceProps" THEN Differing(props, props', Tracked(kind)) ELSE told
  /\ UNCHANGED kind

Codec == kind = None /\ Next /\ UNCHANGED objectVars

Announced == (Reappear \/ \E k \in DOMAIN Keys : Appear(k)) /\ UNCHANGED <<tag, sent, view, got>>

Updated ==
  /\ kind \in HasMask
  /\ \E s \in Signals(kind) : \E extreme \in SUBSET s.changed :
       PropertiesChanged(s.changed, extreme, s.invalidated)
  /\ UNCHANGED <<tag, sent, view, got>>

UpdatesInit ==
  /\ Init
  /\ kind = None /\ truth = <<>> /\ props = <<>>
  /\ told = {} /\ updates = 0 /\ stale = {}

UpdatesNext == Codec \/ Announced \/ Updated

UpdatesSpec == UpdatesInit /\ [][UpdatesNext]_<<vars, objectVars>>

-----------------------------------------------------------------------------
\* Every field of the object in Dart has the daemon's value, or its default where
\* the daemon has none: after a snapshot all fields, after a PropertiesChanged the
\* fields with a change bit, and no message disturbs another field.
CacheExact ==
  kind # None => \A name \in DOMAIN Keys[kind] \ stale : props[name] = ValueOf(kind, name)

\* BlueZDevice.propertiesChanged fires "when any device property changes"
\* (bluez_device.dart:25).  What it names are the fields that a message has brought
\* and that differ from what the object showed.  A change that no message brings is
\* in stale', and named by nothing: TxPower, UUIDs or ManufacturerData, which have no
\* bit, and an RSSI that is invalidated.
ReportsExact ==
  [][kind = "DeviceProps" /\ Updated =>
       told' = {name \in DOMAIN Keys[kind] \ stale' : ValueOf(kind, name)' # props[name]}
    ]_<<vars, objectVars>>
=============================================================================
