---------------------------- MODULE MCWireCodec ----------------------------
(* A byte has four values, so a 16-bit number has sixteen and a 32-bit     *)
(* number 256, which is a mask of eight bits; the samples are the edges of *)
(* each width.                                                             *)
EXTENDS PropertyUpdates

Edges(type) ==
  CASE type = "bool"            -> <<FALSE, TRUE>>
    [] type = "i16"             -> <<0, -1, 7, -8>>
    [] type = "u16"             -> <<0, 1, 15>>
    [] type = "u32"             -> <<0, 6, 255>>
    [] type \in {"str", "bytes"} -> <<<<>>, <<1>>, <<2, 0, 3>>>>
    [] type = "strs"            -> <<<<>>, <<<<>>>>, <<<<1>>, <<3, 2>>>>>>
    [] type = "mfrs"            -> <<<<>>, <<[companyId |-> 1, data |-> <<2>>],
                                             [companyId |-> 15, data |-> <<>>]>>>>
    [] type = "map"             -> <<<<>>, (<<1>> :> <<2>>) @@ (<<2, 3>> :> <<>>)>>

Shifts == {0, 3}

\* One property; two whose bits are next to each other (1 and 2, 4 and 8 ...); one with
\* a bit and one without; and what bluetoothd invalidates when a device is out of range.
Carried == [k \in HasMask |->
  LET bits == NativeBits[k]
  IN  {{name} : name \in DOMAIN Keys[k]} \cup {{"alias", "uuids"}}
      \cup {pair \in SUBSET DOMAIN bits :
               \E a, b \in pair : /\ pair = {a, b}
                                 /\ bits[a] \in {1, 4, 16, 64} /\ bits[b] = 2 * bits[a]}]

Invalidated == [AdapterProps |-> {},
                DeviceProps  |-> {<<{}, {"rssi"}>>, <<{}, {"txPower"}>>,
                                  <<{"connected"}, {"rssi"}>>}]

Notices == [k \in HasMask |->
  {[changed |-> e[1], invalidated |-> e[2]] :
     e \in (Carried[k] \X {{}}) \cup Invalidated[k]}]

Noticed(k) == Notices[k]
============================================================================
