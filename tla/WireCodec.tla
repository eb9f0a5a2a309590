----------------------------- MODULE WireCodec -----------------------------
(***************************************************************************)
(* The bytes of a message: glz::encode of glaze_meta.h over the field      *)
(* lists of bluez_types.h on the native side, GlazeCodec of codec.dart on  *)
(* the Dart side.  Nothing but the two lists' agreement keeps one from     *)
(* misreading the other.  A number below Base stands for a byte: widths    *)
(* are those of the code, values are smaller.  A string is its UTF-8.      *)
(***************************************************************************)
EXTENDS Integers, Sequences, SequencesExt

CONSTANTS
  Base,       \* how many values a byte has, 256 in the code
  Sample(_),  \* sequence of the values a field of each type takes
  Padding     \* numbers of bytes before the view

ASSUME BaseAssumption == Base \in Nat /\ Base >= 4 /\ Base % 4 = 0
ASSUME PaddingAssumption == Padding \subseteq Nat

VARIABLES
  tag, sent,  \* discriminator and struct of the message, 0 for none
  view,       \* the Uint8List the message arrives in
  got         \* what GlazeCodec made of it

vars == <<tag, sent, view, got>>

(***************************************************************************)
(* The field lists: a name and a type for each member.                     *)
(***************************************************************************)
\* glz::meta of each struct, in the order in which it is encoded.
AdapterFields ==
  <<<<"objectPath", "str">>, <<"changedMask", "u32">>, <<"address", "str">>,
    <<"name", "str">>, <<"alias", "str">>, <<"powered", "bool">>,
    <<"discoverable", "bool">>, <<"pairable", "bool">>, <<"discovering", "bool">>,
    <<"discoverableTimeout", "u32">>, <<"uuids", "strs">>>>

DeviceFields ==
  <<<<"objectPath", "str">>, <<"changedMask", "u32">>, <<"adapterPath", "str">>,
    <<"address", "str">>, <<"addressType", "str">>, <<"name", "str">>, <<"alias", "str">>,
    <<"rssi", "i16">>, <<"txPower", "i16">>, <<"appearance", "u16">>,
    <<"deviceClass", "u32">>, <<"paired", "bool">>, <<"trusted", "bool">>,
    <<"blocked", "bool">>, <<"connected", "bool">>, <<"servicesResolved", "bool">>,
    <<"legacyPairing", "bool">>, <<"uuids", "strs">>, <<"manufacturerData", "mfrs">>,
    <<"serviceData", "map">>>>

GattCharFields ==
  <<<<"objectPath", "str">>, <<"servicePath", "str">>, <<"uuid", "str">>,
    <<"value", "bytes">>, <<"notifying", "bool">>, <<"writeAcquired", "bool">>,
    <<"notifyAcquired", "bool">>, <<"handle", "u16">>, <<"mtu", "u16">>,
    <<"flags", "strs">>>>

GattServiceFields ==
  <<<<"objectPath", "str">>, <<"devicePath", "str">>, <<"uuid", "str">>,
    <<"primary", "bool">>, <<"handle", "u16">>>>

GattDescFields ==
  <<<<"objectPath", "str">>, <<"charPath", "str">>, <<"uuid", "str">>,
    <<"value", "bytes">>, <<"handle", "u16">>>>

ValueResultFields ==
  <<<<"objectPath", "str">>, <<"value", "bytes">>>>

ErrorFields ==
  <<<<"objectPath", "str">>, <<"name", "str">>, <<"message", "str">>>>

fields == [AdapterProps |-> AdapterFields, DeviceProps |-> DeviceFields,
           GattCharProps |-> GattCharFields, GattServiceProps |-> GattServiceFields,
           GattDescProps |-> GattDescFields, ValueResult |-> ValueResultFields,
           Error |-> ErrorFields]

\* The reads of _decodeAdapterProps, _decodeDeviceProps and the others, in order.
reads == [
  AdapterProps |->
    <<<<"objectPath", "str">>, <<"changedMask", "u32">>, <<"address", "str">>,
      <<"name", "str">>, <<"alias", "str">>, <<"powered", "bool">>,
      <<"discoverable", "bool">>, <<"pairable", "bool">>, <<"discovering", "bool">>,
      <<"discoverableTimeout", "u32">>, <<"uuids", "strs">>>>,
  DeviceProps |->
    <<<<"objectPath", "str">>, <<"changedMask", "u32">>, <<"adapterPath", "str">>,
      <<"address", "str">>, <<"addressType", "str">>, <<"name", "str">>,
      <<"alias", "str">>, <<"rssi", "i16">>, <<"txPower", "i16">>,
      <<"appearance", "u16">>, <<"deviceClass", "u32">>, <<"paired", "bool">>,
      <<"trusted", "bool">>, <<"blocked", "bool">>, <<"connected", "bool">>,
      <<"servicesResolved", "bool">>, <<"legacyPairing", "bool">>, <<"uuids", "strs">>,
      <<"manufacturerData", "mfrs">>, <<"serviceData", "map">>>>,
  GattCharProps |->
    <<<<"objectPath", "str">>, <<"servicePath", "str">>, <<"uuid", "str">>,
      <<"value", "bytes">>, <<"notifying", "bool">>, <<"writeAcquired", "bool">>,
      <<"notifyAcquired", "bool">>, <<"handle", "u16">>, <<"mtu", "u16">>,
      <<"flags", "strs">>>>,
  GattServiceProps |->
    <<<<"objectPath", "str">>, <<"devicePath", "str">>, <<"uuid", "str">>,
      <<"primary", "bool">>, <<"handle", "u16">>>>,
  GattDescProps |->
    <<<<"objectPath", "str">>, <<"charPath", "str">>, <<"uuid", "str">>,
      <<"value", "bytes">>, <<"handle", "u16">>>>,
  ValueResult |->
    <<<<"objectPath", "str">>, <<"value", "bytes">>>>,
  Error |->
    <<<<"objectPath", "str">>, <<"name", "str">>, <<"message", "str">>>>]

Names(list) == {f[1] : f \in Range(list)}

Position(list, name) == CHOOSE i \in DOMAIN list : list[i][1] = name

\* The struct posted under each discriminator, and the type it is decoded as;
\* nothing decodes 0x09.
Encoded == [t \in 1 .. 9 \cup {16, 17, 32} |->
  CASE t = 1            -> "AdapterProps"
    [] t \in {2, 4, 5}  -> "DeviceProps"
    [] t \in {3, 7}     -> "GattCharProps"
    [] t \in {6, 9}     -> "GattServiceProps"
    [] t = 8            -> "GattDescProps"
    [] t \in {16, 17}   -> "ValueResult"
    [] t = 32           -> "Error"]

EventType == [t \in 1 .. 8 |->
  CASE t = 1            -> "AdapterProps"
    [] t \in {2, 4, 5}  -> "DeviceProps"
    [] t \in {3, 7}     -> "GattCharProps"
    [] t = 6            -> "GattServiceProps"
    [] t = 8            -> "GattDescProps"]

ResultType == [t \in {16, 17, 32} |-> IF t = 32 THEN "Error" ELSE "ValueResult"]

(***************************************************************************)
(* What a member of each type holds.                                       *)
(***************************************************************************)
Byte  == 0 .. Base - 1
Short == Base * Base     \* how many values 16 bits have
Word  == Short * Short   \* how many values 32 bits have

FieldTypes == {"bool", "i16", "u16", "u32", "str", "bytes", "strs", "mfrs", "map"}

\* No longer than a count of four bytes can say, here and below.
Blobs     == {s \in Seq(Byte) : Len(s) < Word}
Companies == [companyId : 0 .. Short - 1, data : Blobs]

IsValue(type, x) ==
  CASE type = "bool" -> x \in BOOLEAN
    [] type = "i16"  -> x \in Int /\ - Short <= 2 * x /\ 2 * x < Short
    [] type = "u16"  -> x \in 0 .. Short - 1
    [] type = "u32"  -> x \in 0 .. Word - 1
    [] type \in {"str", "bytes"} -> x \in Blobs
    [] type = "strs" -> x \in Seq(Blobs) /\ Len(x) < Word
    [] type = "mfrs" -> x \in Seq(Companies) /\ Len(x) < Word
    [] type = "map"  -> /\ x \in [DOMAIN x -> Blobs] /\ DOMAIN x \subseteq Blobs
                        /\ IsFiniteSet(DOMAIN x) /\ Cardinality(DOMAIN x) < Word

ASSUME SampleAssumption ==
  \A type \in FieldTypes :
    /\ Len(Sample(type)) \in Nat /\ Len(Sample(type)) >= 2
    /\ DOMAIN Sample(type) = 1 .. Len(Sample(type))
    /\ \A i \in DOMAIN Sample(type) : IsValue(type, Sample(type)[i])

(***************************************************************************)
(* glaze_meta.h.                                                           *)
(***************************************************************************)
\* Little endian, of two or four bytes: conversion to the width drops the rest.
Two(n) == <<n % Base, (n \div Base) % Base>>

write_bytes(n, width) ==
  IF width = 2 THEN Two(n) ELSE Two(n) \o Two((n \div Base) \div Base)

\* A count of elements and their encodings.
Counted(s) == write_bytes(Len(s), 4) \o FlattenSeq(s)
Blob(s)    == write_bytes(Len(s), 4) \o s

\* The order of a map's keys is whatever the encoder says: no decoder minds.
encode_field(type, v) ==
  CASE type = "bool"            -> <<IF v THEN 1 ELSE 0>>
    [] type \in {"i16", "u16"}  -> write_bytes(v, 2)
    [] type = "u32"             -> write_bytes(v, 4)
    [] type \in {"str", "bytes"} -> Blob(v)
    [] type = "strs"            -> Counted([i \in DOMAIN v |-> Blob(v[i])])
    [] type = "mfrs"            -> Counted([i \in DOMAIN v |->
                                     write_bytes(v[i].companyId, 2) \o Blob(v[i].data)])
    [] type = "map"             -> LET keys == SetToSeq(DOMAIN v) IN
                                   Counted([i \in DOMAIN keys |-> Blob(keys[i]) \o Blob(v[keys[i]])])

encode_struct(list, x) == FlattenSeq([i \in DOMAIN list |-> encode_field(list[i][2], x[list[i][1]])])

(***************************************************************************)
(* A read at an offset gives a value and the offset past it, or throws; a  *)
(* reader is a function from offsets to what a read there gives.           *)
(***************************************************************************)
Read(x, at) == [ok |-> TRUE, at |-> at, out |-> x]
Thrown(at)  == [ok |-> FALSE, at |-> at, out |-> <<>>]

\* The read r, with x for its value.
Yield(r, x) == IF r.ok THEN [r EXCEPT !.out = x] ELSE r

\* Readers one after the other, up to each; the first that throws ends them.
Turns(readers, at) ==
  LET after[i \in 0 .. Len(readers)] ==
        IF i = 0 THEN Read(<<>>, at)
        ELSE LET r == after[i - 1]
                 e == readers[i][r.at]
             IN  IF r.ok THEN Yield(e, Append(r.out, e.out)) ELSE r
  IN  after

InTurn(readers, at) == Turns(readers, at)[Len(readers)]

\* The struct with these values for its fields.
Object(list, values) == [name \in Names(list) |-> values[Position(list, name)]]

\* The map with these entries; of two with one key, the later counts.
Entries(pairs) ==
  [key \in {p[1] : p \in Range(pairs)} |->
     LET at == {i \in DOMAIN pairs : pairs[i][1] = key}
     IN  pairs[CHOOSE i \in at : \A j \in at : j <= i][2]]

Company(p) == [companyId |-> p[1], data |-> p[2]]

(***************************************************************************)
(* GlazeCodec and its _Reader, on a view: a part of a buffer.              *)
(***************************************************************************)
\* Faulty variant: nothing but the end of the buffer stops a read.
Bytes_unchecked(v, at, n) ==
  IF v.base + at + n <= Len(v.buffer)
  THEN Read(SubSeq(v.buffer, v.base + at + 1, v.base + at + n), at + n)
  ELSE Thrown(at)

\* _checkBounds and the read itself, which is relative to where the view begins.
Bytes(v, at, n) ==
  IF at + n <= v.length
  THEN Read(SubSeq(v.buffer, v.base + at + 1, v.base + at + n), at + n)
  ELSE Thrown(at)

Unsigned16(b) == b[1] + Base * b[2]
Unsigned32(b) == Unsigned16(b) + Short * (b[3] + Base * b[4])

\* Faulty variant: read as unsigned.
Signed_not(b) == Unsigned16(b)

Signed(b) == LET n == Unsigned16(b) IN IF 2 * n < Short THEN n ELSE n - Short

readBool(v, at)   == LET r == Bytes(v, at, 1) IN Yield(r, r.out[1] # 0)
readInt16(v, at)  == LET r == Bytes(v, at, 2) IN Yield(r, Signed(r.out))
readUint16(v, at) == LET r == Bytes(v, at, 2) IN Yield(r, Unsigned16(r.out))
readUint32(v, at) == LET r == Bytes(v, at, 4) IN Yield(r, Unsigned32(r.out))

readBlob(v, at) == LET n == readUint32(v, at) IN IF n.ok THEN Bytes(v, n.at, n.out) ELSE n

\* A count, and as many elements.
readMany(v, at, element) ==
  LET count == readUint32(v, at)
  IN  IF count.ok THEN InTurn([i \in 1 .. count.out |-> element], count.at) ELSE count

\* What was read, and the bytes that follow.
readPair(v, one) ==
  LET two == readBlob(v, one.at)
  IN  IF one.ok THEN Yield(two, <<one.out, two.out>>) ELSE one

readCompany(v, at) == LET r == readPair(v, readUint16(v, at)) IN Yield(r, Company(r.out))

readField(type, v, at) ==
  CASE type = "bool" -> readBool(v, at)
    [] type = "i16"  -> readInt16(v, at)
    [] type = "u16"  -> readUint16(v, at)
    [] type = "u32"  -> readUint32(v, at)
    [] type \in {"str", "bytes"} -> readBlob(v, at)
    [] type = "strs" -> readMany(v, at, [o \in Nat |-> readBlob(v, o)])
    [] type = "mfrs" -> readMany(v, at, [o \in Nat |-> readCompany(v, o)])
    [] type = "map"  -> LET r == readMany(v, at, [o \in Nat |-> readPair(v, readBlob(v, o))])
                        IN  Yield(r, Entries(r.out))

\* The fields of list, one after the other, from an offset on.
decode(list, v, offset) ==
  LET r == InTurn([i \in DOMAIN list |-> [o \in Nat |-> readField(list[i][2], v, o)]], offset)
  IN  Yield(r, Object(list, r.out))

(***************************************************************************)
(* glz::decode, which the native tests read a message with: no bounds are  *)
(* checked, so it is given whole messages only.                            *)
(***************************************************************************)
read_bytes(b, offset, n) == Read(SubSeq(b, offset + 1, offset + n), offset + n)

Integer16(b, offset) == LET r == read_bytes(b, offset, 2) IN Yield(r, Unsigned16(r.out))
Integer32(b, offset) == LET r == read_bytes(b, offset, 4) IN Yield(r, Unsigned32(r.out))

\* Faulty variant: the offset past the length, not past the bytes.
Sized_short(b, offset) ==
  LET n == Integer32(b, offset) IN [read_bytes(b, n.at, n.out) EXCEPT !.at = n.at]

Sized(b, offset) == LET n == Integer32(b, offset) IN read_bytes(b, n.at, n.out)

Pair(b, first) == LET second == Sized(b, first.at) IN Yield(second, <<first.out, second.out>>)

Entry(b, offset) == LET r == Pair(b, Integer16(b, offset)) IN Yield(r, Company(r.out))

\* As many as the count says.
Elements(b, offset, element) ==
  LET n == Integer32(b, offset) IN InTurn([i \in 1 .. n.out |-> element], n.at)

decode_field(type, b, offset) ==
  CASE type = "bool" -> Read(b[offset + 1] # 0, offset + 1)
    [] type = "i16"  -> LET r == read_bytes(b, offset, 2) IN Yield(r, Signed(r.out))
    [] type = "u16"  -> Integer16(b, offset)
    [] type = "u32"  -> Integer32(b, offset)
    [] type \in {"str", "bytes"} -> Sized(b, offset)
    [] type = "strs" -> Elements(b, offset, [o \in Nat |-> Sized(b, o)])
    [] type = "mfrs" -> Elements(b, offset, [o \in Nat |-> Entry(b, o)])
    [] type = "map"  -> LET r == Elements(b, offset, [o \in Nat |-> Pair(b, Sized(b, o))])
                        IN  Yield(r, Entries(r.out))

decode_struct(list, b, offset) ==
  LET r == InTurn([i \in DOMAIN list |-> [o \in Nat |-> decode_field(list[i][2], b, o)]], offset)
  IN  Yield(r, Object(list, r.out))

(***************************************************************************)
(* A message is posted, arrives and is decoded.  The decoder must cope     *)
(* with a view of a part of a buffer, and with one that is too short.      *)
(***************************************************************************)
\* The structs that are posted: those with up to two neighbouring fields that do
\* not have the first value of their type.
Struct(list) ==
  LET first     == [i \in DOMAIN list |-> Sample(list[i][2])[1]]
      values(i) == Range(Sample(list[i][2]))
  IN  UNION {{Object(list, [first EXCEPT ![i] = a, ![i + 1] = b]) :
               a \in values(i), b \in values(i + 1)} : i \in 1 .. Len(list) - 1}

Nothing == <<>>

Init == tag = 0 /\ sent = Nothing /\ view = Nothing /\ got = Nothing

Message == <<tag>> \o encode_struct(fields[Encoded[tag]], sent)

post_glaze(t) ==
  /\ tag = 0
  /\ tag' = t
  /\ sent' \in Struct(fields[Encoded[t]])
  /\ UNCHANGED <<view, got>>

Arrive ==
  /\ tag # 0 /\ view = Nothing
  /\ \E before \in Padding, n \in 1 .. Len(Message) :
       view' = [buffer |-> [i \in 1 .. before |-> 1] \o Message, base |-> before, length |-> n]
  /\ UNCHANGED <<tag, sent, got>>

Receive(types) ==
  /\ view # Nothing /\ got = Nothing
  /\ tag \in DOMAIN types
  /\ got' = decode(reads[types[tag]], view, 1)
  /\ UNCHANGED <<tag, sent, view>>

OnEvent  == Receive(EventType)
OnResult == Receive(ResultType)

Next == \/ \E t \in DOMAIN Encoded : post_glaze(t)
        \/ Arrive
        \/ OnEvent \/ OnResult

Spec == Init /\ [][Next]_vars

-----------------------------------------------------------------------------
Whole == view.length = Len(Message)

\* A message that arrives whole is decoded to the struct that was encoded, and to
\* its last byte.
RoundTrip == got # Nothing /\ Whole =>
               got.ok /\ got.out = sent /\ got.at = view.length

\* The native decoder reads the same bytes as the same struct, to the last byte:
\* what the native tests check is what Dart sees.
NativeDecodeAgrees ==
  tag # 0 /\ view = Nothing =>
    decode_struct(fields[Encoded[tag]], Message, 1) = Read(sent, Len(Message))

\* One that does not is never mistaken for another: some read throws.
TruncationThrows == got # Nothing /\ ~ Whole => ~ got.ok
=============================================================================
