# A TLA+ model of bluez_native_comms

`bluez_native_comms` is a Bluetooth client for Dart on Linux.  A native library
(C++, sdbus-c++) mirrors the object tree of BlueZ's daemon `bluetoothd` and
posts every change to a Dart isolate, where `BlueZClient` keeps a tree of Dart
objects.  The value of the library is that the Dart tree follows the daemon's,
with two threads, two locks, two queues and a snapshot in between.  That is what
this project is about.

## 1. Inventory

| Part | Code | State | Operations | Hard because |
|---|---|---|---|---|
| ObjectManager | `native/src/object_manager.cpp` | `notify_proxies_`, `device_proxies_`, `adapter_proxies_` (live matches) behind `proxies_mutex_`, the events port | `get_managed_objects`, `on_interfaces_added`, `on_interfaces_removed`, `subscribe_*`, `unsubscribe_char_notify`, PropertiesChanged callbacks | signals sent before the snapshot are replayed after it; posting precedes subscribing; handlers run with the connection held |
| Client context | `native/src/bluez_bridge.cpp` | connection, event loop thread | `bluez_client_create`, `bluez_client_destroy`, one entry point per call | order of snapshot, sentinel and event loop; failure half way; destruction while a handler runs |
| GATT bridge | `native/src/gatt_bridge.cpp` | none of its own | read, write, start and stop notify | runs on the isolate's thread while the event loop delivers; four places that answer |
| Device bridge | `native/src/device_bridge.cpp` | a proxy kept alive by its own callback | connect, disconnect, pair (asynchronous), cancel, set property | reply and property change are posted from two callbacks to two ports |
| Adapter bridge | `native/src/adapter_bridge.cpp` | none | discovery, filter, set property, remove device | blocking; errors are only printed |
| BlueZClient | `lib/src/bluez_client.dart` | `_handle`, `_connected`, `_initialSnapshotDone`, `_eventsPort`, `_adapters`, `_devices`, three stream controllers | `connect`, `close`, `_onEvent` | overlapping callers; steps between awaits |
| BlueZDevice, BlueZAdapter, GATT objects | `lib/src/bluez_*.dart` | `_props`, the maps of services, characteristics and descriptors, value streams | `updateProps`, `addService`, `addCharacteristic`, `addDescriptor`, `postValue`, the calls | partial updates by change bits; objects replaced under their users |
| Property extraction | `native/src/object_manager.cpp`, `bluez_types.h`, `lib/src/ffi/types.dart` | none | `extract_*_props`, partial structs with `changedMask` | change bits numbered by hand in two languages |
| Wire codec | `native/include/glaze_meta.h`, `bluez_types.h`, `lib/src/ffi/codec.dart` | none | encode, decode | hand-written sides must agree on order and width |
| FFI bindings, loader, value types, vendored Dart API | `lib/src/ffi/bindings.dart`, `lib/src/internal`, `native/include/dart_*` | the loaded library | marshalling | - |

The threads: the event loop thread of sdbus runs the signal handlers and the
reply callbacks; the isolate's thread runs Dart code and, inside an FFI call,
native code.  Native code reaches Dart only through `Dart_PostCObject_DL`, which
appends to the isolate's message queue.  The two threads share the maps of
proxies, under `proxies_mutex_`, and the sdbus connection, which has a recursive
lock of its own.  Outside the process, `bluetoothd` may die and start again.

What makes each part correct: the client's devices become the daemon's
(ObjectManager with BlueZClient); a cached property is wrong only where the code
cannot know better; each GATT object hangs under its current parent; a stream
delivers what its match covered and nothing after `stopNotify()`; `connect()`
returns on a complete snapshot; every call is answered, once; the two threads
neither race nor block each other; no native context leaks or is deleted under
a running handler; a value means the same on both sides of the wire.
`PROJECT.json` lists the hazards by line.

## 2. Modules

```
BlueZDaemon         bluetoothd and the bus (external)
  ObjectManager     the native library
    BlueZClient     _onEvent and the Dart objects
      Bridge        all of it together; properties
        BridgeInvariant   why the device lists agree; the mapping to Mirror
          MCBridge        object trees for TLC
          BridgeProofs    types, the invariant, convergence, the refinement
            ValueProofs   caches, streams, and nothing after stopNotify()
              TreeProofs  the GATT maps and the snapshot
Mirror              what the client promises of its device list (abstract)
QueueOutcome, QueueOutcomeProofs   what a queue of messages does: who has the
                                   last word, what follows what, how many
ClientLifecycle     connect() and close() of one client, many callers
  MCLifecycle
  ClientLifecycleProofs
DeviceCalls         the calls of a BlueZDevice and their results
  MCDeviceCalls
  DeviceCallsProofs
CallPromise         what a call promises its caller (abstract)
EntryPoints         the exported functions, the event loop and the locks
  EntryPointsProofs
WireCodec           the bytes of a message
  PropertyUpdates   from a D-Bus dictionary to _props and back to the listener
    MCWireCodec
    CodecProofs       the codec, and what goes through it
```

**BlueZDaemon** is not code of the repository.  It is modelled from what
`object_manager.cpp` assumes: a tree of objects (`present`), property values
(`truth`), and one FIFO `wire` of signals per client connection.  A value is the
stamp of the event that set it, so two values are equal only if nothing changed
in between.  Properties are split as `bluez_types.h` splits them: `Tracked` ones
have a change bit, `Untracked` ones have none.  A path is a number; a number
stands for the position of the path string in lexicographic order, which is
the order `std::map` visits the reply of GetManagedObjects in.  A parent
has a smaller number because its path is a prefix.  Each object carries one of
the five interfaces.  `Crash` is the death of the daemon: all objects go without
a signal, and a new daemon takes the same name, so the matches stay good.

**ObjectManager** has one operator per C++ function, under the function's name,
and one action per step another thread can interleave with:
`Construct`, `get_managed_objects` (the reply), `PostObject` (one turn of the
loop), `FinishCreate` (sentinel, then event loop), `CreateFails`,
`bluez_client_destroy`, four `Dispatch...` actions of the event loop, and the
start/stop-notify calls in three steps each (method call, change of the proxies,
post).  Instead of a step there may be an error that is posted (`GattCallFails`), one
that is only printed, since the bridge object could not be built
(`GattCallUnbuilt`), or the end of both threads (`GattCallBlocks`): the call holds
`proxies_mutex_` and needs the connection for a match, while the handler of the
signal at the head of `wire` holds the connection and waits for `proxies_mutex_`.
From then on (`Blocked`) neither thread takes a step.  `after[p]` is when the match for `p` was installed: sd-bus gives a
message only to matches installed before the message was read, so a change sent
earlier may be dropped (`DispatchUnmatched`) or may still arrive
(`DispatchChanged`).  A synchronous D-Bus call holds
the connection, so its reply is one step.

**BlueZClient** has one action per case of `_onEvent`, each consuming the head
of `port`.  Results of start/stop-notify come on ports of their own in the code;
here they share the one queue, since the isolate handles messages of all its
ports in the order of posting.  `cache` is `_props` of the object now filed
under a path; `linked` says which GATT objects their current parent lists.

**Bridge** composes the three, with the interleavings of daemon, event loop,
isolate and user, and adds history variables that no action reads as a guard,
except `unanswered`, which bounds the calls: `gap` (changes that no match
covered), `stopped` (characteristics whose `stopNotify()` was answered),
`unanswered` (Futures pending), `lost` (those of them that nobody will answer),
`ghosts` (devices that went in a crash while the
client was listening).  The library watches neither the owner of `org.bluez` nor
anything else that would tell it of a crash; a ghost stays listed until the new
daemon announces that path again, or removes it.

**Mirror** says what the client promises about `devices` with no thread and no
queue in it: the list follows the daemon's set one device at a time (`Learn`),
and the last thing learnt about a device is right.  `BridgeInvariant` maps the
bridge to it: `there` is the daemon's devices, `view` the client's, and `behind`
the devices with a signal on the wire, a place in the reply not yet posted, or a
message in the isolate's queue (`UnderWay`).  Mirror's `Start` is the reply of
GetManagedObjects: from then on the list, empty so far, may be wrong only about
devices that something is under way about.

**ClientLifecycle** is separate, because what it is about - several tasks
overlapping in `connect()` and `close()` of one client - does not depend on what
the messages say.  A task's step runs to its next `await`.

**DeviceCalls** follows one device and any number of callers, because what is
hard here is one caller's wait against one object's changes.  `Begin` is the
part of a call up to its first `await`; `call_device_method_async` is the native
part of `connect()`, `disconnect()` and `pair()`; `Answer` is the daemon's reply
(or the time-out), which travels on `wire` behind the signals sent before it;
`DispatchReply` is the callback that posts it; `OnResult` is `_awaitResult` and
the look at the flag; `Wake` is the `propertiesChanged` event, which fires only
if the update changed something.  A new `DeviceAdded` makes a new object
(`current`), and a caller may hold an old one.  `lost` and `said` are history:
the flags whose last change no match covered, and what the daemon's state was
at each reply.  `close()` closes the events port, and the isolate drops what it
finds queued for it (`OnClosedPort`); the results have ports of their own.

**CallPromise** is a call as its caller may see it: asked, decided once by the
daemon, known to the caller, who throws or goes on as his object demands.
`DeviceCalls` maps `pc` to `state`, the results in its two queues to `verdicts`,
and the callers whose object shows the awaited flag to `shown`.  What lies
between, the connection, the event loop, the callbacks and the ports, is not there.

**EntryPoints** takes the sixteen exported functions that make a D-Bus call, and
`bluez_client_destroy`, apart at every point where a lock is taken or given back,
against the event loop.  `at` is where the isolate's thread is and `loop` where
the loop thread is; `conn` and `mutex` are the holders of the two locks.  One
object of each kind is enough, since no lock depends on the path.  The
connection's lock is external: it is that of sdbus-c++ 2, which the loop holds
while it dispatches a message, a blocking call until its reply, and `uponSignal`
and the destruction of a proxy while a match is added or removed.  `Bridge` has no
locks, but it has what they can come to, the one step `GattCallBlocks`;
`DeadlockOnlyInNotify` here shows, lock by lock, that this is the only place for it.

**WireCodec** has the two field lists as data (`fields` from `bluez_types.h`,
`reads` from `codec.dart`), the encoder and decoder of `glaze_meta.h` and the
`_Reader` of `codec.dart` with its bounds check and its offset within a larger
buffer.  Widths in bytes are those of the code; how many values a byte has is a
constant, so that the edges of a 32-bit number are within reach of the checker.
A string is the sequence of its UTF-8 bytes.  A read is a record (`Read`,
`Thrown`): what was read, the offset after it and whether it threw.  A reader is a
function from offsets to reads, and `InTurn` is the one place where readers follow
one another: the fields of a struct, the elements of a vector, the entries of a
map.  It is a recursive function and not an operator, so that it can be proved
about.

**PropertyUpdates** follows one object of any kind from the dictionary of a
D-Bus signal, through `extract_*_props` or the partial struct of a
PropertiesChanged callback, through the bytes of `WireCodec`, to `updateProps`
and `propertiesChanged`.  `NativeBits` and `DartBits` are the two hand-numbered
lists of change bits.  A signal changes and
invalidates the properties of one of the sets in `Signals`, with their bits or-ed
into one mask.  `stale` is history: the fields whose last value no message has
brought.

Names with a suffix after the name of another definition
(`on_interfaces_removed_keeping`, `FinishCreate_silent`, ...) are faulty variants
of that definition, one plausible bug each.  No specification uses them; put in
the place of the original they show that a property can fail (`mutants` in
`PROJECT.json` pairs them up).

## 3. What the runs show

| Run | Instance | Checks |
|---|---|---|
| `mirror` | adapter and device, 2 tracked properties and 1 untracked, 3 events after the start, crashes among them | `DevicesInv`, `DevicesConverge`: with both queues empty, `_devices` is exactly the daemon's set and the ghosts, although additions and removals older than the snapshot are replayed after it; `ImplementsMirror`: every step is one of Mirror, or a stutter; `CacheLagsOnlyInGap`: a cached tracked property is stale only if no match covered its last change; `SnapshotBeforeReady`: `connect()` returns with exactly the snapshot; `TypeOK` |
| `gatt` | device, service, characteristic, descriptor, 3 events, 1 pending call | `GattComplete`: every GATT object of a known device is in its maps and in its current parent's list; `NotifyDelivers`: the stream carries the last value its match covered; `QuietAfterStop`: and nothing once `stopNotify()` has been answered |
| `live` | device, service, characteristic, 2 events, fair threads | `ConnectAnswers`: `connect()` answers, `CallsAnswered`: so does each `startNotify()` and `stopNotify()` but those whose bridge object could not be built, `DevicesEventuallyCurrent`: the device list becomes the daemon's; each unless `close()` comes first, or a notification call and a handler block each other |
| `lifecycle` | 3 callers, 2 contexts, 2 queued events | `NoLeak`, `EventsNeedHandle`, `ConnectCompletes` |
| `calls` | 2 callers, 3 changes of the device | `RepliesInOrder`: when a result is handled, the current object shows the state the daemon replied in; `NoMissedWakeup`: nobody waits for what is already so; `AnsweredOnce`: a pending call's answer is in exactly one place; `ReturnsAsPromised`: `connect()` returns on an object that is connected; `ImplementsPromise`: each caller learns the daemon's verdict on its own call, and no other |
| `calls_live` | 1 caller, 3 changes, fair threads | `CallsReturn`, `EventuallyWoken` |
| `entry` | 2 calls of any of 16 functions, destroy, 1 signal, fair threads | `NoMapRace`: the threads are never both inside the maps; `AnswersOnce`: a port gets one answer, a function without a port none; `QuietAfterDestroy`: the context is deleted when nobody is left in it; `DeadlockOnlyInNotify`: where the threads can block each other, and nowhere else; `EntryPointsReturn`, `PortsAnswered`: apart from that, every function returns and every port is answered |
| `wire` | a byte of 4 values, pairs of neighbouring fields at the edges of their width, every length of the view, two offsets in the buffer; objects of every kind with one property missing or extreme, then 2 more signals about one property, two, or an invalidated one | `RoundTrip`: what is encoded is decoded, to the last byte; `TruncationThrows`: a message cut short is never taken for another; `NativeDecodeAgrees`: `glz::decode` reads what `GlazeCodec` reads; `CacheExact`: every field has the daemon's value unless it is `stale`, and no message disturbs another field; `ReportsExact`: `propertiesChanged` names exactly the fields that the message brought and that differ from what the object showed, and none that is `stale` |

Four more runs find a disagreement of the code with its documentation:

| Run | What the code does |
|---|---|
| `removals_posted` | An adapter that disappears is never reported (`object_manager.cpp:92-94`), nor is a characteristic |
| `reconnect` | `connect()` after `close()` returns without connecting |
| `result_after_close` | A `connect()`, `disconnect()` or `pair()` pending at `close()` never completes: its reply has nowhere to arrive |
| `lock_order` | `startNotify()` holds `proxies_mutex_` and waits for the connection, while a handler of InterfacesAdded holds the connection and waits for `proxies_mutex_`: neither thread goes on, and nothing is ever posted (`object_manager.cpp:110`); `stopNotify()` likewise |

Read while modelling, and plain enough to need no run:

* `deviceAdded` fires a second time, with a new object, for a device that
  appeared while `connect()` was under way: its replayed InterfacesAdded is
  handled as a new device (`bluez_client.dart:149`).
* `propertiesChanged` is documented to fire "when any device property changes"
  (`bluez_device.dart:25-26`).  It fires for the eight properties with a change bit
  and for nothing else (`object_manager.cpp:158-198`): a new TxPower, UUIDs or
  ManufacturerData sets no bit, and an RSSI that is invalidated is not looked at.
  These changes reach neither the object nor its listener; `ReportsExact` says so:
  such a field is `stale`, and not named.
* When the `GattCharBridge` cannot be built, `bluez_char_start_notify` and
  `bluez_char_stop_notify` print the error and post nothing (`bluez_bridge.cpp:238`,
  `250`), while `gatt_bridge.h:42` and `46` promise 0x20 on failure: the Future is
  pending for ever.  `CallsAnswered` counts these calls in `lost`.
* `startNotify()` on a characteristic that is known before the sentinel has been
  handled may meet the deadlock of `lock_order`; then `connect()` does not return
  either (`ConnectAnswers`).
* `cachedValue` never changes after the characteristic appeared, although it is
  documented as the last known value (`bluez_gatt_characteristic.dart:41`).
* A second `connect()` made while the first waits returns before there is a
  snapshot; `close()` before `connect()` leaves a client that connects and whose
  streams are closed.
* `test/codec_test.dart:50-51` encodes an adapter without the `changedMask` that
  `bluez_types.h` and `codec.dart` agree on.
* Errors of adapter operations and property setters are printed
  (`bluez_bridge.cpp:83`), while `README.md:195` speaks of exceptions.
* `README.md:16` and `README.md:124` offer a discovery filter; the bytes that
  `bindings.dart:70-76` passes are not read, and an empty filter is set
  (`bluez_bridge.cpp:106-113`).
* `README.md:13` and `README.md:164` speak of zero-copy external typed data;
  messages are posted as `Dart_CObject_kTypedData`, which is copied.
* `bluez_device.dart:145` says that every field is taken when the mask is `~0`;
  `updateProps` takes the fields that have a bit, which is why an adapter that
  comes back keeps the old address and UUIDs.

**Bounds.**  `MaxStamp` bounds daemon events.  Three events after the start are
enough for an object to come, go and come back around the snapshot, for a
change on either side of a removal, or for a crash between two appearances.  The
argument about queues concerns one
path at a time; that paths do not disturb each other is what the proof adds.
`MaxPending`
bounds pending notification calls: the isolate makes them one at a time, so a
second pending call only adds results in the queue; with one, `unanswered` in
`CallsAnswered` is this very call and not an endless relay of calls.  `MaxCreated` = 2 allows a
second context after a first, `MaxQueue` = 2 an event behind a sentinel.
Three changes of the device in `DeviceCalls` (`MaxEvents`) allow a change while
its object is
being replaced; two callers show that answers do not go to the wrong one, and
callers are interchangeable, which the safety run uses as a symmetry.  Liveness
concerns one caller at a time.  In `EntryPoints`, `MaxCalls` = 2 lets a reply
arrive during another call and lets `stopNotify()` follow `startNotify()`, and
`MaxSignals` = 1 puts one handler against every step of them; two handlers never
overlap, as there is one loop thread.  The proofs drop both bounds for safety.
In `WireCodec` two neighbouring fields are
enough, since a field is encoded and read without regard to any other but where
the one before it ended, and the proofs take whole structs; in `PropertyUpdates`, `MaxUpdates` = 2 allows a change
or an invalidation and its change back, or a reappearance after a change; a signal
about two properties takes those whose bits are next to each other, where a bit set
wrongly would fall on the other, and one with a bit and one without.
Deadlock is not checked: when the daemon has used up its events and the user is
silent, nothing has to happen.  Where threads can really block each other,
`Deadlocked` says so as a state predicate.

**Fairness.**  Weak fairness on the continuation of `bluez_client_create`, on
the event loop, on the continuation of a GATT call and on the isolate's message
handling: each is a thread that runs whenever it can, and a D-Bus call returns or
times out.  That a thread waits for a lock for ever is not assumed away: it is the step
`GattCallBlocks`, after which neither thread has a step left, and the properties of
`live` name it as their exception.  None on the daemon, on `Connect`, on the user's calls or on
`Close`.  In `ClientLifecycle` the isolate handles its messages and resumes its
tasks; nobody has to call anything.  In `DeviceCalls` the daemon answers every
call, since sd-bus reports an error to the callback when it does not; it never
has to change anything.  No notification call is among these calls, and without one
the threads cannot block each other (`DeadlockOnlyInNotify`).  In `EntryPoints` both threads are scheduled
(`WF_vars(GoesOn)`, `WF_vars(LoopGoesOn)`) and a blocking call ends; the signals
are bounded, so the isolate competes with finitely many of them for the
connection.  With an endless stream of signals weak fairness would not be enough
to get the connection, and the properties would rest on the fairness of the
connection's lock, which the code does not control.

## 4. What is proved

Every theorem holds for all values of the constants that satisfy the named
assumptions in the modules: `PathAssumption`, `TreeAssumption`,
`FieldAssumption`, `BoundAssumption` and `PendingAssumption` of the bridge,
`BoundsAssumption` of `EntryPoints` and `EventsAssumption` of `DeviceCalls`;
`BaseAssumption`, `PaddingAssumption` and `SampleAssumption` of `WireCodec` and
`SignalsAssumption` of `PropertyUpdates`, which says that a signal is about fields of
the struct.
`SampleAssumption` lets a field be any value its C++ type can hold, with sizes
below 2^32, which a count of four bytes can say; a byte must have a multiple of
four values, as 256 is, for a mask to have its eight bits.
That of `ClientLifecycle` is not needed, and callers may be any set.

| Module | Theorem | States |
|---|---|---|
| `BridgeProofs` | `TypeCorrect` | `Spec => []TypeOK` |
| | `InvariantHolds` | `Spec => []DevicesInv` |
| | `DevicesConverged` | `Spec => []DevicesConverge` |
| | `MirrorImplemented` | `Spec => ImplementsMirror` |
| | `AlwaysFaithful` | `Spec => []Abstract!Faithful` |
| `ValueProofs` | `StopsForGood` | `Spec => []QuietAfterStop` |
| | `CacheKept` | `Spec => []CacheLagsOnlyInGap` |
| | `NotificationsArrive` | `Spec => []NotifyDelivers` |
| `TreeProofs` | `GattIsComplete` | `Spec => []GattComplete` |
| | `SnapshotComplete` | `Spec => SnapshotBeforeReady` |
| `DeviceCallsProofs` | `NeverWaitsInVain` | `Spec => []NoMissedWakeup` |
| | `ReturnsKeepPromise` | `Spec => ReturnsAsPromised` |
| | `AnswersInOnePlace` | `Spec => []AnsweredOnce` |
| | `RepliesKeepOrder` | `Spec => []RepliesInOrder` |
| | `PromiseImplemented` | `Spec => ImplementsPromise` |
| | `AlwaysKept` | `Spec => []Promise!Kept` |
| `EntryPointsProofs` | `NoRace`, `OneAnswer`, `DestroyIsQuiet`, `OnlyDeadlock` | `Spec => []P` for the four invariants of `entry` |
| `ClientLifecycleProofs` | `LeaksNothing` | `Spec => []NoLeak` |
| | `EventsHaveHandle` | `Spec => EventsNeedHandle` |
| `CodecProofs` | `RoundTripHolds`, `TruncationThrowsHolds`, `NativeDecodeAgreesHolds` | `Spec => []P` for the three invariants of `WireCodec` |
| | `UpdatesRunCodec` | `UpdatesSpec => Spec`: the three hold of the run's specification |
| | `CacheExactHolds` | `UpdatesSpec => []CacheExact` |
| | `ReportsExactHolds` | `UpdatesSpec => ReportsExact` |

**The device lists.**  The point of `TypeCorrect` is the type of `port`: a
message about a path of the wrong kind is not a `Message`.  `DevicesConverge`
says nothing while a queue is not empty, so it needs an inductive invariant.
Between the daemon's tree and `_devices` lie two
queues with `device_proxies_` in the middle.  `Outcome(q, A, R, x, S)` says
whether `x`, in `S` now or not, will be in it when queue `q` has been handled.
`DevicesInv` says, with `Announced` for the devices that exist and the ghosts:

* `WireAgrees`: the signals on the wire lead from the subscribed devices (and
  those of the reply not yet posted) to the announced ones;
* `PortAgrees`: the isolate's messages lead from `_devices` to the subscribed
  devices;
* `QueueAgrees`: between the installation of the root match and the snapshot,
  the queue leads from the announced set to itself, which is why replaying it on
  the snapshot is harmless;
* `CleanInv`: nothing is left over from a connection that failed or was closed.

`QueueOutcomeProofs` proves how `Outcome` changes when a message is appended or
taken off, and each action is one of these two for one of the queues.

**The refinement.**  `BridgeProofs` takes each action of the bridge to a step of
`Mirror` under the mapping of `BridgeInvariant`: the daemon's steps to `Appear`,
`Vanish` or `Crash`, the isolate's `OnDeviceAdded` and `OnDeviceRemoved` to
`Learn`, the reply of GetManagedObjects to `Start`, a failure and `close()`
to `Stop`, the rest to stutters.  The step that needs the invariant is `Learn` of
the last message about a device, which must be right: `Settled` gets that from
`WireAgrees` and `PortAgrees` when both queues have nothing more about it.
`AlwaysFaithful` is what a user of `devices` may rely on at any moment, and not
only when the queues are empty.

**Values.**  `CacheLagsOnlyInGap` and `NotifyDelivers` speak of the moment when
everything has been handled; `ValueInv` (`ValueProofs`) says where a value is
before.  `Owed(p, f, v)`: the object exists, the property has the value `v` and
its last change is not in `gap`.  Then (`ValuesAgree`) the last signal on the wire
that says something about it, and is sure to be handed on, says `v`; or there is
none and the reply still to be posted has `v`, or else the isolate's queue leads
to an object that shows it.  `Prevails` is the notion of a last word that both
queues need: a signal that says `v` counts only if a match hands it on (`Heard`),
one that says otherwise counts always.  What is not obvious is that an object that
the client does not know is harmless: the message that will bring it is already in
one of the queues, because a device match lives as long as the device is announced.
Before the reply there are no matches, so only appearances are on the wire
(`BeforeSnapshot`), and those that differ from the reply are what `Snapshot` puts
in `gap`.  `QuietInv`: a characteristic whose `stopNotify()` was answered has no
match and is not being started, and in the isolate's queue each value of it is
followed by an answer of `stopNotify()`.

**The tree.**  `GattComplete` is endangered by a message that gives a device,
service or characteristic a new object or takes the device away: what was below is
unlinked.  `TreeInv` (`TreeProofs`) says that each object that exists is then
brought back.  Behind a signal about its parent or device (`Over`) comes its own
InterfacesAdded, since an object appears after what it lies under and goes before
it (`WireOrder`); the reply is posted in the order of the paths, parents first
(`ReplyOrder`); in the isolate's queue its message is behind theirs, or it is still
to be posted or dispatched (`PortOrder`); and one that nothing is under way for is
linked (`Complete`).  The proof uses the shape of the tree from `TreeAssumption`
only.

**The snapshot.**  `SnapInv`: until the sentinel is handled, the objects of the
reply are those the client has (`Known`), then those of the messages ahead of the
sentinel, then those still to be posted, each part with the reply's values and all
of it in the order of the paths (`Filling`).  So an object always comes after its
parent and before its children, no handler throws anything away, and with the
sentinel at the head of the queue nothing but `Known` is left.  What the event loop
posts meanwhile is behind the sentinel, because the loop starts after it was posted.

**The calls.**  `WaitInv` adds to `NoMissedWakeup` that an object is handed out
before it is waited on (`Handed`): a new object, which replaces the current one,
is then nobody's yet, and a change touches only the object whose waiters the same
step looks at.  `OnceInv` counts the answers of each call with the daemon, on the
wire and in the port; each step moves one answer from one place to the next, and
`AnswersAppend` and `AnswersTail` say how a queue's count changes.  `InOrder` is
the invariant of values for prefixes of the queues: the messages ahead of a reply
on the wire, with all of the isolate's queue before them, lead the current object
to what the daemon's state was when it replied (`said`), and so do those ahead of a
reply in the isolate's queue (`PortOrder`), where none are left when the reply is
at the head.  `NumberInv` bounds the objects still to be made, so that a message
that makes one finds a number for it.

**What a call promises.**  `Answer` is `Decide`, `OnResult` is `Learn`, `OnChanged`
is `Show`, and the event loop stutters, because it moves results from one queue to
the other and a verdict is in either (`ResultsAppend`, `ResultsTail`).  That `Learn`
takes the verdict away for good needs the count: the result at the head of the port
is the only one of its call.  `OnceInv` says so while the client is open; after
`close()` some calls have an answer left and some do not, and `ClosedInv` says that
none has two.  `Show` lets nobody wait who could return, which is `NoMissedWakeup`
before the step and the condition of `Wake` in it.

**The locks.**  `EntryPointsProofs` rests on `LocksInv`, who holds which lock at
which place of the code; `EventInv` and `CallInv`, what is known of the event and
the call at each place; `AnswersInv`, how many answers a port has before, during
and after its call; and `DestroyInv`, that the thread has ended before anything
is deleted.  `DeadlockOnlyInNotify` is then a matter of `LocksInv`: two threads
that block each other must hold one lock each.

**The life of a client.**  `Held` (`ClientLifecycleProofs`): exactly the context
in `_handle` is alive, and the port is open only while there is one.

**The codec.**  A reader is proved against a writer: `Exact(r, inside, end, x)`
says of a read `r` at a place where the code of `x` lies that it gives `x` and the
offset `end` of the code's last byte, or has thrown when `end` is not among the
offsets `inside` the view.  One notion gives all three theorems: a whole message
ends inside the view (`RoundTrip`), a shorter one does not (`TruncationThrows`), and
for `glz::decode`, which checks no bounds, every offset is inside
(`NativeDecodeAgrees`).  There is one lemma per reader, from `Uint16Exact` to
`FieldExact` and `NativeFieldExact`, and `InTurnExact` for readers in a row.  That
one is an induction over a sequence.  The library's induction theorems take an
operator for what is proved, which the provers here cannot instantiate; `UpTo`
takes a set of numbers instead and gets the step from `Least`, the least element of
what is left, which well-foundedness gives without an operator.  The same argument
shows that the recursive functions are defined at all (`TurnsDefined`,
`FlattenDefined`).  The rest is arithmetic (`Division`, `Unsigned32Exact`,
`SignedExact`: two bytes of a negative number are read as that number), the map
(`EntriesOf`: whatever the order of its keys), and the two field lists being one
(`ListsAgree`).  The invariant, `MessageInv`, says that the struct is one of the
list's and the view holds a beginning of the message.

**Properties.**  With `ReceivedExact`, what arrives in Dart is what was posted, so
`CacheExact` is about masks and names.  `MaskExact`: a mask made of some fields'
bits has just those, for Dart's numbering (`SumOfBits`), and fits its 32 bits;
`AllBitsExact`: `~0u` has all of them.  `KeyedLists`: no two fields of a struct come
from one D-Bus property, and every field but the path and the mask comes from one.
Then a snapshot brings every field (`SnapshotExact`), a partial struct the changed
ones (`PartialExact`, `ChangedTaken`), and `updateProps` leaves the others alone
(`UpdateTakes`).  `CacheInv` is `CacheExact` with the fields the object has.  For
`ReportsExact` a field that the message brings has the daemon's value afterwards by
`CacheInv`, and any other is as it was.

`ValueInv`, `TreeInv`, `SnapInv`, `OrderInv`, `MessageInv` and `CacheInv` were
checked with TLC on the instances of the runs, `ValueInv` for the stamps that occur
there.  With them every safety property that a passing run checks is a theorem.

Only model-checked is every liveness property: neither the leads-to rules with
fairness nor `ENABLED` are within reach of the prover here.

## 5. Not modelled, and assumptions

* sdbus-c++ and sd-bus: a match installed at stamp `t` gets every message sent
  after `t`; a synchronous call does not dispatch signals; the connection's lock
  is recursive and is held as described under `EntryPoints`.
* One interface per path.  BlueZ adds interfaces such as Battery1 to a device;
  the code ignores them.
* A posted message is never lost while the port is open.
* In `EntryPoints` and `DeviceCalls` an object path is valid, so `createProxy` does
  not throw; in `Bridge` it may, in the notification calls (`GattCallUnbuilt`).  The
  value of a property setter is one byte or the setter does nothing, as in the code.
* The wait of `setPowered(true)` for rfkill only delays its call, which may be
  made at any moment anyway.
* No call is made on a client that has been closed: the code does not prevent
  it, and what happens is undefined.
* A wait on an object that was removed or replaced never ends, nor one whose
  change no match covered or was reverted before the isolate saw it.
  `EventuallyWoken` says what remains: a wait on the current object of a device
  that keeps the awaited value ends.
* A property whose D-Bus type is not the expected one is left out of
  `PropertyUpdates`; invalidation is modelled for the two properties that BlueZ
  invalidates when a device goes out of range.
* Refused matches within a handler leave an object without PropertiesChanged for
  good.  `EntryPoints` has the refusal, `Bridge` installs every match.
* `bluez_bridge_init`, which hands the Dart API's table of functions to the
  vendored `Dart_InitializeApiDL` once, the bindings, the loader and the value
  types keep no state that anything depends on.
* The headers `dart_api.h`, `dart_native_api.h` and `dart_api_dl.h` are copied
  from the Dart SDK and are about two thirds of the repository's lines of C and
  C++; they declare what the library calls one function of.  The example
  application and its generated runner use the library and are not part of it.

## 6. Plan

1. (done) The mirror: daemon, ObjectManager, client, lifecycle; type
   correctness and convergence of the devices proved.
2. (done) `DeviceCalls`: calls, results and waits; `WireCodec`: round trip and
   bounds.
3. (done) A daemon that dies; `Mirror` and the refinement, checked and proved.
4. (done) `EntryPoints`: the two locks, checked, and its safety proved.
5. (done) `PropertyUpdates`: extraction, change bits and updates.
6. (done) Proofs of `QuietAfterStop`, `NoLeak`, `EventsNeedHandle` and
   `AnsweredOnce`.
7. (done) Proofs of `RepliesInOrder`, `CacheLagsOnlyInGap`, `NotifyDelivers`,
   `GattComplete` and `SnapshotBeforeReady`.
8. (done) The codec, `CacheExact` and `ReportsExact` proved, by induction over a
   message's fields and elements.
9. (done) `CallPromise` and the refinement, checked and proved.
10. Matches that are refused in `Bridge`.
