# Verification of the Nubia SM8650 common device tree

TLA+ models of the programs in this repository that keep state across calls,
threads and messages: model-checked with TLC on small instances, and partly
proved with TLAPS for every value of the constants. Paths below are relative to
the root of the repository. Nothing under `src/` has tests; the references for
what the code should do are the code, its comments and header documentation,
`README.md` and `README_BATTERY.md`.

1. [The system](#the-system)
2. [The modules](#the-modules): what each models and how it corresponds to the code
3. [Runs, bounds and fairness](#runs-bounds-and-fairness)
4. [What is proved](#what-is-proved)
5. [Where the code breaks its promises](#where-the-code-breaks-its-promises)
6. [What is not modelled](#what-is-not-modelled)
7. [Plan](#plan)

## The system

The repository holds the Qualcomm GNSS HAL (`gps/`, by far the largest part),
the fingerprint HAL (`fingerprint/`), a sensors sub-HAL (`sensors/`), a settings
application (`parts/`), a few one-file services and configuration data.

| Component | State | Operations | Talks to | Hard because | Correct when |
|---|---|---|---|---|---|
| AGPS manager, `gps/gnss/Agps.cpp` | per nif: state, subscriber list with inactive marks, type, APN | requestATL, releaseATL, data connection opened/failed/closed, PDN answer | modem (LocApi), AGnss client by commands and callbacks, `NativeAgpsHandler`, WDS library | messages of five threads in any order, several users of one connection, a client that dies | every request is answered once, a connection is held while it has users and only then |
| Tracking, `gps/gnss/GnssAdapter.cpp` | two maps of sessions, pending messages, engine-known flag, power state | start/update/stop tracking, remove client, engine up, lock, power | clients through `LocationAPI`, modem through `LocApi` requests with callbacks | requests are computed from maps that change before they are answered; modem restarts, refusals, lock, suspend | what clients were told, what the maps hold and what the modem runs agree |
| ODCPI, `gps/gnss/GnssAdapter.cpp` | state mask, last request, timer, who is registered | request of the modem, injection, timer, registration, engine up, power | modem, framework and other providers by callbacks, `LocTimer` | a timer that meets an injection, a stop or a restart | the framework looks for a position while the modem wants one, and not longer |
| GNSS configuration, `gps/gnss/GnssAdapter.cpp` | cached configuration, lock, lists of satellites, constellations of two sources, modes, pending commands | configuration commands of the control client, enable and disable, other users of positions, write-back after a restart | LocApi (which writes part of the state on its own thread), AIDL service, XTRA, control clients | commands before the engine is up, restarts while commands are under way, errors matched by position, three numberings of satellites | each id of a command is answered once, the modem has what was asked last and has it again after a restart |
| NI, `gps/gnss/GnssAdapter.cpp` | NI session with timer threads | notify, answer, timeout | LocApi, framework | a timeout that meets an answer | one answer per notification |
| Location clients, `gps/location/` | client tables, destroy table, the adapters' client tables, event masks, capabilities | create, destroy, update callbacks, capability reports | adapters (messages), LocApi (open) | destruction waits for three adapters; capabilities are unknown until the modem is open | adapters, LocApi and modem know what every client gave; a destroyed client's object is deleted once, after the last adapter let go |
| Geofences, `gps/geofence/` and its clients | geofences by hardware id, hardware ids by client and session, request queue, ids of the framework | add, remove, pause, resume, modify, breach, engine up, power, remove client | framework (AIDL), LocApi, `LocationAPIClientBase` | two round trips for each item; restarts replace hardware ids; answers of an earlier modem; responses told apart by order | the maps are inverse, the modem has what they hold and what the framework was told |
| Batching, `gps/batching/` and its clients | sessions, trips with distances covered, pending messages, request queue, ids of the client | start/stop/update, flush, trip completed, engine up, power, lock | LocApi, `LocationAPIClientBase` | one trip of the modem stands for several sessions; it ends while they are changed; unsigned distances | no session is lost, a trip is told completed when its distance is covered |
| System status observer, `gps/core/SystemStatusOsObserver.cpp` | cache of data items, subscriptions by client and by item, table of networks | subscribe, update, request, unsubscribe, notify | framework, XTRA daemon, `NativeAgpsHandler` | two indices of one relation, a second hop through a daemon that restarts, networks collated from single reports | a client knows the newest value of each item it asked for |
| Message core and timers, `gps/core`, `gps/utils` | queues, timer heap, timerfd, two threads | sendMsg, start/stop timer, expire | everything above | timers stopped, restarted and deleted while they expire | FIFO order; a timer that was started expires once, in time, unless it was stopped |
| Fingerprint engine, session | worker queue, message queue, callback, device operation | enroll, authenticate, cancel, close, enumerate, remove ... | biometrics framework, vendor device | worker, cancel and device threads share one queue without names | an operation gets its own result, cancellation ends it |
| Fingerprint lockout | counters, mode, time, two flags, timer thread | failed and successful attempts, resetLockout, timer | the engine above | flags outside the mutex, timers that sleep on after a reset | a lockout lasts its time, ends, and is what the framework was told |
| Sensors sub-HAL | enabled, mode, run thread, poll | activate, setOperationMode, flush | sysfs nodes, sensors framework | poll outside the lock | an event only while active; a one-shot sensor fires once |
| Power cap, `parts/.../power` | service's mode, screen state, posted polls | start, stop, screen on/off, poll | frequency nodes of the kernel | delayed work after the state changed | frequencies are capped only while the feature is on |
| Trigger keys, `parts/.../trigger` | recording, overlay, key handler | start/stop recording, touches, keys | input framework | service and key handler share preferences | what is replayed is what was recorded |
| Automation, recents killer, rotation, LiveDisplay, vibrator | settings; little state of their own | | Android framework | | |

Calls between the parts are messages: every GNSS adapter is single-threaded, its
`MsgTask` takes messages in order; LocApi has a thread of its own and answers an
adapter by another message; binder and QMI threads only put messages on queues.
The fingerprint HAL has a worker thread (a queue of at most five tasks), a cancel
thread for each cancellable operation, a lockout timer thread and the vendor's
callback thread.

## The modules

| Module | Models | Kind |
|---|---|---|
| `Agps` | AGPS manager, adapter queue, modem, AGnss client, WDS queries | specification |
| `AgpsLink` | what `Agps` promises of the one data connection | properties, history variable |
| `FingerprintEngine` | what the two models of the fingerprint engine share: the session callback and whether the service still lives | variables |
| `FingerprintLockout` | `LockoutTracker`, lockout flags and timer thread of `FingerprintEngine` | specification |
| `FingerprintSession` | `Session` and `FingerprintEngine`'s operations, cancel thread, device | specification |
| `FingerprintProofs` | | theorems of `FingerprintLockout` and `FingerprintSession` |
| `GnssTracking` | tracking sessions of `GnssAdapter`, `LocApi` and the modem | specification |
| `GnssTrackingProofs` | | theorems of `GnssTracking` |
| `Geofence` | geofence commands from the framework's client to the modem: `LocationAPIClientBase`'s queue and ids, `GeofenceAdapter`, `LocApi`, modem | specification |
| `GeofenceProofs` | | theorems of `Geofence` |
| `Batching` | batching sessions and trips from the client to the modem: `LocationAPIClientBase`'s queue and ids, `BatchingAdapter`, `LocApi`, modem | specification |
| `AlarmService` | what `LocTimer.h` promises | abstract specification |
| `LocHeap` | `LocHeap.cpp` as functions on trees | algorithm |
| `LocTimers` | `LocTimer`, its delegates and container, timerfd, poll thread and message thread, delayed messages; implements `AlarmService` | specification, refinement |
| `LocTimersProofs` | | theorems of `LocTimers` and lemmas of `LocHeap` |
| `Odcpi` | ODCPI of `GnssAdapter`, composed with `AlarmService` | specification |
| `OdcpiProofs` | | theorems of `Odcpi` |
| `ClientLife` | what `LocationAPI.h` promises of a client object | abstract specification |
| `LocationClients` | `LocationAPI`'s client tables, `LocAdapterBase`, `LocApiBase`'s opening of the modem; implements `ClientLife` | specification, refinement |
| `LocationClientsProofs` | | theorems of `LocationClients` |
| `NetworkInfo` | collation of `NetworkInfoDataItem` | algorithm |
| `StatusObserver` | `SystemStatusOsObserver`, its two maps and `XtraSystemStatusObserver`, over `NetworkInfo` | specification |
| `ConnectionProofs` | | theorems of `Agps`, `AgpsLink` and `StatusObserver` |
| `SvBlacklist` | satellites as the framework, the adapter and the modem name them, and the conversions | algorithm |
| `GnssConfig` | configuration of the engine in `GnssAdapter`, with the lock and the constellations, over `SvBlacklist`; LocApi, modem | specification |
| `GnssConfigProofs` | | theorems of `GnssConfig` and `SvBlacklist` |
| `MCAgps`, `MCTracking`, `MCGeofence`, `MCBatching`, `MCClients`, `MCObserver`, `MCConfig` | | symmetry sets and constraints |

The other specifications are checked directly by their `.cfg` files. A definition
`Bug...` stands before the definition it is a plausible slip of; no run uses it
as it stands. `PROJECT.json` maps every definition to the lines it translates.

Conventions. Names of variables and actions are the code's where possible.
A handler is one action with all it does, including the messages it sends: the
adapters run a message to its end. Where the code loops over sessions and sends
for each, the sequence of requests is computed by one operator. Data are reduced
to what the properties tell apart: an APN is "named", "empty" or "bad"; tracking
options are an interval and whether there is a distance. `world` is a frozen
variable: the disturbances a behaviour is exposed to, chosen once, so that one
run explores many environments and a property can say which of them it needs.

### Agps

`mState`, `mSubscriberList`, `mIsInactive` are those of `AgpsStateMachine`, per
nif (AGNSS for SUPL and emergency SUPL, INTERNET for the rest). A subscriber is
its handle, because `AgpsSubscriber::equals` compares only that. `msgQ` is the
adapter's queue: the modem's `requestATL`/`releaseATL`, and the reports
`reportAtlOpenSuccess/Failed/Closed`. Every `processAgpsEvent...` is an operator,
and `AdapterStep` applies the one that the first message calls for. The INTERNET
nif is served by `NativeAgpsHandler`, which answers synchronously by queueing the
report. `cmdQ` holds the AGNSS nif's commands on their way to the `IAGnss` client,
whose side (`ClientStep`, `OpenRejected`, `dataConnClosed`, `agnssServiceDied`)
is external: it serves commands in order, may lose a connection at any time, and
(`AckIdleRelease`) may or may not acknowledge a RELEASE that finds no connection.
`atl` is what the modem believes of its handles. `HasWds` adds the asynchronous PDN
query of `libloc_api_wds.so`, which this device ships (proprietary-files.txt); the
other optional library, `libloc_net_iface.so`, is not shipped and not modelled.
Commands sent while no client callback is registered are dropped, as in `AGnss.cpp`.
`AgpsLink` adds to every step the history `overtaken`: the adapter took a close of the connection while an answer of
WDS was outstanding, and nif and client have not both been idle since. That case, the device's own, breaks
`AcquiredIsConnected`, `RequestsAnswered` and `TeardownEnds`, which therefore exempt it; all others hold with it.

### FingerprintLockout

The tracker's members, the two flags of the engine, and one timer thread:
`EnterLockout` is `checkSensorLockout` with `startLockoutTimer`,
`TimerExpired`/`TimerClear`/`TimerResetsStarted`/`TimerResetsAborted` are the four
separate accesses of the timer thread, of which only `clearLockout` holds the
mutex. Time is relative (ticks since the lockout and ticks left to sleep).
`world` names what the surroundings may do: reset lockouts, close sessions,
authenticate in spite of a lockout ("insists"), touch the sensor within the few
instructions between a timer's clear and its flags ("hurries"), and hand out memory
that is not zero ("dirtyHeap": mode, start and flags are never initialised).

### FingerprintSession

`schedule` puts a task on the worker's queue (full queue: dropped, the caller gets
ok); `Start...` is an `...Impl` up to its first wait, which holds `mMutex` until the
end; `Receive...` are the handlers of one message each; `FindCancel` is the cancel
thread, which pushes a message into the same queue. The AOSP `WorkerThread` and
`CancellationSignal` and the vendor's library are external: the library confirms
each `cancel()` once, ends an operation with one last message, and its progress
messages are bounded by `MaxMessages`. A message's field `of` is the model's own
knowledge. `enroll` and the challenge operations have the control flow of
`authenticate` and `getAuthenticatorId`, so the run uses five operations.

### GnssTracking

Clients put commands on the adapter's queue; the adapter's handlers (`Proc...`)
are one action for each message, and one for each kind of callback that a
`LocApiResponse` carries back (`started`, `updated`, `stopped`, `distanceStopped`,
`goneStopped`, `toTime`, `restart`, `restarted`; what a lambda captured is the
request's `opts`). `Mux` is the multiplex of all time-based sessions, and
`StartMultiplex`, `StopMultiplex`, `UpdateMultiplex` are the three functions that
decide whether the modem has to be asked again; a command that asks nothing is
answered at once. `LocApiRequest` takes one request off LocApi's thread: the modem
does it or refuses, and the answer becomes a message. `ModemCrashes` drops what
the modem runs and queues a reopen; `LocApiOpen` ends with the engine-up message.
`clients` and `callbacks` are `LocationAPI`'s and the adapter's view of who is there.
Removal of a client is two actions only because it loops: they are taken without
anything of the adapter in between.

Left out: adding clients and updating callbacks (clients exist from the start; the
world "bare" has clients without a tracking callback), the fixed-rate mode of
automotive builds (`mNHzNeeded` FALSE), options of size 0, which no caller in
`src/` passes, and what the handlers tell the engine hub, SystemStatus and DGNSS.
The three multiplexed options are reduced to one, the interval.

### Geofence

| State | Code |
|---|---|
| `forward`, `backward` | `mGeofenceBiDict` of `LocationAPIClientBase`: id of the framework to session and back |
| `requestQueue` | `mRequestQueues[REQUEST_GEOFENCE]`; the request objects' `onCollectiveResponse` is `Heard` |
| `known` | what `GnssGeofence`'s callbacks told the framework of an id |
| `fences`, `hwIds` | `mGeofences` by hwId with its `paused` flag, `mGeofenceIds` by session |
| `queue`, `requests` | messages of the adapter's thread and of LocApi's |
| `commands` | one record for each command: what it asked, whether an item failed or was refused, how often a response was sent, and the number of the response its request object received |

A command (`locAPI...Geofences`) puts a request object on the request queue and a
message on the adapter's. `ProcCommand` sends each item through LocApi's call
queue (`addToCallQueue`), `ProcCalled` is the answer: it looks the hwId up and asks
the modem, or ends the item with ID_UNKNOWN. `ProcAdded`, `ProcRemoved`,
`ProcPaused`, `ProcResumed` and `ProcModified` are the lambdas of the second answer;
the last item of the array sends the response and frees the arrays (`ItemDone`).
`onCollectiveResponseCb` pops the oldest request, whichever command the response
belongs to. `Restart`, `ProcRestored` and `ProcNothing` are `restartGeofences` with its
callbacks, `ProcPower`/`ProcSlept` the power state, `ProcDestroy`/`ProcGone` the removal of
the client.

`world` names what the surroundings may do: send a second command for an id before
the first was answered ("hasty"), refuse requests, restart at rest ("crashes") or at
any time ("untimely"), suspend, lock GNSS, modify and destroy. The modem gives the
smallest free hwId, as hwIds that come round again are the hard case; a locked
one refuses and keeps what it has. Both are assumptions on external code, as is
that LocApi answers each request once and in order. Place, radius and breach mask
of a geofence are left out, since nothing but the modem reads them. A breach
carries, for the property about it, the session it was reported for.

### Batching

| State | Code |
|---|---|
| `client` | `LocationAPIClientBase`: ids of sessions with their modes, `mRequestQueues[REQUEST_SESSION]` (`asked`) |
| `adapter` | `BatchingAdapter`: `mBatchingSessions`, `mTripSessions` with the distance accumulated, the `mOngoingTrip...` members, pending messages, power and lock |
| `queue`, `requests` | messages of the adapter's thread and of LocApi's |
| `modem` | which sessions run, and the one trip with its distance, interval and distance since the last query |
| `commands` | one record for each command: how often it was answered, and by which response |
| `ended`, `walked` | what was told completed; how far somebody really went in each trip |

A plain batch is a request for its session; all trips share one batch of the modem,
whose distance is the smallest that is left to any of them. `Proc...` are the handlers
of commands and of the callbacks that LocApi's answers carry; `Walk` moves the modem on,
`ProcCompleted` handles its report that a trip is covered. Distances are unsigned and wrap at `Width`, as those of
the code at 2^32. `world` adds to those of `Geofence` trips, movement during the exchanges
of a trip ("moving") and a modem without batching ("unsupported"). The switch of
`locAPIUpdateSessionOptions` from batching to tracking and the batched locations themselves
are left out.

### Timers

`LocHeap` is the binary tree, of any size, as a function from the places that are taken (the children of
place i are 2i and 2i + 1). `push`, `pop` and `remove` are those of `LocHeapNode`: where these recur from a node to one of its children, a
recursive function of the place says what arrives there (`Way` and `Sinking` for a push, `Moving` for a pop, `Met` for the search of a remove). `LocTimers` has the
client threads (`start`, `stop`, `delete`, `sendMsg`; each under the lock the timer shares
with its delegate), the poll thread in the four accesses of `LocTimerContainer::expire`
(`PollWakes`, `PollDisarms`, `PollRemoves`, `PollSends`) and the message thread with its
push, remove and expire messages. `LocTimerDelegate::expire` is three steps, because it
reads its client under the lock and calls it without (`client` is what it has read). `fd` is the
timerfd: what it is set to, and whether epoll watches it. `delegates` are never reused in
the model, so that a stale one can be told apart. `AlarmService` has no threads, heap
or clock: timers that run, and the one that is to be called back. `ServesAlarms` is
the refinement, with `running` the timers that have a delegate and `called` what has been
read. "slow" lets time pass while the threads have work to do; "stops" and "deletes" are what clients
may do besides starting. The second container (timers that
do not wake the system) is another instance of the same; its threads' end,
`MsgTask`'s destructor and the C wrapper are left out.

### LocationClients

`life`, `clientData` and `waitMask` are `LocationAPI`'s tables under `gDataMutex`;
`mClientData`, `mEvtMask`, `known` and `mPendingMsgs` those of each adapter; `apiQueue` and
`modem` are LocApi's thread and what the modem reports. `createInstance`, `updateCallbacks`
and `destroy` are whole calls, as each holds the mutex; `MsgAddClient`, `MsgRemoveClient`,
`MsgRequestCapabilities` and the others are the adapters' messages. `ClientLife` is what a caller
is promised: adapters may hold a client from its creation; after its destruction none takes it on,
and its object is deleted as soon as the last adapter has let go, never before. `ServesLife` is that
refinement. Places in memory are reused, so that a late message could hit a new client.
Sessions are those of the other modules; libraries are taken to load; the N-Hz, engine hub and
precise-location bits of the masks and adapters that are taken down are left out.

### Odcpi

`need` and `got` are the modem's; `mOdcpiStateMask`, `mOdcpiRequest` and `mActive` the adapter's;
`odcpiReqCb`, `mNonEsOdcpiReqCbMap` the registered callbacks by their priorities, `asked` who is
looking for a position. The timer is the `AlarmService` that `LocTimers` is shown to implement:
`mActive` is the flag of `OdcpiTimer`, `running` the timer's own state, and the expiry is a callback
on the timer's thread which posts a message. `world` lets requests come while the timer of the last one runs
("hasty"), the modem restart, the system suspend, the engine be locked, providers register
and the framework die. `fireOdcpiRequest` starts from an iterator that its code does not
initialise; libc++ makes it null, which no element's is, so the search runs as meant. The bit for civic addresses,
time between fixes, the check that blocks CPI and ZPP are left out.

### StatusObserver and NetworkInfo

`NetworkInfo` is the collation of one report with the table of all networks, `Enter` for a
connection and `Leave` for its end: an array without gaps, whose last element moves into the place
of the one that leaves. `StatusObserver` has the observer's queue, `mClientToDataItems` and
`mDataItemToClients` as `LocUnorderedSetMap` keeps them, and `mDataItemCache`. The framework
reports networks one by one (`Connects`, `Turns`, `Disconnects`: `AGnssRil::updateNetworkState`); other
items come from a subscription object, external and set late, that reports what it was asked for.
`XtraSystemStatusObserver` is a client that posts what it is told to itself and passes it to
the XTRA daemon, external, which may restart and ask for everything again. `told` is what each observer was
told last of each item. APN, roaming and the last report's own handle, the tracking-started
item and Xtra's subscription of the operator's code are left out; so is a status request with
`statusUpdated` set. SystemStatus keeps up to five reports of each item, the module the last.

### GnssConfig and SvBlacklist

| State | Code |
|---|---|
| `adapter` | of `GnssAdapter`: `mGps_conf` (`conf`, `lock`), `mSupportNfwControl`, `mAfwControlId` (`afw`), `mBlacklistedSvIds` and `mGnssSvIdConfig` (`list`, `mask`), the constellations of the API and of XTRA, the secondary bands, `mLocConfigInfo` (`modes`), the server sent last (`mo`), `mPendingMsgs`; what XTRA was told of the lock |
| `queue`, `requests` | messages of the adapter's thread and of LocApi's |
| `modem` | what the modem has of all this |
| `commands` | one record for each call: how often each of its ids was answered, and whether an error was another than that of its item |
| `asked` | what the calls asked for last |

A call puts a message on the adapter's queue. `ProcEarly` keeps those that come before the engine is known; `Revive` puts
them back, at the end of the queue. `ProcUpdate` keeps the settings and hands the rest to `LocApiUpdate`, which
runs on LocApi's thread, sends flag by flag, and writes the adapter's blacklist there. Its errors are a sequence by position
(`SendOrder`), the ids of the command another (`Flags`). `handleEngineUpEvent` is the whole of what a modem that comes up
gets: `setConfig` (with `LockAtRestart` and `WrittenBack`), the blacklist, the constellations and the band. `LocApiCheck` and
`LocApiLoad` are the test of a mode that is not set and its loading from the file, with no lock between.
Settings are numbers; `SvBlacklist` has the real numbers of satellites and the real widths of masks (64, of which
39 are the first range of SBAS). Its shift beyond the width, undefined in C++, is what the processor of this device does.

`world` names which commands come, and what the surroundings may do: a second command before the first is answered
("hasty"), commands before the engine is known ("cold") or while a modem starts ("untimely"), restarts, refusals, the engine's
lock, a modem that keeps its configuration itself ("fixed": AGPS_CONFIG_INJECT is off) or that does not know constellations ("unsupported").
Left out: suspending and resuming sessions around an update, lever arm, body-to-sensor data, dead-reckoning
engines, states of engines, NMEA types, aiding data, what a get reports, the broadcast of capabilities.

## Runs, bounds and fairness

| Run | Question | Bounds | Result |
|---|---|---|---|
| `agps_connection` (`AgpsLink`) | With WDS, do nif, commands and data connection stay in step, is every request answered and every teardown finished, unless a close overtakes an answer of WDS? | 2 handles, 2 messages waiting, 2 commands | holds; liveness under `FairLinkSpec` |
| `agps_any_client` | The same lists and the modem's view with a client that dies, registers late, rejects, over-acknowledges, with emergency PDN and WDS | 2 symmetric handles, 2 messages, 1 command | holds |
| `lockout` | Lockouts last, end and are what the framework was told, in all 32 worlds | thresholds 2 and 5, 2 ticks, 6 failures | holds |
| `session` | Results, errors and cancellations go to their operation; every wait ends | 3 operations of 5 kinds, queue of 2, 1 device message waiting | holds |
| `tracking` | Do clients, maps and modem agree at rest, in 11 worlds? | 2 symmetric clients, 2 sessions, 2 updates or stops, 2 events, commands wait while 2 messages do | holds |
| `geofence` | Responses, the two maps, the modem and what the framework knows agree, in 9 worlds | 2 symmetric ids, 2 sessions and hwIds, 4 commands, 2 events, 1 breach | holds |
| `batching` | Responses, sessions and trips agree with the modem, and no trip ends early, in 11 worlds | 2 ids and sessions, 4 commands, 2 events, distances 2 and 3, intervals 1 and 2, walks of 3, distances wrap at 16 | holds |
| `timers` | Does the heap run what clients run, in time, and do the threads implement `AlarmService`, in 4 worlds? | 2 timers, 1 delayed message, 3 starts, delays 1 and 2, clock to 4 | holds; liveness under `Spec` |
| `clients` | Are masks and capabilities what clients ask for, and is `ClientLife` implemented, in 6 worlds? | 2 objects, 3 sets of callbacks, 3 calls | holds; liveness under `Spec` |
| `odcpi` | Is the framework asked while the modem asks, and told in the end, in 8 worlds? | 3 requests, 2 events, commands wait while 2 messages do | holds; liveness under `FairSpec` |
| `observer` | Do the two maps agree, and does every client and the daemon know the newest value, in 8 worlds? | 2 symmetric clients and Xtra, 3 symmetric networks of 2 types, table of 3, 3 calls, 5 events | holds |
| `config` | Is every id answered, and has the modem lock, settings, blacklist and constellations that were asked for last, also after a restart, in 21 worlds? | 3 calls, 2 events, 11 configurations, 3 gets, 3 pairs of constellations, 2 masks, 1 mode; widths as in the code | holds |

Several properties are conjunctions of named parts, each with its own comment in the module:
`ConnectionKnown` (AGPS), `ModemServed` (AGPS), `LockoutLasts`, `OwnAnswers` and `NothingLeft` (session), `EachAnswered`,
`SessionsServed` and `EndedStays` (tracking), `ModemAgrees` and `ToldServed` (geofence), `EachAnswered` and
`SessionsAgree` (batching), `InTime` (timers), `AdapterAgrees` (ODCPI), `SatellitesAgree` (config). `EachAnswered` of `GnssTracking`, `Geofence`, `Batching`
and `GnssConfig` and `NothingLeft` include `TypeOK` of their module.

Why the bounds are enough. Two handles give the AGPS lists all shapes the code
distinguishes (nobody, one, one of several); the safety part of
`agps_connection` was also explored with 3 messages and with 3 commands, up to 5.7 million states. Lockout thresholds 2 and 5 keep the
order of the real 5 and 20 and more than one timed lockout before the permanent
one. Three operations are a disturbing one, a victim and one after it. Two
sessions and two values make the multiplex change, stay, and be the other's; the
disturbances are explored one by one and in the pairs that share a mechanism (a
cold start with a crash or a lock, updates without distance support). With
`MaxBacklog` 3 the same invariants were explored world by world, up to 15 million
states, with the same results; that is where the conditions that exclude pairs in
`TimeAgrees`, `ToldServed` and `DistanceServed` come from: some of those
races need a longer queue.

In `Geofence` two sessions share the hwIds, four commands are an add of each, a change
and a removal (or a removal, and an add that gets the freed hwId); two events are two
restarts, or a suspend with a restart or a resume. `untimely` restarts meet every point
of these exchanges. `Bound` keeps to three commands where a restart or a suspend may come at any
point, and to no breaches with suspends.

In `Batching` the two distances make one trip end before the other and leave a rest to it; a walk of 3 completes either.
Four commands are a start of each, an update or query and a stop; three in the two worlds whose disturbances come at
any point. The width of 16 is above what any trip adds up to, except where the code subtracts too much.

In `LocTimers` two timers and a delayed message with two delays give heaps of every shape that the code
tells apart (a sooner one above, beside or below), and three starts let one client restart while its old delegate is still
in the heap. Four ticks let the last of them expire.

In `LocationClients` two objects share adapters, the second is created after the first; the sets of callbacks
are none, one adapter's and the other two's. It is alone in worlds where LocApi is slow or restarts, so that its messages
meet every point; two calls are made with locks, modem NMEA and AGPS.

In `Odcpi` two waiting messages are what it takes for a stop and an expiry, or an injection and an upgrade, to pass each other;
three requests are one that ends, one that upgrades, one after it.

In `StatusObserver` two clients share an item or not, Xtra is the client with the second hop. Three networks of two types fill
the table and leave it in every order; three calls are two subscriptions and an unsubscription. `Bound` in `MCObserver` states
which of the counts are smaller in which worlds.

In `GnssConfig` three calls are one that sets, one that changes it, and one that meets either; commands of different kinds are in
one world where they write the same state (the lock: update, enable, nfw; the satellites: update, types, svs). Two events are
one restart or two, before, between or after them; with modes, one that loads the file and one that must write back what was set since. The configurations are those whose flags are sent in another order than they are numbered, that
need a default, or that are refused; the lists have both ranges of SBAS and a whole constellation.

Fairness. `Agps`: the adapter's thread runs, the client serves each command and
WDS answers each query; nothing forces the modem or the network. `FingerprintLockout`:
time passes, the timer thread runs, an authentication that is over is joined;
nothing is assumed of framework and sensor. `FingerprintSession`: worker and cancel
thread run, the device confirms cancellations and ends operations that end by
themselves, but never an authentication. `LocTimers`: both threads and time run on, nothing is assumed of
clients. `LocationClients`: the adapters' thread and LocApi's run on. `Odcpi`: the adapter's thread
runs, the timer is as fair as `AlarmService` (which `LocTimers` implements with its fairness), a framework that died comes back, and
a handler that is asked again and again answers once in a while (strong fairness: without it no position need ever come).
`GnssTracking` states its fairness
(`FairSpec`: both threads go on while they have messages); the run checks safety at
rest (`Quiet`), which says the same of the end of every exchange. `Geofence`, `Batching`, `StatusObserver` and `GnssConfig` do the
same: nothing is assumed fair, and what must come about is stated of the states in
which no message is under way.
CHECK_DEADLOCK is off where the surroundings may simply stop asking.

Refinement. `LocTimers` implements `AlarmService` (`ServesAlarms`, its safety also proved) and
`LocationClients` implements `ClientLife` (`ServesLife`, its safety also proved), liveness included. `Odcpi` is built on
`AlarmService`, so that what it shows of the timer rests on what `LocTimers` shows.

## What is proved

`ConnectionProofs`, of `Agps` (every set of handles, every client behaviour, every bound):
`TypeCorrect`, `ListsFitStates`, `ReleasesOnlyWhenIdle` and
`EmergencyPdnNeverOrdered` (which no run checks). The inductive invariant `IInv` is the types, that
inactive handles are listed, that RELEASED lists are empty and that busy nifs have
users. `BusyHasSubscribers` alone is not inductive: that a nif returns to RELEASED with
an empty list needs `InactiveListed`. One lemma for each event handler
(`SubscribeKeeps`, `UnsubscribeKeeps`, `GrantedKeeps`, `FinishReleasingKeeps`,
`DropAllKeeps`), one for the steps of the adapter, one for everybody else.
`ModemIsServed` and `ConnectionIsKnown` are the two properties of what is still under way, the first for every client, the second (of `AgpsLink`) for one that does not die,
refuses no APN and acknowledges only what is open (`OneSteadyClient`; TLC violates it when one of its conditions is dropped). Their invariants say what the queues will make
of the state. `HandlesFit`: every handle the modem waits for is listed or is about to be answered. `LinkFits`, with WDS or without: what state, unread commands, connection,
outstanding answers of WDS and unread reports say of each other, in their order. `Fresh`, unless overtaken: no answer of WDS can come late.

`FingerprintProofs`, of the lockout: `TypeCorrect`, `TimerIsOne`, `ToldMode`, `AttemptRemains` and `LockoutsLast`: all of the run's safety properties. `ToldIsMode`
needs to know why the timer that will clear a lockout exists and has not been
aborted, so the invariant `LockoutInv` is split into `FlagInv` (timer, flags, late writes),
`LockInv` (mode, counters, what was told) and `TimerInv` (what a timer's sleep has to do with the lockout); each action has a lemma for the part it
can disturb.

`FingerprintProofs`, of the operations: `NoneLeft` and `AnswersOwned`. `NothingLeft` speaks of the moments between operations; the invariant says what the queue holds
while one runs, as long as every operation before it was harmless (`QueueInv`): while it waits only its own messages, the last one at the end, at most one
cancellation behind it, and while it cancels the confirmation, which comes last. `OrderInv` says that tasks run in their order, so that what disturbed the queue
before a task that has begun did so for good. There is one lemma for each place the worker can be in (`IdleStep`, `WaitingStep`, `CancelingStep`, `JoiningStep`).

`GnssTrackingProofs`: `EachAnsweredAlways` and `EndedStaysAlways`. What each handler does to maps, requests and answers is said once,
by a lemma named `...Effect`; the invariants are proved from these. `EachAnswered` speaks of rest, so `AnswerInv` counts what is under
way: for each session whose client is there, as many commands, requests and answers are outstanding as there are calls unanswered (`CountInv` from above; `DueInv` from below, where nothing
is dropped). To add that up it needs who is still there and who is about to be removed (`ClientsInv`: a destroyed client's removal is the last it
leaves, and only what stands before it is heard), that what waits for the engine will be woken (`PendingInv`), that requests find the
modem ready where nothing restarts or locks it (`ReadyInv`), so that the stop with which the update of a distance-based session begins succeeds (`RestartsInv`: where it
fails, the update is never answered).
`EndInv` adds what is left of a session that ends. `GoneInv`: a client that was removed has no time-based session, and a distance-based one only
while its stop, which succeeds, is under way. `StopInv`: a start is the first message about its session (`StartOf`); success is told only before the answer that erases the session (`OrderOf`);
and a session whose stop was taken is over, or success is told only together with what erases it (`Over`).

`LocTimersProofs`: `TimersAgree` (a timer and its delegate know each other and nobody else does) and
`TimersImplementAlarms` (initial states are those of `AlarmService`, every step is one of its steps or none). The invariant
adds to `TypeOK`, which holds the agreement of timers and delegates, that only a client is called back and that a delayed message
that is about to be delivered still exists and does not run. Without it the end of the callback, after which a delayed message is gone, could drop a
timer that still runs in `AlarmService`.

`TimersInTime`, in the same module, is `InTime`. Its first half is about the tree. That the recursive functions of `LocHeap` are what their definitions
say, and every claim about all places on a path, is shown by the least place that is an exception, as the induction theorems of the library cannot be used
(`TreeRecursion`, `TreeMarks`). From these, `PushIs`, `PopAtIs` and `RemoveIs`: each leaves a tree in order that holds what it held and the newcomer, or
without what was taken out. A push needs that its way is one path that ends at one free place (`WayIsPath`), a pop that the nodes that move up are a path too, down to a leaf; and `RemoveIs` that
the search, which does not go below a node that is due later, cannot miss what is there, and that it is there once.
`TimeInv` then says where a delegate is. `QueueFits`: a delegate is pushed at most once, before any other message about it, and `HeapFits`: what is in the tree is not about to be pushed.
`RunInv`: the delegate of a timer that runs is in the tree, about to be pushed, or has left the tree to call back, and one that was let go is about to be removed, or
is not there. `FdInv`: timerfd is set for the top, unless the poll thread or its message is on the way (`Waking`). `EarlyInv` is about steady clients and threads:
an expiry pops the top without looking, so that the top must be due from the moment the poll thread wakes, and nothing may set timerfd again before
the message has come (`Once`, there is never more than one).

`GeofenceProofs`: `EveryCommandAnswered` is `EachAnswered` of `Geofence`. A command's number is borne by its message, then by its items on their way to LocApi's call queue,
back, to the modem and back (five stages). `Sorted` says that both threads keep the order: what is at a later stage, or ahead at the same one, belongs to an earlier command or is an
item of the same command before its last. So the last item carries the answer (`Borne`), and with it nothing of the command is left (`AnswerInv` counts the answers in every world). That it is taken for
the answer of its own command is true only in good order (`Orderly`: no haste, refusals, restarts or locks), and there it needs the rest. `WholeInv`: a command is under way as a whole or done. `EntryInv`: the requests that wait
are those of the commands under way, oldest first. `IdsInv`: an id that does not wait has its hwId. `CalmInv`: what is under way is about different sessions (`Apart`), adapter and modem agree
but for what is being added or removed (`MapsAgree`), so that each lookup finds its hwId and the modem, which has room (`RoomLeft`), can do each request: no item ends early, before those of earlier commands.
What the steps do to both queues is said once, by kind (`Taken`, `Moves`, `Posts`, `Sends`).

`ModemKept` is `ModemAgrees`, which must hold through refusals, restarts and suspends, where `CalmInv` says nothing. Adapter and modem differ by what the messages on their way to the adapter will change,
so `ModemInv` says what those foretell, by hwId. `Foreseen`: the last message about a hwId (an answer that gives or frees it, or the restart) leaves there what the modem has; without one the two agree.
`LastPauses`: the same of the pause flag, for the answers that settle it. `FreeWhenGiven`: a hwId is free again when it is given. `OwnBreaches`: a breach has, once the messages before it are taken,
the session of its own geofence, or finds none. `Paired` is the maps themselves, and needs `AddsOk`: a session is about to be added in one place only, and has no hwId yet. `HereInv` is which requests
and messages there can be in which world (a lost geofence is added again only after a restart). A step takes a message or adds one at the end; each part has a lemma for either (`OwnTaken`, `OwnPosted`).

`OdcpiProofs`: `TypeCorrect`, `RequestsRenewed` and `RequestsAgree`. `AdapterAgrees` speaks of the states in which
the queue has run empty, so its invariant (`KeptInv`, `OrderInv`) says what every queue will make of the adapter's state when it has been
worked off: the last start, stop or restart in it decides, and `WorldInv` says which messages a world can hold at all. `OrderInv` is
needed for what `mEsStatusCb` was told: starts and stops alternate unless requests are hasty or the modem restarts.

`ConnectionProofs`, of `StatusObserver`: `SubscriptionsStayAgreed`, for every set of clients, items and networks. `ObserverInv` adds to
`SubscriptionsAgree` what may be in the queue (`QueueInv`, with Xtra's own request ahead of the subscription object) and
which items the subscription object has (`MapsInv`).
`NewestIsTold` is `Newest`: every subscriber, and the daemon, knows the newest value of each item. Its invariant (`TellInv`) has
what the messages may hold (`MessagesFit`), the cache (`DataFit`), and for each of observers, framework and daemon that what it was told, or the last message of the
queue that carries the item (`Brings`), is what the framework reported last. `ConnectionsAreKnown` is `ConnectionsKnown`, where neither twins nor metered changes spoil the table:
`NetInv` claims a history of the networks that are up, one state for each report in the queue, whose first fits the table and whose last is now.

`GnssConfigProofs`: `LockIsServed` is `LockServed`: whatever configuration commands, the enabling of GNSS and the lock of non-framework clients do to one
another, and whenever the modem restarts, at rest adapter, modem and daemon have the lock that follows from what users asked for last. `LockInv` is the conjunction of the shape of messages (`Shape`), the fields
that agree at all times (`LockFits`), the openings of the modem under way (`Opens`), what modem and daemon have or are about to get (`ModemLock`, `XtraLock`), and, where commands keep their order, that what
waits for the engine and what is queued bring the lock users asked for last (`Order`, `Asked`). What a step does to the queues is first said by one of a few
operators (`HandlesCommand`, `CallsApi`, ...), so that each part is proved once for each of them and not for every action.

`NamesKept`, in the same module, is `SatellitesNamed` (a part of `SatellitesAgree`), for every width of up to 64 bits and every length of
the first range of SBAS. One lemma for the bit of a satellite in each of the three kinds of range, one for each way back, one for the framework.

`EachCallAnswered` is `EachAnswered` of `GnssConfig`. `CallsInv` says where a call is: its number is on at most one message or request, in the adapter's queue, among
those that wait for the engine, or in LocApi's, and that one answers just the ids that have no answer yet (`AnswerOf`). Messages and requests fit the call whose number they bear
(`MessageOf`, `RequestOf`), so that their errors are one for each id, and the error of an id is that of its setting wherever the two orders agree. The adapter's blacklist is the same in both its forms
(`AdapterFits`, from the round trip of a mask). `InOrder` lists the flags of a call by rank; that all of them are in it is a pigeonhole argument over the ranks (`RanksReach`, `OrderHas`).

`LocationClientsProofs`: `ClientsTyped`, `MaskIsServed` (which is `MaskServes`) and `ClientsImplementLife`, the safety part of `ServesLife` (the deletion of the object; the completion callback, which the code does not call, is not part of `ClientLife`). `IInv` has five parts beside the types.
`Shape`: which messages and requests there can be. `DataInv`: what an adapter knows of a client, now or
after the last queued message that changes it, fits what the client gave last. `LifeInv`: only loaded adapters know an object, none knows one that is free, and those that know one
that is being destroyed are the ones it waits for and have just one message left, which lets it go. `MaskInv`: the mask of a loaded adapter is right or a message that will
put it right is queued, and while LocApi has nothing to do the modem has the union. The refinement needs `LifeInv`: without it a last answer could come to an object that is free, or that waits for nobody.
Calls, the messages that add or remove a client, and the steps that change no adapter's clients (`NoteStep`) have lemmas for each part.

Assumptions are only those named in the modules (`ConstantsAssumption`,
`LockoutAssumption`, `SessionAssumption`, `TimersAssumption`, `OdcpiAssumption`, `ObserverAssumption`, `GeofenceAssumption`,
`SvBlacklistAssumption`, `GnssConfigAssumption`, `ClientsAssumption`): types and positivity of the constants (`NoFence` is no geofence), finiteness of the sets of items and modes, that names that stand for "nobody" are
nobody's, and that a mask has at most 64 bits. Those of `GnssConfig` also type its inputs: the flags of updates and gets are the interface's, values are unsigned,
constellations and masks are sets of constellations and of bits.

Only model-checked: all liveness properties, `CapabilitiesTold` and those of `ServesAlarms` and `ServesLife` included (TLAPS does not reason about them
under fairness, nor about ENABLED); `WaitEnds` of `FingerprintSession`; `ToldServed` of `Geofence` and everything of `Batching`. What the framework was told (`ToldServed`) depends on all that was answered, refused and lost since. Of `GnssTracking` `SessionsServed` is: what the modem runs depends on every
request under way and on the multiplex, a minimum over the sessions, at the time each was made. Of `GnssConfig` `SettingsStand` and `SatellitesAgree` (but for its `SatellitesNamed`, and for the two forms of the blacklist, which
`CallsInv` keeps equal) are: they speak of what the requests and messages under way will bring, setting by setting.

## Where the code breaks its promises

Each was met while modelling. No run is made to fail for them: the properties state what holds, and name in their conditions the disturbances behind these.

In the AGPS manager:

- A named APN is reported only after an asynchronous WDS query.
  A close that overtakes the answer is ignored in PENDING, and the late answer
  makes the nif ACQUIRED without a connection; the request is then answered with one that is gone, or the
  teardown waits for a close that does not come (`overtaken`).
- An APN the adapter refuses is reported as a close, which PENDING ignores; nobody is
  told and the nif waits (`PendingAwaitsAnswer`, which is checked without such APNs).

In the fingerprint HAL:

- A timer that outlives its session fails `CHECK(mCb != nullptr)`.
- A message the device sent before it was cancelled fails the CHECK on the type of the confirmation.
- `LockoutTracker::reset` is declared with `clearAttemptCounter` and defined with
  `dueToTimeout`; a success keeps the count for the permanent lockout.

In `GnssTracking`:

- A session that adds nothing to the pending request of another
  is answered SUCCESS and is never started when that request is refused (`StartedIsServed`).
- On a modem without distance-based tracking an update with a
  distance ends the session and reports SUCCESS.
- An answer of before a modem restart erases a session that the restart has just
  asked for again (`TimeAgrees`, "crashes"; "cold" with "locks").
- A start that was refused for the lock is answered after the unlock has restarted all sessions. If the other session is stopped in between, the
  map is not empty, so that nothing is stopped; the answer then erases the refused session, and the modem goes on for nobody (`TimeAgrees`, "locks").
- Restart, unlock and resume ask again for a distance-based session whose stop is
  under way: the modem then runs it for nobody (`DistanceAgrees`).
- A stop that overtakes a start waiting for the engine is answered ID_UNKNOWN, and the
  session starts later (`StoppedStays`, "cold").
- Answers of updates save sessions that were stopped since (`StoppedStays`,
  `GoneStays`, "updates").
- The stop of a destroyed client's distance-based session fails, and the session is
  restarted with every modem restart from then on (`GoneStays`).
- No answer at all for a start without a tracking callback (`AllAnswered`, "bare"),
  contrary to the list of errors in `LocationAPI.h`, and for the update of a
  distance-based session whose stop fails.
- While the system is suspended distance-based sessions go on, and commands still
  reach the modem; no property is stated, because no document says what they should do.

In `Geofence`:

- A resume that the modem refuses is never answered; its request stays
  at the head of the queue and every later response is taken for an earlier command.
- An item whose hwId is unknown ends one round trip earlier than the others. Its
  command's response overtakes those of earlier commands (`OwnAnswer`), and as the last
  item of an array it frees `errs` while others are under way (`NotAfterReport`, "hasty").
- `modifyGeofences` reports SUCCESS when the modem refused (`TruthTold`).
- A restart saves paused geofences as running: the second restart runs them, and so
  does a resume of the system, also without a restart (`ToldPaused`, `PausedAgrees`).
- A restart of the modem while the system is suspended leaves the dead modem's
  hwIds in the maps (`MapsInverse`, `FencesAgree`, "crashes" with "power").
- A geofence that the modem refuses to take again after a restart is gone without a
  word (`ToldThere`).
- A restart between the two round trips of a command: the remove or pause goes to
  a hwId the new modem may have given to another geofence, or a removed geofence
  comes back (`ToldThere`, `RemovedGone`, "untimely").
- While GNSS is locked a failed add is saved under hwId 0, the next over it
  (`MapsInverse`, "locks").
- A client destroyed while additions are under way, or whose removals are refused,
  leaves geofences in modem and map (`DestroyedGone`).

In `Batching`:

- A second trip is never saved in `mBatchingSessions`, so that its stop has no response (`AnsweredOnce`, "trips").
- The distance covered before a restart of the trip batch is lost for a trip that joined it; a query for the
  distance that is answered after the last trip ended restarts the batch for nobody.
- Whoever moves between the query and the restart makes a trip be told early, or the event of a full batch unregistered (`NotEarly`, `FullAsked`, "moving").
- A stop that fails restores the session with default options and does not register the event again; answers of a restart are not looked at.
- A stop while GNSS is locked or the system suspended erases the session, and the next stop is not answered; suspending and updating send
  responses nobody asked for (`OwnAnswer`, "power", "updates").
- A start that the modem does not support has no response (`AnsweredOnce`, "unsupported"), contrary to the errors listed in `LocationAPI.h`.
- `stopTripBatchingMultiplexCommon` reads `end()` for a trip that is not there (the model: `Garbage`), `reportCompletedTripsEvent` uses an
  element after it erased it, and the flags of dropped intervals and distances are never reset. Completed trips stay in `mBatchingSessions`.

In `LocTimers`:

- An expire message sent before the top was replaced pops a timer that is not due (`NotEarly`, "stops", "slow").
- When the last timer is removed the timerfd stays armed, as the branch for an empty heap is never taken.
- A client deleted after the message thread has read it is called all the same (`CallOfTheDead`), although the comment says that nulling the handle prevents it.
- A timer that its client restarts in that window is stopped by the old one's expiry, before its time; the C wrapper's `loc_timer_stop` after the expiry uses a wrapper that is freed.

In `LocationClients`:

- The completion of `destroy` is reported only where no callback was given (`LocationAPI.cpp` tests the inverse of what its comment says), so that
  the objects of `LocationAPIClientBase` are never deleted; without a callback the client object itself is not.
- A client that withdraws the callbacks of its only adapter before the engine is known is never told the capabilities; one created without
  callbacks stays in the GnssAdapter with what it gave first.
- `updateNHzRequirementCb` called twice for one client clears the bit; the GeofenceAdapter does not listen to the engine's lock; the control
  client takes itself for enabled even if it was refused, and its collective responses to update and get are never matched.

In `Odcpi`:

- An emergency that begins within ten seconds of the last one, while the timer runs, is never reported to `mEsStatusCb` (`StatusTold`, "hasty"), and after a modem
  restart in an emergency it stays reported.
- A restart while the system is suspended or GNSS locked skips "odcpi session is no longer active after restart": the framework is asked every ten seconds for ever
  (`ModemAgrees`, `Served`).
- An expiry under way when a request is upgraded passes the request on twice; `deRegisterOdcpi` does not look at the EMERGENCY bit; nobody is asked while only
  a provider without it is registered.

In `StatusObserver`:

- `LocUnorderedSetMap::update` returns what both sets have, although its comment says what was removed, and erases the iterator it has just compared. After `updateSubscription` the two
  maps disagree, contrary to the example of `IDataItemSubscription.h` (`SubscriptionsAgree`, "updates"); nothing in `src/` calls it.
- When one of two networks of a type disconnects, the report's own type replaces the types of all networks; when the last network of that type leaves, no type is
  left though others are up, contrary to the comment of `SystemStatus.h` that no types mean no connections (`ConnectionsKnown`, "twins").
- A network that becomes metered is reported with another type: its entry keeps the old one, the new type is added, and its disconnection does not delete the entry (`ConnectionsKnown`, "meters").
- A first report that is a disconnection enters the network; roaming is not compared by `equals` and never set; `copyFrom` tests the APN the wrong way round.
- An item that was first requested once is never subscribed to by a later `subscribe`; `subscribe(false)` of Xtra keeps the subscription of the tracking area.

In `GnssConfig` and `SvBlacklist`:

- The errors of an update are sent in the order server, version; the ids are in the order of the flags, version first; three flags have no
  error at all and shift the rest (`EachAnswered`; `ILocationAPI.h` says that errors and ids match). A server that is refused is reported as set.
- `gnssGetConfigCommand` gives robust location, week and elevation the same id; a band configuration of size 0 is never answered, and is forgotten at a restart.
- `gnssUpdateSvConfig` sends the constellations of before, and a blacklist without the disabled constellations (`SatellitesAgree`, "svs").
- A constellation that is enabled again loses its blacklisted satellites in the modem, while the adapter keeps them.
- The blacklist captured when the modem came up is written back on LocApi's thread, over one set since (`ListAtRisk`: `SettingsStand` then takes the list of an earlier call, no other).
- An update waits for the engine while constellations and blacklists of the GNSS interface do not: its older list then replaces a newer one (`ListAtRisk`, "cold").
- An update with a GPS week is answered, but only the get reads that flag: the week goes nowhere.
- A mode that is set between the test and the load of `setConfig` is overwritten by the default, which the modem gets with the next restart (`SettingsStand` takes the default then, of adapter and modem).
- Extension of emergencies, elevation, week, and the server for mobile originated requests, which is sent only when it is new, are lost at a restart.
- Without AGPS_CONFIG_INJECT the flag of the control plane is cleared twice and that of the user plane never; the branch for C2K servers is never reached.
- Commands that waited for the engine come back behind later ones (`Reordered`); so do those of untimely calls while clients lock the engine.
- A QZSS satellite is told to the framework by another number than its blacklist takes, and is never left out; SBAS numbers from 208 shift by more than the width of the mask.

In code that is not modelled: the NI thread clears its request after it has unlocked, so that an answer may be taken for the next request's; NI
requests that are ignored are freed unanswered, and `timeoutResponse` is never used; the sensors' `OneShotSensor` interrupts its poll before it sets `mStopThread`, and an event is posted after a deactivation during the poll.

## What is not modelled

`PROJECT.json` lists every component with its reason. In short: data conversion
(reports, NMEA, configuration files, formatting), registration of services, tables,
configuration data and sepolicy have no behaviour to check; the Android framework,
vendor libraries and the modem are environment, modelled from how the code uses
them. `agpsCloseResultCb`'s failure path and `handleModemSSR` of the AGPS manager are
left out: the first belongs to a library that is not shipped, the second is never
called. Each module's section says what it leaves out of its component. Not modelled of otherwise modelled parts: NI, reports, NMEA,
DGNSS and engine hub of `GnssAdapter`; `resetNetworkInfo` (no caller), the reports and debug items of `SystemStatus`.

## Plan

In this order; each step is a module with its run, then its theorems.

1. `NI` with its timer threads.
2. `PowerCap`, `Trigger`, `OneShotSensor`.
3. Abstract specifications: a data-connection manager (a connection held exactly while
   somebody uses it) implemented by `Agps`; a session table implemented by
   `GnssTracking` at rest; a queue of requests each answered once, for `Geofence` and `Batching`.
4. The rest of the configuration: suspending sessions around an update, what a get reports.
5. Theorems: the multiplex invariant of `GnssTracking` (the last request
   is the multiplex of the time-based sessions), for `SessionsServed`; `ToldServed` of `Geofence`, on `ModemInv`; `SessionsAgree` of `Batching`.
   `SettingsStand` of `GnssConfig`: per setting, what open requests, pending messages and the queue still bring is what was asked last.
