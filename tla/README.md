# Formal models of the my90ds device HALs

TLA+ modules for the hardware abstraction layers of this device tree, the TLC
configurations that check them on small instances, and TLAPS proofs of their
central theorems. The models are written from the C and C++ under `src/`.
`PROJECT.json` maps each definition to the lines it models, lists the runs, the
faulty variants every property must reject, the hazards and the theorems.

## The system and its parts

The tree holds independent libraries that run in different processes. They share
no state with each other; each talks to the framework on one side and to a driver,
a daemon or a modem library on the other.

| Part | Source | State | Hard behaviour | Modules |
|---|---|---|---|---|
| Sensors multi-HAL | `hal/sensors` | a circular queue per sub-HAL, handle maps, device vector | unlocked writes next to reads, two condition variables, partial open failure | `SensorEventQueue`, `SensorHandles`, `MultiHal`, `SensorStream`, `SensorModules` |
| RIL event loop | `hal/libril/ril_event.cpp` | watch table, timer and pending lists, wake pipe | threads add while the loop is in `select` | `RilEvent` |
| RIL request core | `hal/libril/ril.cpp` | pending requests, wake lock and its timer | vendor threads, the HIDL thread and the event loop interleave | `RilRequests`, `RilWakeLock` |
| Radio service | `hal/libril/ril_service.cpp`, the command tables, `ril.h` | callback objects and rwlock; heap blocks of a request; interface table | the client dies while answers are sent; out of memory half way; short payloads | `RadioCallbacks`, `RilInterface`, `RilCommands`, `RadioRequests`, `RadioResponses`, `RadioIndications`, `RadioService` |
| SAP service | `hal/libril/sap_service.cpp`, `RilSapSocket.cpp`, `rilSocketQueue.h` | queue of pending requests, unlocked callback | completions in any order on several threads, a dying client | `RilSap` |
| Wi-Fi HAL | `hal/wifi_hal` | command and handler tables, counted references, exit handshake | events race start, cancel and clean-up | `WifiCommands`, `WifiHal` |
| GPS HAL | `hal/gps/hal` | condition flags, session state, NMEA reader, EPO files | condition handshakes between four parties, retry alarms | `GpsHal`, `GpsNmea`, `GpsAgps`, `GpsEpo`, `GpsTime` |
| rild, graphics, camera, M4U, lights, power, shims | | | | not modelled, see below |

`MC...` modules hold values of constants that a `.cfg` cannot write down, and for
`GpsEpo` the surroundings of the download. `...Proofs` modules hold the theorems about
the module of that name; `MultiHalProofs` also those about `SensorEventQueue`,
`RilEventProofs` also those about `RilWakeLock`, whose timers the event loop runs (its
definitions are called `WakeInit`, `WakeNext`, ... so that both fit into one module), and
`GpsSessionProofs` goes on from `GpsHalProofs`.

Definitions ending in `_Something` after a source name are faulty variants: each
changes the definition that follows it the way a slip in the code would, and the
property it is paired with in `PROJECT.json` must then fail.

**Build.** The models follow the configuration of this tree: two SIMs
(`ANDROID_MULTI_SIM`), the MediaTek branches of libril (the others do not compile;
`Android.mk` tests `BOARD_USES_MTK_HARDWARE` while `BoardConfig.mk` sets
`BOARD_HAS_MTK_HARDWARE`), no `RIL_UNSOL_PENDING`; for the GPS HAL EPO support on, the
AT command tests off. `RIL_CHANNEL_QUEUING` is off in the build ("not fully working
yet", `Android.mk:54`) and its channel lists are not modelled.

## Modules and code

### Sensors event path: `MultiHal`

`queue[q]` is the `SensorEventQueue` of sub-HAL `q`, with `mStart`, `mSize` and the
array. `queue_mutex` is not a variable: the writers' two critical sections are
one step each (`WaitForSpace`/`GetRegion`, `MarkWritten`), and `poll()` holds it
from `readerPC = "scan"` until it waits or returns, one queue per step, so writers
need `MutexFree`. Between the critical sections the sub-HAL writes into the array
without the mutex, one slot per step (`DeviceWrites`, external). Both condition
variables may wake up spuriously. The refinement to `SensorStream` maps the array
to the sequence of readable records.

A meta-data event carries its handle in its payload; the test for unknown handles
(multihal.cpp:355) looks at the outer field, so such an event goes upstream with -1
inside although the comment there rules this out. The model does what the code does.

### Sensor modules: `SensorModules`

Handles are numbered by the place of a module in `sub_hw_modules`; calls and events
use the place of a device in `sub_hw_devices`, from which a sub-HAL that failed to
open is missing. Listing looks versions up in a map that `open_sensors` creates and
the first listing deletes; a missing entry ends the process (`crashed`). So listing
before the first open, or after an incomplete one, is a reachable crash; the
comment at multihal.cpp:572 says that `get_sensors_list` may come first. One
context is open at a time. `batch()` of the context is dead code: `device__batch`
calls `setDelay` and ignores its result. `fix_sensor_flags` is left out. `Loadable` are
the lists of modules in the order of the file, the outcomes of the `dlopen` loop;
`NewHandles` numbers their sensors module by module.

### Event loop: `RilEvent`

`watch` holds `watch_table`, the index of each event, `readFds` and `nfds`. The
loop copies `readFds` (`CopyReadFds`), reads the first deadline (`calcNextTimeout`)
and enters `select` without the mutex, three steps. What is done under `listMutex` is
one step, except `processReadReadies`, which takes one turn of its loop (`slot`) per step
while the others need `MutexFree`. A thread adds and then writes to the pipe
(`triggerEvLoop`), two steps.
`processTimeouts` moves timers whose deadline is strictly past, as the code does
(ril_event.cpp:175; the comment at 172 says `>=`). `select` may fail with EINTR or
another error; the latter ends the loop (`killed`). When `pipe()` fails the loop thread
ends before its first turn and the process goes on without it (`PipeFails`); the liveness
properties are about a loop that runs.

### Wake lock: `RilWakeLock`

`stage[i]` follows one `UserCallbackInfo`: armed as a timer, queued by
`userTimerCallback` with the parameter it had, expired after the callback has
tested the parameter, done. `Counted` is `version >= 13`, chosen at start. The
test of the parameter and the release under the mutex are two steps.

### Callback objects: `RadioCallbacks`

`lock` counts readers and names the writer, as `pthread_rwlock_t` does: unlocking
takes away a read lock whoever took it. Assertions are compiled out, so a failing
unlock goes unnoticed. `run[th]` is the program counter and the locals of a thread
in `checkReturnStatus` and its callers. One HIDL thread serves all calls of the
client. `stray` records that `checkReturnStatus` ran for a caller without the read
lock (`resendLastNITZTimeData`, `sendErrorResponse`): from then on the lock is
unbalanced, and the properties about it are stated up to that point.

### Requests: `RilRequests`

`info[a]` is the `RequestInfo` at address `a`; addresses are reused after `free()`.
Tokens of the vendor library are addresses. `caller[th]` is a thread inside a dispatch
function (the HIDL thread for the client, any thread for a local request), `worker[w]` a
vendor thread in `RIL_onRequestAck` or `RIL_onRequestComplete`. What is done under the
list's mutex is one step; the `RequestInfo` found is then read without it, in steps of
their own. The vendor library (external code) acknowledges before it completes and
completes a token once.

A dispatch function has four ways to fail. It finds no `RequestInfo` (`OutOfMemory`) or a
string longer than it claims to be (`Truncated`): nobody is answered, which `lost`
records. It answers an error itself (`DispatchFails`). Or it calls the response function
of a row that has none, and the process dies (`DispatchCrashes`). In all but the
first the `RequestInfo` stays in the list for good.

### Radio service: `RilInterface`, `RilCommands`, `RadioRequests`, `RadioResponses`, `RadioIndications`, `RadioService`

The tables come first. `RilInterface` is what `ril.h` fixes with the closed vendor
library: number, data and answer of every request and indication, a payload being a
number of elements of a type. `RilCommands` holds the two dispatch tables and the
index arithmetic into them. `RadioRequests` gives for every method the plans it
runs: outer blocks, copied strings, who frees them. `RadioResponses` and
`RadioIndications` give for every function the payloads it accepts, the elements it
reads, as what, and the callback it calls. `RadioService` runs the tables: one method at
a time (one HIDL thread), allocation failing at each block, the hand-over, the
completion with any payload, and indications, which may send requests themselves. It
also keeps `dataCallCids` and `Device_ID`. Converted fields are left out. `dataCallCids` is
one unlocked table for both slots; the model has one client of data calls that makes one
after the other, so two slots that set up calls at once, or get the same id, are outside
it. A plan ends in one of these ways: no `RequestInfo`, no memory for a block
(`OutOfMemory`), a string longer than it claims (`Truncated`), a refusal, a crash, or
`HandOver`. Payloads have every length from 0 to the declared one.

What the properties leave out is what the code does differently:
`setBarringPassword` drops the facility (ril.h:3506 declares it as first string);
`setSimCardPower` sends vendor requests that index rows 28 and 10 of other requests;
`hangupForegroundResumeBackgroundResponse` calls its neighbour's callback; an
out-of-memory request of `incomingCallInd` reaches a NULL function and one of
`registrationSuspendInd` is answered as `setBandMode`; a copy found truncated stays
allocated, except in `setDataProfile`, and its request is answered by nobody;
`setInitialAttachApn` for libraries up to version 14 passes on strings that an unchecked
`calloc` left NULL, and its `operatorNumeric` copies into or from NULL (a crash);
`clearPendingBuffer` frees interior pointers of a data profile list; `setupDataCallResponse` expects version 6 of a
structure declared as version 11; cell info records are read as pointers; registration
answers of 5 to 13 (voice) or 5 (data) strings, vendor indications with too few strings
and empty lists of ints are read beyond their end (`ReadPast` has the exact lengths, and
`ReadsWithinPayload` says that there are no others);
`setAttachApnInd` does not test `calloc`; two set-ups under way share an interface.

### SAP: `RilSap`

`req[r]` is a request, `queue[s]` the pending queue of a slot (new requests in front),
`vendor` the tokens the vendor library has, `heap` the allocated blocks. The HIDL
thread runs each request method step by step; each worker is a vendor thread in
`onRequestComplete` or `onUnsolicitedResponse`. `sapCallback` has no lock, so test, use
and reset are separate steps. The client counts its tokens: one that reused a
token before `checkAndDequeue` ran would have its new request freed. Known facts the
model contains: `msg` is read after a completion may have freed it
(sap_service.cpp:126, a possible crash); a late failure resets the callback of a client
that is back; `sendFailedResponse` calls a NULL callback; an APDU's command and the
decoded answers are never freed; out of memory in `dispatchRequest` or
`onRequestComplete` answers nobody; an unsolicited message before `registerService`
finds no service. The dispatch queue and `dequeue()` are unused code.

### Wi-Fi HAL: `WifiCommands`, `WifiHal`

`WifiCommands` lists for each command class the attributes of its requests with their
widths (so that a list too long for a page or for its count byte shows), the order
of building, registering and sending in `start()` and `cancel()`, what its events
report and what its answers store. `WifiHal` runs them on the calling thread, one step
of `start()`, `cancel()` or `wifi_cleanup` at a time, against `wifi_event_loop`:
lookup under `cb_lock`, then the handler without it, then the release. `object[o].refs`
is the reference count; numbers are not reused. `wifi_initialize` may fail at each step
after the first of its ten; `held` are the resources it acquired and nobody has released.

A ranging collects results over several events (`idx` is `currentIdx`, which the code
compares with nothing). The model follows an overrun of the array of
`RTT_MAX_RESULTS` pointers: one result too many lands on `rttParams`, which is not used
any more; further ones on `rttHandler` and behind the object, and then the process may die
at any time (`OverrunKills`) and dies when it reports (`ReportCrashes`). It also dies of a
ranging event without vendor data (`NoRangingData`). `WithinRoom` is about the other classes.

The framework is assumed to run one command at a time per event. Known facts:
a ranging completion in flight when its command is cancelled unregisters the handler
of the next ranging, so ranging is outside `ListensWhileWanted`; stops without id leave
the command in the table of 64 until clean-up; the cancellation of a ranging with more than
255 devices states their number modulo 256, as long as the addresses fit the message
(`WholeRequestsOnly` says that nothing else is miscounted); results collected by a ranging
that never completes are not freed; `cmd[]` has no lock, each register or
unregister is one step here; after `POLLHUP` the loop ends without the answer
`wifi_cleanup` reads; a failed `wifi_initialize` leaks its socket pair and interface
handles, and clean-up leaves both tables and the interface handles allocated (what is left
is part of `ReleasesInOrder`); a cancelled ANQP configuration sends its list again. `requestEvent` and
`wifi_get_cmd` are unused; a failing write of "Exit" is not modelled.

### GPS HAL: `GpsHal`, `GpsNmea`, `GpsAgps`, `GpsEpo`, `GpsTime`

`GpsHal` has four actors: the framework's call (its program counter is `fw`),
`gps_state_thread`, the EPO thread, and MNLD with the engine (external). `cond` are the
flags of `lock_for_sync`; `trouble` records a fault after which a call may hang.
`GpsNmea` is the reader as operators on a record; `GpsAgps` the layout of the messages
and the callback each leads to; `GpsEpo` the download in pieces, retry alarm,
resumption and hand-over to MNLD; `GpsTime` the calendar that turns GPS days into dates.
A behaviour explores one use: calls with faults, a fix, satellite lists or messages.
In `gps_epo` the EPO part of a start is one step. The code holds no lock there, so the EPO
thread could run between the look at the files and the reset of the counters; the
interleaving of a start with the pieces of a download, which `disturbed` records, is
explored at the granularity of whole starts.

Known facts the model contains and the properties step around: `init` hangs when the
device, the socket pair or a thread fails (the wait is at gps_mtk_aosp.c:4141); `stop`
spins when the engine ended by itself (4489); an end of the engine between the wait for `M_START` and
the setting of `start_flag` is lost; left-over NMEA releases the next `M_START` early; a
start or an `UPDATE_DONE` resets the EPO counters in the middle of a piece (`disturbed`);
a piece without a record is appended again; an AGPS message before `init` meets a NULL
callback; a GSV group that goes on after its list was
reported or counted is counted again (`orphan`). Values
of `gps.conf` lose their last character when lines end in LF only.

## Runs

| Run | Instance | Shows |
|---|---|---|
| `multihal` | 2 sub-HALs, queues of 2, three events of one and one of the other, fair | the region being written is private, `SensorStream` is refined, every event is taken, writers resume |
| `sensor_modules` | 3 sub-HALs, any may be missing or fail, 3 opens | calls and events reach the owner while the modules up to it are open; handles keep their meaning over a re-open, no crash once everything was open |
| `sensor_parallel` | the same | violated: devices are not parallel to modules, calls go to the neighbour of the owner |
| `ril_event` | table of 2, 2 descriptors and the pipe, 2 timers, 1 thread | tables and lists agree, no event is missed by a blocked loop, timers fire, data is served |
| `ril_wakelock` | 3 timers, 2 senders, both versions | a held lock has a live timer and is given back |
| `radio_callbacks` | 2 services, 2 incarnations of the client, 2 vendor threads | balanced lock and stable callbacks, only dead clients removed, installation finishes |
| `ril_requests` | 2 addresses, 2 slots, 2 serials and a local request, 2 issuing and 2 completing threads | no dangling request, no token refused, one answer each, every request with a response function is answered unless its dispatch gives up silently or the process dies |
| `radio_service` | every method, response and indication; vendor versions 14 and 15; 2 data calls | blocks freed once, strings wiped, errors reported and only those, payloads overrun at the known lengths only, the own row of both tables, a free interface |
| `sap` | 1 slot, all 8 methods, 2 requests, 2 vendor threads, 1 death, 1 unsolicited message | blocks live exactly as long as they are referred to, true answers, every request answered |
| `wifi` | 2 objects, command table of 2, lists of 1, 300 and 400, ranging array of 1 and up to 2 results beyond it, 1 event in the socket | references balance, handlers stay while needed, whole requests, no overrun but by ranging, resources released in order and what is left, clean-up returns |
| `gps` | 2 inits, 1 fault, 1 message, lists of 3 and 4 satellites, 2 per sentence | start handshake, agreement on the session, calls return, callbacks only through stored tables, sound satellite lists, no fix of an earlier session |
| `gps_epo` | 2 pieces, retry limit 2, 2 days at the end of a leap year; the calendar from 31 December 2015 to 1 March 2020 | the file handed over is whole, its dates and every day of the calendar are right, retries end |

**Bounds.** A queue of two slots is full, empty and wrapped; three events go round
it. The table of two slots is full with the pipe and one descriptor, so adding fails; a
second thread (282,544 states) changes nothing. Three timers give a cancelled one, its
successor and a third in between. With two addresses, three requests force
reuse. Two clients are a death and a return; the bound on messages lets both vendor
threads fail on the same dead client. `radio_service` has every row of its tables, and
payloads short, exact and long; the two versions are the ones the code tells apart. Two
SAP requests can be completed in either order; slots share nothing, so one is enough;
two requests at once are of two kinds (with and without a command: `Several`) and without
unsolicited messages (`Mixed`); the proofs about `RilSap` do without both restrictions.
Two Wi-Fi objects are a running command and a second one that
fails or replaces it, of the same kind or a scan or a ranging (`Companions`); 300
elements exceed a byte, and a page for all but the addresses of a cancelled ranging, which
400 exceed; two results beyond the array (`MaxOverrun`) reach both the harmless and the
fatal place; queries run before any command exists.
In `gps` the satellite arrays are small enough to be full, and a
behaviour explores one use; commands are bounded by `MaxMessages`, MNLD's own messages
come while no session starts or stops, lines with content while no call is under way.
An over-long line is read while no satellite is listed; the old position mode is
explored with satellite lists, where it decides the size of the array.
EPO is off in `gps` and is checked in `gps_epo`.

Deadlock checking is off where the system may stop: after a crash or the last open,
when all clients are dead and all messages sent, after clean-up, after a fault that
leaves a call waiting.

**Fairness.** Weak fairness for every thread's own steps: a runnable thread runs.
Strong fairness where a thread needs a lock or a descriptor that others take and give
back: the writers' critical sections in `MultiHal` (`queue_mutex`), `SelectReturns`
in `RilEvent`, the completion of a request by some vendor thread in `RilRequests`
(external: the vendor answers what it was given). `MultiHal` also assumes that
the framework keeps calling `poll()`, and `RilEvent` that time passes. The rwlock is
weakly fair only, so `ConnectReturns` relies on the bounded number of messages:
with endless traffic a reader-preferring lock may starve the writer. In `RilSap` the
vendor completes each request it has, in `GpsHal` MNLD and the engine take the
messages sent to them and the HAL thread serves each of its descriptors, in `GpsEpo`
the alarm goes off. `CleanupReturns` allows that a ranging kills the process and assumes the driver falls quiet: the loop serves
events before the request to exit. `RadioService` has no fairness.

## Proofs

TLAPS checks the following for all values of the constants that satisfy the named
assumptions of the modules: any number of sub-HALs, any capacity and any argument of
`poll()`, any configuration file of sub-HALs with any sensors and API levels; any number
of timers, descriptors, threads, clients, services, requests and addresses in libril; in
the GPS HAL any lines of `NmeaLine`, any sizes of the satellite lists, and any bounds on
inits, faults and messages. The bounds of the runs (`MaxTime`, `MaxMessages`, `MaxSerial`,
...) are constants too, so the theorems hold for each of them; restrictions that are
guards of the models (in `GpsHal`, one use per behaviour and when MNLD's own messages
come) stay. The inductive invariants were checked by TLC on the runs' instances. No proof
uses fairness: the specifications proved about have none and the runs add it (`FairSpec`),
except in `RilSap`, where `Spec` has it.

The assumptions say that names of different things are different (`None` is no
address, client or thread; timers are no descriptors), that bounds and table sizes
are natural numbers (positive where a table of size 0 makes no sense), that there are
finitely many vendor threads (`ThreadAssumption`: the lock counts them), that lines
are made of the fields the reader tells apart (`LineAssumption`), and that no sub-HAL is
listed twice in the configuration file and none lists a local handle twice
(`PathAssumption`, `SensorAssumption`).

- **`MultiHalProofs`**: first the arithmetic of the circular queue. `RegionFits`: a
  queue that is not full yields a region of at least one slot, inside the array and
  disjoint from the readable slots. The lemmas express `% mCapacity` by at most one
  subtraction and show that readable slots are pairwise different. Then `MultiHal`: the
  inductive invariant `IInv` adds three things to the
  properties. `QueueInv`: the region handed to a sub-HAL starts behind the readable
  records and fits into the free slots, which stays true while `poll()` dequeues; and
  the records, readable or just written, carry consecutive numbers from `taken + 1`.
  `ReaderInv`: the `empties` queues the scan has just passed are still empty, since
  the mutex is held. `NoMissedData`. From it follow `TypeCorrect`, `RegionPrivacy`,
  `QueueOrder`, `NoMissedWakeup`, the action property `RecordsStable`, and
  `Refinement`: `MarkWritten` is `Report`, `ScanEvent` is `Take`, `PollDone` is
  `Return`, everything else (the unlocked writes too) is a stutter.
- **`SensorModulesProofs`**: `CallsReachTheOwner` (`RoutedToOwner`) and the action property
  `HandlesSurviveReopening` (`ReopenSafe`). `Numbered`: once the sensors are listed, every
  sensor of every loaded module has a global handle, and every handle is that of a loaded
  module; it rests on `AssignAll`, which says what the recursive function in `NewHandles`
  has numbered at its end (by the least module at which it would not be so). `VersionsKnown`: while a context is open and
  until the first listing, the versions known are those of its devices, so listing does
  not end the process when all have opened. `LastExplained`: the last call or event was
  routed by the tables there are now. From these, the place of the owner in both vectors
  is the same when the modules up to it are open.
- **`RilEventProofs`**: `NoEventIsHidden`, that `EventsConsistent` always holds. `IInv`
  adds `PipeWatched` (the pipe is in every copy of `readFds` the loop sleeps on),
  `PendingSound` (`pending_list` is empty up to `processTimeouts`, and holds nothing of the
  slots `processReadReadies` has still to visit, so no event is linked twice) and `Once`.
  `NoMissedAdd` needs no more than these: a thread between its `ril_event_add` and its
  write to the pipe, or a byte in the pipe, stands for every event that the loop's copies
  miss. The lemmas are about the list walks: `Leading` and the new `nfds` of `removeWatch`
  exist and are what the loops find. The last part is about `RilWakeLock`:
  `NeverAwakeForGood` and `CountedLock`. `WakeInv` is `WakeTypeOK`, `HeldHasTimer`,
  `HeldIsCounted` and `FreshInfos` (an unused structure is neither cancelled nor the last
  one, so a new timer starts uncancelled). Every cancellation comes with a newer timer or
  with the release of the lock, which is why the disjunction in `HeldHasTimer` is
  inductive.
- **`RadioCallbacksProofs`**: `CallbacksStayInstalled` and the action property
  `OnlyDeadAreReset`. `Counting`: until a call without the read lock has failed
  (`stray`), `lock.readers` is the number of readers; afterwards it is at least that
  number, less one while the HIDL thread waits for or holds the lock it gave up without
  having it (`Borrowing`). `OnlyDeadAreReset` holds with strays too. `Targets`: while a
  thread calls, its target or nothing is installed; once it has noted the counter, as long
  as the counter is the same, what is installed belongs to a dead client or is nothing.
  `ReadersCounted` says how one thread's step changes the number of readers.
- **`RilRequestsProofs`**: `NothingDangles` and `AtMostOneAnswer`. A `RequestInfo` is in
  the list of its slot while its caller or the vendor library knows its address (`Linked`,
  `Sending`) and with one of them only (`OnePlace`); one that has been unlinked is known
  to the single vendor thread that frees it (`Working`). With `Tokens` (live requests with
  serials have different ones) and `Open` (what can still be answered has not been)
  addresses may be reused.
- **`RilSapProofs`**: `SapBlocksAreSound` (`SapMemorySound`) and `SapClientIsToldTheTruth`
  (`SapAnswersTrue`). `SapInv` follows a request: it is with the HIDL thread until
  `onRequest` has handed it over, then with the vendor library, then with the one thread
  that completes it (`OneOwner`), and it is in the queue of its slot from `Enqueue` to
  `checkAndDequeue` (`Queued`). `Blocks` says for each block of a request in which of these
  places it is allocated. `Queues`: tokens are different, so the first match
  `checkAndDequeue` finds is the request itself (`FirstMatchIsOwn`), wherever new ones have
  been put in front. `Counts`: what no thread has called the client for has no answer.
  `Truth`: the callback is that of the method and its result that of the vendor library.
- **`GpsHalProofs`**: `StartsCanBegin`, `CallbacksAreReady`, `SvListsAreSound` and
  `FixesAreCurrent`, all of them with faults. `Handshake` adds to the start handshake
  that `flag_unlock` is taken back before `start_flag`. `Tables`: a flag implies its
  table, and where the thread makes the call the table is there. `Reports` is
  about the reader: `ListFilled` says that the groups counted and the group being read
  fit the array and were written, unless a list was continued after it had been counted
  (`orphan`). The loop over the satellites of a sentence is a recursive function; its
  result is shown sound by the least place at which it would not be (`LeastNatural`).
- **`GpsSessionProofs`**: `PartiesAgree`. `SessionAgreed` speaks of quiet states before any
  fault that `trouble` records; `SInv` is `~trouble => Session`, and `Session` says what is
  true on the way there. Places of commands in the queues stand
  for the future: at most one START and one STOP are under way, a STOP finds the engine
  running, a CLEANUP finds it stopped (`Commanded`); the end of a session is a STOP, a
  death message or a step of `HAL_CMD_MNL_DIE`, never two of them, and `start_flag` is
  set exactly as long (`Ending`, `Flags`); the last order in the control socket says what
  `started` will be (`Orders`); the HAL thread lives from `gps_state_init` to CMD_QUIT,
  which is the last command (`Thread`). A step that none of this depends on is
  `Unnoticed`: NMEA data, the extensions, the EPO thread, MNLD's own messages, and the steps
  of a call before it sends its command.

Only model-checked:
- all liveness properties (`EveryEventTaken`, `WriterResumes`, `TimerFires`,
  `WatchServed`, `LockReleased`, `ConnectReturns`, `EveryRequestAnswered`, `SapAnswered`,
  `CleanupReturns`, `CallsReturn`, `RetryEnds`), which are outside the prover's reach;
- the safety properties of `RadioService`, `WifiHal` and `GpsEpo`, for which no proof has
  been attempted. They hold on the instances of the runs, and nothing is claimed for
  other values of their constants. `RadioService` and `WifiHal` use `SequencesExt`, whose
  operators would have to be replaced or described by lemmas first.

## Assumptions about the code around

- The code is built with `NDEBUG`: `assert(ret == 0)` after lock calls does nothing.
- Reads and writes of one pointer or flag without a lock are single steps; tearing of
  `s_lastNITZTimeData` and its size is not modelled.
- Sub-HALs write at most the records they were given room for, and return that number.
- The vendor RIL acknowledges before it completes, and completes a token once.
- Process death is the only way a callback object fails.
- The HIDL services have one thread (`configureRpcThreadpool(1)`).
- The Wi-Fi framework runs one command at a time per event; the SAP client counts its
  tokens.

## Where code and comments differ

Besides what is listed with the modules:

- `sensor_parallel`: calls go to the wrong sub-HAL after a partial open.
- A wake timer that is cancelled after its callback has tested the parameter still
  releases the lock of the newer message (ril.cpp:1538, comment at 1536). A late
  acknowledgement is counted against a newer message.
- `resendLastNITZTimeData` and `sendErrorResponse` call without the read lock. If the
  client is dead, `checkReturnStatus` unlocks and re-locks what it did not have
  (ril_service.cpp:801), one read lock stays behind, and a later
  `setResponseFunctions` never returns.
- A NITZ time whose delivery meets a dead client is neither delivered nor kept
  (ril.cpp:1642, comment at 1644).
- `close` of the sensors device does not stop the writer threads.

## Not modelled

- The cache of unsolicited responses (`RIL_UNSOL_PENDING`) and the channel lists of
  `my_enqueue` and `my_dequeue` (`RIL_CHANNEL_QUEUING`): not in the build.
- Conversions of fields between HIDL and RIL structures, and the fields of Wi-Fi and
  GPS records beyond those a property tells apart.
- `rild`: sequential start-up. Power, shims and supplicant commands: single writes.
- Lights: writes of one colour to sysfs under a mutex.
- Graphics (`GuiExt`, watchdog, dump helpers, gralloc wrappers) and camera (record
  buffers, sensor listener), M4U: their state is in proprietary libraries, in kernel
  drivers or in framework classes outside this tree.
- GPS: the AT command tests (not compiled) and the codec socket.
