# Lynavo Drive: models and proofs

Lynavo Drive moves photos and videos from phones to a desktop over the local
network.  The desktop runs a Go process, the *sidecar*
(`services/sidecar-go`), that phones talk to over TCP (protocol LMUP/2); an
Electron application starts the sidecar and shows what it does; a React Native
application on the phone sits on a native engine that scans and uploads.  This
directory holds TLA+ models of them, the TLC instances that check the models
and the theorems TLAPS proves about them.

Paths below are relative to the repository's root; `server/` stands for
`services/sidecar-go/internal/server/`, `main/` and `renderer/` for directories
of `apps/desktop/src/`, `screens/` and `services/` for directories of
`apps/mobile/src/`.

## 1. The system

| part | state it keeps | operations | talks to | module |
|---|---|---|---|---|
| upload receiver (`server/handler_sync.go`, `handler_file.go`, `file_writer.go`, `store/uploads.go`) | `.part` files in staging, received files, `uploads` rows, daily statistics, one `FileWriter` per connection | FILE_INIT, FILE_DATA, FILE_END, pause, finalize | phones (frames), SQLite, disk | `UploadReceiver`, `Delivery` |
| connection (`server/connection.go`) | protocol state, ACK coalescing under `ackMu`, timers | read loop, `shouldSendAck`, `scheduleAckFlush`, `flushScheduledAck`, teardown | the handlers; AfterFunc goroutines | `AckCoalescer` |
| registry (`server/listener.go`) and sessions (`store/sessions.go`) | `connectedClients`, `activeConns`, `sessions` rows | register, unregister, remove, set state, begin, complete, interrupt a session | event hub, HTTP API | `ClientRegistry` |
| hello, authentication, pairing of the sidecar | paired devices, wrong-code counters, blocks | hello, auth, pair, revoke, block, unblock | registry, HTTP API | - |
| settings of the sidecar, receive-directory names, mDNS, presence, wake, share detector, disk monitor, resource API | the receive root; caches of the environment | change of the root, refresh, list, read, delete | windows, phones, operating system | - |
| event hub (`events/hub.go`) | websocket clients | broadcast | windows | part of `ClientRegistry` |
| sidecar manager (`main/sidecar-manager.ts`) | child process, status, restart budget, health interval | start, stop, restart, health check, retry | operating system, windows | `SidecarSupervisor` |
| websocket bridge and power saving (`main/ws-bridge.ts`, `power-save-*.ts`) | socket, reconnect timer, blocker, generation | connect, disconnect, reconnect, refresh | sidecar | `EventBridge` |
| thumbnails and diagnostics (`main/`) | cache and temporary directories | generate, export | disk | `MainServices` |
| desktop window (`renderer/`) | stores of devices, received files, settings; pages and dialogs | requests, pushed events, user actions | main process, sidecar | `DashboardStore`, `ReceivedLibrary`, `DesktopWindow`, `DesktopSettings`, `DesktopShell` |
| discovery and pairing of the phone (`screens/DeviceDiscoveryScreen.tsx`, `QRScannerScreen.tsx`, `CodeVerifyScreen.tsx`, `RootNavigator.tsx`) | screens on the stack, scan, code entry, recent desktops | scan, pair, switch, reset | native engine | `MobilePairing` |
| other screens of the phone | lists, selections, downloads, stored records, settings | loads, pages, saves, downloads | native engine, AsyncStorage | `AlbumBrowser`, `AutoUpload`, `LocalComputer`, `PhoneDownloads`, `PhoneThumbnails`, `SyncActivity`, `PhoneSettings`, `PhoneNavigation` |
| phone engines (iOS `SyncEngineManager.swift`, Android `NativeSyncEngineModule.kt`) | queue of assets, binding, one sync round at a time | scan, upload one file after the other, retry | sidecar | the upload loop, as the phone of `UploadReceiver` and `AckCoalescer` |

What is hard.  On the wire, every TCP connection is a goroutine, a phone that
lost its Wi-Fi opens a second one while the first one's frames are still being
worked on, and the handlers touch a database, a file system and shared maps
without one lock around all three; rows are written less often than files, so a
crash leaves the two apart; ACKs are held back and released by timers.  In the
two applications everything waits: handlers go on after their page has been
left, answers overtake each other, timers outlive what they were set for, and
events are lost while nobody listens.  The hazards, each at its line and with
the property that watches it, are in `PROJECT.json`.

What makes each part correct:

* *upload receiver*: a file the phone has crossed off is on the desktop, whole;
  a resumed upload is a continuation; every queued file gets through in the end;
  a received file is never replaced, which the code wants and does not achieve;
* *ACK coalescing*: an ACK promises only what was written, for the file being
  sent; whatever is held back is released, so that no sender waits forever;
* *registry*: a client is listed exactly while it is there; it counts as syncing
  while it syncs; every change is announced; sessions end, once;
* *sidecar manager*: one child at a time, and it is the one the manager knows; a
  sidecar shown as healthy is watched; "starting" and quitting end;
* *bridge*: one socket, and always one or a timer for one; nothing keeps the
  computer awake for a transfer that is gone;
* *windows and screens*: what is shown is what is so once nothing is under way,
  whichever answers were late, lost or overtaken; nothing recorded gets lost; no
  spinner turns forever.  Where the code does not achieve this for some crossing,
  a history variable names the crossing, and the property, whose comment says so,
  is about all the others: `missed` (pairing), `crossed` (album), `lost` (auto
  upload), `recordsCross` (records), `answerCrossed` (activity), `overlapped`
  (settings).

## 2. Modules

| group | modules |
|---|---|
| abstract specification | `Delivery` |
| sidecar | `UploadReceiver`, `AckCoalescer`, `ClientRegistry` |
| desktop | `SidecarSupervisor`, `EventBridge`, `MainServices`, `DashboardStore`, `ReceivedLibrary`, `DesktopWindow`, `DesktopSettings`, `DesktopShell` |
| phone | `MobilePairing`, `AlbumBrowser`, `AutoUpload`, `LocalComputer`, `PhoneDownloads`, `PhoneThumbnails`, `SyncActivity`, `PhoneSettings`, `PhoneNavigation`, and `PhoneValues` with the value they all take for null |
| instances for TLC | `MCUploadReceiver`, `MCAckCoalescer`, `MCClientRegistry`, `MCDesktop`, `MCMobile` |
| proofs | `UploadReceiver_proofs`, `UploadReceiver_delivery_proofs`, `AckCoalescer_proofs`, `ClientRegistry_proofs`, `SidecarSupervisor_proofs`, `Desktop_proofs`, `MobilePairing_proofs`, `Phone_proofs` |

### Delivery

What phone and sidecar promise together about an upload, with nothing of how:
`copies` are the files with a whole copy among the received ones, `told` those
the phone has crossed off, `lost` those of which the user deleted a copy.  A
copy arrives in one step; the phone crosses off only what is there, or was until
its user deleted it.  `UploadReceiver` implements it (`DeliveryKept`) with the
receive directory and the phone's queue for these variables.

### UploadReceiver

One phone, its connections `Conns`, its files `Keys`.  `part`, `finals` and
`data` are the disk: files are inodes, because an open descriptor follows the
inode through `os.Rename`.  A file is `Size` units and unit *u* belongs at
position *u*, so "intact" can be read off.  `row` is the `uploads` table,
`writer[c]` is `connection.fileWriter` with both its own `offset` and the
descriptor's position `pos`, which `WriteAt` lets drift apart.  `item`, `cur`
and `task` are the phone.

| code | actions |
|---|---|
| `handleFileInit` | `FileInitReject`; `FileInitRead` (GetUpload, FinalFileExists, SKIP) and then `FileInitResume`, `FileInitUpload` or `FileInitError` |
| `handleFileData` | `FileDataWrite`, `FileDataPause` (storage gone, disk low), `FileDataDiskFull`, `FileDataError`, `ProtocolError` (no writer) |
| `handleFileEnd` | `FileEndVerify`, `FileEndMismatch`, `FileEndHashError`, `FileEndUnavailable`; then `FileEndPlace` (the look at the name), `FileEndMove` (the rename), `FileEndUnplaced`, `FileEndNoDirName`; then `FileEndComplete` (CompleteUpload, which may fail), `FileEndStats` |
| `handle()`'s end | `ReadEOF`, `Teardown` |
| the process | `Crash` |
| the phone's loop | `PhoneConnect`, `PhoneInit`, `PhoneInitRes`, `PhoneData`, `PhoneEnd`, `PhoneEndRes`, `PhoneError`, `PhoneDrop`, `PhoneReoffer` |
| outside | `UserDeletesFinal`, `PartVanishes` |

A handler is cut where another goroutine or a crash can make a difference:
between the read of the row and the opening of the file, between the choice of
a name and the rename, between the rename and the row, between the row and the
answer.  Everything else of a handler is one step.  After a refusal the phone
may keep its connection (Android) or close it (iOS).  `ack` is the highest
offset acknowledged for the connection's file; when it is sent is
`AckCoalescer`'s subject.  The cross-device fallback of `Finalize` is taken as
the rename it replaces; sync state checks are left out, because the modelled
phone sends file frames only inside a round.

### AckCoalescer

One connection, the fields under `ackMu` (`ackKey`, `lastAck`, `age`, the timer
`armed` with `pendKey` and `pendPos`), the handler with its position between
`shouldSendAck`, the send and `markAckSent`, and the goroutines of expired
timers.  `loose` counts flushes nobody can stop any more: `time.Timer.Stop`
does not recall an expired timer, and `scheduleAckFlush` can overwrite the
reference to an armed one.  `FlushTake`, `FlushSend` and `FlushMark` are
`flushScheduledAck`, which gives up the lock in the middle.  The phone is the
sending loop of iOS with a window chosen for each file; a window of one unit is
Android's stop-and-wait loop.  An ACK in front of FILE_INIT_RES is an error that
ends the phone's round, and with it the connection modelled.

`PromptFlush` names an assumption about scheduling: a flush goroutine that has
released the lock sends and records its ACK before the handler gets another
frame.  The Go scheduler does not promise it; it is the usual case, a few
microseconds against a network frame.  The run `ack_race` shows what happens
without it, and `AcksAreWritten` is proved without it.

### ClientRegistry

`pc[c]` says where each connection's goroutine stands, `listed` is
`connectedClients`, `active` is `activeConns`, `session` the rows, `news[c]` the
`transfer.active.changed` a goroutine has decided under `TCPServer.mu` and not
yet broadcast, `shown` what the windows saw last.  `Register` /
`Authenticated`, `SyncBegin` / `SyncBegun`, `SyncEnd` / `SyncEnded`,
`Unregister` / `RemoveClient` / `InterruptSession` are the halves of
`handleAuth` (and `handlePair`), `handleSyncBegin`, `handleSyncEnd` and the
deferred teardown, cut where the lock is released.  `Unregister` stands for
every end of a connection: closed by the phone, silent for `readDeadline`,
refused, or closed by `DisconnectClients`.

### The desktop application

In the Electron and React code an action is what runs between two awaits; a
handler that waits is a record in a set of calls or requests and goes on
whatever has happened meanwhile.

| module | what it stands for |
|---|---|
| `SidecarSupervisor` | `SidecarManager` as `index.ts` and the retry button drive it.  `call[k]` says where each `start()` or `stop()` waits, `proc` what the operating system knows of each process; one process can hold the port, and whoever holds it answers the health request.  Only the budgets of crashes, hangs, refused kills and retries are bounded |
| `EventBridge` | `ws-bridge.ts` with each socket's own life (`ready`) and its late `close` handler, the coordinator's `generation`, the answers to getTransferActive in `asked`, the blocker and its stored preference; any state of the supervisor may follow any other |
| `MainServices` | the checks, the await and the write of a thumbnail while the directory is exchanged; the steps of an export while logs rotate |
| `DashboardStore` | snapshots, pushed events and the debounced offline status of a phone's row, in time: `Tick` is a unit of about three seconds, the offline timer one (`OfflineAfter`) and the polls of `AppShell` three (`PollAfter`), a little more often than every ten seconds.  A timer counts down and is started anew by every event or snapshot that says "offline", as in `scheduleOfflineStatus`; an answer takes any time; `busy` stands for other phones that upload, each of whose files is followed by a snapshot |
| `ReceivedLibrary` | the list read page by page and the dialog of a phone's folders |
| `DesktopWindow` | the pages that change the sidecar, with one handler per request that remembers the settings it saw; answers are taken in any order |
| `DesktopSettings`, `DesktopShell` | the settings page and its calls to the main process; banner, overlay, permissions, downloads and windows |

`MCDesktop` composes all of them.  They share no state in the model, so a
behaviour is one of the component that `which` names, and the others stay in one
initial state.  The modules that are proved
about (`SidecarSupervisor`, `EventBridge`, `MainServices`, `ReceivedLibrary`,
`DesktopShell`) and `DesktopWindow` are extended, so that the properties the run checks are word for
word those of the theorems; `DashboardStore` and `DesktopSettings` are instances.

### The phone

| module | what it stands for |
|---|---|
| `MobilePairing` | from the default route over scan, list, typed address, QR code and code entry to the home screen, and back when the pairing is no longer valid.  `queue` is what native has sent and JavaScript has not taken, in order; `missed` names the two windows in which the watcher misses an invalidation; `scr.inst` tells mounts of the discovery screen apart; `scr.ref` is `devicesRef.current`, which the timers read and which follows the list in a passive effect (`RefFollows`), any time after the commit |
| `AlbumBrowser` | reloads, pages and refreshes of the album, the permission dialog that the loads share |
| `AutoUpload` | enable, disable and configure from two screens, and the session's baseline in the module variable and in AsyncStorage.  Each await is a step of its own: what storage said is taken later, whatever has happened meanwhile (`StorageAnswers`), and native is told "off" before the session is forgotten (`Disable`, `Forget`, `ClearStored`); `lost` names the behaviours in which a baseline survives its session |
| `LocalComputer` | root and folders with timeouts and a retry, selection, downloads, opening and sharing |
| `PhoneDownloads`, `PhoneThumbnails` | the received files, downloads that outlive their screen, the stored records and their pictures |
| `SyncActivity` | snapshots and pushed states over focus and blur |
| `PhoneSettings`, `PhoneNavigation` | overlapping saves of name and language; tabs, routes, tutorial, help and exports |

The native engine, AsyncStorage, React Navigation and the image loader are
external: they answer in their own time, in any order unless the bridge orders
them, or fail.  `MCMobile` composes the modules like `MCDesktop`; it extends the
eight that are proved about and takes instances of `PhoneNavigation`, of
`MobilePairing` once more for the camera, and of `LocalComputer` once more for
files.

## 3. Runs

| run | instance | shows |
|---|---|---|
| `receiver_overlap` | 2 connections, 1 file of 2 units, one each of fault, crash, lost connection, deletion; no hash, as the phones send none | `PhoneDoneIsStored`, `StoredIsPrefix`, `AckedIsWritten`, the refinement `DeliveryKept`, and under fairness `AllDelivered` |
| `receiver_hash` | 1 connection, 2 files of one name and 3 units, chunks of 1 or 2 units, hash; one each of fault (also a disk that fills in the middle of a chunk), purge, lost connection, second offer (205 000 states) | `VerifiedIsIntact` |
| `receiver_overwrite` | 2 connections, 2 files of one name, one lost connection | **violated**: `NeverOverwritten` |
| `receiver_size` | as above without hash | **violated**: `DoneHasDeclaredSize` |
| `receiver_resume` | 1 lost connection | **violated**: `NoRetransmitFromZero` |
| `ack_coalesce` | 2 files of 5 units, new or resumed, windows 1 and 3, `ackFlushBytes` 3, prompt flushes | `AckNeverAhead`, `AckOfCurrentFile`, `TimedAckFlush`, `AllSent` |
| `ack_stale` | a file started over above half of itself, window 1 | **violated**: `TimedAckFlush` |
| `ack_race` | a delayed flush goroutine, window 2 | **violated**: `TimedAckFlush` |
| `registry_overlap` | phone A with two connections, phone B, two sessions, one failed write or crash | `ListedWhileConnected`, `StateOfSoleConnection`, `ChangesAnnounced`, `TerminalStays`, `SessionsEnd` |
| `registry_events` | the same without faults | **violated**: `LastEventCurrent` |
| `desktop` | every desktop module on an instance of its own (525 000 states) | `NoOrphan`, `HealthyIsWatched`, `StartupEnds`, `ShutdownEnds`; `StreamKept`, `ActiveOnlyWhileHealthy`; `FilesInPlace`; `OfflineShown`, `DialogOfLastClick`, `ButtonComesBack`, `ShellIsCurrent` |
| `mobile` | every module of the phone, two of them twice (901 000 states) | `HomeIsBound`, `FirstScanTrue`, `ListOfView`, `SessionIsFresh`, `ItemsAreOfFolder`, `BrowsingEnds`, `RecordsKept`, `ShownIsTrue`, `ShownIsInForce`, `NoStaleSignature` |

Three properties are two in one: `StreamKept` says that there is a stream and
that there is only one, `FilesInPlace` is `ThumbnailsInPlace` and
`ExportsAreWhole`, and `TypesOK` joins the type invariants of the modules a run
composes.

The properties of the six runs marked as violated quote what the repository's
documents, comments, messages or tests say; the findings in `PROJECT.json` tell
the story of each counterexample.  In short: a lost connection before the first
throttled progress write makes the next attempt start over (`receiver_resume`)
above a leftover `.part` file; if that attempt uses other chunk sizes, `WriteAt`
mixes positional and sequential writes and the file comes out wrong, which nobody
notices because the size is only logged (`receiver_size`); if the sender waits for
each ACK, it waits forever (`ack_stale`).  Two goroutines of a phone that find the
same name free replace each other's file (`receiver_overwrite`).  A flush goroutine
that records its ACK late throws away what was scheduled since (`ack_race`); two
events decided in one order leave in the other (`registry_events`).

`CHECK_DEADLOCK FALSE` stands where the system may really stop: the queue is
empty, a page waits for its user, or the model's budget of connections, events
and faults is used up.  `ClientRegistry` is checked for deadlock.

### Bounds

`MaxFaults`, `MaxDeletions`, `MaxPurges`, `MaxCrashes`, `MaxDrops`,
`MaxReoffers` bound the events of `UploadReceiver`; `Inodes`, `Size`, `Window`,
`ChunkSizes`, `Conns`, `Keys` its data.  Two units are enough for a file to be
half written, three with chunks of one and two for chunks that do not line up;
two connections for an overlap; one event of each kind for every pair of
different events in every order.  More of the same kind were tried outside the
runs, with results a reader should know:

* with *two* lost connections, or a purge of staging on top of the overlap,
  two goroutines can both stand between `os.Stat` and `os.Rename` of `Finalize`
  (`file_writer.go:188-200`) on the same `.part` file and `PhoneDoneIsStored`
  does not hold: the first renames the file away and its FILE_END is answered,
  the phone starts the file over into a new `.part`, and the second renames that
  unfinished one over the received one or answers for it.  The run keeps one lost
  connection; the theorems about delivery assume one connection at work at a time
  (section 4);
* with two files of one name, one lost connection is enough (`receiver_overwrite`),
  and `PhoneDoneIsStored` goes with `NeverOverwritten`: the row of the first file
  says completed at a path that holds the second one's.  `receiver_overlap` has one
  file, `receiver_hash` two on one connection;
* after a deletion another file of the same name may take the path of a
  completed row, and `FinalFileExists` will answer SKIP on the strength of it;
* `AckedIsWritten` and `StoredIsPrefix` are checked with one chunk size: where
  chunks do not line up after a restart from 0 (the instance of `receiver_size`)
  neither holds, because a sequential write follows the descriptor and not the
  announced offset: units land at the wrong place and the writer's offset, and
  with it FILE_ACK, runs ahead of the file;
* a crash between the rename and `CompleteUpload` leads to a second, suffixed
  copy and to statistics that count the file twice (`counted`);
* `HealthyIsWatched` and `NoOrphan` are stated for runs without a hung sidecar
  and without the retry button (`Undisturbed`).  With three restart timers, three
  children and four restarts TLC finds a run in which a sidecar that hung and
  comes to itself lets three `start()` calls overlap, and the one that ends last
  stops the interval of the one before: the sidecar is healthy and nobody watches
  it.  The attempt to prove the property without that condition led to this run.

Four more statements about the windows and screens do not hold, in the instances of
the runs unless something else is said, and are therefore not among the properties:

* while other phones upload files that take less than three seconds each, the
  snapshots asked for after every `upload.completed` start the offline timer anew
  before it runs out (`dashboard-store.ts:112`, `AppShell.tsx:358-361`), and a phone
  that has gone stays on the dashboard as it was: `OfflineShown` without its first
  condition;
* a new connection code is merged into the settings that were shown when its button
  was pressed (`Dashboard.tsx:118-121`).  If the receive folder is changed in
  between, the answers, in order, leave the old folder in the store, so that with
  nothing under way `settings.root` is not `server.root`, until the sidecar comes up
  again;
* the timer of a scan started by hand is not cleared by a list that arrives and reads
  `devicesRef.current` (`DeviceDiscoveryScreen.tsx:1022-1027`); between the list's
  commit and the effect it says that no computer was found, and the card covers the
  one that was until the next report;
* `folderLoading` is one flag for all folders (`LocalComputerScreen.tsx:1059-1061`).
  With two folders side by side: open one, go back while its request is on its way,
  open the other; the end of the first request takes away the spinner, and the
  second folder is said to be empty until its own answer comes.

In `AckCoalescer`, size 5 against `AckBytes` 3 gives a first ACK, a full batch,
a deferred remainder and a tail.  In `ClientRegistry`, two connections of one
client and one of another are the least in which teardown and registration
overlap while somebody else syncs; `MaxFaults` bounds failed writes and crashes.

In the applications the bounds are in `Desktop.cfg`, `Mobile.cfg` and at the
instances of `MCDesktop` and `MCMobile`: two or three requests, visits, jobs or pushed changes, the least in
which an answer is overtaken by the next and comes to a page that was left and
entered again; lists of two or three items on pages of one.  The supervisor has
two children, one restart timer and one of four budgets (two crashes; a crash
and a hang; one use of the retry button; a crash and a refused kill); the bridge
three sockets and three states.  The dashboard has one phone; its changes, the
other phones' and the runtime state's are bounded together (`MaxNews`), and two
snapshots are on their way at most (`MaxAsked`), so that a poll that is due may
wait for an answer.

### Fairness

Weak fairness of each goroutine (the Go scheduler runs them), of the phone's
loop (it retries whenever it is triggered: timers, network changes and the user)
and of time in `AckCoalescer` (a timer that is armed expires, an interval
passes).  In `ClientRegistry` the end of a round is fair because a phone either
sends SYNC_END or falls silent, and `readDeadline` closes a silent connection.
`SidecarSupervisor` assumes that processes come up and die of a signal unless
they hang, that Node delivers exits, answers and timers, and that suspended calls
go on.  `DashboardStore` assumes that time passes, that polls and timers run when
they are due, that the sidecar answers and that events arrive.  Nothing is assumed
of an offline timer that is started anew: `OfflineShown` holds because polls alone
come too seldom to do that for ever, once no upload asks for snapshots in between.
`AutoUpload` assumes that its awaits end; `LocalComputer` that a request ends or times
out.  No fairness makes a fault, a crash, a loss, a deletion or a click happen,
or a phone begin a round.

## 4. Proofs

Eight modules prove the theorems below, for every value of the constants that
meets the assumptions named; nothing is bounded in them but what a constant
bounds.  Each module, or section of `Desktop_proofs` and `Phone_proofs`, has the
inductive invariant first, then what it needs of the helpers, a lemma per action,
and the temporal steps last.  TLC checked every inductive invariant on instances
before it was proved (of `ActivityInv` without the conjuncts that only give sets
with members of different kinds as types, which TLC does not evaluate).

| theorem | states | assumes |
|---|---|---|
| `ReceiverTypeCorrect` | `TypeOK` of `UploadReceiver` | `ConstantsAssumption` |
| `ReceiverStoresPrefixes`, `ReceiverAcksWritten` | `StoredIsPrefix`, `AckedIsWritten` | and `Aligned` |
| `DoneIsStored`, `ReceiverImplementsDelivery` | `PhoneDoneIsStored`, the refinement `DeliveryKept` | and `Aligned`, `[]OneAtATime` |
| `VerifiedFilesAreIntact` | `VerifiedIsIntact` | `ConstantsAssumption`, `Hashed`, `[]OneAtATime`, `[]Untouched` |
| `AckTypeCorrect`, `AcksAreWritten` | `TypeOK` and `AckNeverAhead` of `AckCoalescer` | `AckAssumption` |
| `TypeCorrect`, `RegistryConsistent`, `TerminalSessionsStay`, `SoleConnectionShown` | `TypeOK`, `ListedWhileConnected`, `TerminalStays`, `StateOfSoleConnection` of `ClientRegistry` | `RegistryAssumption` |
| `ChangesAnnouncedOnce` | `ChangesAnnounced` | and `IsFiniteSet(Conns)` |
| `SupervisorTypeCorrect`, `ChildrenAreKnown`, `HealthyStaysWatched` | `TypeOK`, `NoOrphan`, `HealthyIsWatched` of `SidecarSupervisor` | `SupervisorAssumption` |
| `BridgeTypeCorrect`, `StreamIsKept`, `NothingActiveWhileDown` | `BridgeTypeOK`, `StreamKept`, `ActiveOnlyWhileHealthy` of `EventBridge` | `BridgeAssumption` |
| `ServicesAreTyped`, `FilesStayInPlace` | `ServicesTypeOK`, `FilesInPlace` of `MainServices` | `ServicesAssumption` |
| `DialogIsOfLastClick` | `DialogOfLastClick` of `ReceivedLibrary` | `LibraryAssumption` |
| `ShellIsTyped`, `ShellGoesByTheSidecar` | `ShellTypeOK`, `ShellIsCurrent` of `DesktopShell` | `DesktopShellAssumption` |
| `PairingTypeCorrect`, `FirstScanIsTrue`, `HomeMeansBound` | `TypeOK`, `FirstScanTrue`, `HomeIsBound` of `MobilePairing` | `PairingAssumption` |
| `ListIsOfView` | `ListOfView` of `AlbumBrowser` | `AlbumAssumption` |
| `SessionCountsFromItsStart` | `SessionIsFresh` of `AutoUpload` | `AutoUploadAssumption` |
| `FolderShowsItsItems` | `ItemsAreOfFolder` of `LocalComputer` | `LocalComputerAssumption` |
| `LastDownloadsAreKept` | `RecordsKept` of `PhoneDownloads` | `PhoneDownloadsAssumption` |
| `HomeShowsTheEngine` | `ShownIsTrue` of `SyncActivity` | `SyncActivityAssumption` |
| `SettingsShowWhatIsInForce` | `ShownIsInForce` of `PhoneSettings` | `PhoneSettingsAssumption` |
| `TilesAreTyped`, `SignaturesAreFresh` | `TilesTypeOK`, `NoStaleSignature` of `PhoneThumbnails` | `ThumbnailsAssumption` |

The assumptions that are more than the kinds of the constants:

* `Aligned` (`ChunkSizes = {1}`): the unit of the model is the chunk, so that a
  restart from 0 meets a leftover file on a boundary.  `receiver_size` is what
  happens otherwise;
* `OneAtATime`: no two of the phone's connections have a goroutine at work at
  once, a condition on behaviours that every run without a lost connection meets.
  Without it the statements about delivery are false (section 3, the first two
  results).  The prefix theorems do without it;
* `Hashed` (`Hashing = {TRUE}`): every FILE_END carries a SHA-256, which the
  protocol foresees and the phones' engines leave out.  Only a file that was hashed
  is *verified*; `receiver_size` is what happens to the others.  In return
  `VerifiedFilesAreIntact` does without `Aligned`;
* `Untouched`: the user deletes no received file.  After a deletion another file of
  the same name may take the path a completed row names (section 3, third result).

### The arguments

*Receiver, types.*  `Contents` bounds a file by `Size` and `Writers` puts the
descriptor's position at or before the writer's offset, so the theorem says that
no write of `handleFileData` ends beyond the announced size.  The position can
lag behind the offset, never lead it, because a pwrite moves only the offset and
`NewFileWriter` starts both at the end of the file (`OpenPartType`,
`WrittenType`); and a handler or upload loop under way knows its file
(`JobKeyed`, `TaskKeyed`, `FilesKeyed`).

*Receiver, contents.*  `PrefixInv` follows one upload from the phone into the
file: a connection's inbox is a piece of one upload without a gap (`Ordered`) that
goes on where its writer stands or before (`Fits`), the writer's two positions
agree and lie within the file (`Placed`), and a handler in the middle of something
has taken the last frame (`Standing`).  Two connections at work on one file only
overwrite units with themselves.

*Receiver, delivery.*  `DeliveryInv` adds the disk: what has a name in the receive
directory is whole and under a name of its own file (`FinalsInv`), what is in
staging is not received yet (`PartsInv`), an open writer's inode is the `.part`
of its file or has lost its name, never a received file, until the rename (`Use`),
and a plain name that was chosen is still free at the rename (`Name`, where
`OneAtATime` is needed).  Whoever says of a file that it is there is then right,
or its user deleted it (`SafeInv`): the phone's queue, the row, the answers on the
wire.  The refinement theorem maps each step to one of `Delivery` or a stutter:
the rename is `Arrive`, the phone's taking of SKIP or OK is `Confirm`.

*Receiver, hashes.*  `VerifiedInv` keeps the disk of `DeliveryInv` and drops the
upload: nothing is said about what frames hold.  Instead `Checked` follows the
handler from the hash to the row: after the hash the `.part` file is the whole
source until it is renamed, or it has vanished, because nobody else writes it;
after the rename it has its name.  `RowsWhole` is `VerifiedIsIntact` for the whole
path.  The lemmas about the rename are shared with the section on delivery: they
ask where each writer stands (`Sits`) and that the file about to be renamed is full
(`Full`), which chunks that line up give the one section (`PrefixSits`) and the
hash the other (`CheckedFull`).

*ACKs.*  `AckNeverAhead` is not inductive: FILE_INIT sets the size of a file's
writer anew, and an ACK of that file still on its way would then promise too
much.  `IInv` adds why this does not happen: files come one after the other, at
most one question or answer is on its way (`OrderInv`, `InboxInv`, `WireInv`), so
FILE_INIT is always about a file later than every ACK in flight, pending in a timer
or held by a flush goroutine (`PendingInv`, `AckKeysInv`).

*Registry.*  A connection which is registered and not yet in its teardown is in
`activeConns`, and `RemoveClient` looks at `activeConns` again under the lock in
which it deletes the entry; with the look of `UnregisterClientConnection` alone
the theorem is false (the mutant `UnusedAsFound`).  `TerminalSessionsStay` rests
on each open session belonging to one connection's `sid`.  `ChangesAnnouncedOnce`
is a sum over a set: each step moves one connection between the sets that are
counted.

*Supervisor.*  `SteadyInv` accounts for every suspended call.  A restart timer runs
only while no sidecar does (`TimerInv`); one `start()` at a time prepares, with no
child, interval or request beside it (`PrepareInv`); whoever waits for the health
of a child that is gone waits in vain (`WaitInv`); where the interval asks nothing
is coming up any more (`AskInv`).  `PrepareInv` needs the model's assumption about
time, that a local answer comes before the next timer.

*Bridge.*  While the sidecar is not healthy the bridge has no socket and none is
coming, because `disconnect()` was called (`QuietInv`); of all sockets only the
one it holds may be connected (`LiveInv`).  So the first `connect()` of a healthy
state undoes the flag and leaves exactly one.

*Thumbnails and exports.*  `ServicesInv` says stage by stage what the temporary
directory of an export holds that has its second to itself (`Alone`, `Bundle`);
exports of one second share a directory and nothing is claimed of them.  The
proof found a step of the model no export can take: `writePowerDiagnostics` writes
into the directory, so it fails where an export of the same second has removed
it already.

*Library.*  `queryRef` numbers the clicks, and the query with the latest number is
about the phone clicked last (`ClickInv`).

*Shell.*  What was sent last, or is there when nothing is on its way, is what is
true (`Newest`): for the runtime state and for the calls about the title bar.

*Pairing.*  The first scan's timer reads `devicesRef.current`; `RefInv` says that
while it runs the ref has what is on the screen, or nothing is, because a list
clears it.  Of the rescan's timer, which is not cleared, nothing is claimed (section 3).
`HomeIsBound` is not inductive: an answer of pairDevice that went well
is on its way when its binding is dropped again.  `AnswerInv` says that such an
answer has the invalidation behind it in the queue, because native sends in order
(`Told`), and `QuietInv` that before the first screen there is nothing but the
answer about the default route, which an invalidation turns into one that was
missed.

*Album.*  The list is of the view on the screen, or the call that will make it so
is on its way with the latest number (`Pending`); a call with an earlier number
does nothing, and a further page with the latest number finds a list of its view.

*Auto upload.*  `UploadInv` compares baselines with what the phone had transferred
when auto upload last left "disabled": the module variable, storage and every
handler's copy are none, or not below it (`IsFresh`), or the handler that will
forget them is still at work (`Forgetting`, `StorageInv`).  The attempt to prove it
showed that the condition of an earlier version was too weak: a handler that took
its baseline before auto upload was turned off writes it afterwards, and the next
session counts from it.  The run's instance was too small to meet this.  `lost`
now names that behaviour too.

*Local computer.*  A listing is stored only at the folder it is of
(`ComputerInv`), so it does not matter which folder the user stands in when it
arrives, nor which of two requests is late.

*Download records.*  To record a file into the part of the list that is stored and
to cut is the same as to record it into the whole and to cut
(`CutBeforeAndAfter`), whether the file's earlier record is in the part, behind it
or nowhere; so the stored list stays the cut of the history as long as whoever
writes has read what is stored (`RecordsInv`).  `SelectSeq`, the filter of the
code, is recursive and closed to the prover; since no list holds a file twice
(`Once`, proved with the rest) `Without` can say the same with the one index the
file has.

*Activity.*  For each kind of state that the engine pushes: the last push on its
way is what the engine has (`PostedInv`), so is an answer no push has overtaken
(`AnswersInv`), and with no push on its way what is shown is what the engine has
or an answer is still to come (`ShownInv`).

*Settings.*  While calls do not overlap there is one about the name and one about
the language, and `NameInv` and `LanguageInv` say for each of its steps which of
what is shown, stored and in force are equal already.

*Thumbnails on the phone.*  Whatever list of records a tile is given comes from
`NormalizedRecord` or from a download just recorded, and both leave out the
addresses of the computer's own directories (`Clean`, `TilesInv`).

### What stays with TLC

* Liveness, which is out of the prover's reach: `AllDelivered`, `TimedAckFlush`,
  `AllSent`, `SessionsEnd`, `StartupEnds`, `ShutdownEnds`, `OfflineShown`,
  `BrowsingEnds`.
* `AckOfCurrentFile`, which needs that a flush goroutine is not held up
  (`PromptFlush`), as the Go scheduler does not promise.
* `TypesOK` of the two applications, a conjunction the instances make.  The type
  invariants of the modules with a theorem above of that name are proved;
  `ReceivedLibrary`, `AlbumBrowser`, `AutoUpload`,
  `LocalComputer`, `PhoneDownloads`, `SyncActivity` and `PhoneSettings` are typed
  in their proofs as far as the invariant needs it; `DashboardStore`,
  `DesktopWindow`, `DesktopSettings` and `PhoneNavigation` have no proofs.
* `VerifiedIsIntact` where the user deletes a received file: it does not hold for
  two files of one name, so the theorem leaves deletions out.

## 5. Not modelled

* Sidecar: hello, authentication, pairing and blocking, the change of the receive
  root, receive-directory names, mDNS, presence, the resource API, migrations,
  logging.  The hazards there are listed with a note.
* Phone engines: scan, export, binding, background logic, the Android queue.
* Code nothing reaches, on the desktop: `DirectoryPage`, `DirectoryPathCard`,
  `ReceivedFileList`, `SharedFileList`, `directory-store`, `DeviceDetail*`,
  `DeviceCard`, `StatCard`, `DeviceHeader`, `connection-devices-store`,
  `updateDevices`, `loadSyncRecords`, `addSharedFromReceived`,
  `SharedResourcesPage`; on the phone: `SyncStatusScreen`, `HistoryScreen`,
  `SyncActivityTour`, `UnconnectedGuide`, the ShareSheet of the local computer,
  `SyncStatePreviewSection` and several helpers.  `AlbumWorkbenchScreen` is reached
  by development tools only, and modelled.
* Layout, wording, sorting, icons, encodings and queries without state of their
  own.

`PROJECT.json` lists each part with the reason.

## 6. Plan

Order by what a failure would cost.  Every safety invariant the passing runs check
is proved but those of the section above.  The next models: `RootSwitch`
(`isTransferActive`, `AbsolutizeCompletedUploadFinalPaths` and the swap of
`config.ReceiveDir` against SYNC_BEGIN and FILE_END), then `Pairing` of the
sidecar (wrong codes, block, unblock in its three statements, revoke against an
authentication in progress) and the Android queue.  With them come the next
proofs: that no row names a path under another root than its file's, and that a
blocked device is never registered.
