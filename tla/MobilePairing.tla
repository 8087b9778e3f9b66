---------------------------- MODULE MobilePairing ----------------------------
(***************************************************************************)
(* How the phone gets connected to a desktop: RootNavigator.tsx decides    *)
(* where the app starts, DeviceDiscoveryScreen.tsx scans and pairs,        *)
(* QRScannerScreen.tsx and CodeVerifyScreen.tsx pair from a QR code, the   *)
(* watcher of RootNavigator goes back to the scan when a pairing is no     *)
(* longer valid, and recent-desktops-store.ts remembers the desktops.      *)
(*                                                                         *)
(* The native engine is external.  What it sends to JavaScript (answers of *)
(* pairDevice, discovered devices, invalidations) arrives in order; what   *)
(* it sends while nobody listens is lost.                                  *)
(***************************************************************************)
EXTENDS PhoneValues, Naturals, Sequences, FiniteSets

CONSTANTS
  Desktops,    \* ids under which desktops announce themselves
  ManualHosts, \* typed hosts that are addresses; the device ids made from them
  QrId,        \* the device id made from a QR code
  Endpoint,    \* id -> address
  MaxMounts,   \* discovery screens that are ever mounted
  MaxSent,     \* messages on their way from native
  MaxNews,     \* invalidations, device lists, pairings and rescans
  MaxTimers,   \* rescans whose timer is pending
  Outcomes,    \* what native answers to pairDevice
  Cameras      \* what becomes of the camera permission: "granted", "denied"

Ids == Desktops \cup ManualHosts \cup {QrId}
PairingAssumption ==
  /\ None \notin Ids /\ QrId \notin Desktops
  /\ DOMAIN Endpoint = Ids /\ Cameras \subseteq {"granted", "denied"}
  /\ MaxMounts \in Nat /\ MaxSent \in Nat /\ MaxNews \in Nat /\ MaxTimers \in Nat

VARIABLES
  stack,      \* the routes, the last one on top
  bound, invalidated, known,  \* native: the binding, its invalidation, paired before
  pairing,    \* pairDevice calls native works on
  queue,      \* messages on their way to JavaScript
  resetting,  \* resetInFlightRef of PairingInvalidationWatcher
  missed,     \* history: an invalidation was sent while nobody took it
  news,
  scr,        \* the state of the discovery screen; "ref" is devicesRef.current
  mounts,
  boot,       \* how far the effect that starts the discovery is
  timers,     \* rescan timers of handleRescan
  seen,       \* on disk: the guide was dismissed (markUnconnectedGuideSeen)
  verify,     \* the state of CodeVerifyScreen
  scanner,    \* QRScannerScreen: its permissionStatus, or "scanned" (scannedRef)
  due,        \* its timer that replaces a screen by CodeVerifyScreen
  recents, stored, loaded  \* recent desktops: in memory, on disk, isLoading is over

nativeVars == <<bound, invalidated, known, pairing, news, missed>>
recentVars == <<recents, stored, loaded>>
otherVars  == <<verify, scanner, due, resetting>>
screenVars == <<scr, boot, timers, mounts, seen>>
vars == <<stack, nativeVars, queue, recentVars, otherVars, screenVars>>

-----------------------------------------------------------------------------
(* Pure helpers. *)

\* deviceQualityScore: a device with a name and an id of its own beats a fallback.
Quality(d) == (IF d.named THEN 4 ELSE 0) + (IF d.fallback THEN 0 ELSE 2) + 1
Found(id, named, fallback) == [id |-> id, named |-> named, fallback |-> fallback]
\* normalizeDiscoveredDevices: one device per address, the best, the first of equals.
Normalized(raw) ==
  {raw[i] : i \in {k \in DOMAIN raw :
     \A j \in DOMAIN raw \ {k} :
       Endpoint[raw[j].id] = Endpoint[raw[k].id] =>
         \/ Quality(raw[j]) < Quality(raw[k])
         \/ Quality(raw[j]) = Quality(raw[k]) /\ j > k}}

\* recentDesktopMatchesDiscoveredDevice
RecentMatches(id, d) == id = d.id \/ Endpoint[id] = Endpoint[d.id]

\* The code of the PairingError made of what native answers; the last wrong code that is
\* allowed may come with its flag "blocked".
PairErrorCode(outcome) ==
  CASE outcome \in {"PAIRING_CODE_INVALID", "CODE_INVALID_BLOCKED"} -> "wrong_code"
    [] outcome = "PAIRING_CLIENT_BLOCKED" -> "blocked"
    [] outcome = "APP_VERSION_INCOMPATIBLE" -> "version_incompatible"
    [] OTHER -> "unknown"
\* CodeVerifyScreen takes a native code from the error's code, and a PairingError always has
\* a code of its own there: no native code is ever seen.
NativeCodes == {"PAIRING_CODE_INVALID", "PAIRING_CLIENT_BLOCKED", "APP_VERSION_INCOMPATIBLE",
                "PAIR_TOKEN_INVALID"}
NativeErrorCode(e) == IF e.code \in NativeCodes THEN e.code ELSE "none"
\* The message of CodeVerifyScreen.
VerifyError(outcome) ==
  LET e == [code |-> PairErrorCode(outcome)]
  IN  CASE e.code = "version_incompatible" -> "versionMismatch"
        [] e.code = "wrong_code" -> "wrongCode"
        [] e.code = "blocked" -> "clientBlocked"
        [] NativeErrorCode(e) = "PAIR_TOKEN_INVALID" -> "tokenInvalid"
        [] OTHER -> "connectFailed"
\* normalizeConnectionFailure: for the discovery screen the flag goes before the code.
Failure(outcome) == IF outcome = "CODE_INVALID_BLOCKED" THEN "blocked" ELSE PairErrorCode(outcome)
\* getConnectionFailureCopy: what the button of the card offers.
FailureAction(failure) == IF failure = "version_incompatible" THEN "rescan" ELSE "reenter"

\* getAndroidDiscoveryPermissionStatus; an error is taken for a permission.
PermissionStatus == {"granted", "required", "unavailable"}

\* connectionFeatureGuideSteps, by the previews they show; the first one points at the
\* list of devices instead.
GuideSteps == <<"connect", "autoUpload", "uploadScope", "syncProgress", "records",
                "sharedFilesHub">>

Route(name, mode) == [name |-> name, mode |-> mode]
Top         == IF stack = <<>> THEN "none" ELSE stack[Len(stack)].name
Mounted(n)  == \E i \in DOMAIN stack : stack[i].name = n
Mode        == stack[CHOOSE i \in DOMAIN stack : stack[i].name = "DeviceDiscovery"].mode
Listening   == stack # <<>>   \* PairingInvalidationWatcher is mounted with the stack

-----------------------------------------------------------------------------
(* The discovery screen's state.  "inst" tells its mounts apart: an answer for *)
(* an earlier one sets the state of a component that is gone.                  *)

NoScreen == [inst |-> 0, scanning |-> FALSE, status |-> "none", devices |-> {},
             ref |-> {}, selected |-> None, failure |-> "none", step |-> "none",
             verifying |-> FALSE, guide |-> 0,
             current |-> None, knownIds |-> {}]
FreshScreen(n) == [NoScreen EXCEPT !.inst = n, !.scanning = TRUE, !.status = "scanning"]

NoVerify == [on |-> FALSE, verifying |-> FALSE, timer |-> FALSE, error |-> "none"]

ShowSkeleton == scr.scanning /\ scr.devices = {} /\ recents = {}
\* connectionStateContent: a card takes the place of the rows.
StateCard == ~ShowSkeleton /\ scr.status \in
               {"empty", "permissionRequired", "failed", "timeout", "cameraDenied"}
\* displayedRecentDesktops
ShownRecents ==
  IF Mode = "switch"
  THEN {r \in recents : r = scr.current /\ \A d \in scr.devices : d.id # r}
  ELSE {r \in recents : \A d \in scr.devices : ~RecentMatches(r, d)}

\* The stack becomes s, with a discovery screen that is mounted anew if fresh; one that
\* is not on it any more loses its timers (the clean-ups of its effects).
GoTo(s, fresh) ==
  /\ stack' = s
  /\ scanner' = IF \E i \in DOMAIN s : s[i].name = "QRScanner" THEN scanner ELSE "none"
  /\ verify' = IF \E i \in DOMAIN s : s[i].name = "CodeVerify" THEN verify ELSE NoVerify
  /\ IF fresh
     THEN /\ mounts < MaxMounts /\ mounts' = mounts + 1
          /\ scr' = FreshScreen(mounts + 1) /\ boot' = "stopping" /\ timers' = 0
     ELSE IF \E i \in DOMAIN s : s[i].name = "DeviceDiscovery"
     THEN UNCHANGED <<mounts, scr, boot, timers>>
     ELSE UNCHANGED mounts /\ scr' = NoScreen /\ boot' = "none" /\ timers' = 0
  /\ UNCHANGED seen

-----------------------------------------------------------------------------
(* The native engine. *)

Sent(m) == Len(queue) < MaxSent /\ queue' = Append(queue, m)

\* pairDevice comes to an end.
PairEnds(p) ==
  /\ p \in pairing /\ pairing' = pairing \ {p}
  /\ \E outcome \in Outcomes :
       /\ Sent([type |-> "pair", request |-> p, outcome |-> outcome])
       /\ IF outcome = "ok"
          THEN bound' = p.id /\ invalidated' = FALSE /\ known' = known \cup {p.id}
          ELSE UNCHANGED <<bound, invalidated, known>>
  /\ UNCHANGED <<stack, news, missed, recentVars, otherVars, screenVars>>

\* The desktop no longer accepts the pairing: the binding is dropped and the app told.
Invalidate ==
  /\ news < MaxNews /\ news' = news + 1
  /\ bound # None /\ bound' = None /\ invalidated' = TRUE
  /\ IF Listening THEN Sent([type |-> "invalidated"]) /\ UNCHANGED missed
     ELSE UNCHANGED queue /\ missed' = TRUE
  /\ UNCHANGED <<stack, known, pairing, recentVars, otherVars, screenVars>>

\* Discovery reports what it sees, in the order it saw it.
Discovers ==
  /\ news < MaxNews /\ news' = news + 1 /\ boot # "none"
  /\ \E raw \in {<<>>} \cup
        UNION {{<<Found(d, TRUE, FALSE)>>, <<Found(d, FALSE, TRUE), Found(d, TRUE, FALSE)>>}
                 : d \in Desktops} :
       Sent([type |-> "devices", raw |-> raw])
  /\ UNCHANGED <<stack, bound, invalidated, known, pairing, missed, recentVars, otherVars,
                 screenVars>>

-----------------------------------------------------------------------------
(* RootNavigator. *)

\* LanSyncStack's decide and resolveDefaultLanRoute.  The answer and the mount of the
\* watcher are two steps: an invalidation in between is lost.
\* Mutant: the invalidation state is looked at only.
RouteFromInvalidation ==
  IF invalidated THEN "DeviceDiscovery" ELSE "SyncActivity"
DefaultRoute ==
  IF invalidated \/ bound = None THEN "DeviceDiscovery" ELSE "SyncActivity"
Decide ==
  /\ stack = <<>> /\ queue = <<>>
  /\ queue' = <<[type |-> "route", name |-> DefaultRoute]>>
  /\ UNCHANGED <<stack, nativeVars, recentVars, otherVars, screenVars>>
Decided ==
  /\ stack = <<>> /\ queue # <<>> /\ queue' = <<>>
  /\ GoTo(<<Route(Head(queue).name, "initial")>>, Head(queue).name = "DeviceDiscovery")
  /\ UNCHANGED <<nativeVars, recentVars, due, resetting>>

\* PairingInvalidationWatcher; a second event within 500 ms is dropped.
TakeInvalidation ==
  IF resetting
  THEN missed' = TRUE /\ UNCHANGED <<stack, resetting, verify, scanner, screenVars>>
  ELSE /\ resetting' = TRUE /\ GoTo(<<Route("DeviceDiscovery", "initial")>>, TRUE)
       /\ UNCHANGED missed
ResetTimer ==
  /\ resetting /\ resetting' = FALSE
  /\ UNCHANGED <<stack, nativeVars, queue, recentVars, verify, scanner, due, screenVars>>

-----------------------------------------------------------------------------
(* recent-desktops-store. *)

\* addDesktop and updateAuthStatus save what they make of the list in memory, also
\* when the stored one has not been read yet.
AddDesktop(id) == recents' = recents \cup {id} /\ stored' = recents \cup {id}
                  /\ UNCHANGED loaded
UpdateAuthStatus(called) == /\ stored' = IF called THEN recents ELSE stored
                            /\ UNCHANGED <<recents, loaded>>
LoadRecents ==
  /\ ~loaded /\ loaded' = TRUE /\ recents' = stored
  /\ UNCHANGED <<stack, nativeVars, queue, stored, otherVars, screenVars>>

-----------------------------------------------------------------------------
(* Starting the scan. *)

\* stopDiscovery answered, then the permission is asked for (Android).
BootPermission ==
  /\ boot = "stopping"
  /\ \E status \in PermissionStatus :
       IF status # "required" THEN boot' = "starting" /\ UNCHANGED scr
       ELSE /\ boot' = "idle"
            /\ scr' = [scr EXCEPT !.scanning = FALSE, !.status = "permissionRequired"]
  /\ UNCHANGED <<stack, nativeVars, queue, recentVars, otherVars, timers, mounts, seen>>

\* The passive effect that runs after a commit: the timers see the devices through it.
RefFollows ==
  /\ scr.ref # scr.devices /\ scr' = [scr EXCEPT !.ref = scr.devices]
  /\ UNCHANGED <<stack, nativeVars, queue, recentVars, otherVars, boot, timers, mounts, seen>>

\* startDiscovery answered: scheduleDiscoveryTimeout.  Its timer runs for eight seconds, so
\* the effect of the devices that were found before has run when it ends.
BootStarted ==
  /\ boot = "starting" /\ boot' = "timed" /\ scr.ref = scr.devices
  /\ UNCHANGED <<stack, nativeVars, queue, recentVars, otherVars, scr, timers, mounts, seen>>

\* The timers of the first scan and of a rescan do the same: they look at devicesRef.
\* Mutant: it does not look whether devices were found meanwhile.
ScanOverAnyway == scr' = [scr EXCEPT !.scanning = FALSE, !.status = "empty"]
ScanOver ==
  scr' = [scr EXCEPT !.scanning = FALSE, !.status = IF scr.ref = {} THEN "empty" ELSE @]
DiscoveryTimeout ==
  /\ boot = "timed" /\ boot' = "idle" /\ ScanOver
  /\ UNCHANGED <<stack, nativeVars, queue, recentVars, otherVars, timers, mounts, seen>>
\* Devices that are found do not end this timer.
RescanTimeout ==
  /\ timers > 0 /\ timers' = timers - 1 /\ ScanOver
  /\ UNCHANGED <<stack, nativeVars, queue, recentVars, otherVars, boot, mounts, seen>>

\* onDiscoveredDevicesChanged; devices found end the first scan's timer.
TakeDevices(raw) ==
  /\ IF Mounted("DeviceDiscovery")
     THEN /\ scr' = [scr EXCEPT !.devices = Normalized(raw),
                                !.scanning = @ /\ raw = <<>>,
                                !.status = IF raw = <<>> THEN @ ELSE "ready"]
          /\ boot' = IF raw # <<>> /\ boot = "timed" THEN "idle" ELSE boot
     ELSE UNCHANGED <<scr, boot>>
  /\ UNCHANGED <<stack, timers, mounts, seen, resetting, missed>>

\* What can be touched: nothing under ConnectionGuideOverlay, and no row under a
\* card.  A row is not disabled while a reconnection is being verified.
Enter     == Top = "DeviceDiscovery" /\ scr.guide = 0
RowsShown == Enter /\ ~StateCard /\ ~ShowSkeleton /\ scr.step = "none"
CardButton == Enter /\ StateCard /\ scr.step = "none"
RescanButton == Enter /\ ~scr.scanning /\ scr.step = "none"
MethodButton == Enter /\ ~ShowSkeleton /\ scr.step = "none"
IsCurrent(id) == Mode = "switch" /\ id = scr.current

\* handleRescan: from its button, or from a card.  A list on its way is taken before (one
\* that native sends afterwards says the same): none takes as long as the timer set here.
Rescan ==
  /\ timers < MaxTimers /\ timers' = timers + 1
  /\ scr' = [scr EXCEPT !.devices = {}, !.scanning = TRUE, !.status = "scanning",
                        !.failure = "none"]
HandleRescan ==
  /\ \/ RescanButton
     \/ CardButton /\ (\/ scr.status \in {"permissionRequired", "timeout"}
                       \/ scr.status = "failed" /\ FailureAction(scr.failure) = "rescan")
  /\ \A i \in DOMAIN queue : queue[i].type # "devices"
  /\ news < MaxNews /\ news' = news + 1
  /\ Rescan
  /\ UNCHANGED <<stack, bound, invalidated, known, pairing, missed, queue, recentVars,
                 otherVars, boot, mounts, seen>>

\* Switching desktops: getKnownDeviceIds and getBindingState answered.
SwitchBootstrap ==
  /\ Mounted("DeviceDiscovery") /\ Mode = "switch" /\ scr.knownIds = {} /\ known # {}
  /\ scr' = [scr EXCEPT !.knownIds = known, !.current = bound]
  /\ UNCHANGED <<stack, nativeVars, queue, recentVars, otherVars, boot, timers, mounts, seen>>

\* hasSeenUnconnectedGuide answered no (here: before the scan began).
ShowGuide ==
  /\ Mounted("DeviceDiscovery") /\ Mode # "switch" /\ boot = "stopping" /\ scr.guide = 0
  /\ ~seen
  /\ scr' = [scr EXCEPT !.guide = 1]
  /\ UNCHANGED <<stack, nativeVars, queue, recentVars, otherVars, boot, timers, mounts, seen>>

\* What the guide shows beside its text: nothing in it can be touched.
Preview == IF scr.guide = 0 \/ GuideSteps[scr.guide] = "connect" THEN None
           ELSE GuideSteps[scr.guide]
\* The overlay leaves a hole over the list of devices while there is no preview.
Spotlight == scr.guide # 0 /\ Preview = None

\* dismissGuide, once markUnconnectedGuideSeen has answered.
DismissGuide ==
  /\ scr.guide # 0 /\ scr' = [scr EXCEPT !.guide = 0] /\ seen' = TRUE
  /\ UNCHANGED <<stack, nativeVars, queue, recentVars, otherVars, boot, timers, mounts>>
\* continuePreview: the next step; after the last one dismissGuide.
ContinuePreview ==
  /\ scr.guide \in 1..(Len(GuideSteps) - 1) /\ scr' = [scr EXCEPT !.guide = @ + 1]
  /\ UNCHANGED <<stack, nativeVars, queue, recentVars, otherVars, boot, timers, mounts, seen>>

-----------------------------------------------------------------------------
(* Choosing a desktop. *)

Request(by, id) == [by |-> by, id |-> id, inst |-> scr.inst]
StartPair(p) == /\ p \notin pairing /\ Cardinality(pairing) + Len(queue) < MaxSent
                /\ news < MaxNews /\ news' = news + 1
                /\ pairing' = pairing \cup {p}
                /\ UNCHANGED <<bound, invalidated, known, missed>>

\* openDeviceCodeModal
OpenDevice(d, busy) ==
  /\ RowsShown /\ d \in scr.devices /\ ~IsCurrent(d.id)
  /\ LET chosen == [scr EXCEPT !.selected = d.id, !.failure = "none"]
     IN  IF busy THEN scr' = [chosen EXCEPT !.status = "timeout"] /\ UNCHANGED nativeVars
         ELSE IF Mode = "switch" /\ d.id \in scr.knownIds
              THEN /\ scr' = [chosen EXCEPT !.status = "ready", !.verifying = TRUE]
                   /\ StartPair(Request("known", d.id))
              ELSE /\ scr' = [chosen EXCEPT !.status = "ready", !.step = "code"]
                   /\ UNCHANGED nativeVars
  /\ UNCHANGED <<stack, queue, recentVars, otherVars, boot, timers, mounts, seen>>

\* openRecentDesktop: a desktop that is not in the list now, by its old address.
OpenRecent(r) ==
  /\ RowsShown /\ r \in ShownRecents /\ ~IsCurrent(r)
  /\ scr' = [scr EXCEPT !.selected = r, !.failure = "none",
                        !.status = "ready", !.verifying = TRUE]
  /\ StartPair(Request("recent", r))
  /\ UNCHANGED <<stack, queue, recentVars, otherVars, boot, timers, mounts, seen>>

\* The manual entry, and the card of an empty scan.
OpenMethod ==
  /\ \/ /\ MethodButton
        /\ scr' = [scr EXCEPT !.selected = None, !.failure = "none", !.step = "method"]
     \/ /\ CardButton /\ scr.status = "empty"
        /\ scr' = [scr EXCEPT !.selected = None, !.step = "method"]
  /\ UNCHANGED <<stack, nativeVars, queue, recentVars, otherVars, boot, timers, mounts, seen>>

\* The other buttons of the cards: enter the code again, or after a denied camera.
CardAction ==
  /\ CardButton
  /\ \/ /\ scr.status = "failed" /\ FailureAction(scr.failure) = "reenter"
        /\ scr' = [scr EXCEPT !.failure = "none", !.status = "ready",
                              !.step = "code"]
     \/ /\ scr.status = "cameraDenied"
        /\ scr' = [scr EXCEPT !.step = IF scr.selected # None THEN "code" ELSE "method"]
  /\ UNCHANGED <<stack, nativeVars, queue, recentVars, otherVars, boot, timers, mounts, seen>>

\* ConnectionFlowModal shows the step; a code is asked for a chosen desktop only.
ModalStep  == IF scr.step = "code" /\ scr.selected = None THEN "none" ELSE scr.step
MethodStep == Enter /\ ModalStep = "method"
ManualStep == Enter /\ ModalStep = "manualPair"
CameraStep == Enter /\ ModalStep = "cameraPermission"
CodeStep   == Enter /\ ModalStep = "code" /\ ~scr.verifying
ModalShown == Enter /\ ModalStep # "none"

OpenScanner ==
  /\ stack' = Append(stack, Route("QRScanner", "initial")) /\ scanner' = "checking"
  /\ scr' = [scr EXCEPT !.step = "none"]

\* The buttons of the step "method": scan (openScannerOrPermissionPrompt) or type.
ChooseScan ==
  /\ MethodStep
  /\ \/ OpenScanner
     \/ /\ scr' = [scr EXCEPT !.step = "cameraPermission"]
        /\ UNCHANGED <<stack, scanner>>
  /\ UNCHANGED <<nativeVars, queue, recentVars, verify, due, resetting, boot, timers, mounts, seen>>
ChooseManual ==
  /\ MethodStep
  /\ scr' = [scr EXCEPT !.step = IF scr.selected = None THEN "manualPair" ELSE "code",
                        !.failure = "none"]
  /\ UNCHANGED <<stack, nativeVars, queue, recentVars, otherVars, boot, timers, mounts, seen>>

\* onDeny and onAllow of the step "cameraPermission".
AnswerCamera ==
  /\ CameraStep
  /\ \/ /\ scr' = [scr EXCEPT !.step = "none", !.status = "cameraDenied"]
        /\ UNCHANGED <<stack, scanner>>
     \/ OpenScanner
  /\ UNCHANGED <<nativeVars, queue, recentVars, verify, due, resetting, boot, timers, mounts, seen>>

\* handleManualPair: buildManualPairDevice made a device of what was typed.
ManualPair(h) ==
  /\ ManualStep /\ h \in ManualHosts
  /\ scr' = [scr EXCEPT !.selected = h, !.failure = "none",
                        !.status = "ready", !.step = "code"]
  /\ UNCHANGED <<stack, nativeVars, queue, recentVars, otherVars, boot, timers, mounts, seen>>

\* handleVerifyCode up to its await.
VerifyCode ==
  /\ CodeStep
  /\ scr' = [scr EXCEPT !.verifying = TRUE] /\ StartPair(Request("code", scr.selected))
  /\ UNCHANGED <<stack, queue, recentVars, otherVars, boot, timers, mounts, seen>>

\* closeConnectionModal
CloseModal ==
  /\ ModalShown /\ ~scr.verifying
  /\ scr' = [scr EXCEPT !.step = "none"]
  /\ UNCHANGED <<stack, nativeVars, queue, recentVars, otherVars, boot, timers, mounts, seen>>

-----------------------------------------------------------------------------
(* The QR code. *)

\* The permission is looked up, and asked for when it never was.  "denied" stands for a
\* phone without a camera too: there is only the way back.
CameraAnswered ==
  /\ scanner = "checking" /\ scanner' \in Cameras
  /\ UNCHANGED <<stack, nativeVars, queue, recentVars, verify, due, resetting, screenVars>>
\* The application comes back, from the system's settings or from its question.
CameraReturns ==
  /\ scanner \in {"checking", "granted", "denied"}
  /\ scanner' \in Cameras \ {scanner}
  /\ UNCHANGED <<stack, nativeVars, queue, recentVars, verify, due, resetting, screenVars>>

\* onCodeScanned; the camera is on below the tutorial too.
CodeScanned ==
  /\ scanner = "granted" /\ scanner' = "scanned" /\ due' = TRUE
  /\ UNCHANGED <<stack, nativeVars, queue, recentVars, verify, resetting, screenVars>>

\* 200 ms later navigation.replace takes the place of the screen on top, whichever it is
\* by then.  A code of six digits is submitted by itself, half a second later.
CodeOpens ==
  /\ due /\ due' = FALSE
  /\ \E six \in BOOLEAN :
       LET s == [stack EXCEPT ![Len(stack)] = Route("CodeVerify", "initial")]
       IN  /\ stack' = s
           /\ verify' = [NoVerify EXCEPT !.on = TRUE, !.timer = six]
           /\ scanner' = IF \E i \in DOMAIN s : s[i].name = "QRScanner" THEN scanner ELSE "none"
           /\ IF \E i \in DOMAIN s : s[i].name = "DeviceDiscovery" THEN UNCHANGED screenVars
              ELSE UNCHANGED <<mounts, seen>> /\ scr' = NoScreen /\ boot' = "none" /\ timers' = 0
  /\ UNCHANGED <<nativeVars, queue, recentVars, resetting>>

\* submitCode up to its await: with the last digit typed, or from the timer of the mount,
\* which does not look whether a code is being verified.
SubmitCode(by) ==
  /\ verify.on
  /\ IF by = "timer" THEN verify.timer ELSE Top = "CodeVerify" /\ ~verify.verifying
  /\ verify' = [verify EXCEPT !.verifying = TRUE, !.error = "none", !.timer = @ /\ by # "timer"]
  /\ StartPair([by |-> by, id |-> QrId, inst |-> 0])
  /\ UNCHANGED <<stack, queue, recentVars, scanner, due, resetting, screenVars>>

\* ConnectionTutorialScreen, on top of the scanner or of the code.
OpenTutorial ==
  /\ \/ Top = "CodeVerify"
     \/ Top = "QRScanner" /\ scanner \in {"granted", "scanned"}
  /\ stack' = Append(stack, Route("ConnectionTutorial", "initial"))
  /\ UNCHANGED <<nativeVars, queue, recentVars, otherVars, screenVars>>

\* Back: by a button of the screen on top, or the system's.
Back ==
  /\ Len(stack) > 1 /\ ~ModalShown
  /\ GoTo(SubSeq(stack, 1, Len(stack) - 1), FALSE)
  /\ UNCHANGED <<nativeVars, queue, recentVars, due, resetting>>
\* CodeVerifyScreen has nothing below it: a new scan.
BackToScan ==
  /\ Top = "CodeVerify" /\ Len(stack) = 1
  /\ GoTo(<<Route("DeviceDiscovery", "initial")>>, TRUE)
  /\ UNCHANGED <<nativeVars, queue, recentVars, due, resetting>>

\* The home screen's "switch computer".
SwitchComputer ==
  /\ Top = "SyncActivity" /\ Len(stack) = 1
  /\ GoTo(Append(stack, Route("DeviceDiscovery", "switch")), TRUE)
  /\ UNCHANGED <<nativeVars, queue, recentVars, due, resetting>>

-----------------------------------------------------------------------------
(* Messages from native. *)

\* What follows "await pairDevice" in openDeviceCodeModal, openRecentDesktop,
\* handleVerifyCode and submitCode.  The way to the home screen is taken by whoever
\* asked, also when its screen is gone.
Home == <<Route("SyncActivity", "initial")>>
OfVerify(p) == p.by \in {"typed", "timer"}
TakePairOk(p) ==
  /\ AddDesktop(p.id)
  /\ GoTo(Home, FALSE)
  /\ UNCHANGED <<resetting, missed>>
TakePairError(p, outcome) ==
  /\ scr' = IF p.inst # scr.inst \/ OfVerify(p) THEN scr
            ELSE IF p.by \in {"known", "recent"}
            THEN [scr EXCEPT !.verifying = FALSE, !.step = "code"]
            ELSE IF Failure(outcome) = "wrong_code"
            THEN [scr EXCEPT !.verifying = FALSE, !.failure = "wrong_code"]
            ELSE [scr EXCEPT !.verifying = FALSE, !.failure = Failure(outcome),
                             !.step = "none", !.status = "failed"]
  /\ verify' = IF ~OfVerify(p) \/ ~verify.on THEN verify
               ELSE [verify EXCEPT !.verifying = FALSE, !.error = VerifyError(outcome)]
  /\ UpdateAuthStatus(OfVerify(p) /\ VerifyError(outcome) \in {"wrongCode", "clientBlocked"})
  /\ UNCHANGED <<stack, boot, timers, mounts, seen, scanner, resetting, missed>>

Receive ==
  /\ stack # <<>> /\ queue # <<>> /\ queue' = Tail(queue)
  /\ LET m == Head(queue)
     IN  \/ m.type = "pair" /\ m.outcome = "ok" /\ TakePairOk(m.request)
         \/ m.type = "pair" /\ m.outcome # "ok" /\ TakePairError(m.request, m.outcome)
         \/ m.type = "devices" /\ TakeDevices(m.raw) /\ UNCHANGED <<recentVars, verify, scanner>>
         \/ m.type = "invalidated" /\ TakeInvalidation /\ UNCHANGED recentVars
  /\ UNCHANGED <<due, bound, invalidated, known, pairing, news>>

-----------------------------------------------------------------------------
Init ==
  /\ stack = <<>> /\ bound \in Desktops \cup {None} /\ invalidated \in BOOLEAN
  /\ bound # None => ~invalidated
  /\ known = IF bound = None THEN {} ELSE {bound}
  /\ pairing = {} /\ queue = <<>> /\ resetting = FALSE /\ missed = FALSE /\ news = 0
  /\ scr = NoScreen /\ mounts = 0 /\ boot = "none" /\ timers = 0
  /\ verify = NoVerify /\ scanner = "none" /\ due = FALSE
  /\ recents = {} /\ stored = known /\ loaded = FALSE /\ seen \in BOOLEAN

Native == \/ \E p \in pairing : PairEnds(p)
          \/ Invalidate \/ Discovers
Timers == ResetTimer \/ DiscoveryTimeout \/ RescanTimeout \/ BootPermission \/ BootStarted
          \/ RefFollows \/ CodeOpens \/ SubmitCode("timer")
User == \/ HandleRescan \/ ShowGuide \/ ContinuePreview \/ DismissGuide \/ OpenMethod \/ CardAction
        \/ ChooseScan \/ ChooseManual \/ AnswerCamera \/ VerifyCode \/ CloseModal
        \/ CameraAnswered \/ CameraReturns \/ CodeScanned \/ SubmitCode("typed")
        \/ OpenTutorial \/ Back \/ BackToScan \/ SwitchComputer
        \/ \E d \in scr.devices, busy \in BOOLEAN : OpenDevice(d, busy)
        \/ \E r \in recents : OpenRecent(r)
        \/ \E h \in ManualHosts : ManualPair(h)

Next == Native \/ Timers \/ User \/ Receive \/ Decide \/ Decided \/ LoadRecents \/ SwitchBootstrap

Spec == Init /\ [][Next]_vars

-----------------------------------------------------------------------------
TypeOK ==
  /\ bound \in Desktops \cup Ids \cup {None} /\ invalidated \in BOOLEAN /\ known \subseteq Ids
  /\ recents \subseteq Ids /\ stored \subseteq Ids /\ timers \in 0..MaxTimers
  /\ boot \in {"none", "stopping", "starting", "timed", "idle"}
  /\ scr.selected \in Ids \cup {None} /\ mounts \in 0..MaxMounts
  /\ scr.guide \in 0..Len(GuideSteps) /\ (scr.guide # 0 => ~seen)
  /\ scanner \in {"none", "checking", "granted", "denied", "scanned"} /\ due \in BOOLEAN

\* The home screen is shown only while a desktop is bound, or the invalidation is on
\* its way, except ("missed") when the invalidation came before the watcher listened or
\* within 500 ms of another one, when nothing takes the user back to the scan.
HomeIsBound ==
  Mounted("SyncActivity") /\ ~missed =>
    \/ bound # None
    \/ \E i \in DOMAIN queue : queue[i].type = "invalidated"

\* The timer of the first scan says nothing about computers that are found: also when
\* they were found before the timer was set, when nothing ends it, and when rescans and
\* other lists came in between.
FirstScanTrue == [][DiscoveryTimeout /\ scr.devices # {} => scr'.status = scr.status]_vars

=============================================================================
