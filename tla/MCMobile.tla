------------------------------- MODULE MCMobile -------------------------------
(***************************************************************************)
(* The phone's screens for TLC: MobilePairing, AlbumBrowser, AutoUpload,   *)
(* LocalComputer (once for browsing, once for files), PhoneDownloads,      *)
(* PhoneThumbnails, SyncActivity, PhoneSettings and PhoneNavigation (the   *)
(* scan twice, without and with a camera).  Each is modelled with the      *)
(* native calls it makes; they share no state here, so a behaviour is      *)
(* one of the one that "which" names and the others stay in one initial    *)
(* state.  Those that are proved about are extended and take their         *)
(* constants from the configuration; the others are instances.             *)
(***************************************************************************)
EXTENDS MobilePairing, AlbumBrowser, AutoUpload, LocalComputer, PhoneDownloads, SyncActivity,
        PhoneSettings, PhoneThumbnails, TLC

CONSTANTS
  Parts,                \* the components a run is about
  x, v,                 \* an asset or file, a video
  root, f1, g1,         \* folders of the computer
  file

VARIABLES which,
  \* PhoneNavigation
  history, routes, tTab, nPage, target, moving, ended, tSheet, scrolls, helps, exports

pairingVars == vars   \* of MobilePairing
navVars == <<history, routes, tTab, nPage, target, moving, ended, tSheet, scrolls, helps, exports>>

-----------------------------------------------------------------------------
\* The scan, the list and the code, without a camera: the desktops and the QR code
\* at one place, the typed host at another.
MCEndpoint == [i \in Ids |-> IF i \in ManualHosts THEN 2 ELSE 1]
\* The camera, the QR code and its screens; discovery finds nothing.
Scanning == INSTANCE MobilePairing WITH
  Desktops <- {}, ManualHosts <- {}, Endpoint <- (QrId :> 1), Cameras <- {"granted", "denied"},
  MaxMounts <- 2, MaxSent <- 2, MaxNews <- 1, MaxTimers <- 1,
  Outcomes <- {"ok", "PAIRING_CODE_INVALID", "PAIR_TOKEN_INVALID"}

\* The album: two tabs and a collection; the video is outside the collection.
V(t, c) == [tab |-> t, collection |-> c]
MCOrder  == <<x, v>>
MCWithin == [all |-> {x, v}, c1 |-> {x}]
MCStart  == V("all", "all")
MCViews  == {V("all", "all"), V("videos", "all"), V("all", "c1")}

\* A folder in a folder, with files in it: moving about.
MCFolderOf == (f1 :> root) @@ (g1 :> f1) @@ (x :> g1) @@ (v :> g1)

\* Files at the root: downloading, opening, sharing, and the badge.
FilesOf == INSTANCE LocalComputer WITH
  FolderOf <- (f1 :> root) @@ (g1 :> f1) @@ (x :> root) @@ (v :> root),
  MaxLoads <- 1, MaxJobs <- 2, MaxReports <- 1,
  Reports <- {None, "unknown", "available", "unavailable"}

\* What the engine may be doing.
O(auto, st, d, t, p, f) ==
  [auto |-> auto, state |-> st, done |-> d, total |-> t, pending |-> p, file |-> f]
MCOverviews == {O("active", "uploading", 0, 1, 1, file), O("active", "completed", 1, 1, 0, file)}

Navigation == INSTANCE PhoneNavigation WITH
  MaxScrolls <- 2, MaxHelps <- 1,
  active <- tTab, page <- nPage, sheet <- tSheet

ASSUME MobileAssumptions ==
  /\ PairingAssumption /\ Scanning!PairingAssumption /\ AlbumAssumption /\ AutoUploadAssumption
  /\ LocalComputerAssumption /\ FilesOf!LocalComputerAssumption
  /\ PhoneDownloadsAssumption /\ SyncActivityAssumption
  /\ PhoneSettingsAssumption /\ ThumbnailsAssumption
  /\ Navigation!NavigationAssumption

-----------------------------------------------------------------------------
MobileInit ==
  /\ which \in Parts
  /\ Init /\ AlbumInit /\ UploadInit /\ ComputerInit /\ DownloadsInit
  /\ ActivityInit /\ SettingsInit /\ TilesInit /\ Navigation!Init
  /\ which # "pairing" => bound = None /\ (which # "scanning" => ~invalidated)
  /\ which # "pairing" => seen
  /\ which # "album" => access = "authorized" /\ android
  /\ which \notin {"browse", "files"} => hostBound
  /\ which # "upload" => state = "disabled"
  /\ engine.overview.state = "completed"
  /\ phone = "en" /\ nativeName = CHOOSE name \in Names : TRUE   \* the names are alike
  /\ which # "settings" => storedPreference = "system"
  /\ which # "thumbnails" => \A f \in Resources : store[f] = None

PairingStep ==
  /\ \/ which = "pairing" /\ Next
     \/ which = "scanning" /\ Scanning!Next
  /\ UNCHANGED <<which, albumVars, uploadVars, computerVars, downloadVars,
                 activityVars, phoneSettingsVars, tileVars, navVars>>
AlbumStep ==
  /\ which = "album" /\ AlbumNext
  /\ UNCHANGED <<which, pairingVars, uploadVars, computerVars, downloadVars,
                 activityVars, phoneSettingsVars, tileVars, navVars>>
UploadStep ==
  /\ which = "upload" /\ UploadNext
  /\ UNCHANGED <<which, pairingVars, albumVars, computerVars, downloadVars,
                 activityVars, phoneSettingsVars, tileVars, navVars>>
BrowseStep ==
  /\ which = "browse" /\ ComputerNext
  /\ UNCHANGED <<which, pairingVars, albumVars, uploadVars, downloadVars,
                 activityVars, phoneSettingsVars, tileVars, navVars>>
FilesStep ==
  /\ which = "files" /\ FilesOf!ComputerNext
  /\ UNCHANGED <<which, pairingVars, albumVars, uploadVars, downloadVars,
                 activityVars, phoneSettingsVars, tileVars, navVars>>
DownloadsStep ==
  /\ which = "downloads" /\ DownloadsNext
  /\ UNCHANGED <<which, pairingVars, albumVars, uploadVars, computerVars,
                 activityVars, phoneSettingsVars, tileVars, navVars>>
ActivityStep ==
  /\ which = "activity" /\ ActivityNext
  /\ UNCHANGED <<which, pairingVars, albumVars, uploadVars, computerVars,
                 downloadVars, phoneSettingsVars, tileVars, navVars>>
SettingsStep ==
  /\ which = "settings" /\ SettingsNext
  /\ UNCHANGED <<which, pairingVars, albumVars, uploadVars, computerVars,
                 downloadVars, activityVars, tileVars, navVars>>
ThumbnailsStep ==
  /\ which = "thumbnails" /\ TilesNext
  /\ UNCHANGED <<which, pairingVars, albumVars, uploadVars, computerVars,
                 downloadVars, activityVars, phoneSettingsVars, navVars>>
NavigationStep ==
  /\ which = "navigation" /\ Navigation!Next
  /\ UNCHANGED <<which, pairingVars, albumVars, uploadVars, computerVars,
                 downloadVars, activityVars, phoneSettingsVars, tileVars>>

MobileNext ==
  \/ PairingStep \/ AlbumStep \/ UploadStep \/ BrowseStep \/ FilesStep \/ DownloadsStep
  \/ ActivityStep \/ SettingsStep \/ ThumbnailsStep \/ NavigationStep

mobileVars == <<which, pairingVars, albumVars, uploadVars, computerVars, downloadVars, activityVars,
          phoneSettingsVars, tileVars, navVars>>

MobileSpec ==
  MobileInit /\ [][MobileNext]_mobileVars /\ WF_computerVars(which = "browse" /\ Settle)

-----------------------------------------------------------------------------
\* The parts that stay as they are need no check.
TypesOK ==
  /\ which \in {"pairing", "scanning"} => TypeOK
  /\ which = "album" => AlbumTypeOK
  /\ which = "upload" => UploadTypeOK
  /\ which \in {"browse", "files"} => ComputerTypeOK
  /\ which = "downloads" => DownloadsTypeOK
  /\ which = "activity" => ActivityTypeOK
  /\ which = "settings" => SettingsTypeOK
  /\ which = "thumbnails" => TilesTypeOK
  /\ which = "navigation" => Navigation!TypeOK

\* A folder stops loading although the computer never answers; in the other
\* behaviours the screen is never scheduled.
BrowsingEnds == which = "browse" => LoadingEnds

=============================================================================
