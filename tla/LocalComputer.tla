---------------------------- MODULE LocalComputer ----------------------------
(***************************************************************************)
(* LocalComputerScreen.tsx: browsing the computer's shared folders from    *)
(* the phone.  The root and every folder are read by requests that have a  *)
(* timeout of their own and one retry; the user moves between folders      *)
(* while requests are on their way, selects, downloads, opens and shares.  *)
(*                                                                         *)
(* The native calls and the computer are external.  Names, sizes, search,  *)
(* the order of rows and the list or grid layout are left out.             *)
(***************************************************************************)
EXTENDS PhoneValues, Naturals, Sequences, FiniteSets

CONSTANTS
  Folders, Files,     \* what the computer shares
  Root,               \* the directory of shared roots
  FolderOf,               \* folder or file -> the folder it is in, or Root
  MaxLoads,           \* requests that are ever started
  MaxFlying,          \* requests on their way at a time
  MaxJobs,            \* downloads, openings and shares ever started
  MaxReports,            \* reachability events
  Reports,            \* what a binding says of reachability
  Attempts            \* LOCAL_COMPUTER_READY_RETRY_ATTEMPTS

Places == Folders \cup {Root}
LocalComputerAssumption ==
  /\ Root \notin Folders /\ None \notin Places \cup Files
  /\ FolderOf \in [Folders \cup Files -> Places]
  /\ Attempts \in Nat \ {0} /\ Reports \subseteq {None, "unknown", "available", "unavailable"}
  /\ \A n \in {MaxLoads, MaxFlying, MaxJobs, MaxReports} : n \in Nat

VARIABLES
  hostBound,               \* native: the binding has a host
  folderStack,               \* folderStack
  rootListed,          \* rootItems holds what the computer listed
  listed,              \* folderItemsByKey: folder -> None, Root for [], or whose listing it is
  loading, disconnected, disabled,   \* loading, networkDisconnected, localComputerDisabledReason
  folderLoading, folderError,
  loads, loadsStarted,      \* requests on their way, requests so far
  reach, lastReach,    \* sharedFilesReachability, lastSuccessfulSharedFilesReachability
  reports,                \* events so far
  selecting, selected, \* selectionMode, selectedIds
  downloading, batch,  \* downloadingId; what handleSelectedDownload has left to do
  sharing, preview, sheet,   \* sharing, resourcePreview, showSortSheet
  jobs, done           \* native downloads, openings and shares under way; those so far

browseVars == <<folderStack, rootListed, listed, loading, disconnected, disabled, folderLoading,
                folderError, loads, loadsStarted>>
routeVars  == <<reach, lastReach, reports>>
selectVars == <<selecting, selected>>
jobVars    == <<downloading, batch, sharing, preview, sheet, jobs, done>>
computerVars == <<hostBound, browseVars, routeVars, selectVars, jobVars>>

Here == IF folderStack = <<>> THEN Root ELSE folderStack[Len(folderStack)]

-----------------------------------------------------------------------------
(* What is on display. *)

\* The content of the screen, by the first condition that holds.
Content ==
  CASE loading -> "loading"
    [] ~loading /\ disabled -> "disabled"
    [] ~loading /\ ~disabled /\ disconnected -> "disconnected"
    [] ~loading /\ ~disabled /\ ~disconnected /\ folderLoading -> "folderLoading"
    [] ~loading /\ ~disabled /\ ~disconnected /\ ~folderLoading /\ folderError -> "folderError"
    [] OTHER -> "items"

\* currentItems: nothing where the folder was not read.
Source == IF Here = Root THEN (IF rootListed THEN Root ELSE None)
          ELSE IF listed[Here] \in {None, Root} THEN None ELSE listed[Here]
Children(place) == {x \in Folders \cup Files : FolderOf[x] = place}
Items == IF Source = None THEN {} ELSE Children(Source)
ShownItems == IF Content = "items" THEN Items ELSE {}
Selected == {f \in selected : f \in Items}

\* The badge under the title (getRouteStatusViewModel).
Displayed == IF lastReach # None /\ reach \in {None, "unknown"} THEN lastReach ELSE reach
Badge == IF disconnected \/ disabled THEN "none"
         ELSE CASE Displayed = "available" -> "online"
                [] Displayed = "unavailable" -> "offline"
                [] OTHER -> "none"

\* What can be pressed: the header over any content, rows and their buttons, the
\* actions on what is selected, and the button of each state that has one.
HeaderFree == ~sheet /\ preview = None
RowFree(x) == HeaderFree /\ x \in ShownItems
DownloadFree(f) == RowFree(f) /\ f \in Files /\ ~selecting
ActionsFree == HeaderFree /\ selecting /\ Selected # {}
RetryShown == Content \in {"disabled", "disconnected"}
RetryFolderShown == Content = "folderError"

\* What a binding or an event says; what a listing shows, for a phone that is connected
\* or has an address of the LAN for the computer.
Reported == Reports
Browsed == {"available", None}

-----------------------------------------------------------------------------
(* Requests. *)

Load(folder, step) == [id |-> loadsStarted + 1, folder |-> folder, step |-> step, attempt |-> 1]
Starts(l) == /\ loadsStarted < MaxLoads /\ Cardinality(loads) < MaxFlying
             /\ loadsStarted' = loadsStarted + 1 /\ loads' = loads \cup {l}
Goes(l, step) == loads' = (loads \ {l}) \cup {[l EXCEPT !.step = step]}
Ends(l) == loads' = loads \ {l}

\* loadData: "retry connection" and "check again", which only the root's own failure shows.
LoadData ==
  /\ loading' = TRUE /\ disconnected' = FALSE /\ disabled' = FALSE
  /\ folderError' = FALSE /\ folderLoading' = FALSE
  /\ listed' = [f \in Folders |-> None]
  /\ Starts(Load(Root, "binding"))
  /\ UNCHANGED <<folderStack, rootListed>>

Retry == /\ HeaderFree /\ RetryShown /\ LoadData
         /\ UNCHANGED <<hostBound, routeVars, selectVars, jobVars>>

\* The binding is known: without a host there is nothing to list.
TakeBinding(l) ==
  /\ l \in loads /\ l.step = "binding"
  /\ IF hostBound
     THEN Goes(l, "list") /\ reach' \in Reported /\ UNCHANGED <<loading, rootListed, lastReach>>
     ELSE /\ Ends(l) /\ loading' = FALSE /\ rootListed' = FALSE
          /\ reach' = None /\ lastReach' = None
  /\ UNCHANGED <<hostBound, folderStack, listed, disconnected, disabled, folderLoading,
                 folderError, loadsStarted, reports, selectVars, jobVars>>

\* loadFolderContents
LoadFolder(f) ==
  /\ Starts(Load(f, "list")) /\ folderLoading' = TRUE /\ folderError' = FALSE

\* The computer lists; native is asked for the binding again.
TakeListing(l) ==
  /\ l \in loads /\ l.step = "list" /\ Goes(l, "binding2")
  /\ UNCHANGED <<hostBound, folderStack, rootListed, listed, loading, disconnected, disabled,
                 folderLoading, folderError, loadsStarted, routeVars, selectVars, jobVars>>

\* A folder's listing goes where the folder is, whatever folder is open now.
\* Mutant: it goes where the user is.
PlaceHere(l) == IF Here = Root THEN l.folder ELSE Here
PlaceOf(l) == l.folder
Finished(l) ==
  /\ l \in loads /\ l.step = "binding2" /\ Ends(l)
  /\ \E r \in Browsed :
       /\ lastReach' = IF r = None THEN lastReach ELSE r
       /\ IF l.folder # Root THEN UNCHANGED reach
          ELSE reach' \in IF r = None THEN {reach} \cup Reported ELSE {r}
  /\ IF l.folder = Root
     THEN rootListed' = TRUE /\ loading' = FALSE /\ UNCHANGED <<listed, folderLoading>>
     ELSE /\ listed' = [listed EXCEPT ![PlaceOf(l)] = l.folder]
          /\ folderLoading' = FALSE /\ UNCHANGED <<rootListed, loading>>
  /\ UNCHANGED <<hostBound, folderStack, disconnected, disabled, folderError, loadsStarted,
                 reports, selectVars, jobVars>>

\* A request fails for good: timeout, refusal of the computer, any other error.
Fails(l, refusal) ==
  /\ l \in loads /\ Ends(l)
  /\ IF l.folder = Root
     THEN /\ rootListed' = FALSE /\ loading' = FALSE
          /\ disabled' = (disabled \/ refusal) /\ disconnected' = (disconnected \/ ~refusal)
          /\ UNCHANGED <<listed, folderLoading, folderError>>
     ELSE /\ listed' = [listed EXCEPT ![l.folder] = Root]
          /\ folderLoading' = FALSE /\ folderError' = TRUE
          /\ UNCHANGED <<rootListed, loading, disconnected, disabled>>
  /\ UNCHANGED <<hostBound, folderStack, loadsStarted, routeVars, selectVars, jobVars>>

\* withLocalComputerReadyRetry: no route yet, one more attempt after a delay.
NoRoute(l) ==
  /\ l.step = "list" /\ l.attempt < Attempts /\ Goes(l, "delay")
  /\ UNCHANGED <<hostBound, folderStack, rootListed, listed, loading, disconnected, disabled,
                 folderLoading, folderError, loadsStarted, routeVars, selectVars, jobVars>>
Again(l) ==
  /\ l.step = "delay"
  /\ loads' = (loads \ {l}) \cup {[l EXCEPT !.step = "list", !.attempt = @ + 1]}
  /\ UNCHANGED <<hostBound, folderStack, rootListed, listed, loading, disconnected, disabled,
                 folderLoading, folderError, loadsStarted, routeVars, selectVars, jobVars>>

\* withLocalComputerTimeout.
\* Mutant: requests wait for the computer.
TimesOutNever(l) == FALSE
TimesOut(l) == l.step = "list" /\ Fails(l, FALSE)

Refused(l) == l.step \in {"binding", "list", "binding2"} /\ Fails(l, TRUE)
Broken(l)  == l.step \in {"binding", "list", "binding2"} /\ Fails(l, FALSE)

-----------------------------------------------------------------------------
(* Moving about. *)

ResetSelection == selecting' = FALSE /\ selected' = {}

OpenFolder(f) ==
  /\ RowFree(f) /\ f \in Folders
  /\ folderStack' = Append(folderStack, f)
  /\ LoadFolder(f) /\ ResetSelection
  /\ UNCHANGED <<hostBound, rootListed, listed, loading, disconnected, disabled, routeVars,
                 jobVars>>

\* The button and the header: also over a page that loads or failed.
GoBack ==
  /\ HeaderFree /\ folderStack # <<>>
  /\ folderStack' = SubSeq(folderStack, 1, Len(folderStack) - 1)
  /\ folderError' = FALSE /\ folderLoading' = FALSE /\ ResetSelection
  /\ UNCHANGED <<hostBound, rootListed, listed, loading, disconnected, disabled, loads,
                 loadsStarted, routeVars, jobVars>>

RetryFolder ==
  /\ HeaderFree /\ RetryFolderShown /\ Here # Root /\ LoadFolder(Here)
  /\ UNCHANGED <<hostBound, folderStack, rootListed, listed, loading, disconnected, disabled,
                 routeVars, selectVars, jobVars>>

\* onSharedFilesReachabilityChanged, and what the binding says elsewhere.
ReachabilityChanged ==
  /\ reports < MaxReports /\ reports' = reports + 1
  /\ reach' \in Reported
  /\ hostBound' \in BOOLEAN
  /\ UNCHANGED <<lastReach, browseVars, selectVars, jobVars>>

ToggleSheet ==
  /\ preview = None /\ sheet' = ~sheet
  /\ UNCHANGED <<hostBound, browseVars, routeVars, selectVars, downloading, batch, sharing,
                 preview, jobs, done>>

-----------------------------------------------------------------------------
(* Files. *)

SelectionButton ==
  /\ HeaderFree /\ selecting' = ~selecting /\ selected' = {}
  /\ UNCHANGED <<hostBound, browseVars, routeVars, jobVars>>

ToggleSelection(f) ==
  /\ RowFree(f) /\ selecting
  /\ selected' = IF f \in selected THEN selected \ {f} ELSE selected \cup {f}
  /\ UNCHANGED <<hostBound, browseVars, routeVars, selecting, jobVars>>

Job(kind, fs, step) == [id |-> done + 1, kind |-> kind, files |-> fs, step |-> step]
BeginJob(job) == done < MaxJobs /\ done' = done + 1 /\ jobs' = jobs \cup {job}

\* handleDownload, of a row that is not being downloaded.
MayDownload(f) == downloading = None
Download(f) ==
  /\ DownloadFree(f) /\ MayDownload(f) /\ downloading' = f
  /\ BeginJob(Job("download", {f}, "binding"))
  /\ UNCHANGED <<hostBound, browseVars, routeVars, selectVars, batch, sharing, preview, sheet>>

\* handleSelectedDownload: one after the other, those selected when it was pressed.
DownloadSelected ==
  /\ ActionsFree /\ downloading = None
  /\ \E f \in Selected :
       /\ batch' = Selected \ {f} /\ downloading' = f
       /\ BeginJob(Job("download", {f}, "binding"))
  /\ UNCHANGED <<hostBound, browseVars, routeVars, selectVars, sharing, preview, sheet>>

\* handleOpenFile: nothing says that a file is being opened; the last answer is shown.
OpenFile(f) ==
  /\ RowFree(f) /\ ~selecting
  /\ BeginJob(Job("open", {f}, "binding"))
  /\ UNCHANGED <<hostBound, browseVars, routeVars, selectVars, downloading, batch, sharing,
                 preview, sheet>>

ShareSelected ==
  /\ ActionsFree /\ ~sharing /\ sharing' = TRUE
  /\ BeginJob(Job("share", Selected, "binding"))
  /\ UNCHANGED <<hostBound, browseVars, routeVars, selectVars, downloading, batch, preview, sheet>>

ClosePreview ==
  /\ preview # None /\ preview' = None
  /\ UNCHANGED <<hostBound, browseVars, routeVars, selectVars, downloading, batch, sharing,
                 sheet, jobs, done>>

\* The end of a job; the batch goes on at once, whatever became of the last.
JobOver(j, ok) ==
  IF j.kind = "download"
  THEN /\ IF batch = {} \/ done = MaxJobs
          THEN /\ downloading' = None /\ batch' = {} /\ jobs' = jobs \ {j} /\ UNCHANGED done
          ELSE \E f \in batch :
                 /\ downloading' = f /\ batch' = batch \ {f} /\ done' = done + 1
                 /\ jobs' = (jobs \ {j}) \cup {Job("download", {f}, "binding")}
       /\ UNCHANGED <<sharing, preview, selectVars>>
  ELSE /\ jobs' = jobs \ {j} /\ UNCHANGED <<downloading, batch, done>>
       /\ IF j.kind = "share"
          THEN /\ sharing' = FALSE /\ UNCHANGED preview
               /\ IF ok THEN ResetSelection ELSE UNCHANGED selectVars
          ELSE /\ preview' \in IF ok THEN {preview} \cup j.files ELSE {preview}
               /\ UNCHANGED <<sharing, selectVars>>

\* A job asks for the binding first: without a host it ends there.
JobBinding(j) ==
  /\ j \in jobs /\ j.step = "binding"
  /\ IF hostBound
     THEN /\ jobs' = (jobs \ {j}) \cup {[j EXCEPT !.step = "native"]}
          /\ UNCHANGED <<downloading, batch, done, sharing, preview, selectVars>>
     ELSE JobOver(j, FALSE)
  /\ UNCHANGED <<hostBound, browseVars, routeVars, sheet>>
\* shareLocalComputerResources brings the files one by one, before the system's sheet.
SharePrepares(j) ==
  /\ j \in jobs /\ j.kind = "share" /\ j.step = "native"
  /\ \E f \in j.files : jobs' = (jobs \ {j}) \cup {[j EXCEPT !.files = @ \ {f}]}
  /\ UNCHANGED <<hostBound, browseVars, routeVars, selectVars, downloading, batch, sharing,
                 preview, sheet, done>>
JobEnds(j) ==
  /\ j \in jobs /\ j.step = "native"
  /\ \/ (j.kind = "share" => j.files = {}) /\ JobOver(j, TRUE)
     \/ JobOver(j, FALSE)
  /\ UNCHANGED <<hostBound, browseVars, routeVars, sheet>>

-----------------------------------------------------------------------------
\* The screen is mounted and has the focus.  Nothing opens on top of it, so its
\* useFocusEffect does not run again.
ComputerInit ==
  /\ hostBound \in BOOLEAN
  /\ folderStack = <<>> /\ rootListed = FALSE /\ listed = [f \in Folders |-> None]
  /\ loading = TRUE /\ disconnected = FALSE /\ disabled = FALSE
  /\ folderLoading = FALSE /\ folderError = FALSE
  /\ loads = {[id |-> 1, folder |-> Root, step |-> "binding", attempt |-> 1]} /\ loadsStarted = 1
  /\ reach = None /\ lastReach = None /\ reports = 0
  /\ selecting = FALSE /\ selected = {}
  /\ downloading = None /\ batch = {} /\ sharing = FALSE /\ preview = None /\ sheet = FALSE
  /\ jobs = {} /\ done = 0

LoadStep(l) ==
  \/ TakeBinding(l) \/ TakeListing(l) \/ Finished(l) \/ NoRoute(l) \/ Again(l)
  \/ TimesOut(l) \/ Refused(l) \/ Broken(l)

ComputerNext ==
  \/ Retry \/ GoBack \/ RetryFolder \/ ReachabilityChanged \/ ToggleSheet
  \/ SelectionButton \/ DownloadSelected \/ ShareSelected \/ ClosePreview
  \/ \E f \in Folders : OpenFolder(f)
  \/ \E f \in Files : ToggleSelection(f) \/ Download(f) \/ OpenFile(f)
  \/ \E l \in loads : LoadStep(l)
  \/ \E j \in jobs : JobBinding(j) \/ SharePrepares(j) \/ JobEnds(j)

\* Native knows the binding and the timers of the phone run; the computer need not
\* answer a listing.
Settle   == \E l \in loads : TakeBinding(l) \/ Again(l) \/ TimesOut(l) \/ Finished(l)
Fairness == WF_computerVars(Settle)
ComputerSpec == ComputerInit /\ [][ComputerNext]_computerVars /\ Fairness

-----------------------------------------------------------------------------
ComputerTypeOK ==
  /\ folderStack \in Seq(Folders) /\ selected \subseteq Files
  /\ listed \in [Folders -> Folders \cup {Root, None}]
  /\ downloading \in Files \cup {None} /\ batch \subseteq Files

\* A folder's rows are rows of that folder, whichever answers come while the user is
\* somewhere else.
ItemsAreOfFolder == \A x \in ShownItems : FolderOf[x] = Here

\* The page and a folder stop loading although the computer never answers.
LoadingEnds == (loading \/ folderLoading) ~> Content \notin {"loading", "folderLoading"}

=============================================================================
