---------------------------- MODULE DesktopShell ----------------------------
(***************************************************************************)
(* What the desktop window keeps around its pages: the banner that says    *)
(* how the sidecar does and retries it or installs Bonjour (AppShell,      *)
(* SidecarStatusBanner, ipc-handlers.ts), the sidebar, the help dialog     *)
(* with the title bar dimmed under it, the download links, the Files and   *)
(* Folders permission of macOS on the dashboard, and the power events the  *)
(* main process tells the sidecar of.                                      *)
(*                                                                         *)
(* How the sidecar goes from state to state is in module                   *)
(* SidecarSupervisor; here it changes at any time.  What the main process  *)
(* sends a window and what it answers arrive in the order they were sent.  *)
(* On macOS the window may be closed and opened again while the            *)
(* application runs; elsewhere closing it quits.                           *)
(***************************************************************************)
EXTENDS Naturals, Sequences, FiniteSets

CONSTANTS
  Platforms,    \* of "mac", "windows", "linux"
  Views,        \* the pages of the sidebar
  Sections,     \* the sections of the help dialog
  Nothing,
  MaxShellOps        \* what the user does, changes of the sidecar and power events

Links  == {"ios", "android"}
\* A sidecar that starts may do so again.
States == {s \in [status : {"starting", "healthy", "failed", "stopped"}, retried : BOOLEAN,
                  bonjour : {"native", "fallback", "not_applicable"}] :
             s.retried => s.status = "starting"}

DesktopShellAssumption ==
  /\ Platforms \subseteq {"mac", "windows", "linux"} /\ Platforms # {}
  /\ "dashboard" \in Views /\ "intro" \in Sections /\ Nothing \notin Links
  /\ MaxShellOps \in Nat

VARIABLES
  platform, installed,    \* the computer, a Bonjour runtime on it
  tcc,                    \* macOS: the Files and Folders permission
  runtime,                \* main: sidecar.getState()
  window, windows,        \* main: mainWindow, windows created so far
  overlay,                \* main: the title bar is dimmed
  jobs,                   \* main: retryStart and installBonjour under way
  runtimeWire,                   \* runtime states on their way to the window, oldest first
  runtimeAsked,                  \* getRuntimeState on its way to the main process
  overlayCalls,           \* setModalOverlayActive on its way to it
  permissionCalls,        \* checkFolderPermission, requestFolderPermission under way
  shownRuntime,                  \* useSidecarRuntimeStore.runtime
  setup,                  \* AppShell: ~connectionSetupComplete
  view, help,             \* useAppStore
  section,                \* HelpDialog.activeSection
  panel,                  \* AppShell.downloadPanelOpen
  retrying, installing,   \* SidecarStatusBanner
  permission, qr,         \* Dashboard: folderPermissionGranted, qrVisible
  browser,                \* the link opened last
  power, posts, told,     \* snapshot of the last event, posts under way, the sidecar's
  shellOps

mainVars == <<platform, installed, tcc, runtime, window, windows, overlay, jobs>>
runtimeVars == <<runtimeWire, runtimeAsked, overlayCalls, permissionCalls>>
barVars  == <<shownRuntime, setup, view, help, section, panel, retrying, installing>>
dashVars == <<permission, qr, browser>>
powerEventVars == <<power, posts, told>>
shellVars == <<mainVars, runtimeVars, barVars, dashVars, powerEventVars, shellOps>>

Op == shellOps < MaxShellOps /\ shellOps' = shellOps + 1

-----------------------------------------------------------------------------
(* The main process. *)

INITIAL_SIDECAR_RUNTIME_STATE ==
  [status |-> "starting", retried |-> FALSE, bonjour |-> "not_applicable"]

\* detectBonjourRuntime
BonjourRuntime == IF platform # "windows" THEN "not_applicable"
                  ELSE IF installed THEN "native" ELSE "fallback"

\* A change is sent to the window there is; one that is loading does not listen yet.  A
\* start looks for Bonjour again, and may find the sidecar healthy.
SidecarChanges ==
  /\ Op
  /\ \E s \in States \ {runtime} :
       /\ s.bonjour \in CASE s.status = "starting" -> {BonjourRuntime}
                          [] s.status = "healthy"  -> {BonjourRuntime, runtime.bonjour}
                          [] OTHER                 -> {runtime.bonjour}
       /\ runtime' = s
       /\ runtimeWire' = IF window = "open" THEN Append(runtimeWire, s) ELSE runtimeWire
  /\ UNCHANGED <<platform, installed, tcc, window, windows, overlay, jobs, runtimeAsked,
                 overlayCalls, permissionCalls, barVars, dashVars, powerEventVars>>

UsesOverlay == platform # "mac"

\* createMainWindow, at the start and when the application is activated without a window.
CreateMainWindow ==
  /\ window = "none" /\ IF windows = 0 THEN UNCHANGED shellOps ELSE Op
  /\ window' = "loading" /\ windows' = windows + 1 /\ overlay' = FALSE
  /\ UNCHANGED <<platform, installed, tcc, runtime, jobs, runtimeVars, barVars, dashVars,
                 powerEventVars>>

\* The page has loaded: stores and components start anew, AppShell asks for the state
\* and listens, and tells that no dialog is open.
\* Mutant: it listens and does not ask.
LoadedListening ==
  /\ shownRuntime' = INITIAL_SIDECAR_RUNTIME_STATE /\ setup' = TRUE
  /\ view' = "dashboard" /\ help' = FALSE /\ section' = "intro" /\ panel' = FALSE
  /\ retrying' = FALSE /\ installing' = FALSE /\ permission' = Nothing /\ qr' = FALSE
  /\ runtimeWire' = <<>> /\ runtimeAsked' = FALSE
Loaded ==
  /\ shownRuntime' = INITIAL_SIDECAR_RUNTIME_STATE /\ setup' = TRUE
  /\ view' = "dashboard" /\ help' = FALSE /\ section' = "intro" /\ panel' = FALSE
  /\ retrying' = FALSE /\ installing' = FALSE /\ permission' = Nothing /\ qr' = FALSE
  /\ runtimeWire' = <<>> /\ runtimeAsked' = TRUE
Load ==
  /\ window = "loading" /\ window' = "open" /\ Loaded
  /\ overlayCalls' = IF UsesOverlay THEN <<FALSE>> ELSE <<>>
  /\ UNCHANGED <<platform, installed, tcc, runtime, windows, overlay, jobs, permissionCalls,
                 browser, powerEventVars, shellOps>>

\* The dashboard that asked for the permission is gone.
Left == {[c EXCEPT !.live = FALSE] : c \in permissionCalls}
\* Only macOS keeps the application without a window.
CloseWindow ==
  /\ window = "open" /\ platform = "mac" /\ Op
  /\ window' = "none" /\ runtimeWire' = <<>> /\ runtimeAsked' = FALSE /\ overlayCalls' = <<>>
  /\ permissionCalls' = Left
  /\ UNCHANGED <<platform, installed, tcc, runtime, windows, overlay, jobs, barVars, dashVars,
                 powerEventVars>>

\* getRuntimeState: the answer goes the way of the changes.
AnswerRuntimeState ==
  /\ runtimeAsked /\ runtimeAsked' = FALSE /\ runtimeWire' = Append(runtimeWire, runtime)
  /\ UNCHANGED <<mainVars, overlayCalls, permissionCalls, barVars, dashVars, powerEventVars,
                 shellOps>>
TakeRuntimeState ==
  /\ runtimeWire # <<>> /\ runtimeWire' = Tail(runtimeWire) /\ shownRuntime' = Head(runtimeWire)
  /\ UNCHANGED <<mainVars, runtimeAsked, overlayCalls, permissionCalls, setup, view, help, section,
                 panel, retrying, installing, dashVars, powerEventVars, shellOps>>
SetModalOverlayActive ==
  /\ overlayCalls # <<>> /\ overlayCalls' = Tail(overlayCalls)
  /\ overlay' = IF UsesOverlay THEN Head(overlayCalls) ELSE overlay
  /\ UNCHANGED <<platform, installed, tcc, runtime, window, windows, jobs, runtimeWire,
                 runtimeAsked, permissionCalls, barVars, dashVars, powerEventVars, shellOps>>

-----------------------------------------------------------------------------
(* The banner. *)

Banner ==
  CASE shownRuntime.status = "stopped" -> "none"
    [] shownRuntime.status = "healthy" ->
         IF shownRuntime.bonjour = "fallback" THEN "bonjour" ELSE "none"
    [] shownRuntime.status = "starting" -> IF shownRuntime.retried THEN "retrying" ELSE "starting"
    [] shownRuntime.status = "failed" -> "failed"
InWindow == window = "open" /\ ~setup
ButtonsEnabled ==
  /\ InWindow /\ ~help /\ Banner \in {"bonjour", "failed"} /\ ~retrying /\ ~installing

Job(kind, step) == [kind |-> kind, step |-> step, window |-> windows]
HandleRetry ==
  /\ ButtonsEnabled /\ Op /\ retrying' = TRUE /\ jobs' = jobs \cup {Job("retry", "restart")}
  /\ UNCHANGED <<platform, installed, tcc, runtime, window, windows, overlay, runtimeVars,
                 shownRuntime, setup, view, help, section, panel, installing, dashVars,
                 powerEventVars>>
HandleInstallBonjour ==
  /\ ButtonsEnabled /\ Banner = "bonjour" /\ platform = "windows" /\ Op
  /\ installing' = TRUE /\ jobs' = jobs \cup {Job("install", "download")}
  /\ UNCHANGED <<platform, installed, tcc, runtime, window, windows, overlay, runtimeVars,
                 shownRuntime, setup, view, help, section, panel, retrying, dashVars,
                 powerEventVars>>

\* installBonjour: a download that fails or is no installer ends it, and so does the
\* installer; then the sidecar is started again, as retryStart does.
JobGoesOn(j) ==
  /\ j \in jobs /\ j.step \in {"download", "run"}
  /\ IF j.step = "download"
     THEN jobs' = (jobs \ {j}) \cup {[j EXCEPT !.step = "run"]} /\ UNCHANGED installed
     ELSE jobs' = (jobs \ {j}) \cup {[j EXCEPT !.step = "restart"]} /\ installed' = TRUE
  /\ UNCHANGED <<platform, tcc, runtime, window, windows, overlay, runtimeVars, barVars, dashVars,
                 powerEventVars, shellOps>>
\* It has ended, or failed at this step; the window that asked for it takes the answer.
JobEnds(j) ==
  /\ j \in jobs /\ jobs' = jobs \ {j}
  /\ IF window = "open" /\ j.window = windows
     THEN /\ retrying' = (retrying /\ j.kind # "retry")
          /\ installing' = (installing /\ j.kind # "install")
     ELSE UNCHANGED <<retrying, installing>>
  /\ UNCHANGED <<platform, installed, tcc, runtime, window, windows, overlay, runtimeVars,
                 shownRuntime, setup, view, help, section, panel, dashVars, powerEventVars,
                 shellOps>>

-----------------------------------------------------------------------------
(* Pages, dialog, links. *)

\* It is mounted anew, and on macOS asks for the permission.
Mounts(v) ==
  /\ permission' = Nothing /\ qr' = FALSE /\ browser' = browser
  /\ permissionCalls' = IF v = "dashboard" /\ platform = "mac"
                        THEN Left \cup {[kind |-> "check", live |-> TRUE]} ELSE Left
CompleteSetup ==
  /\ window = "open" /\ setup /\ Op /\ setup' = FALSE /\ Mounts(view)
  /\ UNCHANGED <<mainVars, runtimeWire, runtimeAsked, overlayCalls, shownRuntime, view, help,
                 section, panel, retrying, installing, powerEventVars>>
SetView(v) ==
  /\ InWindow /\ ~help /\ v # view /\ Op /\ view' = v /\ Mounts(v)
  /\ UNCHANGED <<mainVars, runtimeWire, runtimeAsked, overlayCalls, shownRuntime, setup, help,
                 section, panel, retrying, installing, powerEventVars>>

\* The effect of AppShell on isHelpOpen: the last one is cleaned up, the next one told.
SetHelpOpen(open) ==
  /\ InWindow /\ help # open /\ Op /\ help' = open
  /\ panel' = (panel /\ ~open)
  /\ overlayCalls' = IF UsesOverlay THEN overlayCalls \o <<FALSE, open>> ELSE overlayCalls
  /\ UNCHANGED <<mainVars, runtimeWire, runtimeAsked, permissionCalls, shownRuntime, setup,
                 view, section, retrying, installing, dashVars, powerEventVars>>
SelectSection(s) ==
  /\ InWindow /\ help /\ s # section /\ Op /\ section' = s
  /\ UNCHANGED <<mainVars, runtimeVars, shownRuntime, setup, view, help, panel, retrying,
                 installing, dashVars, powerEventVars>>

\* The button of the top bar, and the dashboard's link, which only opens.
TogglePanel ==
  /\ InWindow /\ ~help /\ Op /\ panel' = ~panel
  /\ UNCHANGED <<mainVars, runtimeVars, shownRuntime, setup, view, help, section, retrying,
                 installing, dashVars, powerEventVars>>
HandleDownloadApp ==
  /\ InWindow /\ ~help /\ view = "dashboard" /\ ~panel /\ Op /\ panel' = TRUE
  /\ UNCHANGED <<mainVars, runtimeVars, shownRuntime, setup, view, help, section, retrying,
                 installing, dashVars, powerEventVars>>
LinksShown == window = "open" /\ ~help /\ (setup \/ panel)
OpenExternal(link) ==
  /\ LinksShown /\ link # browser /\ Op /\ browser' = link
  /\ UNCHANGED <<mainVars, runtimeVars, barVars, permission, qr, powerEventVars>>
ToggleQr ==
  /\ InWindow /\ ~help /\ view = "dashboard" /\ Op /\ qr' = ~qr
  /\ UNCHANGED <<mainVars, runtimeVars, barVars, permission, browser, powerEventVars>>

\* The warning of the dashboard has the button.
PermissionWarning == InWindow /\ view = "dashboard" /\ permission = "denied"
HandleRequestFolderPermission ==
  /\ PermissionWarning /\ ~help /\ Op
  /\ permissionCalls' = permissionCalls \cup {[kind |-> "request", live |-> TRUE]}
  /\ UNCHANGED <<mainVars, runtimeWire, runtimeAsked, overlayCalls, barVars, dashVars,
                 powerEventVars>>
\* Either call reads a protected folder: the system prompts when it was never asked.  An
\* answer that comes when the dashboard was left sets the state of a component that is gone;
\* a refused request opens the system's settings.
PermissionAnswered(c) ==
  /\ c \in permissionCalls /\ permissionCalls' = permissionCalls \ {c}
  /\ tcc' \in IF tcc = "ask" THEN {"granted", "denied"} ELSE {tcc}
  /\ permission' = IF c.live THEN tcc' ELSE permission
  /\ UNCHANGED <<platform, installed, runtime, window, windows, overlay, jobs, runtimeWire,
                 runtimeAsked, overlayCalls, barVars, qr, browser, powerEventVars, shellOps>>

-----------------------------------------------------------------------------
(* attachPowerEventLogging: every event is posted, with requests of their own. *)

PowerStates == {"awake", "sleeping", "locked", "unlocked"}
PowerEvent ==
  /\ Op
  /\ \E s \in PowerStates \ {power.state} : power' = [state |-> s, number |-> power.number + 1]
  /\ posts' = posts \cup {power'} /\ UNCHANGED told
  /\ UNCHANGED <<mainVars, runtimeVars, barVars, dashVars>>
\* UpdatePowerSnapshot keeps the post that arrives last, not the latest event.
PostArrives(p) ==
  /\ p \in posts /\ posts' = posts \ {p} /\ told' = p
  /\ UNCHANGED <<mainVars, runtimeVars, barVars, dashVars, power, shellOps>>
PostFails(p) ==
  /\ p \in posts /\ posts' = posts \ {p}
  /\ UNCHANGED <<mainVars, runtimeVars, barVars, dashVars, power, told, shellOps>>

-----------------------------------------------------------------------------
\* The sidecar is being started, and there is no window yet.
ShellInit ==
  /\ platform \in Platforms /\ installed = FALSE /\ tcc \in {"ask", "granted", "denied"}
  /\ platform # "mac" => tcc = "granted"
  /\ \E b \in {"not_applicable", BonjourRuntime} :
       runtime = [INITIAL_SIDECAR_RUNTIME_STATE EXCEPT !.bonjour = b]
  /\ window = "none" /\ windows = 0
  /\ overlay = FALSE /\ jobs = {}
  /\ runtimeWire = <<>> /\ runtimeAsked = FALSE /\ overlayCalls = <<>> /\ permissionCalls = {}
  /\ shownRuntime = INITIAL_SIDECAR_RUNTIME_STATE
  /\ setup = TRUE /\ view = "dashboard" /\ help = FALSE
  /\ section = "intro" /\ panel = FALSE /\ retrying = FALSE /\ installing = FALSE
  /\ permission = Nothing /\ qr = FALSE /\ browser = Nothing
  /\ power = [state |-> "awake", number |-> 0] /\ posts = {} /\ told = Nothing
  /\ shellOps = 0

ShellNext ==
  \/ SidecarChanges \/ CreateMainWindow \/ Load \/ CloseWindow
  \/ AnswerRuntimeState \/ TakeRuntimeState \/ SetModalOverlayActive
  \/ HandleRetry \/ HandleInstallBonjour \/ \E j \in jobs : JobGoesOn(j) \/ JobEnds(j)
  \/ CompleteSetup \/ \E v \in Views : SetView(v)
  \/ \E open \in BOOLEAN : SetHelpOpen(open)
  \/ \E s \in Sections : SelectSection(s)
  \/ TogglePanel \/ HandleDownloadApp \/ ToggleQr \/ \E l \in Links : OpenExternal(l)
  \/ HandleRequestFolderPermission \/ \E c \in permissionCalls : PermissionAnswered(c)
  \/ PowerEvent \/ \E p \in posts : PostArrives(p) \/ PostFails(p)

ShellSpec == ShellInit /\ [][ShellNext]_shellVars

-----------------------------------------------------------------------------
ShellTypeOK ==
  /\ shownRuntime \in States /\ runtime \in States /\ view \in Views /\ section \in Sections
  /\ \A j \in jobs : j.window \in 1..windows /\ j.step \in {"download", "run", "restart"}
  /\ shellOps \in 0..MaxShellOps

\* With nothing on its way to an open window, the banner goes by the sidecar's state: also
\* in a window that was opened after the state had changed, and when the answer to the
\* window's question and changes follow one another.
BannerIsCurrent == window = "open" /\ ~runtimeAsked /\ runtimeWire = <<>> => shownRuntime = runtime

\* With no call for it on its way, the title bar is dimmed exactly under the help dialog.
DimmedUnderHelp == window = "open" /\ UsesOverlay /\ overlayCalls = <<>> => overlay = help

\* What the shell shows goes by what it is about.
ShellIsCurrent == BannerIsCurrent /\ DimmedUnderHelp

=============================================================================
