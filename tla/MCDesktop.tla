------------------------------ MODULE MCDesktop ------------------------------
(***************************************************************************)
(* The desktop application for TLC: SidecarSupervisor, EventBridge and     *)
(* MainServices of the Electron main process, DashboardStore,              *)
(* ReceivedLibrary, DesktopWindow, DesktopSettings and DesktopShell of its *)
(* window.  They share no state here, so a behaviour is one of the one     *)
(* that "which" names and the others stay in one initial state.  Those     *)
(* that are proved about are extended and take their constants from the    *)
(* configuration; the other two are instances.                             *)
(***************************************************************************)
EXTENDS SidecarSupervisor, EventBridge, MainServices, ReceivedLibrary, DesktopWindow, DesktopShell

CONSTANTS
  d1, d2,           \* DashboardStore, ReceivedLibrary, DesktopWindow
  english, text1    \* DesktopSettings

VARIABLES which,
  truth, busy, rows, timers, tillPoll, sAsked, pushed, dRuntime, news, lost,  \* DashboardStore
  preference, calls, pAnswers, open, powerState, powerLoading, persisted, locale, languageOpen,
  languageSearch, feedbackOpen, feedbackText, exports, dialogOpen, description,
  exporting                                                    \* DesktopSettings

\* A budget: so many crashes, hangs, failing kills and presses of the button.
B(c, h, f, r) == [crash |-> c, hang |-> h, refusal |-> f, retry |-> r]
MCBudgets == {B(2,0,0,0), B(1,1,0,0), B(0,0,0,1), B(1,0,1,0)}

MCOwner   == [i \in 1..3 |-> IF i = 2 THEN d2 ELSE d1]
MCRecords == {[device |-> d1, date |-> 1], [device |-> d1, date |-> 2]}

\* A unit of time is about three seconds: the timer's three, and the interval's ten, for
\* which three units are too few, so that the polls come too often.
Dashboard == INSTANCE DashboardStore WITH
  Devices <- {d1}, OfflineAfter <- 1, PollAfter <- 3, MaxNews <- 3, MaxAsked <- 2,
  MaxQueued <- 2, MaxLost <- 1, asked <- sAsked,
  runtime <- dRuntime

Settings == INSTANCE DesktopSettings WITH
  Locales <- {english}, Searches <- {{english}, {}}, Texts <- {text1},
  MaxCalls <- 2, MaxExports <- 1, answers <- pAnswers, shown <- open

ASSUME DesktopAssumptions ==
  /\ SupervisorAssumption
  /\ BridgeAssumption
  /\ ServicesAssumption
  /\ LibraryAssumption
  /\ DesktopWindowAssumption
  /\ Settings!DesktopSettingsAssumption
  /\ Dashboard!DashboardAssumption
  /\ DesktopShellAssumption

-----------------------------------------------------------------------------
supervisorVars == vars   \* of SidecarSupervisor

dashboardVars == <<truth, busy, rows, timers, tillPoll, sAsked, pushed, dRuntime, news, lost>>
settingsVars == <<preference, calls, pAnswers, open, powerState, powerLoading, persisted, locale,
                  languageOpen, languageSearch, feedbackOpen, feedbackText, exports,
                  dialogOpen, description, exporting>>

DesktopInit ==
  /\ which \in {"supervisor", "bridge", "thumbnails", "diagnostics", "dashboard",
               "library", "window", "settings", "shell"}
  /\ Init /\ BridgeInit /\ ServicesInit /\ LibraryInit /\ WindowInit /\ ShellInit
  /\ Dashboard!Init /\ Settings!Init
  /\ which # "supervisor" => events.left = B(2,0,0,0) /\ proc[External] = "none"
  /\ events.left.retry > 0 => proc[External] = "none"
  /\ which # "bridge" => stored
  /\ which # "thumbnails" => dir = "absent"
  /\ which # "library" => library = 0
  /\ server = [code |-> 1, root |-> 3]   \* the codes are alike, and the folders
  /\ which # "window" => blocked = {}
  /\ which # "settings" => preference /\ persisted = None
  /\ which # "shell" => platform = "windows"

SupervisorStep == which = "supervisor" /\ Next
  /\ UNCHANGED <<which, bridgeVars, servicesVars, dashboardVars, libraryVars, windowVars,
                 settingsVars, shellVars>>
BridgeStep     == which = "bridge" /\ BridgeNext
  /\ UNCHANGED <<which, supervisorVars, servicesVars, dashboardVars, libraryVars, windowVars,
                 settingsVars, shellVars>>
ThumbnailsStep == which = "thumbnails" /\ ThumbnailsNext
  /\ UNCHANGED <<which, supervisorVars, bridgeVars, dashboardVars, libraryVars, windowVars,
                 settingsVars, shellVars>>
DiagnosticsStep == which = "diagnostics" /\ DiagnosticsNext
  /\ UNCHANGED <<which, supervisorVars, bridgeVars, dashboardVars, libraryVars, windowVars,
                 settingsVars, shellVars>>
DashboardStep  == which = "dashboard" /\ Dashboard!Next
  /\ UNCHANGED <<which, supervisorVars, bridgeVars, servicesVars, libraryVars, windowVars,
                 settingsVars, shellVars>>
LibraryStep    == which = "library" /\ LibraryNext
  /\ UNCHANGED <<which, supervisorVars, bridgeVars, servicesVars, dashboardVars, windowVars,
                 settingsVars, shellVars>>
WindowStep     == which = "window" /\ WindowNext
  /\ UNCHANGED <<which, supervisorVars, bridgeVars, servicesVars, dashboardVars, libraryVars,
                 settingsVars, shellVars>>
SettingsStep   == which = "settings" /\ Settings!Next
  /\ UNCHANGED <<which, supervisorVars, bridgeVars, servicesVars, dashboardVars, libraryVars,
                 windowVars, shellVars>>
ShellStep      == which = "shell" /\ ShellNext
  /\ UNCHANGED <<which, supervisorVars, bridgeVars, servicesVars, dashboardVars, libraryVars,
                 windowVars, settingsVars>>

DesktopNext ==
  \/ SupervisorStep \/ BridgeStep \/ ThumbnailsStep \/ DiagnosticsStep \/ DashboardStep
  \/ LibraryStep \/ WindowStep \/ SettingsStep \/ ShellStep

desktopVars == <<which, supervisorVars, bridgeVars, servicesVars, dashboardVars, libraryVars,
          windowVars, settingsVars, shellVars>>

\* Fairness of SidecarSupervisor and of DashboardStore, for the behaviours of each.
InSupervisor(A) == which = "supervisor" /\ A
InDashboard(A)  == which = "dashboard" /\ A
SupervisorFairness ==
  /\ \A p \in Procs :
       /\ WF_supervisorVars(InSupervisor(Bind(p)))
       /\ WF_supervisorVars(InSupervisor(OnExit(p)))
       /\ WF_supervisorVars(InSupervisor(proc[p] # "hung" /\ Exit(p)))
  /\ WF_supervisorVars(InSupervisor(CheckOk \/ CheckFailed))
  /\ WF_supervisorVars(InSupervisor(CheckSend))
  /\ WF_supervisorVars(InSupervisor(Boot))
  /\ \A k \in Timed : WF_supervisorVars(InSupervisor(TimerFires(k)))
  /\ \A k \in Calls : /\ WF_supervisorVars(InSupervisor(StartStep(k)))
                      /\ WF_supervisorVars(InSupervisor(StopStep(k)))
DashboardFairness ==
  /\ WF_dashboardVars(InDashboard(Dashboard!Tick))
  /\ WF_dashboardVars(InDashboard(Dashboard!Poll))
  /\ WF_dashboardVars(InDashboard(Dashboard!SidecarEvent))
  /\ WF_dashboardVars(InDashboard(\E i \in DOMAIN sAsked : Dashboard!Snapshot(i)))
  /\ WF_dashboardVars(InDashboard(Dashboard!OfflineTimer(d1)))

DesktopSpec ==
  DesktopInit /\ [][DesktopNext]_desktopVars /\ SupervisorFairness /\ DashboardFairness

-----------------------------------------------------------------------------
\* The parts that stay as they are need no check.
TypesOK ==
  /\ which = "supervisor" => TypeOK
  /\ which = "bridge" => BridgeTypeOK
  /\ which \in {"thumbnails", "diagnostics"} => ServicesTypeOK
  /\ which = "dashboard" => Dashboard!TypeOK
  /\ which = "library" => LibraryTypeOK
  /\ which = "window" => WindowTypeOK
  /\ which = "settings" => Settings!TypeOK
  /\ which = "shell" => ShellTypeOK

\* "starting" is not for ever, and quitting ends (SidecarManager); in the other
\* behaviours the supervisor is never scheduled.
StartupEnds  == which = "supervisor" => StartingEnds
ShutdownEnds == which = "supervisor" => QuitEnds

\* A phone that is gone for good is shown offline in the end (dashboard-store.ts).
OfflineShown == which = "dashboard" => Dashboard!OfflineShown

=============================================================================
