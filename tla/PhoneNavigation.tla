---------------------------- MODULE PhoneNavigation ----------------------------
(***************************************************************************)
(* The phone's screens around the work itself: MainTabsScreen of           *)
(* RootNavigator.tsx with BottomTabBar.tsx, the screens they lead to       *)
(* (SharedFilesScreen.tsx, SyncActivityScreen.tsx, SettingsScreen.tsx),    *)
(* the pages of ConnectionTutorialScreen.tsx, and the export of the        *)
(* diagnostics that SettingsScreen.tsx and HelpScreen.tsx both offer.      *)
(*                                                                         *)
(* The stack and the tab navigator are libraries, and so is the scroll     *)
(* view: it tells when it came to rest, later, and a scroll that is        *)
(* interrupted may tell it too.  MobilePairing says when the tabs are      *)
(* reached and left; here they are on the screen.                          *)
(***************************************************************************)
EXTENDS Naturals, Sequences

CONSTANTS
  MaxScrolls,  \* scrolls of the tutorial's pages
  MaxHelps     \* help screens that are ever mounted

NavigationAssumption == MaxScrolls \in Nat /\ MaxHelps \in Nat

VARIABLES
  history,   \* the tabs that were active, the active one last
  routes,    \* the screens on top of the tabs, the last one on top
  active,    \* ConnectionTutorialScreen: the id of the highlighted tab
  page, target, moving,  \* its scroll view
  ended,     \* onMomentumScrollEnd on its way, with the page it stopped at
  sheet,     \* showTroubleshoot
  scrolls,
  helps,     \* mounts of HelpScreen
  exports    \* running exports, by the screen that started them

tutorialVars == <<active, page, target, moving, ended, sheet, scrolls>>
exportVars == <<helps, exports>>
vars == <<history, routes, tutorialVars, exportVars>>

-----------------------------------------------------------------------------
(* Routes and tabs. *)

\* getMainTabRouteName and getMainTabForTabRouteName
TabRoute == [home |-> "HomeTab", files |-> "FilesTab", settings |-> "SettingsTab"]
TabOf(route) == CASE route = "FilesTab" -> "files"
                  [] route = "SettingsTab" -> "settings"
                  [] OTHER -> "home"
\* getMainTabInitialRouteName
InitialTab(route) == CASE route = "SharedFiles" -> "FilesTab"
                       [] route = "Settings" -> "SettingsTab"
                       [] OTHER -> "HomeTab"

ActiveTab == TabOf(history[Len(history)])
Shown == IF routes = <<>> THEN ActiveTab ELSE routes[Len(routes)]

\* What can be opened from where.
HomeLinks == {"AutoUploadSettings", "DownloadRecords"}
FilesLinks == {"PhoneSyncSpace", "LocalComputer"}
SettingsLinks == {"Help", "DeviceDiscovery"}
Links(screen) ==
  CASE screen = "home" -> HomeLinks
    [] screen = "files" -> FilesLinks
    [] screen = "settings" -> SettingsLinks
    [] screen = "DeviceDiscovery" -> {"QRScanner"}
    [] screen = "QRScanner" -> {"ConnectionTutorial"}
    [] OTHER -> {}

TutorialTabs == <<"lan", "qr", "code", "ip">>
\* The pages with a way to the troubleshooting sheet.
Troubles == {"lan", "qr", "ip"}

FirstPage ==
  /\ active' = TutorialTabs[1] /\ page' = 1 /\ target' = 1 /\ moving' = FALSE
  /\ ended' = <<>> /\ sheet' = FALSE /\ scrolls' = 0

\* navigation.navigate
Follow(screen) ==
  /\ screen \in Links(Shown) /\ routes' = Append(routes, screen)
  /\ UNCHANGED tutorialVars
  /\ IF screen = "Help" THEN helps < MaxHelps /\ helps' = helps + 1 ELSE UNCHANGED helps
  /\ UNCHANGED <<history, exports>>

\* handleTabPress: nothing for the active tab.  Tabs stay mounted; the navigator keeps one
\* entry per tab in its history.
PressTab(tab) ==
  /\ routes = <<>> /\ tab # ActiveTab
  /\ history' = Append(SelectSeq(history, LAMBDA r : r # TabRoute[tab]), TabRoute[tab])
  /\ UNCHANGED <<routes, tutorialVars, exportVars>>

\* goBack, which unmounts the screen: the sheet is closed first, then the screen, then the tab is left.
GoBack ==
  /\ \/ /\ routes # <<>> /\ ~(Shown = "ConnectionTutorial" /\ sheet)
        /\ routes' = SubSeq(routes, 1, Len(routes) - 1) /\ UNCHANGED history
        /\ IF Shown = "ConnectionTutorial" THEN FirstPage ELSE UNCHANGED tutorialVars
     \/ /\ routes = <<>> /\ Len(history) > 1
        /\ history' = SubSeq(history, 1, Len(history) - 1) /\ UNCHANGED <<routes, tutorialVars>>
  /\ UNCHANGED exportVars

-----------------------------------------------------------------------------
(* ConnectionTutorialScreen. *)

InTutorial == Shown = "ConnectionTutorial" /\ ~sheet

\* The scroll view sets out for a page and tells when it is there, also when the way is
\* short; a touch always tells.  A scroll that is interrupted, nearest to where it came
\* from or to where it went, may tell.
ScrollTo(p, touched) ==
  \E stop \in IF moving THEN {page, target} ELSE {page} :
    /\ page' = stop /\ target' = p /\ moving' = (touched \/ moving \/ page # p)
    /\ \/ UNCHANGED ended
       \/ moving /\ ended' = Append(ended, stop)

\* selectTab, from the tabs or from the dots below the pages.
SelectTab(i) ==
  /\ InTutorial /\ scrolls < MaxScrolls /\ scrolls' = scrolls + 1
  /\ active' = TutorialTabs[i] /\ ScrollTo(i, FALSE)
  /\ UNCHANGED <<history, routes, sheet, exportVars>>

Swipe(p) ==
  /\ InTutorial /\ scrolls < MaxScrolls /\ scrolls' = scrolls + 1
  /\ p \in DOMAIN TutorialTabs /\ ScrollTo(p, TRUE)
  /\ UNCHANGED <<active, history, routes, sheet, exportVars>>

ComesToRest ==
  /\ moving /\ page' = target /\ moving' = FALSE /\ ended' = Append(ended, target)
  /\ UNCHANGED <<active, target, sheet, scrolls, history, routes, exportVars>>

\* handlePageMomentumEnd
PageMomentumEnd ==
  /\ Shown = "ConnectionTutorial" /\ ended # <<>> /\ ended' = Tail(ended)
  /\ active' = TutorialTabs[Head(ended)]
  /\ UNCHANGED <<page, target, moving, sheet, scrolls, history, routes, exportVars>>

\* The sheet is opened from a page, and closed by a touch beside it or by the way back.
Troubleshoot ==
  /\ Shown = "ConnectionTutorial" /\ sheet' = ~sheet
  /\ ~sheet => TutorialTabs[page] \in Troubles
  /\ UNCHANGED <<active, page, target, moving, ended, scrolls, history, routes, exportVars>>

-----------------------------------------------------------------------------
(* The export of the diagnostics: each screen has a flag of its own. *)

Exporting(by) == \E e \in exports : e.by = by
\* The help screen that is mounted now.
HelpId == <<"help", helps>>

\* isExportingDiagnostics of the screen is looked at; then native packs the archive.
StartExport(by) ==
  /\ ~Exporting(by) /\ exports' = exports \cup {[by |-> by, stage |-> "packing"]}
  /\ UNCHANGED <<helps, history, routes, tutorialVars>>
ExportFromSettings == Shown = "settings" /\ StartExport(<<"settings", 0>>)
ExportFromHelp == Shown = "Help" /\ StartExport(HelpId)

\* shareDiagnosticsArchive: the share sheet follows the archive.
ShareDiagnosticsArchive(e) ==
  /\ e.stage = "packing"
  /\ exports' = (exports \ {e}) \cup {[e EXCEPT !.stage = "sharing"]}
  /\ UNCHANGED <<helps, history, routes, tutorialVars>>
\* The sheet was closed, or there is no archive: an alert says why.
ExportEnds(e) ==
  /\ exports' = exports \ {e}
  /\ UNCHANGED <<helps, history, routes, tutorialVars>>

-----------------------------------------------------------------------------
Init ==
  /\ history = <<InitialTab("SyncActivity")>> /\ routes = <<>>
  /\ active = "lan" /\ page = 1 /\ target = 1 /\ moving = FALSE /\ ended = <<>>
  /\ sheet = FALSE /\ scrolls = 0
  /\ helps = 0 /\ exports = {}

Next ==
  \/ \E screen \in Links(Shown) : Follow(screen)
  \/ \E tab \in DOMAIN TabRoute : PressTab(tab)
  \/ GoBack
  \/ \E i \in DOMAIN TutorialTabs : SelectTab(i) \/ Swipe(i)
  \/ ComesToRest \/ PageMomentumEnd \/ Troubleshoot
  \/ ExportFromSettings \/ ExportFromHelp
  \/ \E e \in exports : ShareDiagnosticsArchive(e) \/ ExportEnds(e)

Spec == Init /\ [][Next]_vars

-----------------------------------------------------------------------------
TypeOK ==
  /\ \A i \in DOMAIN history : TabRoute[TabOf(history[i])] = history[i]
  /\ \A i, j \in DOMAIN history : history[i] = history[j] => i = j
  /\ {page, target} \subseteq DOMAIN TutorialTabs
  /\ \E i \in DOMAIN TutorialTabs : active = TutorialTabs[i]
  /\ scrolls \in 0..MaxScrolls /\ helps \in 0..MaxHelps

=============================================================================
