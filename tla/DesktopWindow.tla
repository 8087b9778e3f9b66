---------------------------- MODULE DesktopWindow ----------------------------
(***************************************************************************)
(* The pages of the desktop window that change something in the sidecar:   *)
(* the first screen with the connection code, the dashboard, the settings, *)
(* the devices and the access records (renderer/features, with             *)
(* settings-store.ts and management-store.ts).                             *)
(*                                                                         *)
(* Every request has its own handler.  A handler remembers the settings    *)
(* that were on the screen when its button was pressed, and may be         *)
(* answered after the page was left, after another handler's answer, or    *)
(* not at all.  Sharing, power saving and the export of diagnostics        *)
(* (modules EventBridge and MainServices) are left out.                    *)
(***************************************************************************)
EXTENDS Naturals, Sequences, FiniteSets, SequencesExt

CONSTANTS
  Devices, Codes, Roots,
  Online,     \* the devices useDashboardStore does not know as offline
  Records,    \* the sidecar's access log: [device, date]
  PerPage,    \* RECORDS_PER_PAGE
  None,       \* nothing yet
  MaxOps      \* requests the user and the events make

DesktopWindowAssumption ==
  /\ None \notin Codes \cup Roots \cup Devices /\ Online \subseteq Devices
  /\ PerPage \in Nat \ {0} /\ MaxOps \in Nat
  /\ \A r \in Records : r.device \in Devices

VARIABLES
  server,          \* the sidecar: connection code and root folder
  blocked,         \* the sidecar: blocked devices
  transfer,        \* the sidecar: a file is being received
  settings,        \* useSettingsStore.settings
  devices, devicesError, \* useManagementStore: who is blocked, None before; devicesError
  records,         \* useManagementStore.accessRecords
  currentView,            \* the setup screen or useAppStore.currentView
  saving, masked, transferActive,   \* state of the page
  target, filter,  \* devices: blockTarget, statusFilter
  search, number,  \* records: the device searched for, the page of the list
  sent, answers,   \* requests on their way to the sidecar, answers on their way back
  ops              \* bound

serverVars == <<server, blocked, transfer>>
storeVars  == <<settings, devices, devicesError, records>>
listVars   == <<filter, search, number>>
pageVars   == <<currentView, saving, masked, transferActive, target, listVars>>
windowVars == <<serverVars, storeVars, pageVars, sent, answers, ops>>

-----------------------------------------------------------------------------
(* Requests. *)

Request(kind, arg) ==
  [kind |-> kind, arg |-> arg, seen |-> settings, live |-> TRUE, got |-> None]
Ask(requests) == ops < MaxOps /\ ops' = ops + 1 /\ sent' = sent \cup requests

\* fetchSettings: a healthy sidecar, share.status.changed.
FetchSettings ==
  /\ Ask({Request("fetch", None)})
  /\ UNCHANGED <<serverVars, storeVars, pageVars, answers>>

-----------------------------------------------------------------------------
(* Pages. *)

MountRequests(p) ==
  CASE p = "dashboard" -> {Request("transfer", None)}
    [] p = "devices"   -> {Request("devices", None)}
    [] p = "records"   -> {Request("records", None), Request("devices", None)}
    [] OTHER           -> {}

\* A page is mounted with a state of its own; handlers of the page before it go on and
\* set state of a component that is gone.
Mount(p) ==
  /\ currentView' = p /\ saving' = FALSE /\ masked' = TRUE /\ transferActive' = FALSE
  /\ target' = None /\ filter' = "all" /\ search' = None /\ number' = 1
  /\ sent' = {[r EXCEPT !.live = FALSE] : r \in sent} \cup MountRequests(p)
  /\ answers' = [i \in DOMAIN answers |-> [answers[i] EXCEPT !.live = FALSE]]

SetCurrentView(p) ==
  /\ currentView # "setup" /\ p # currentView /\ ops < MaxOps /\ ops' = ops + 1
  /\ Mount(p)
  /\ UNCHANGED <<serverVars, storeVars>>

\* ConnectionCodeSetupPage, handleSubmit: the code that is saved already just enters.
SubmitShown == currentView = "setup" /\ ~saving
SubmitSaved ==
  /\ SubmitShown /\ settings.code # None
  /\ Mount("dashboard")
  /\ UNCHANGED <<serverVars, storeVars, ops>>
SubmitCode(code) ==
  /\ SubmitShown /\ code # settings.code
  /\ Ask({Request("setCode", code)}) /\ saving' = TRUE
  /\ UNCHANGED <<serverVars, storeVars, currentView, masked, transferActive, target, listVars,
                 answers>>

\* The dashboard's card of the code.
CodeCard == currentView = "dashboard"
ToggleMasked ==
  /\ CodeCard /\ masked' = ~masked
  /\ UNCHANGED <<serverVars, storeVars, currentView, saving, transferActive, target, listVars,
                 sent, answers, ops>>
Regenerate ==
  /\ CodeCard /\ ~masked
  /\ Ask({Request("regenerate", None)})
  /\ UNCHANGED <<serverVars, storeVars, pageVars, answers>>

\* handleSelectFolder up to the system's dialog.
FolderButton == currentView = "dashboard" /\ ~saving
SelectFolder ==
  /\ FolderButton /\ ~transferActive
  /\ Ask({Request("pick", None)})
  /\ UNCHANGED <<serverVars, storeVars, pageVars, answers>>

\* handleToggleCrossDeviceReceivedAccess: answered with all the settings.
CrossDeviceSwitch == currentView = "settings"
ToggleCrossDevice ==
  /\ CrossDeviceSwitch
  /\ Ask({Request("cross", None)})
  /\ UNCHANGED <<serverVars, storeVars, pageVars, answers>>

-----------------------------------------------------------------------------
(* Devices and records. *)

RowsShown == currentView = "devices" /\ ~devicesError /\ devices # None
DialogShown == target # None
StatusOf(d) ==
  IF devices # None /\ d \in devices THEN "blocked"
  ELSE IF d \in Online THEN "connected" ELSE "offline"

\* The cards above the rows: how many of each, and a filter a second click takes back.
Counted(f) == {d \in Devices : f \in {"all", StatusOf(d)}}
SelectFilter(f) ==
  /\ currentView = "devices" /\ ~DialogShown
  /\ filter' = IF filter = f THEN "all" ELSE f
  /\ UNCHANGED <<serverVars, storeVars, currentView, saving, masked, transferActive, target,
                 search, number, sent, answers, ops>>

\* A row has one button: a device is released, or blocked after a question.
Row(d) == [listed |-> RowsShown /\ d \in Counted(filter),
           button |-> IF StatusOf(d) = "blocked" THEN "unblock" ELSE "block"]
ClickBlock(d) ==
  /\ ~DialogShown /\ Row(d) = [listed |-> TRUE, button |-> "block"] /\ target' = d
  /\ UNCHANGED <<serverVars, storeVars, currentView, saving, masked, transferActive, listVars,
                 sent, answers, ops>>
CancelBlock ==
  /\ DialogShown /\ target' = None
  /\ UNCHANGED <<serverVars, storeVars, currentView, saving, masked, transferActive, listVars,
                 sent, answers, ops>>
BlockDevice ==
  /\ DialogShown /\ target' = None
  /\ Ask({Request("block", target)}) /\ devicesError' = FALSE
  /\ UNCHANGED <<serverVars, settings, devices, records, currentView, saving, masked,
                 transferActive, listVars, answers>>
UnblockDevice(d) ==
  /\ ~DialogShown /\ Row(d) = [listed |-> TRUE, button |-> "unblock"]
  /\ Ask({Request("unblock", d)}) /\ devicesError' = FALSE
  /\ UNCHANGED <<serverVars, settings, devices, records, pageVars, answers>>

\* RecordsPage groups the records of a device and a day, and shows them in pages.
Sessions == {<<r.device, r.date>> : r \in records}
Filtered == {s \in Sessions : search \in {None, s[1]}}
TotalPages ==
  IF Filtered = {} THEN 1 ELSE (Cardinality(Filtered) + PerPage - 1) \div PerPage
SafePage == IF number < TotalPages THEN number ELSE TotalPages
SessionsShown ==
  LET from == (SafePage - 1) * PerPage
  IN  IF Cardinality(Filtered) < from + PerPage THEN Cardinality(Filtered) - from ELSE PerPage
PagesShown == currentView = "records" /\ TotalPages > 1
TurnPage(n) ==
  /\ PagesShown /\ n \in 1..TotalPages /\ n # number
  /\ number' = n
  /\ UNCHANGED <<serverVars, storeVars, currentView, saving, masked, transferActive, target,
                 filter, search, sent, answers, ops>>
Search(d) ==
  /\ currentView = "records" /\ d # search /\ search' = d /\ number' = 1
  /\ UNCHANGED <<serverVars, storeVars, currentView, saving, masked, transferActive, target,
                 filter, sent, answers, ops>>

-----------------------------------------------------------------------------
(* The sidecar, and the system's dialog. *)

Answer(r, got) == /\ sent' = sent \ {r}
                  /\ answers' = Append(answers, [r EXCEPT !.got = got])
Serve(r) ==
  /\ r \in sent
  /\ \/ /\ r.kind \in {"fetch", "cross"}
        /\ Answer(r, server) /\ UNCHANGED <<server, blocked>>
     \/ /\ r.kind = "setCode" /\ server' = [server EXCEPT !.code = r.arg]
        /\ Answer(r, server') /\ UNCHANGED blocked
     \/ /\ r.kind = "regenerate"
        /\ \E code \in Codes \ {server.code} : server' = [server EXCEPT !.code = code]
        /\ Answer(r, server') /\ UNCHANGED blocked
     \/ /\ r.kind = "root" /\ ~transfer /\ server' = [server EXCEPT !.root = r.arg]
        /\ Answer(r, server') /\ UNCHANGED blocked
     \/ /\ r.kind = "pick" /\ \E root \in Roots : Answer(r, root)
        /\ UNCHANGED <<server, blocked>>
     \/ /\ r.kind = "transfer" /\ Answer(r, transfer) /\ UNCHANGED <<server, blocked>>
     \/ /\ r.kind = "devices" /\ Answer(r, blocked) /\ UNCHANGED <<server, blocked>>
     \/ /\ r.kind = "records" /\ Answer(r, Records) /\ UNCHANGED <<server, blocked>>
     \/ /\ r.kind = "block" /\ blocked' = blocked \cup {r.arg}
        /\ Answer(r, None) /\ UNCHANGED server
     \/ /\ r.kind = "unblock" /\ blocked' = blocked \ {r.arg}
        /\ Answer(r, None) /\ UNCHANGED server
  /\ UNCHANGED <<transfer, storeVars, pageVars, ops>>

\* A transfer begins or ends: transfer.active.changed, which the dashboard listens to.
TransferChanges ==
  /\ ops < MaxOps /\ ops' = ops + 1
  /\ transfer' = ~transfer
  /\ transferActive' = IF currentView = "dashboard" THEN transfer' ELSE transferActive
  /\ UNCHANGED <<server, blocked, storeVars, currentView, saving, masked, target, listVars, sent,
                 answers>>

\* A request the sidecar refuses or that does not reach it.
\* Mutant: the folder's button is enabled behind the answer, not in "finally".
RequestFailsDisabled(r) ==
  /\ r \in sent /\ sent' = sent \ {r}
  /\ saving' = (saving /\ ~(r.live /\ r.kind = "setCode"))
  /\ devicesError' = (devicesError \/ r.kind \in {"devices", "block", "unblock"})
  /\ UNCHANGED <<serverVars, settings, devices, records, currentView, masked, transferActive,
                 target, listVars, answers, ops>>
RequestFails(r) ==
  /\ r \in sent /\ sent' = sent \ {r}
  /\ saving' = (saving /\ ~(r.live /\ r.kind \in {"setCode", "root", "pick"}))
  /\ devicesError' = (devicesError \/ r.kind \in {"devices", "block", "unblock"})
  /\ UNCHANGED <<serverVars, settings, devices, records, currentView, masked, transferActive,
                 target, listVars, answers, ops>>

-----------------------------------------------------------------------------
(* Answers. *)

\* updateSettings: what the sidecar sent, or the code into what was on the screen.
SettingsAfter(r) ==
  IF r.kind \in {"fetch", "cross", "root"} THEN r.got ELSE [r.seen EXCEPT !.code = r.got.code]

Rest(i) == SubSeq(answers, 1, i - 1) \o SubSeq(answers, i + 1, Len(answers))
Taken(i) == /\ answers' = Rest(i)
            /\ UNCHANGED <<serverVars, ops>>

TakeSettings(i) ==
  LET r == answers[i]
  IN  /\ r.kind \in {"fetch", "cross", "regenerate", "root"}
      /\ settings' = SettingsAfter(r)
      /\ saving' = (saving /\ ~(r.live /\ r.kind = "root"))
      /\ Taken(i)
      /\ UNCHANGED <<devices, devicesError, records, currentView, masked, transferActive,
                     target, listVars, sent>>

\* The setup screen's answer opens the window: onComplete.
TakeCode(i) ==
  LET r == answers[i]
  IN  /\ r.kind = "setCode" /\ settings' = SettingsAfter(r)
      /\ currentView' = "dashboard" /\ saving' = FALSE /\ masked' = TRUE /\ transferActive' = FALSE
      /\ target' = None /\ filter' = "all" /\ search' = None /\ number' = 1
      /\ sent' = sent \cup MountRequests("dashboard")
      /\ Taken(i)
      /\ UNCHANGED <<devices, devicesError, records>>

\* The folder chosen in the dialog is sent if it is another one than the window showed
\* when the button was pressed.
TakePick(i) ==
  LET r == answers[i]
  IN  /\ r.kind = "pick"
      /\ IF r.got # r.seen.root
         THEN /\ saving' = (saving \/ r.live)
              /\ sent' = sent \cup {[r EXCEPT !.kind = "root", !.arg = r.got, !.got = None]}
         ELSE saving' = (saving /\ ~r.live) /\ UNCHANGED sent
      /\ Taken(i)
      /\ UNCHANGED <<storeVars, currentView, masked, transferActive, target, listVars>>

TakeTransfer(i) ==
  LET r == answers[i]
  IN  /\ r.kind = "transfer"
      /\ transferActive' = IF r.live THEN r.got ELSE transferActive
      /\ Taken(i)
      /\ UNCHANGED <<storeVars, currentView, saving, masked, target, listVars, sent>>

\* loadDevices, which blockDevice and unblockDevice call when they are answered.
TakeDevices(i) ==
  LET r == answers[i]
  IN  /\ r.kind \in {"devices", "block", "unblock"} /\ devicesError' = FALSE
      /\ IF r.kind = "devices" THEN devices' = r.got /\ UNCHANGED sent
         ELSE sent' = sent \cup {Request("devices", None)} /\ UNCHANGED devices
      /\ Taken(i)
      /\ UNCHANGED <<settings, records, pageVars>>

TakeRecords(i) ==
  LET r == answers[i]
  IN  /\ r.kind = "records" /\ records' = r.got
      /\ Taken(i)
      /\ UNCHANGED <<settings, devices, devicesError, pageVars, sent>>

Take(i) == \/ TakeSettings(i) \/ TakeCode(i) \/ TakePick(i) \/ TakeTransfer(i)
           \/ TakeDevices(i) \/ TakeRecords(i)

-----------------------------------------------------------------------------
\* The window has opened and asked for the settings.
WindowInit ==
  /\ server \in [code : Codes, root : Roots] /\ blocked \in SUBSET Devices /\ transfer = FALSE
  /\ settings = [code |-> None, root |-> None]
  /\ devices = None /\ devicesError = FALSE /\ records = {}
  /\ currentView = "setup" /\ saving = FALSE /\ masked = TRUE /\ transferActive = FALSE
  /\ target = None /\ filter = "all" /\ search = None /\ number = 1
  /\ sent = {Request("fetch", None)} /\ answers = <<>> /\ ops = 0

WindowNext ==
  \/ FetchSettings \/ SubmitSaved \/ ToggleMasked \/ Regenerate \/ SelectFolder
  \/ ToggleCrossDevice \/ CancelBlock \/ BlockDevice \/ TransferChanges
  \/ \E p \in {"dashboard", "devices", "records", "settings"} : SetCurrentView(p)
  \/ \E c \in Codes : SubmitCode(c)
  \/ \E f \in {"all", "blocked", "connected"} : SelectFilter(f)
  \/ \E d \in Devices : ClickBlock(d) \/ UnblockDevice(d)
  \/ \E d \in Devices \cup {None} : Search(d)
  \/ \E n \in 1..TotalPages : TurnPage(n)
  \/ \E r \in sent : Serve(r) \/ RequestFails(r)
  \/ \E i \in DOMAIN answers : Take(i)

WindowSpec == WindowInit /\ [][WindowNext]_windowVars

-----------------------------------------------------------------------------
\* Every variable has its type, and the page of records shown is one of the list.
WindowTypeOK ==
  /\ server \in [code : Codes, root : Roots] /\ blocked \subseteq Devices
  /\ settings \in [code : Codes \cup {None}, root : Roots \cup {None}]
  /\ devices = None \/ devices \subseteq Devices
  /\ target \in Devices \cup {None} /\ number \in Nat \ {0} /\ SafePage \in 1..TotalPages
  /\ filter \in {"all", "blocked", "connected"}
  /\ SessionsShown \in 0..PerPage /\ (SessionsShown = 0 <=> Filtered = {})
  /\ ops \in 0..MaxOps

\* The button of the folder and the one of the first code are disabled only while a
\* request of this page is under way: whatever of several handlers fails, and whichever
\* page was left and entered again meanwhile, the button comes back.
ButtonComesBack ==
  saving => \E r \in sent \cup Range(answers) : r.live /\ r.kind \in {"setCode", "root", "pick"}

=============================================================================
