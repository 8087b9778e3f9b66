--------------------------- MODULE DashboardStore ---------------------------
(***************************************************************************)
(* What the desktop window shows of each phone:                            *)
(* renderer/stores/dashboard-store.ts, fed by AppShell.tsx.                *)
(*                                                                         *)
(* Three sources disagree in time.  Snapshots are asked for (every ten     *)
(* seconds, and on some events) and arrive some time after the sidecar     *)
(* answered; events are pushed, in order, and are lost while the websocket *)
(* is down; and "offline" is shown three seconds late, by a timer that     *)
(* every event and every snapshot that says "offline" starts anew.         *)
(*                                                                         *)
(* So time is part of the model: Tick is a unit of it, and does not pass   *)
(* while the interval or a timer is due.  An answer takes any time.        *)
(***************************************************************************)
EXTENDS Naturals, Sequences, FiniteSets

CONSTANTS
  Devices,
  OfflineAfter, \* OFFLINE_STATUS_DEBOUNCE_MS, in units of time
  PollAfter,    \* the interval of AppShell
  MaxNews,    \* changes of the devices and of the runtime state, visits of pages
  MaxAsked,   \* snapshots on their way
  MaxQueued,  \* events on their way
  MaxLost     \* events pushed while no websocket was open

DashboardAssumption ==
  OfflineAfter \in Nat \ {0} /\ PollAfter \in Nat /\ OfflineAfter < PollAfter

VARIABLES
  truth,     \* the sidecar's view of each device
  busy,      \* other phones upload: upload.completed and upload.failed at any moment
  rows,      \* useDashboardStore.devices
  timers,    \* pendingOfflineStatusTimers: what is left of each
  tillPoll,  \* what is left of the interval
  asked,     \* answers of getDashboardDevices on their way
  pushed,    \* events on their way
  runtime,   \* useSidecarRuntimeStore: the sidecar is healthy
  news, lost \* how much of the bounds is used

vars == <<truth, busy, rows, timers, tillPoll, asked, pushed, runtime, news, lost>>

-----------------------------------------------------------------------------
\* currentFile, by its progress; "none" where there is no file.
Files    == {"none", "begun", "half", "full"}
Progress == [none |-> 0, begun |-> 0, half |-> 1, full |-> 2]
Row(status, file) == [status |-> status, file |-> file]
NoRow    == Row("absent", "none")
Rows     == {Row("offline", "none"), Row("connected_idle", "none")}
            \cup {Row("transferring", f) : f \in Files}

\* shouldPreserveRealtimeTransfer
Preserved(existing, snapshot) ==
  /\ existing.status = "transferring" /\ existing.file # "none"
  /\ IF snapshot.status # "transferring" THEN existing.file # "full"
     ELSE snapshot.file = "begun" /\ Progress[existing.file] > 0

\* reconcileIncomingDevices: the row that results, and what becomes of the offline
\* timer of the device.
Merged(existing, snapshot) ==
  LET keep == Preserved(existing, snapshot)
  IN  Row(IF keep THEN existing.status ELSE snapshot.status,
          IF keep /\ Progress[existing.file] > Progress[snapshot.file]
          THEN existing.file ELSE snapshot.file)
Outcome(row, timer) == [row |-> row, timer |-> timer]
\* Mutant: a snapshot does not start the timer.
ReconciledForgetting(existing, snapshot) ==
  IF existing = NoRow THEN Outcome(snapshot, "keep")
  ELSE IF snapshot.status = "offline" /\ existing.status # "offline"
  THEN Outcome(existing, "clear")
  ELSE Outcome(Merged(existing, snapshot), "clear")
Reconciled(existing, snapshot) ==
  IF existing = NoRow THEN Outcome(snapshot, "keep")
  ELSE IF snapshot.status = "offline" /\ existing.status # "offline"
  THEN Outcome(existing, "start")
  ELSE Outcome(Merged(existing, snapshot), "clear")

\* scheduleOfflineStatus and clearPendingOfflineStatus: a timer that runs starts anew.
Timers(started, kept) ==
  [d \in started \cup kept |-> IF d \in started THEN OfflineAfter ELSE timers[d]]
Schedule(d) == timers' = Timers({d}, DOMAIN timers)
Clear(d)    == timers' = Timers({}, DOMAIN timers \ {d})

\* applyDeviceStatus
WithStatus(row, status) ==
  IF row = NoRow THEN row
  ELSE Row(status, IF status = "transferring" THEN row.file ELSE "none")

-----------------------------------------------------------------------------
(* The sidecar. *)

Push(event) == /\ Len(pushed) < MaxQueued
               /\ pushed' = Append(pushed, event) /\ UNCHANGED lost
PushLost    == lost < MaxLost /\ lost' = lost + 1 /\ UNCHANGED pushed

\* A phone comes, goes, begins or ends a transfer: device.state.changed.
DeviceChanges(d) ==
  /\ news < MaxNews /\ news' = news + 1
  /\ \E r \in {Row("offline", "none"), Row("connected_idle", "none"),
               Row("transferring", "none"), Row("transferring", "begun")} :
       /\ r.status # truth[d].status
       /\ truth' = [truth EXCEPT ![d] = r]
       /\ \/ Push([type |-> "state", device |-> d, status |-> r.status, file |-> "none"])
          \/ PushLost
  /\ UNCHANGED <<busy, rows, timers, tillPoll, asked, runtime>>

\* ... or gets on with a file: upload.progress.
FileAdvances(d) ==
  /\ news < MaxNews /\ news' = news + 1
  /\ truth[d].status = "transferring" /\ truth[d].file # "full"
  /\ LET f == IF truth[d].file = "half" THEN "full" ELSE "half"
     IN  /\ truth' = [truth EXCEPT ![d].file = f]
         /\ \/ Push([type |-> "progress", device |-> d, status |-> "transferring", file |-> f])
            \/ PushLost
  /\ UNCHANGED <<busy, rows, timers, tillPoll, asked, runtime>>

\* Other phones begin or end their uploads.
OthersUpload ==
  /\ news < MaxNews /\ news' = news + 1 /\ busy' = ~busy
  /\ UNCHANGED <<truth, rows, timers, tillPoll, asked, pushed, runtime, lost>>

-----------------------------------------------------------------------------
(* The window. *)

\* fetchDashboard
Ask == runtime /\ Len(asked) < MaxAsked /\ asked' = Append(asked, truth)

\* The interval of AppShell ...
Poll ==
  /\ tillPoll = 0 /\ tillPoll' = PollAfter /\ Ask
  /\ UNCHANGED <<truth, busy, rows, timers, pushed, runtime, news, lost>>

\* ... its handlers of upload.completed and upload.failed ...
FetchOnUpload ==
  /\ busy /\ Ask
  /\ UNCHANGED <<truth, busy, rows, timers, tillPoll, pushed, runtime, news, lost>>

\* ... of a runtime state that is healthy still, and the pages that mount.
Fetch ==
  /\ news < MaxNews /\ news' = news + 1 /\ Ask
  /\ UNCHANGED <<truth, busy, rows, timers, tillPoll, pushed, runtime, lost>>

Rest(i) == SubSeq(asked, 1, i - 1) \o SubSeq(asked, i + 1, Len(asked))

Snapshot(i) ==
  /\ asked' = Rest(i)
  /\ LET done  == [d \in Devices |-> Reconciled(rows[d], asked[i][d])]
         To(t) == {d \in Devices : done[d].timer = t}
     IN  /\ rows' = [d \in Devices |-> done[d].row]
         /\ timers' = Timers(To("start"), To("keep") \cap DOMAIN timers)
  /\ UNCHANGED <<truth, busy, tillPoll, pushed, runtime, news, lost>>

\* The request failed: an error is shown and the rows stay.
SnapshotFails(i) ==
  /\ asked' = Rest(i) /\ news < MaxNews /\ news' = news + 1
  /\ UNCHANGED <<truth, busy, rows, timers, tillPoll, pushed, runtime, lost>>

UpdateDeviceStatus(d, status) ==
  IF status = "offline" THEN Schedule(d) /\ UNCHANGED rows
  ELSE Clear(d) /\ rows' = [rows EXCEPT ![d] = WithStatus(@, status)]

UpdateDeviceProgress(d, file) ==
  /\ Clear(d)
  /\ rows' = [rows EXCEPT ![d] = IF @ = NoRow THEN @ ELSE Row("transferring", file)]

\* onSidecarEvent
SidecarEvent ==
  /\ pushed # <<>> /\ pushed' = Tail(pushed)
  /\ LET e == Head(pushed)
     IN  IF e.type = "state" THEN UpdateDeviceStatus(e.device, e.status)
         ELSE UpdateDeviceProgress(e.device, e.file)
  /\ UNCHANGED <<truth, busy, tillPoll, asked, runtime, news, lost>>

\* The timer of scheduleOfflineStatus.
OfflineTimer(d) ==
  /\ d \in DOMAIN timers /\ timers[d] = 0 /\ Clear(d)
  /\ rows' = [rows EXCEPT ![d] = WithStatus(@, "offline")]
  /\ UNCHANGED <<truth, busy, tillPoll, asked, pushed, runtime, news, lost>>

\* onSidecarRuntimeState: a healthy sidecar is asked at once, and the polling effect
\* is torn down and set up with its status.
RuntimeState ==
  /\ news < MaxNews /\ news' = news + 1 /\ runtime' = ~runtime /\ tillPoll' = PollAfter
  /\ IF runtime THEN UNCHANGED asked
     ELSE Len(asked) < MaxAsked /\ asked' = Append(asked, truth)
  /\ UNCHANGED <<truth, busy, rows, timers, pushed, lost>>

Tick ==
  /\ \A d \in DOMAIN timers : timers[d] > 0
  /\ timers' = [d \in DOMAIN timers |-> timers[d] - 1]
  /\ IF runtime THEN tillPoll > 0 /\ tillPoll' = tillPoll - 1 ELSE UNCHANGED tillPoll
  /\ UNCHANGED <<truth, busy, rows, asked, pushed, runtime, news, lost>>

-----------------------------------------------------------------------------
\* The window has opened on a healthy sidecar and asked for the first time.
Init ==
  /\ truth = [d \in Devices |-> Row("connected_idle", "none")] /\ busy = FALSE
  /\ rows = [d \in Devices |-> NoRow] /\ timers = [d \in {} |-> 0] /\ tillPoll = PollAfter
  /\ asked = <<truth>> /\ pushed = <<>>
  /\ runtime = TRUE /\ news = 0 /\ lost = 0

Next ==
  \/ \E d \in Devices : DeviceChanges(d) \/ FileAdvances(d) \/ OfflineTimer(d)
  \/ OthersUpload \/ Poll \/ FetchOnUpload \/ Fetch \/ SidecarEvent \/ RuntimeState \/ Tick
  \/ \E i \in DOMAIN asked : Snapshot(i) \/ SnapshotFails(i)

\* Time passes, the interval and timers that are due are run, requests are answered
\* and events arrive.
Fairness ==
  /\ WF_vars(Tick) /\ WF_vars(Poll) /\ WF_vars(SidecarEvent)
  /\ WF_vars(\E i \in DOMAIN asked : Snapshot(i))
  /\ \A d \in Devices : WF_vars(OfflineTimer(d))

Spec == Init /\ [][Next]_vars /\ Fairness

-----------------------------------------------------------------------------
TypeOK ==
  /\ truth \in [Devices -> Rows] /\ rows \in [Devices -> Rows \cup {NoRow}]
  /\ DOMAIN timers \subseteq Devices /\ \A d \in DOMAIN timers : timers[d] \in 0..OfflineAfter
  /\ tillPoll \in 0..PollAfter /\ \A i \in DOMAIN asked : asked[i] \in [Devices -> Rows]
  /\ {busy, runtime} \subseteq BOOLEAN /\ news \in 0..MaxNews /\ lost \in 0..MaxLost

GoneForGood(d)  == <>[](truth[d].status = "offline" /\ runtime)
ShownOffline(d) == <>[](rows[d].status \in {"absent", "offline"})

\* A phone that went away for good is shown offline in the end, also when the event
\* was lost and when snapshots from before arrive after it, once the other phones are
\* through with their uploads: the answer to a poll starts the timer anew, and it runs
\* out before the polls can do so for ever.
OfflineShown == \A d \in Devices : <>[]~busy /\ GoneForGood(d) => ShownOffline(d)

=============================================================================
