---------------------------- MODULE EventBridge ----------------------------
(***************************************************************************)
(* What the Electron main process does with the sidecar's events: the      *)
(* websocket (apps/desktop/src/main/ws-bridge.ts), the blocker that keeps  *)
(* the computer awake (power-save-manager.ts, power-save-coordinator.ts,   *)
(* power-save-preferences.ts, power-save-settings-controller.ts) and their *)
(* wiring in index.ts.                                                     *)
(*                                                                         *)
(* Both hang on the states SidecarSupervisor emits.  Here any state may    *)
(* follow any other, the same one again included.  Timers, sockets and     *)
(* requests outlive the state that started them.                           *)
(***************************************************************************)
EXTENDS Naturals, Sequences, FiniteSets

CONSTANTS
  Sockets,      \* WebSocket objects
  NoSocket,
  MaxStates,    \* states emitted
  MaxChanges,   \* changes of the sidecar's transfer activity, and toggles
  MaxQueued     \* events on their way through a socket

BridgeAssumption ==
  /\ NoSocket \notin Sockets
  /\ MaxStates \in Nat /\ MaxChanges \in Nat /\ MaxQueued \in Nat

VARIABLES
  ws,           \* WsBridge.ws
  ready,        \* readyState of each socket; "none" before it is made
  wire,         \* events on their way through each socket
  reconnect,    \* reconnectTimer
  manual,       \* manualDisconnect
  healthy, generation,  \* PowerSaveCoordinator
  asked,        \* its requests: the generation each was made in and the answer
  flag,         \* PowerSaveManager.transferActive
  enabled, blocker,     \* PowerSaveManager
  stored,       \* the preference file
  active,       \* the sidecar has an active transfer
  quitting,     \* isQuitting
  changes,      \* how much of MaxChanges is used
  shown         \* the windows: the last event forwarded

socketVars == <<ws, ready, wire, reconnect, manual>>
powerVars  == <<healthy, generation, asked, flag, enabled, blocker, stored>>
bridgeVars == <<socketVars, powerVars, active, quitting, changes, shown>>

-----------------------------------------------------------------------------
(* WsBridge. *)

Live(w) == ready[w] \in {"connecting", "open"}
UnusedSockets  == {w \in Sockets : ready[w] = "none"}

\* connect().  Mutant: the flag of an earlier disconnect() stays.
ConnectStaysManual ==
  /\ UNCHANGED manual /\ reconnect' = FALSE
  /\ IF ws # NoSocket /\ Live(ws) THEN UNCHANGED <<ws, ready>>
     ELSE /\ UnusedSockets # {}
          /\ LET w == CHOOSE x \in UnusedSockets : TRUE
             IN  ws' = w /\ ready' = [ready EXCEPT ![w] = "connecting"]
Connect ==
  /\ manual' = FALSE /\ reconnect' = FALSE
  /\ IF ws # NoSocket /\ Live(ws) THEN UNCHANGED <<ws, ready>>
     ELSE /\ UnusedSockets # {}
          /\ LET w == CHOOSE x \in UnusedSockets : TRUE
             IN  ws' = w /\ ready' = [ready EXCEPT ![w] = "connecting"]

\* disconnect()
Disconnect ==
  /\ manual' = TRUE /\ reconnect' = FALSE /\ ws' = NoSocket
  /\ ready' = IF ws # NoSocket /\ Live(ws) THEN [ready EXCEPT ![ws] = "closing"] ELSE ready

SocketOpens(w) ==
  /\ ready[w] = "connecting"
  /\ ready' = [ready EXCEPT ![w] = "open"]
  /\ UNCHANGED <<ws, wire, reconnect, manual, powerVars, active, quitting, changes, shown>>

\* The server closes, refuses or is gone; the event comes later.
SocketBreaks(w) ==
  /\ Live(w)
  /\ ready' = [ready EXCEPT ![w] = "closing"]
  /\ UNCHANGED <<ws, wire, reconnect, manual, powerVars, active, quitting, changes, shown>>

\* The 'close' handler and scheduleReconnect.  A closed socket can be used again
\* in the model.
OnClose(w) ==
  /\ ready[w] = "closing"
  /\ ready' = [ready EXCEPT ![w] = "none"] /\ wire' = [wire EXCEPT ![w] = <<>>]
  /\ ws' = IF ws = w THEN NoSocket ELSE ws
  /\ reconnect' = (reconnect \/ ~manual)
  /\ UNCHANGED <<manual, powerVars, active, quitting, changes, shown>>

\* The timer of scheduleReconnect.
Reconnect ==
  /\ reconnect
  /\ IF manual THEN reconnect' = FALSE /\ UNCHANGED <<ws, ready, manual>> ELSE Connect
  /\ UNCHANGED <<wire, powerVars, active, quitting, changes, shown>>

-----------------------------------------------------------------------------
(* The power-save blocker. *)

\* syncBlocker
SyncBlocker == blocker' = enabled'

\* setTransferActive, which synchronises the blocker although it does not depend
\* on the flag.
SetTransferActive(b) == flag' = b /\ UNCHANGED enabled /\ SyncBlocker

\* handleRuntimeState and syncWsBridgeWithRuntimeState.
RuntimeState(s) ==
  /\ generation < MaxStates /\ generation' = generation + 1
  /\ healthy' = (s = "healthy")
  /\ IF s = "healthy"
     THEN /\ asked' = asked \cup {[gen |-> generation', answer |-> active]}
          /\ Connect
          /\ UNCHANGED <<flag, enabled, blocker>>
     ELSE /\ SetTransferActive(FALSE)
          /\ Disconnect
          /\ UNCHANGED asked
  /\ UNCHANGED <<wire, stored, active, quitting, changes, shown>>

\* refreshTransferActive goes on with the answer.
\* Mutant: without the generation.
RefreshLate(q) ==
  /\ q \in asked /\ asked' = asked \ {q}
  /\ SetTransferActive(q.answer)
  /\ UNCHANGED <<socketVars, healthy, generation, stored, active, quitting, changes, shown>>
Refresh(q) ==
  /\ q \in asked /\ asked' = asked \ {q}
  /\ IF healthy /\ q.gen = generation THEN SetTransferActive(q.answer)
     ELSE UNCHANGED <<flag, enabled, blocker>>
  /\ UNCHANGED <<socketVars, healthy, generation, stored, active, quitting, changes, shown>>

\* ... or the request failed, which is logged.
RefreshFails(q) ==
  /\ q \in asked /\ asked' = asked \ {q}
  /\ UNCHANGED <<socketVars, healthy, generation, flag, enabled, blocker, stored, active,
                 quitting, changes, shown>>

\* The sidecar broadcasts transfer.active.changed to the sockets it knows.
ActivityChanges ==
  /\ changes < MaxChanges /\ changes' = changes + 1
  /\ active' = ~active
  /\ \A w \in Sockets : ready[w] = "open" => Len(wire[w]) < MaxQueued
  /\ wire' = [w \in Sockets |-> IF ready[w] = "open" THEN Append(wire[w], active') ELSE wire[w]]
  /\ UNCHANGED <<ws, ready, reconnect, manual, powerVars, quitting, shown>>

\* The 'message' handler: the coordinator, then the windows.
OnMessage(w) ==
  /\ wire[w] # <<>> /\ wire' = [wire EXCEPT ![w] = Tail(@)]
  /\ IF ws = w THEN SetTransferActive(Head(wire[w])) /\ shown' = Head(wire[w])
     ELSE UNCHANGED <<flag, enabled, blocker, shown>>
  /\ UNCHANGED <<ws, ready, reconnect, manual, healthy, generation, asked, stored, active,
                 quitting, changes>>

\* The setting's switch: write the file, then tell the manager.  The write may
\* throw, and then nothing has changed.
Toggle ==
  /\ changes < MaxChanges /\ changes' = changes + 1
  /\ \/ stored' = ~enabled /\ enabled' = ~enabled /\ SyncBlocker
     \/ UNCHANGED <<stored, enabled, blocker>>
  /\ UNCHANGED <<socketVars, healthy, generation, asked, flag, active, quitting, shown>>

\* before-quit, up to sidecar.stop(), whose states follow.
BeforeQuit ==
  /\ ~quitting /\ quitting' = TRUE
  /\ blocker' = FALSE
  /\ Disconnect
  /\ UNCHANGED <<wire, healthy, generation, asked, flag, enabled, stored, active, changes, shown>>

-----------------------------------------------------------------------------
\* The preference is read when the application starts, and is TRUE without a file.
BridgeInit ==
  /\ ws = NoSocket /\ ready = [w \in Sockets |-> "none"] /\ wire = [w \in Sockets |-> <<>>]
  /\ reconnect = FALSE /\ manual = FALSE
  /\ healthy = FALSE /\ generation = 0 /\ asked = {} /\ flag = FALSE
  /\ stored \in BOOLEAN /\ enabled = stored /\ blocker = stored
  /\ active = FALSE /\ quitting = FALSE /\ changes = 0 /\ shown = FALSE

BridgeNext ==
  \/ \E w \in Sockets : SocketOpens(w) \/ SocketBreaks(w) \/ OnClose(w) \/ OnMessage(w)
  \/ Reconnect \/ ActivityChanges \/ Toggle \/ BeforeQuit
  \/ \E s \in {"starting", "healthy", "failed", "stopped"} : RuntimeState(s)
  \/ \E q \in asked : Refresh(q) \/ RefreshFails(q)

BridgeSpec == BridgeInit /\ [][BridgeNext]_bridgeVars

-----------------------------------------------------------------------------
BridgeTypeOK ==
  /\ ws \in Sockets \cup {NoSocket}
  /\ ready \in [Sockets -> {"none", "connecting", "open", "closing"}]
  /\ wire \in [Sockets -> Seq(BOOLEAN)]
  /\ reconnect \in BOOLEAN /\ manual \in BOOLEAN
  /\ healthy \in BOOLEAN /\ generation \in 0..MaxStates
  /\ asked \subseteq [gen : 0..MaxStates, answer : BOOLEAN]
  /\ flag \in BOOLEAN /\ enabled \in BOOLEAN /\ blocker \in BOOLEAN /\ stored \in BOOLEAN
  /\ active \in BOOLEAN /\ quitting \in BOOLEAN /\ changes \in 0..MaxChanges
  /\ shown \in BOOLEAN

\* Events keep coming, and once each: while the sidecar is healthy there is a
\* socket, whose end would be noticed, or a timer that will make one; and at most
\* one socket is connected, or the windows would get every event twice.  This is
\* where the end of an old socket must not be taken for the end of the new one, nor
\* the other way round (the 'close' handler runs long after disconnect() and
\* connect()).
StreamKept ==
  /\ healthy /\ ~quitting => ws # NoSocket \/ reconnect
  /\ \A v, w \in Sockets : Live(v) /\ Live(w) => v = w

\* No transfer counts as active while the sidecar is not healthy, however late
\* its answers and events come.
ActiveOnlyWhileHealthy == flag => healthy

=============================================================================
