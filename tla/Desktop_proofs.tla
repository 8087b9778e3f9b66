---------------------------- MODULE Desktop_proofs ----------------------------
(***************************************************************************)
(* Theorems about the desktop application: EventBridge, MainServices,      *)
(* ReceivedLibrary and DesktopShell, a section each, for any number of     *)
(* sockets, states, phones, files, windows, requests and answers.          *)
(***************************************************************************)
EXTENDS EventBridge, MainServices, ReceivedLibrary, DesktopShell, SequenceTheorems,
        TLAPS

-----------------------------------------------------------------------------
(***************************************************************************)
(* EventBridge: type correctness, StreamKept and ActiveOnlyWhileHealthy.   *)
(*                                                                         *)
(* None of them is inductive.  That there is a stream needs that a healthy *)
(* sidecar has undone every disconnect(): otherwise the end of a socket    *)
(* would set no timer.  That there is one only needs that the connected    *)
(* socket is the one WsBridge knows.  ActiveOnlyWhileHealthy needs that a  *)
(* sidecar that is not healthy has no socket, and that no timer makes one. *)
(***************************************************************************)

(* The inductive invariant. *)

\* While the sidecar is healthy the last disconnect() is undone.
KeptInv == healthy /\ ~quitting => ~manual /\ (ws # NoSocket \/ reconnect)

\* While it is not there is no socket, and none is coming: either disconnect()
\* was called, or nothing has happened yet.
QuietInv ==
  ~healthy => /\ ws = NoSocket
              /\ manual \/ (~reconnect /\ \A w \in Sockets : ready[w] = "none")

\* WsBridge knows the socket that is connected.
LiveInv == \A w \in Sockets : Live(w) => w = ws

BridgeInv == BridgeTypeOK /\ KeptInv /\ QuietInv /\ LiveInv /\ ActiveOnlyWhileHealthy

-----------------------------------------------------------------------------
(* connect() and disconnect(). *)

SocketTypes ==
  /\ ws \in Sockets \cup {NoSocket}
  /\ ready \in [Sockets -> {"none", "connecting", "open", "closing"}]
  /\ reconnect \in BOOLEAN /\ manual \in BOOLEAN

\* connect() leaves one socket, the one it made or the one there was.
LEMMA ConnectFacts ==
  ASSUME BridgeAssumption, SocketTypes, LiveInv, Connect
  PROVE  SocketTypes' /\ LiveInv' /\ ws' \in Sockets /\ ws' # NoSocket /\ ~manual'
<1>1. manual' = FALSE /\ reconnect' = FALSE
  BY DEF Connect
<1>2. NoSocket \notin Sockets
  BY DEF BridgeAssumption
<1>3. CASE ws # NoSocket /\ Live(ws)
  <2>1. ws' = ws /\ ready' = ready
    BY <1>3 DEF Connect
  <2> QED
    BY <1>1, <1>2, <1>3, <2>1 DEF SocketTypes, LiveInv, Live
<1>4. CASE ~(ws # NoSocket /\ Live(ws))
  <2>1. PICK w \in UnusedSockets : ws' = w /\ ready' = [ready EXCEPT ![w] = "connecting"]
    BY <1>4 DEF Connect
  <2>2. w \in Sockets
    BY <2>1 DEF UnusedSockets
  <2>3. \A v \in Sockets : ~Live(v)
    BY <1>2, <1>4 DEF LiveInv
  <2>4. \A v \in Sockets : v # w => ready'[v] = ready[v]
    BY <2>1 DEF SocketTypes
  <2>5. ready' \in [Sockets -> {"none", "connecting", "open", "closing"}]
    BY <2>1 DEF SocketTypes
  <2>6. SocketTypes'
    BY <1>1, <2>1, <2>2, <2>5 DEF SocketTypes
  <2> QED
    BY <1>1, <1>2, <2>1, <2>2, <2>3, <2>4, <2>6 DEF LiveInv, Live
<1> QED
  BY <1>3, <1>4

\* disconnect() leaves none.
LEMMA DisconnectFacts ==
  ASSUME BridgeAssumption, SocketTypes, LiveInv, Disconnect
  PROVE  SocketTypes' /\ LiveInv' /\ ws' = NoSocket /\ manual'
<1>1. manual' = TRUE /\ reconnect' = FALSE /\ ws' = NoSocket
  BY DEF Disconnect
<1>2. CASE ws # NoSocket /\ Live(ws)
  <2>1. ready' = [ready EXCEPT ![ws] = "closing"] /\ ws \in Sockets
    BY <1>2 DEF Disconnect, SocketTypes
  <2>2. \A v \in Sockets : ready'[v] = IF v = ws THEN "closing" ELSE ready[v]
    BY <2>1 DEF SocketTypes
  <2>3. \A v \in Sockets : ready'[v] \notin {"connecting", "open"}
    BY <2>2 DEF LiveInv, Live
  <2>4. SocketTypes'
    BY <1>1, <2>1 DEF SocketTypes
  <2> QED
    BY <1>1, <2>3, <2>4 DEF LiveInv, Live
<1>3. CASE ~(ws # NoSocket /\ Live(ws))
  <2>1. ready' = ready
    BY <1>3 DEF Disconnect
  <2>2. \A v \in Sockets : ~Live(v)
    BY <1>3 DEF LiveInv, BridgeAssumption
  <2> QED
    BY <1>1, <2>1, <2>2 DEF SocketTypes, LiveInv, Live
<1> QED
  BY <1>2, <1>3

\* A step that touches neither the sockets nor the coordinator.
LEMMA Elsewhere ==
  ASSUME BridgeInv, UNCHANGED <<ws, ready, reconnect, manual, healthy>>,
         quitting => quitting', flag' => flag
  PROVE  KeptInv' /\ QuietInv' /\ LiveInv' /\ ActiveOnlyWhileHealthy'
BY DEF BridgeInv, KeptInv, QuietInv, LiveInv, Live, ActiveOnlyWhileHealthy

-----------------------------------------------------------------------------
(* The steps. *)

\* Booleans and counters of a step that leaves them alone.
PowerTypes ==
  /\ healthy \in BOOLEAN /\ generation \in 0..MaxStates
  /\ asked \subseteq [gen : 0..MaxStates, answer : BOOLEAN]
  /\ flag \in BOOLEAN /\ enabled \in BOOLEAN /\ blocker \in BOOLEAN /\ stored \in BOOLEAN

RestTypes ==
  /\ wire \in [Sockets -> Seq(BOOLEAN)]
  /\ active \in BOOLEAN /\ quitting \in BOOLEAN /\ changes \in 0..MaxChanges
  /\ shown \in BOOLEAN

LEMMA Types == BridgeTypeOK <=> SocketTypes /\ PowerTypes /\ RestTypes
BY Zenon DEF BridgeTypeOK, SocketTypes, PowerTypes, RestTypes

LEMMA PowerKept == PowerTypes /\ UNCHANGED powerVars => PowerTypes'
BY Zenon DEF PowerTypes, powerVars

LEMMA RestKept ==
  RestTypes /\ UNCHANGED <<wire, active, quitting, changes, shown>> => RestTypes'
BY Zenon DEF RestTypes

LEMMA SetActiveTypes ==
  ASSUME PowerTypes, NEW b \in BOOLEAN, SetTransferActive(b),
         healthy' \in BOOLEAN, generation' \in 0..MaxStates,
         asked' \subseteq [gen : 0..MaxStates, answer : BOOLEAN], stored' = stored
  PROVE  PowerTypes' /\ flag' = b
<1>1. flag' = b /\ enabled' = enabled /\ blocker' = enabled
  BY Zenon DEF SetTransferActive, SyncBlocker
<1> QED
  BY <1>1, Zenon DEF PowerTypes

LEMMA HeadTail ==
  ASSUME NEW S, NEW s \in Seq(S), s # <<>>
  PROVE  Head(s) \in S /\ Tail(s) \in Seq(S)
OBVIOUS

\* The life of a socket.
LEMMA SocketStep ==
  ASSUME BridgeAssumption, BridgeInv, NEW w \in Sockets,
         SocketOpens(w) \/ SocketBreaks(w) \/ OnClose(w)
  PROVE  BridgeInv'
<1>1. SocketTypes /\ PowerTypes /\ RestTypes /\ NoSocket \notin Sockets
  BY Types DEF BridgeInv, BridgeAssumption
<1>2. CASE SocketOpens(w) \/ SocketBreaks(w)
  <2>1. PICK r \in {"open", "closing"} : ready' = [ready EXCEPT ![w] = r]
    BY <1>2 DEF SocketOpens, SocketBreaks
  <2>2. /\ UNCHANGED <<ws, reconnect, manual, powerVars, wire, active, quitting, changes, shown>>
        /\ Live(w)
    BY <1>2 DEF SocketOpens, SocketBreaks, Live
  <2>3. ready' \in [Sockets -> {"none", "connecting", "open", "closing"}]
        /\ \A v \in Sockets : v # w => ready'[v] = ready[v]
    BY <1>1, <2>1 DEF SocketTypes
  <2>4. SocketTypes'
    BY <1>1, <2>2, <2>3, Zenon DEF SocketTypes
  <2>5. BridgeTypeOK'
    <3>1. PowerTypes' /\ RestTypes'
      BY <1>1, <2>2, PowerKept, RestKept
    <3>2. (BridgeTypeOK <=> SocketTypes /\ PowerTypes /\ RestTypes)'
      BY Types, PTL
    <3> QED
      BY <2>4, <3>1, <3>2
  <2>6. w = ws /\ healthy /\ healthy' = healthy /\ flag' = flag
    BY <1>1, <2>2 DEF BridgeInv, LiveInv, QuietInv, powerVars
  <2> QED
    BY <2>2, <2>3, <2>5, <2>6
       DEF BridgeInv, KeptInv, QuietInv, LiveInv, Live, ActiveOnlyWhileHealthy
<1>3. CASE OnClose(w)
  <2>1. /\ ready[w] = "closing" /\ ready' = [ready EXCEPT ![w] = "none"]
        /\ wire' = [wire EXCEPT ![w] = <<>>]
        /\ ws' = IF ws = w THEN NoSocket ELSE ws
        /\ reconnect' = (reconnect \/ ~manual)
        /\ UNCHANGED <<manual, powerVars, active, quitting, changes, shown>>
    BY <1>3 DEF OnClose
  <2>2. \A v \in Sockets : ready'[v] = IF v = w THEN "none" ELSE ready[v]
    BY <1>1, <2>1 DEF SocketTypes
  <2>3. SocketTypes'
    <3>1. ready' \in [Sockets -> {"none", "connecting", "open", "closing"}]
      BY <1>1, <2>1 DEF SocketTypes
    <3>2. ws' \in Sockets \cup {NoSocket}
      BY <1>1, <2>1 DEF SocketTypes
    <3>3. reconnect' \in BOOLEAN /\ manual' \in BOOLEAN
      BY <1>1, <2>1, Zenon DEF SocketTypes
    <3> QED
      BY <3>1, <3>2, <3>3 DEF SocketTypes
  <2>4. RestTypes'
    <3>1. wire' \in [Sockets -> Seq(BOOLEAN)]
      BY <1>1, <2>1 DEF RestTypes
    <3> QED
      BY <1>1, <2>1, <3>1, Zenon DEF RestTypes
  <2>5. BridgeTypeOK'
    <3>1. (BridgeTypeOK <=> SocketTypes /\ PowerTypes /\ RestTypes)'
      BY Types, PTL
    <3> QED
      BY <1>1, <2>1, <2>3, <2>4, <3>1, PowerKept
  <2>6. healthy' = healthy /\ flag' = flag
    BY <2>1 DEF powerVars
  <2>7. KeptInv'
    BY <1>1, <2>1, <2>6 DEF BridgeInv, KeptInv
  <2>8. QuietInv'
    BY <2>1, <2>2, <2>6 DEF BridgeInv, QuietInv
  <2>9. LiveInv'
    BY <2>1, <2>2 DEF BridgeInv, LiveInv, Live
  <2>10. ActiveOnlyWhileHealthy'
    BY <2>6 DEF BridgeInv, ActiveOnlyWhileHealthy
  <2> QED
    BY <2>5, <2>7, <2>8, <2>9, <2>10 DEF BridgeInv
<1> QED
  BY <1>2, <1>3

\* The timer connects again, unless disconnect() came first.
LEMMA ReconnectStep == BridgeAssumption /\ BridgeInv /\ Reconnect => BridgeInv'
<1> SUFFICES ASSUME BridgeAssumption, BridgeInv, Reconnect PROVE BridgeInv'
  OBVIOUS
<1>1. SocketTypes /\ PowerTypes /\ RestTypes /\ LiveInv
  BY Types DEF BridgeInv
<1>2. reconnect /\ UNCHANGED <<wire, powerVars, active, quitting, changes, shown>>
  BY DEF Reconnect
<1>3. PowerTypes' /\ RestTypes' /\ healthy' = healthy /\ flag' = flag
  BY <1>1, <1>2, PowerKept, RestKept DEF powerVars
<1>4. (BridgeTypeOK <=> SocketTypes /\ PowerTypes /\ RestTypes)'
  BY Types, PTL
<1>5. CASE manual
  <2>1. reconnect' = FALSE /\ UNCHANGED <<ws, ready, manual>>
    BY <1>5 DEF Reconnect
  <2>2. SocketTypes'
    BY <1>1, <2>1, Zenon DEF SocketTypes
  <2> QED
    BY <1>2, <1>3, <1>4, <1>5, <2>1, <2>2
       DEF BridgeInv, KeptInv, QuietInv, LiveInv, Live, ActiveOnlyWhileHealthy
<1>6. CASE ~manual
  <2>1. healthy
    BY <1>2, <1>6 DEF BridgeInv, QuietInv
  <2>2. SocketTypes' /\ LiveInv' /\ ws' # NoSocket /\ ~manual'
    BY <1>1, <1>6, ConnectFacts DEF Reconnect
  <2> QED
    BY <1>3, <1>4, <2>1, <2>2 DEF BridgeInv, KeptInv, QuietInv, ActiveOnlyWhileHealthy
<1> QED
  BY <1>5, <1>6

\* A state of the supervisor connects or disconnects.
LEMMA RuntimeStep ==
  ASSUME BridgeAssumption, BridgeInv, NEW s, RuntimeState(s)
  PROVE  BridgeInv'
<1>1. SocketTypes /\ PowerTypes /\ RestTypes /\ LiveInv
  BY Types DEF BridgeInv
<1>2. /\ generation' = generation + 1 /\ generation < MaxStates
      /\ healthy' = (s = "healthy")
      /\ UNCHANGED <<wire, stored, active, quitting, changes, shown>>
  BY DEF RuntimeState
<1>3. RestTypes' /\ generation' \in 0..MaxStates
  BY <1>1, <1>2, RestKept DEF PowerTypes, BridgeAssumption
<1>4. (BridgeTypeOK <=> SocketTypes /\ PowerTypes /\ RestTypes)'
  BY Types, PTL
<1>5. healthy' \in BOOLEAN
  BY <1>2, Zenon
<1>6. CASE s = "healthy"
  <2>1. /\ asked' = asked \cup {[gen |-> generation', answer |-> active]} /\ Connect
        /\ UNCHANGED <<flag, enabled, blocker>> /\ healthy'
    BY <1>2, <1>6 DEF RuntimeState
  <2>2. SocketTypes' /\ LiveInv' /\ ws' # NoSocket /\ ~manual'
    BY <1>1, <2>1, ConnectFacts
  <2>3. asked' \subseteq [gen : 0..MaxStates, answer : BOOLEAN]
    BY <1>1, <1>3, <2>1 DEF PowerTypes, RestTypes
  <2>4. PowerTypes'
    BY <1>1, <1>2, <1>3, <1>5, <2>1, <2>3, Zenon DEF PowerTypes
  <2> QED
    BY <1>3, <1>4, <2>1, <2>2, <2>4 DEF BridgeInv, KeptInv, QuietInv, ActiveOnlyWhileHealthy
<1>7. CASE s # "healthy"
  <2>1. SetTransferActive(FALSE) /\ Disconnect /\ UNCHANGED asked /\ ~healthy'
    BY <1>2, <1>7 DEF RuntimeState
  <2>2. SocketTypes' /\ LiveInv' /\ ws' = NoSocket /\ manual'
    BY <1>1, <2>1, DisconnectFacts
  <2>3. PowerTypes' /\ flag' = FALSE
    <3>1. asked' \subseteq [gen : 0..MaxStates, answer : BOOLEAN]
      BY <1>1, <2>1 DEF PowerTypes
    <3> QED
      BY <1>1, <1>2, <1>3, <1>5, <2>1, <3>1, SetActiveTypes
  <2> QED
    BY <1>3, <1>4, <2>1, <2>2, <2>3 DEF BridgeInv, KeptInv, QuietInv, ActiveOnlyWhileHealthy
<1> QED
  BY <1>6, <1>7

\* Only an answer to the current state's request counts.
LEMMA RefreshStep ==
  ASSUME BridgeAssumption, BridgeInv, NEW q \in asked, Refresh(q) \/ RefreshFails(q)
  PROVE  BridgeInv'
<1>1. SocketTypes /\ PowerTypes /\ RestTypes
  BY Types DEF BridgeInv
<1>2. /\ asked' = asked \ {q}
      /\ UNCHANGED <<socketVars, healthy, generation, stored, active, quitting, changes, shown>>
  BY DEF Refresh, RefreshFails
<1>3. q.answer \in BOOLEAN /\ asked' \subseteq [gen : 0..MaxStates, answer : BOOLEAN]
  BY <1>1, <1>2 DEF PowerTypes
<1>4. SocketTypes' /\ RestTypes'
  BY <1>1, <1>2, Zenon DEF SocketTypes, RestTypes, socketVars
<1>5. (BridgeTypeOK <=> SocketTypes /\ PowerTypes /\ RestTypes)'
  BY Types, PTL
<1>6. CASE healthy /\ SetTransferActive(q.answer)
  <2>1. PowerTypes'
    BY <1>1, <1>2, <1>3, <1>6, SetActiveTypes DEF PowerTypes
  <2> QED
    BY <1>2, <1>4, <1>5, <1>6, <2>1
       DEF BridgeInv, KeptInv, QuietInv, LiveInv, Live, ActiveOnlyWhileHealthy, socketVars
<1>7. CASE UNCHANGED <<flag, enabled, blocker>>
  <2>1. PowerTypes'
    BY <1>1, <1>2, <1>3, <1>7, Zenon DEF PowerTypes
  <2> QED
    BY <1>2, <1>4, <1>5, <1>7, <2>1, Elsewhere DEF BridgeInv, socketVars
<1> QED
  BY <1>6, <1>7 DEF Refresh, RefreshFails

\* An event counts when it comes through the socket WsBridge knows.
LEMMA MessageStep ==
  ASSUME BridgeAssumption, BridgeInv, NEW w \in Sockets, OnMessage(w)
  PROVE  BridgeInv'
<1>1. SocketTypes /\ PowerTypes /\ RestTypes /\ NoSocket \notin Sockets
  BY Types DEF BridgeInv, BridgeAssumption
<1>2. /\ wire[w] # <<>> /\ wire' = [wire EXCEPT ![w] = Tail(wire[w])]
      /\ UNCHANGED <<ws, ready, reconnect, manual, healthy, generation, asked, stored, active,
                     quitting, changes>>
  BY DEF OnMessage
<1>3. wire[w] \in Seq(BOOLEAN)
  BY <1>1 DEF RestTypes
<1>4. Head(wire[w]) \in BOOLEAN /\ Tail(wire[w]) \in Seq(BOOLEAN)
  BY <1>2, <1>3, HeadTail
<1>5. wire' \in [Sockets -> Seq(BOOLEAN)]
  BY <1>1, <1>2, <1>4 DEF RestTypes
<1>6. SocketTypes'
  BY <1>1, <1>2, Zenon DEF SocketTypes
<1>7. (BridgeTypeOK <=> SocketTypes /\ PowerTypes /\ RestTypes)'
  BY Types, PTL
<1>8. CASE ws = w
  <2>1. SetTransferActive(Head(wire[w])) /\ shown' = Head(wire[w])
    BY <1>8 DEF OnMessage
  <2>2. PowerTypes'
    BY <1>1, <1>2, <1>4, <2>1, SetActiveTypes DEF PowerTypes
  <2>3. RestTypes'
    BY <1>1, <1>2, <1>4, <1>5, <2>1, Zenon DEF RestTypes
  <2>4. healthy
    BY <1>1, <1>8 DEF BridgeInv, QuietInv
  <2> QED
    BY <1>2, <1>6, <1>7, <2>2, <2>3, <2>4
       DEF BridgeInv, KeptInv, QuietInv, LiveInv, Live, ActiveOnlyWhileHealthy
<1>9. CASE ws # w
  <2>1. UNCHANGED <<flag, enabled, blocker, shown>>
    BY <1>9 DEF OnMessage
  <2>2. PowerTypes' /\ RestTypes'
    BY <1>1, <1>2, <1>5, <2>1, Zenon DEF PowerTypes, RestTypes
  <2> QED
    BY <1>2, <1>6, <1>7, <2>1, <2>2, Elsewhere DEF BridgeInv
<1> QED
  BY <1>8, <1>9

LEMMA ActivityStep == BridgeAssumption /\ BridgeInv /\ ActivityChanges => BridgeInv'
<1> SUFFICES ASSUME BridgeAssumption, BridgeInv, ActivityChanges PROVE BridgeInv'
  OBVIOUS
<1>1. SocketTypes /\ PowerTypes /\ RestTypes
  BY Types DEF BridgeInv
<1>2. /\ active' = ~active /\ changes' = changes + 1 /\ changes < MaxChanges
      /\ wire' = [w \in Sockets |-> IF ready[w] = "open" THEN Append(wire[w], active')
                                    ELSE wire[w]]
      /\ UNCHANGED <<ws, ready, reconnect, manual, powerVars, quitting, shown>>
  BY DEF ActivityChanges
<1>3. active' \in BOOLEAN
  BY <1>2, Zenon
<1>4. \A w \in Sockets : wire[w] \in Seq(BOOLEAN) /\ Append(wire[w], active') \in Seq(BOOLEAN)
  BY <1>1, <1>3 DEF RestTypes
<1>5. wire' \in [Sockets -> Seq(BOOLEAN)]
  BY <1>2, <1>4
<1>6. changes' \in 0..MaxChanges
  BY <1>1, <1>2 DEF RestTypes, BridgeAssumption
<1>7. SocketTypes' /\ RestTypes'
  BY <1>1, <1>2, <1>3, <1>5, <1>6, Zenon DEF SocketTypes, RestTypes
<1>8. PowerTypes' /\ healthy' = healthy /\ flag' = flag
  BY <1>1, <1>2, PowerKept DEF powerVars
<1>9. (BridgeTypeOK <=> SocketTypes /\ PowerTypes /\ RestTypes)'
  BY Types, PTL
<1> QED
  BY <1>2, <1>7, <1>8, <1>9, Elsewhere DEF BridgeInv

LEMMA ToggleStep == BridgeAssumption /\ BridgeInv /\ Toggle => BridgeInv'
<1> SUFFICES ASSUME BridgeAssumption, BridgeInv, Toggle PROVE BridgeInv'
  OBVIOUS
<1>1. SocketTypes /\ PowerTypes /\ RestTypes
  BY Types DEF BridgeInv
<1>2. /\ changes' = changes + 1 /\ changes < MaxChanges
      /\ UNCHANGED <<socketVars, healthy, generation, asked, flag, active, quitting, shown>>
  BY DEF Toggle
<1>3. stored' \in BOOLEAN /\ enabled' \in BOOLEAN /\ blocker' \in BOOLEAN
  <2>1. CASE stored' = ~enabled /\ enabled' = ~enabled /\ SyncBlocker
    BY <2>1, Zenon DEF SyncBlocker
  <2>2. CASE UNCHANGED <<stored, enabled, blocker>>
    BY <1>1, <2>2, Zenon DEF PowerTypes
  <2> QED
    BY <2>1, <2>2 DEF Toggle
<1>4. changes' \in 0..MaxChanges
  BY <1>1, <1>2 DEF RestTypes, BridgeAssumption
<1>5. SocketTypes' /\ PowerTypes' /\ RestTypes'
  BY <1>1, <1>2, <1>3, <1>4, Zenon DEF SocketTypes, PowerTypes, RestTypes, socketVars
<1>6. (BridgeTypeOK <=> SocketTypes /\ PowerTypes /\ RestTypes)'
  BY Types, PTL
<1> QED
  BY <1>2, <1>5, <1>6, Elsewhere DEF BridgeInv, socketVars

LEMMA QuitStep == BridgeAssumption /\ BridgeInv /\ BeforeQuit => BridgeInv'
<1> SUFFICES ASSUME BridgeAssumption, BridgeInv, BeforeQuit PROVE BridgeInv'
  OBVIOUS
<1>1. SocketTypes /\ PowerTypes /\ RestTypes /\ LiveInv
  BY Types DEF BridgeInv
<1>2. /\ quitting' = TRUE /\ blocker' = FALSE /\ Disconnect
      /\ UNCHANGED <<wire, healthy, generation, asked, flag, enabled, stored, active, changes,
                     shown>>
  BY DEF BeforeQuit
<1>3. SocketTypes' /\ LiveInv' /\ ws' = NoSocket /\ manual'
  BY <1>1, <1>2, DisconnectFacts
<1>4. PowerTypes' /\ RestTypes'
  BY <1>1, <1>2, Zenon DEF PowerTypes, RestTypes
<1>5. (BridgeTypeOK <=> SocketTypes /\ PowerTypes /\ RestTypes)'
  BY Types, PTL
<1> QED
  BY <1>2, <1>3, <1>4, <1>5 DEF BridgeInv, KeptInv, QuietInv, ActiveOnlyWhileHealthy

-----------------------------------------------------------------------------
(* The theorems. *)

LEMMA BridgeStarts == BridgeAssumption /\ BridgeInit => BridgeInv
<1> SUFFICES ASSUME BridgeAssumption, BridgeInit PROVE BridgeInv
  OBVIOUS
<1>1. SocketTypes
  <2>1. reconnect \in BOOLEAN /\ manual \in BOOLEAN
    BY Zenon DEF BridgeInit
  <2> QED
    BY <2>1 DEF BridgeInit, SocketTypes
<1>2. PowerTypes
  <2>1. healthy \in BOOLEAN /\ flag \in BOOLEAN /\ enabled \in BOOLEAN /\ blocker \in BOOLEAN
        /\ stored \in BOOLEAN
    BY Zenon DEF BridgeInit
  <2>2. generation \in 0..MaxStates /\ asked \subseteq [gen : 0..MaxStates, answer : BOOLEAN]
    BY DEF BridgeInit, BridgeAssumption
  <2> QED
    BY <2>1, <2>2 DEF PowerTypes
<1>3. RestTypes
  <2>1. active \in BOOLEAN /\ quitting \in BOOLEAN /\ shown \in BOOLEAN
    BY Zenon DEF BridgeInit
  <2>2. changes \in 0..MaxChanges /\ wire \in [Sockets -> Seq(BOOLEAN)]
    BY DEF BridgeInit, BridgeAssumption
  <2> QED
    BY <2>1, <2>2 DEF RestTypes
<1>4. KeptInv /\ QuietInv /\ LiveInv /\ ActiveOnlyWhileHealthy
  BY DEF BridgeInit, KeptInv, QuietInv, LiveInv, Live, ActiveOnlyWhileHealthy
<1> QED
  BY <1>1, <1>2, <1>3, <1>4, Types DEF BridgeInv

LEMMA BridgeStep == BridgeAssumption /\ BridgeInv /\ [BridgeNext]_bridgeVars => BridgeInv'
<1> SUFFICES ASSUME BridgeAssumption, BridgeInv, [BridgeNext]_bridgeVars PROVE BridgeInv'
  OBVIOUS
<1>1. CASE UNCHANGED bridgeVars
  <2>1. BridgeTypeOK'
    BY <1>1, Zenon DEF BridgeInv, BridgeTypeOK, bridgeVars, socketVars, powerVars
  <2> QED
    BY <1>1, <2>1, Elsewhere DEF BridgeInv, bridgeVars, socketVars, powerVars
<1> QED
  BY <1>1, SocketStep, MessageStep, ReconnectStep, ActivityStep, ToggleStep, QuitStep,
     RuntimeStep, RefreshStep DEF BridgeNext

\* Every variable keeps its shape.
THEOREM BridgeTypeCorrect == ASSUME BridgeAssumption PROVE BridgeSpec => []BridgeTypeOK
<1>1. BridgeInv => BridgeTypeOK
  BY DEF BridgeInv
<1> QED
  BY <1>1, BridgeStarts, BridgeStep, PTL DEF BridgeSpec

\* As long as the sidecar is healthy and the application runs, ws-bridge.ts has
\* a socket or a timer that will make one, however late the 'close' events of
\* earlier sockets come; and never two sockets, which would show the windows every
\* event twice.
THEOREM StreamIsKept == ASSUME BridgeAssumption PROVE BridgeSpec => []StreamKept
<1>1. BridgeInv => StreamKept
  BY DEF BridgeInv, KeptInv, LiveInv, StreamKept
<1> QED
  BY <1>1, BridgeStarts, BridgeStep, PTL DEF BridgeSpec

\* No late answer and no late event makes a transfer active while the sidecar
\* is down.
THEOREM NothingActiveWhileDown ==
  ASSUME BridgeAssumption PROVE BridgeSpec => []ActiveOnlyWhileHealthy
<1>1. BridgeInv => ActiveOnlyWhileHealthy
  BY DEF BridgeInv
<1> QED
  BY <1>1, BridgeStarts, BridgeStep, PTL DEF BridgeSpec

-----------------------------------------------------------------------------
(***************************************************************************)
(* ReceivedLibrary: DialogOfLastClick.  It needs that the query with the   *)
(* number of the latest click is about the phone that was clicked.         *)
(***************************************************************************)

\* What the dialog is made of.
LibDialog == [session : Nat \cup {NoSession}, device : Phones \cup {NoSession},
              locations : SUBSET Paths, failed : SUBSET Paths, open : BOOLEAN]
Queries == [id : Nat, device : Phones]
Openings == [session : Nat \cup {NoSession}, path : Paths]

\* The query of the latest click has its phone, and the dialog shows it.
ClickInv ==
  /\ queryRef \in Nat /\ queries \subseteq Queries /\ dialog \in LibDialog
  /\ nextSession \in Nat /\ opens \subseteq Openings
  /\ \A q \in queries : q.id <= queryRef /\ (q.id = queryRef => q.device = clicked)
  /\ DialogOfLastClick

LEMMA ClickStarts == LibraryAssumption /\ LibraryInit => ClickInv
  BY DEF LibraryInit, ClickInv, NoDialog, LibDialog, DialogOfLastClick

LEMMA ClickStep == ClickInv /\ [LibraryNext]_libraryVars => ClickInv'
<1> SUFFICES ASSUME ClickInv, [LibraryNext]_libraryVars PROVE ClickInv'
  OBVIOUS
<1> USE DEF ClickInv, DialogOfLastClick
<1>1. CASE UNCHANGED <<queryRef, queries, dialog, clicked, nextSession, opens>>
  BY <1>1
<1>2. ASSUME NEW r \in loads, ReceivedLibraryLoaded(r) \/ ReceivedLibraryFails(r) PROVE ClickInv'
  BY <1>1, <1>2 DEF ReceivedLibraryLoaded, ReceivedLibraryFails, dialogVars
<1>3. CASE LoadMore \/ FileReceived
  BY <1>1, <1>3 DEF LoadMore, FileReceived, dialogVars
<1>4. CASE MountLibrary
  BY <1>4 DEF MountLibrary, NoDialog, LibDialog
<1>5. CASE UnmountLibrary
  BY <1>5 DEF UnmountLibrary, NoDialog, LibDialog
<1>6. ASSUME NEW d \in Phones, ClickOpenFolder(d) PROVE ClickInv'
  BY <1>6 DEF ClickOpenFolder, Queries
<1>7. ASSUME NEW q \in queries, LocationsAnswered(q) \/ LocationsFail(q) PROVE ClickInv'
  <2>1. queries' \subseteq queries /\ UNCHANGED <<queryRef, clicked, opens>>
    BY <1>7 DEF LocationsAnswered, LocationsFail, Answered
  <2>2. CASE UNCHANGED <<dialog, nextSession>>
    BY <2>1, <2>2
  <2>3. CASE LocationsAnswered(q) /\ <<dialog, nextSession>>' # <<dialog, nextSession>>
    <3>1. PICK locations \in SUBSET Paths, missing \in SUBSET Paths :
            /\ Current(q) /\ nextSession' = nextSession + 1
            /\ dialog' = [session |-> nextSession + 1, device |-> q.device,
                          locations |-> locations \ missing, failed |-> {}, open |-> TRUE]
      BY <2>3 DEF LocationsAnswered, Answered
    <3>2. q.device \in Phones
      BY DEF Queries
    <3>3. dialog' \in LibDialog /\ dialog'.device = q.device
      BY <3>1, <3>2 DEF LibDialog
    <3> QED
      BY <2>1, <3>1, <3>3 DEF Current
  <2> QED
    BY <1>7, <2>2, <2>3 DEF LocationsFail
<1>8. ASSUME NEW p \in Paths, OpenLocation(p) PROVE ClickInv'
  BY <1>8 DEF OpenLocation, CanOpen, LibDialog, Openings
<1>9. ASSUME NEW o \in opens, Opened(o) \/ OpenFails(o) PROVE ClickInv'
  <2>1. UNCHANGED <<queryRef, queries, clicked, nextSession>> /\ opens' \subseteq opens
    BY <1>9 DEF Opened, OpenFails
  <2>2. dialog' \in LibDialog /\ (dialog'.open => dialog.open /\ dialog'.device = dialog.device)
    <3>1. o.path \in Paths
      BY DEF Openings
    <3>2. \/ dialog' = dialog \/ dialog' = [dialog EXCEPT !.open = FALSE]
          \/ dialog' = [dialog EXCEPT !.failed = @ \cup {o.path}]
      BY <1>9 DEF Opened, OpenFails
    <3> QED
      BY <3>1, <3>2 DEF LibDialog
  <2> QED
    BY <2>1, <2>2
<1>10. CASE CloseDialog
  BY <1>10 DEF CloseDialog, LibDialog
<1>11. CASE UNCHANGED libraryVars
  BY <1>1, <1>11 DEF libraryVars, dialogVars
<1> QED
  BY <1>2, <1>3, <1>4, <1>5, <1>6, <1>7, <1>8, <1>9, <1>10, <1>11 DEF LibraryNext

\* The dialog that is open shows the folder of the phone that was clicked last, however
\* late the answers about the phones clicked before it come (ReceivedLibraryPage.tsx).
THEOREM DialogIsOfLastClick ==
  ASSUME LibraryAssumption PROVE LibrarySpec => []DialogOfLastClick
<1>1. ClickInv => DialogOfLastClick
  BY DEF ClickInv
<1> QED
  BY <1>1, ClickStarts, ClickStep, PTL DEF LibrarySpec

-----------------------------------------------------------------------------
(***************************************************************************)
(* MainServices: FilesInPlace.  The invariant says stage by stage what the *)
(* temporary directory of an export holds that shares it with nobody.      *)
(***************************************************************************)

\* What the temporary directory of an export that shares it with nobody holds, stage by
\* stage; in the end that is packed.
PowerFiles == IF Mac THEN {PowerLog} ELSE {}
Alone(e) == \A f \in Exports \ {e} : export[f] = "idle" \/ stamp[f] # stamp[e]
Bundle(e) ==
  /\ export[e] \in {"listing", "listed"} => temp[stamp[e]] = {}
  /\ export[e] \in {"powered", "gathering"} => temp[stamp[e]] = PowerFiles
  /\ export[e] = "copying" =>
       /\ PowerFiles \cup {SnapshotFile} \subseteq temp[stamp[e]]
       /\ temp[stamp[e]] \subseteq PowerFiles \cup {SnapshotFile} \cup chosen[e]
  /\ export[e] = "packing" => temp[stamp[e]] = PowerFiles \cup {SnapshotFile} \cup chosen[e]
  /\ export[e] = "done" => zip[e] = PowerFiles \cup {SnapshotFile} \cup chosen[e]
ServicesInv ==
  /\ ServicesTypeOK /\ files \subseteq Parts /\ ThumbnailsInPlace
  /\ \A e \in Exports : Alone(e) => Bundle(e)

\* The variables of the exports have their types, and an export leaves the others' alone.
Stages == {"idle", "asked", "cancelled", "listing", "listed", "powered", "gathering", "copying",
           "packing", "done", "failed"}
OfType == /\ export \in [Exports -> Stages] /\ exists \subseteq Seconds
          /\ temp \in [Seconds -> SUBSET Content] /\ chosen \in [Exports -> SUBSET Parts]
          /\ zip \in [Exports -> SUBSET Content]
FilesElsewhere(e) ==
  /\ \A g \in Exports \ {e} : /\ export'[g] = export[g] /\ chosen'[g] = chosen[g]
                              /\ zip'[g] = zip[g]
  /\ \A s \in Seconds \ {stamp[e]} : temp'[s] = temp[s]

LEMMA ServicesStart == ServicesAssumption /\ ServicesInit => ServicesInv
<1> SUFFICES ASSUME ServicesAssumption, ServicesInit PROVE ServicesInv
  OBVIOUS
<1>1. ServicesTypeOK
  BY DEF ServicesInit, ServicesTypeOK, ServicesAssumption
<1> QED
  BY <1>1 DEF ServicesInit, ServicesInv, ThumbnailsInPlace, Bundle

\* The cache of thumbnails does not concern the exports, nor do the logs.
LEMMA BundlesStay ==
  ASSUME ServicesInv, UNCHANGED <<export, stamp, temp, chosen, zip>>
  PROVE  \A e \in Exports : (Alone(e) => Bundle(e))'
  BY DEF ServicesInv, Alone, Bundle

LEMMA ThumbnailsStep == ServicesAssumption /\ ServicesInv /\ ThumbnailsNext => ServicesInv'
<1> SUFFICES ASSUME ServicesAssumption, ServicesInv, ThumbnailsNext PROVE ServicesInv'
  OBVIOUS
<1>1. UNCHANGED exportVars
  BY DEF ThumbnailsNext, CacheSwapped, ThumbStart, ThumbDecoded, ThumbFails
<1>2. \A e \in Exports : (Alone(e) => Bundle(e))'
  BY <1>1, BundlesStay DEF exportVars
<1>3. CASE CacheSwapped
  BY <1>1, <1>2, <1>3 DEF CacheSwapped, exportVars, ServicesInv, ServicesTypeOK,
                          ServicesAssumption, ThumbnailsInPlace
<1>4. ASSUME NEW r \in Requests, ThumbStart(r) \/ ThumbDecoded(r) \/ ThumbFails(r)
      PROVE  ServicesInv'
  BY <1>1, <1>2, <1>4 DEF ThumbStart, ThumbDecoded, ThumbFails, exportVars, ServicesInv,
                          ServicesTypeOK, ThumbnailsInPlace
<1> QED
  BY <1>3, <1>4 DEF ThumbnailsNext

\* An export that goes on leaves alone what is not its own.
LEMMA OthersStay ==
  ASSUME ServicesInv, NEW e \in Exports, NEW f \in Exports, f # e, export[e] # "idle",
         export'[e] # "idle", UNCHANGED stamp,
         \A g \in Exports \ {e} : /\ export'[g] = export[g] /\ chosen'[g] = chosen[g]
                                  /\ zip'[g] = zip[g],
         \A s \in Seconds \ {stamp[e]} : temp'[s] = temp[s]
  PROVE  (Alone(f) => Bundle(f))'
<1> SUFFICES ASSUME Alone(f)' PROVE Bundle(f)'
  OBVIOUS
<1>1. Alone(f) /\ stamp[f] # stamp[e]
  BY DEF Alone
<1>2. stamp[f] \in Seconds \ {stamp[e]}
  BY <1>1 DEF ServicesInv, ServicesTypeOK
<1>3. temp'[stamp[f]] = temp[stamp[f]]
  BY <1>2
<1>4. Bundle(f)
  BY <1>1 DEF ServicesInv
<1> QED
  BY <1>3, <1>4 DEF Bundle

\* One that is shared with nobody was never.
LEMMA AloneBefore ==
  ASSUME ServicesInv, NEW e \in Exports, UNCHANGED stamp, Alone(e)',
         \A g \in Exports \ {e} : export'[g] = export[g]
  PROVE  Alone(e)
  BY DEF Alone

LEMMA DiagnosticsStep == ServicesAssumption /\ ServicesInv /\ DiagnosticsNext => ServicesInv'
<1> SUFFICES ASSUME ServicesAssumption, ServicesInv, DiagnosticsNext PROVE ServicesInv'
  OBVIOUS
<1>1. CASE LogsChange
  <2>1. \A e \in Exports : (Alone(e) => Bundle(e))'
    BY <1>1, BundlesStay DEF LogsChange
  <2> QED
    BY <1>1, <2>1 DEF LogsChange, ServicesInv, ServicesTypeOK, ServicesAssumption,
                      ThumbnailsInPlace
<1>2. ASSUME NEW e \in Exports, NEW s \in Seconds, ExportAsk(e, s) PROVE ServicesInv'
  <2>1. PICK w \in {"asked", "cancelled"} : export' = [export EXCEPT ![e] = w]
    BY <1>2 DEF ExportAsk, ExportTo
  <2>2. /\ export[e] = "idle" /\ stamp' = [stamp EXCEPT ![e] = s]
        /\ UNCHANGED <<temp, exists, files, chosen, zip,
                       thumb, dir, cached, outside, leftover, swaps>>
    BY <1>2 DEF ExportAsk, ExportAt, thumbVars
  <2>3. ServicesTypeOK'
    BY <2>1, <2>2 DEF ServicesInv, ServicesTypeOK
  <2>4. ASSUME NEW f \in Exports, Alone(f)' PROVE Bundle(f)'
    <3>1. CASE f = e
      BY <2>1, <2>2, <3>1 DEF Bundle, ServicesInv, ServicesTypeOK
    <3>2. CASE f # e
      <4>1. /\ export'[f] = export[f] /\ stamp'[f] = stamp[f]
            /\ \A g \in Exports \ {f} : g # e => export'[g] = export[g] /\ stamp'[g] = stamp[g]
        BY <2>1, <2>2, <3>2 DEF ServicesInv, ServicesTypeOK
      <4>2. Alone(f)
        BY <2>2, <2>4, <4>1 DEF Alone
      <4> QED
        BY <2>2, <4>1, <4>2 DEF Bundle, ServicesInv
    <3> QED
      BY <3>1, <3>2
  <2> QED
    BY <2>2, <2>3, <2>4 DEF ServicesInv, ThumbnailsInPlace
\* An export goes to its next stage.
<1>a. ASSUME NEW e \in Exports, OfType', FilesElsewhere(e), export[e] # "idle", export'[e] # "idle",
             UNCHANGED <<stamp, files, thumbVars>>, Alone(e) /\ Bundle(e) => Bundle(e)'
      PROVE  ServicesInv'
  <2>1. ServicesTypeOK'
    BY <1>a DEF ServicesInv, ServicesTypeOK, OfType, Stages, thumbVars
  <2>2. ASSUME NEW f \in Exports PROVE (Alone(f) => Bundle(f))'
    <3>1. CASE f # e
      BY <1>a, <3>1, OthersStay DEF FilesElsewhere
    <3>2. CASE f = e
      <4>1. Alone(e)' => Alone(e)
        BY <1>a, AloneBefore DEF FilesElsewhere
      <4> QED
        BY <1>a, <3>2, <4>1 DEF ServicesInv
    <3> QED
      BY <3>1, <3>2
  <2> QED
    BY <1>a, <2>1, <2>2 DEF ServicesInv, ThumbnailsInPlace, thumbVars
<1>b. /\ OfType /\ files \subseteq Parts /\ stamp \in [Exports -> Seconds]
  BY DEF ServicesInv, ServicesTypeOK, OfType, Stages
<1>3. ASSUME NEW e \in Exports, NEW p \in Parts, ExportCopy(e, p) PROVE ServicesInv'
  <2>1. OfType' /\ FilesElsewhere(e)
    BY <1>3, <1>b DEF ExportCopy, ExportAt, ToCopy, OfType, Stages, FilesElsewhere, Content
  <2>2. Bundle(e) => Bundle(e)'
    BY <1>3, <1>b DEF ExportCopy, ExportAt, ToCopy, OfType, Bundle
  <2>3. export[e] # "idle" /\ export'[e] # "idle" /\ UNCHANGED <<stamp, files, thumbVars>>
    BY <1>3, <1>b DEF ExportCopy, ExportAt, ToCopy, OfType
  <2> QED
    BY <1>a, <2>1, <2>2, <2>3
<1>4. ASSUME NEW e \in Exports, ExportPrepare(e) PROVE ServicesInv'
  <2>1. /\ export[e] = "asked" /\ export' = [export EXCEPT ![e] = "listing"]
        /\ temp' = [temp EXCEPT ![stamp[e]] = {}] /\ exists' = exists \cup {stamp[e]}
        /\ UNCHANGED <<stamp, files, chosen, zip, thumbVars>>
    BY <1>4 DEF ExportPrepare, ExportAt, ExportTo
  <2>2. stamp[e] \in Seconds
    BY <1>b
  <2>3. OfType'
    BY <2>1, <2>2, <1>b DEF OfType, Stages
  <2>4. FilesElsewhere(e)
    BY <2>1, <2>2, <1>b DEF OfType, FilesElsewhere
  <2>5. export'[e] = "listing" /\ temp'[stamp[e]] = {}
    BY <2>1, <2>2, <1>b DEF OfType
  <2>6. Bundle(e)'
    BY <2>1, <2>5 DEF Bundle
  <2> QED
    BY <1>a, <2>1, <2>3, <2>4, <2>5, <2>6
<1>5. ASSUME NEW e \in Exports, ExportList(e) PROVE ServicesInv'
  <2>1. OfType' /\ FilesElsewhere(e)
    BY <1>5, <1>b DEF ExportList, ExportAt, ExportTo, OfType, Stages, FilesElsewhere
  <2>2. Bundle(e) => Bundle(e)'
    BY <1>5, <1>b DEF ExportList, ExportAt, ExportTo, OfType, Bundle
  <2>3. export[e] # "idle" /\ export'[e] # "idle" /\ UNCHANGED <<stamp, files, thumbVars>>
    BY <1>5, <1>b DEF ExportList, ExportAt, ExportTo, OfType
  <2> QED
    BY <1>a, <2>1, <2>2, <2>3
<1>6. ASSUME NEW e \in Exports, ExportPowerLog(e) PROVE ServicesInv'
  <2>1. OfType' /\ FilesElsewhere(e)
    BY <1>6, <1>b DEF ExportPowerLog, ExportAt, ExportTo, OfType, Stages, FilesElsewhere, Content
  <2>2. Bundle(e) => Bundle(e)'
    BY <1>6, <1>b DEF ExportPowerLog, ExportAt, ExportTo, OfType, Bundle, PowerFiles
  <2>3. export[e] # "idle" /\ export'[e] # "idle" /\ UNCHANGED <<stamp, files, thumbVars>>
    BY <1>6, <1>b DEF ExportPowerLog, ExportAt, ExportTo, OfType
  <2> QED
    BY <1>a, <2>1, <2>2, <2>3
<1>7. ASSUME NEW e \in Exports, ExportEnvironment(e) PROVE ServicesInv'
  <2>1. OfType' /\ FilesElsewhere(e)
    BY <1>7, <1>b DEF ExportEnvironment, ExportAt, ExportTo, OfType, Stages, FilesElsewhere
  <2>2. Bundle(e) => Bundle(e)'
    BY <1>7, <1>b DEF ExportEnvironment, ExportAt, ExportTo, OfType, Bundle
  <2>3. export[e] # "idle" /\ export'[e] # "idle" /\ UNCHANGED <<stamp, files, thumbVars>>
    BY <1>7, <1>b DEF ExportEnvironment, ExportAt, ExportTo, OfType
  <2> QED
    BY <1>a, <2>1, <2>2, <2>3
<1>8. ASSUME NEW e \in Exports, ExportSnapshot(e) PROVE ServicesInv'
  <2>1. OfType' /\ FilesElsewhere(e)
    BY <1>8, <1>b DEF ExportSnapshot, ExportAt, ExportTo, OfType, Stages, FilesElsewhere, Content
  <2>2. Bundle(e) => Bundle(e)'
    BY <1>8, <1>b DEF ExportSnapshot, ExportAt, ExportTo, OfType, Bundle
  <2>3. export[e] # "idle" /\ export'[e] # "idle" /\ UNCHANGED <<stamp, files, thumbVars>>
    BY <1>8, <1>b DEF ExportSnapshot, ExportAt, ExportTo, OfType
  <2> QED
    BY <1>a, <2>1, <2>2, <2>3
<1>9. ASSUME NEW e \in Exports, ExportCopyFails(e) PROVE ServicesInv'
  <2>1. OfType' /\ FilesElsewhere(e)
    BY <1>9, <1>b DEF ExportCopyFails, ExportTo, OfType, Stages, FilesElsewhere
  <2>2. Bundle(e)'
    BY <1>9, <1>b DEF ExportCopyFails, ExportTo, OfType, Bundle
  <2>3. export[e] # "idle" /\ export'[e] # "idle" /\ UNCHANGED <<stamp, files, thumbVars>>
    BY <1>9, <1>b DEF ExportCopyFails, ExportTo, OfType
  <2> QED
    BY <1>a, <2>1, <2>2, <2>3
<1>10. ASSUME NEW e \in Exports, ExportCopied(e) PROVE ServicesInv'
  <2>1. OfType' /\ FilesElsewhere(e)
    BY <1>10, <1>b DEF ExportCopied, ExportAt, ExportTo, ToCopy, OfType, Stages, FilesElsewhere
  <2>2. Bundle(e) => Bundle(e)'
    BY <1>10, <1>b DEF ExportCopied, ExportAt, ExportTo, ToCopy, OfType, Bundle
  <2>3. export[e] # "idle" /\ export'[e] # "idle" /\ UNCHANGED <<stamp, files, thumbVars>>
    BY <1>10, <1>b DEF ExportCopied, ExportAt, ExportTo, ToCopy, OfType
  <2> QED
    BY <1>a, <2>1, <2>2, <2>3
<1>11. ASSUME NEW e \in Exports, ExportPack(e) PROVE ServicesInv'
  <2>1. OfType' /\ FilesElsewhere(e)
    BY <1>11, <1>b DEF ExportPack, ExportAt, ExportTo, OfType, Stages, FilesElsewhere
  <2>2. Bundle(e) => Bundle(e)'
    BY <1>11, <1>b DEF ExportPack, ExportAt, ExportTo, OfType, Bundle
  <2>3. export[e] # "idle" /\ export'[e] # "idle" /\ UNCHANGED <<stamp, files, thumbVars>>
    BY <1>11, <1>b DEF ExportPack, ExportAt, ExportTo, OfType
  <2> QED
    BY <1>a, <2>1, <2>2, <2>3
<1> QED
  BY <1>1, <1>2, <1>3, <1>4, <1>5, <1>6, <1>7, <1>8, <1>9, <1>10, <1>11 DEF DiagnosticsNext

LEMMA ServicesStep ==
  ServicesAssumption /\ ServicesInv /\ [ServicesNext]_servicesVars => ServicesInv'
<1>1. ServicesInv /\ UNCHANGED servicesVars => ServicesInv'
  <2> SUFFICES ASSUME ServicesInv, UNCHANGED servicesVars PROVE ServicesInv'
    OBVIOUS
  <2>1. \A e \in Exports : (Alone(e) => Bundle(e))'
    BY BundlesStay DEF servicesVars, exportVars
  <2> QED
    BY <2>1 DEF servicesVars, exportVars, thumbVars, ServicesInv, ServicesTypeOK,
                ThumbnailsInPlace
<1> QED
  BY <1>1, ThumbnailsStep, DiagnosticsStep DEF ServicesNext

LEMMA FilesAreInPlace == ServicesInv => FilesInPlace
  BY DEF ServicesInv, FilesInPlace, ExportsAreWhole, Alone, Bundle, PowerFiles

\* Every variable of the thumbnails and of the exports keeps its shape.
THEOREM ServicesAreTyped ==
  ASSUME ServicesAssumption PROVE ServicesSpec => []ServicesTypeOK
<1>1. ServicesInv => ServicesTypeOK
  BY DEF ServicesInv
<1> QED
  BY <1>1, ServicesStart, ServicesStep, PTL DEF ServicesSpec

\* No thumbnail is written through a link that took the place of the cache, and an export
\* that shares its second with no other and reports success packed all it had listed and
\* nothing else, whatever fails, is replaced or rotates on the way.
THEOREM FilesStayInPlace ==
  ASSUME ServicesAssumption PROVE ServicesSpec => []FilesInPlace
  BY FilesAreInPlace, ServicesStart, ServicesStep, PTL DEF ServicesSpec

-----------------------------------------------------------------------------
(***************************************************************************)
(* DesktopShell: ShellIsCurrent.  What was sent last, or is there when     *)
(* nothing is on its way, is what is true.                                 *)
(***************************************************************************)

Jobs == [kind : {"retry", "install"}, step : {"download", "run", "restart"}, window : Nat]
Newest(q, otherwise) == IF q = <<>> THEN otherwise ELSE q[Len(q)]

\* What was sent last, or is there when nothing is on its way, is what is true.
ShellInv ==
  /\ ShellTypeOK /\ windows \in Nat /\ (window # "none" => windows > 0) /\ jobs \subseteq Jobs
  /\ runtimeWire \in Seq(States) /\ overlayCalls \in Seq(BOOLEAN) /\ help \in BOOLEAN
  /\ window = "open" /\ ~runtimeAsked => Newest(runtimeWire, shownRuntime) = runtime
  /\ window = "open" /\ UsesOverlay => Newest(overlayCalls, overlay) = help

LEMMA NewestOfTail ==
  ASSUME NEW S, NEW q \in Seq(S), q # <<>>, NEW d
  PROVE  /\ Tail(q) \in Seq(S) /\ Newest(Tail(q), Head(q)) = Newest(q, d)
         /\ Head(q) \in S
<1>1. /\ Tail(q) \in Seq(S) /\ Len(Tail(q)) = Len(q) - 1 /\ Head(q) = q[1] /\ Len(q) > 0
      /\ \A i \in 1..Len(Tail(q)) : Tail(q)[i] = q[i + 1]
  BY HeadTailProperties
<1>2. Tail(q) = <<>> <=> Len(q) = 1
  <2>1. Len(q) \in Nat
    OBVIOUS
  <2>2. Tail(q) = <<>> => Len(Tail(q)) = 0
    BY EmptySeq
  <2>3. Tail(q) # <<>> => Len(Tail(q)) \in Nat \ {0}
    BY <1>1, EmptySeq
  <2> QED
    BY <1>1, <2>1, <2>2, <2>3
<1>3. Newest(Tail(q), Head(q)) = q[Len(q)]
  BY <1>1, <1>2 DEF Newest
<1> QED
  BY <1>1, <1>3 DEF Newest

LEMMA NewestOfAppend ==
  ASSUME NEW S, NEW q \in Seq(S), NEW x \in S, NEW d
  PROVE  Append(q, x) \in Seq(S) /\ Newest(Append(q, x), d) = x
  BY AppendProperties DEF Newest

LEMMA NewestOfTwo ==
  ASSUME NEW S, NEW q \in Seq(S), NEW x \in S, NEW y \in S, NEW d
  PROVE  q \o <<x, y>> \in Seq(S) /\ Newest(q \o <<x, y>>, d) = y
<1> DEFINE two == <<x, y>>
<1>1. two \in Seq(S) /\ Len(two) = 2 /\ two[2] = y
  OBVIOUS
<1> HIDE DEF two
<1>2. q \o two \in Seq(S) /\ Len(q \o two) = Len(q) + 2
  <2>1. q \o two \in Seq(S)
    BY <1>1, ConcatProperties
  <2>2. Len(q \o two) = Len(q) + Len(two)
    BY <1>1, ConcatProperties
  <2> QED
    BY <1>1, <2>1, <2>2
<1>3. (q \o two)[Len(q) + 2] = y
  BY <1>1, <1>2, ConcatProperties
<1>4. q \o two # <<>>
  BY <1>2
<1>5. Newest(q \o two, d) = y
  BY <1>2, <1>3, <1>4 DEF Newest
<1> QED
  BY <1>2, <1>5 DEF two

LEMMA ShellStarts == DesktopShellAssumption /\ ShellInit => ShellInv
<1> SUFFICES ASSUME DesktopShellAssumption, ShellInit PROVE ShellInv
  OBVIOUS
<1>1. INITIAL_SIDECAR_RUNTIME_STATE \in States /\ runtime \in States
  BY DEF ShellInit, INITIAL_SIDECAR_RUNTIME_STATE, States, BonjourRuntime
<1>2. ShellTypeOK
  BY <1>1 DEF ShellInit, ShellTypeOK, DesktopShellAssumption
<1>3. /\ windows = 0 /\ window = "none" /\ jobs = {} /\ help = FALSE
      /\ runtimeWire = <<>> /\ overlayCalls = <<>>
  BY DEF ShellInit
<1>4. <<>> \in Seq(States) /\ <<>> \in Seq(BOOLEAN)
  OBVIOUS
<1> QED
  BY <1>2, <1>3, <1>4 DEF ShellInv

LEMMA ShellStep == DesktopShellAssumption /\ ShellInv /\ [ShellNext]_shellVars => ShellInv'
<1> SUFFICES ASSUME DesktopShellAssumption, ShellInv, [ShellNext]_shellVars PROVE ShellInv'
  OBVIOUS
<1>0. INITIAL_SIDECAR_RUNTIME_STATE \in States
  BY DEF INITIAL_SIDECAR_RUNTIME_STATE, States
<1>o. shellOps \in 0..MaxShellOps /\ (Op => shellOps' \in 0..MaxShellOps)
  BY DEF ShellInv, ShellTypeOK, DesktopShellAssumption, Op
<1>v. UNCHANGED platform => (UsesOverlay' <=> UsesOverlay)
  BY DEF UsesOverlay
\* Steps that concern neither the state of the sidecar nor the title bar.
<1>s. ASSUME UNCHANGED <<platform, runtime, window, windows, overlay, runtimeWire, runtimeAsked,
                         overlayCalls, shownRuntime, help>>,
             jobs' \subseteq Jobs, \A j \in jobs' : j.window \in 1..windows,
             view' \in Views, section' \in Sections, shellOps' \in 0..MaxShellOps
      PROVE  ShellInv'
  BY <1>s, <1>v DEF ShellInv, ShellTypeOK, Jobs
<1>q. UNCHANGED <<jobs, view, section>> => /\ jobs' \subseteq Jobs /\ view' \in Views
                                           /\ section' \in Sections
                                           /\ \A j \in jobs' : j.window \in 1..windows
  BY DEF ShellInv, ShellTypeOK
<1>1. CASE SidecarChanges
  <2>1. PICK s \in States : /\ runtime' = s
                            /\ runtimeWire' = IF window = "open" THEN Append(runtimeWire, s)
                                              ELSE runtimeWire
    BY <1>1 DEF SidecarChanges
  <2>2. UNCHANGED <<platform, window, windows, overlay, jobs, runtimeAsked, overlayCalls,
                    shownRuntime, help, view, section>> /\ Op
    BY <1>1 DEF SidecarChanges, barVars
  <2>3. window = "open" => /\ runtimeWire' \in Seq(States)
                           /\ Newest(runtimeWire', shownRuntime) = runtime'
    BY <2>1, NewestOfAppend DEF ShellInv
  <2> QED
    BY <1>o, <1>v, <2>1, <2>2, <2>3 DEF ShellInv, ShellTypeOK
<1>2. CASE CreateMainWindow
  <2>1. UNCHANGED <<runtime, jobs, runtimeWire, overlayCalls, shownRuntime, help, view, section>>
        /\ window' = "loading" /\ windows' = windows + 1 /\ shellOps' \in 0..MaxShellOps
    BY <1>2, <1>o DEF CreateMainWindow, runtimeVars, barVars
  <2> QED
    BY <2>1 DEF ShellInv, ShellTypeOK
<1>3. CASE Load
  <2>1. /\ shownRuntime' = INITIAL_SIDECAR_RUNTIME_STATE /\ view' = "dashboard" /\ help' = FALSE
        /\ section' = "intro" /\ runtimeWire' = <<>> /\ runtimeAsked' = TRUE /\ window' = "open"
        /\ overlayCalls' = IF UsesOverlay THEN <<FALSE>> ELSE <<>>
        /\ UNCHANGED <<platform, runtime, windows, jobs, shellOps>> /\ window = "loading"
    BY <1>3 DEF Load, Loaded
  <2>2. <<FALSE>> \in Seq(BOOLEAN) /\ Newest(<<FALSE>>, overlay') = FALSE
    BY DEF Newest
  <2>3. ShellTypeOK'
    BY <1>0, <2>1 DEF ShellInv, ShellTypeOK, DesktopShellAssumption
  <2>4. overlayCalls' \in Seq(BOOLEAN)
    <3>1. <<>> \in Seq(BOOLEAN)
      OBVIOUS
    <3>2. overlayCalls' = <<FALSE>> \/ overlayCalls' = <<>>
      BY <2>1
    <3> QED
      BY <2>2, <3>1, <3>2, Zenon
  <2>5. window' = "open" /\ UsesOverlay' => Newest(overlayCalls', overlay') = help'
    BY <1>v, <2>1, <2>2
  <2>6. /\ windows' \in Nat /\ windows' > 0 /\ jobs' \subseteq Jobs /\ runtimeAsked'
        /\ runtimeWire' \in Seq(States) /\ help' \in BOOLEAN
    <3>1. windows' \in Nat /\ windows' > 0 /\ jobs' \subseteq Jobs
      BY <2>1 DEF ShellInv
    <3>2. runtimeWire' \in Seq(States)
      BY <2>1
    <3>3. runtimeAsked' /\ help' \in BOOLEAN
      BY <2>1
    <3> QED
      BY <3>1, <3>2, <3>3
  <2> QED
    BY <2>3, <2>4, <2>5, <2>6 DEF ShellInv
<1>4. CASE CloseWindow
  <2>1. /\ window' = "none" /\ runtimeWire' = <<>> /\ overlayCalls' = <<>> /\ Op
        /\ UNCHANGED <<runtime, windows, jobs, shownRuntime, help, view, section>>
    BY <1>4 DEF CloseWindow, barVars
  <2> QED
    BY <1>o, <2>1 DEF ShellInv, ShellTypeOK
<1>5. CASE AnswerRuntimeState
  <2>1. /\ runtimeAsked' = FALSE /\ runtimeWire' = Append(runtimeWire, runtime)
        /\ UNCHANGED <<platform, runtime, window, windows, overlay, jobs, overlayCalls,
                       shownRuntime, help, view, section, shellOps>>
    BY <1>5 DEF AnswerRuntimeState, mainVars, barVars
  <2>2. Append(runtimeWire, runtime) \in Seq(States)
        /\ Newest(Append(runtimeWire, runtime), shownRuntime) = runtime
    BY NewestOfAppend DEF ShellInv, ShellTypeOK
  <2> QED
    BY <1>v, <2>1, <2>2 DEF ShellInv, ShellTypeOK
<1>6. CASE TakeRuntimeState
  <2>1. /\ runtimeWire # <<>> /\ runtimeWire' = Tail(runtimeWire)
        /\ shownRuntime' = Head(runtimeWire)
        /\ UNCHANGED <<platform, runtime, window, windows, overlay, jobs, runtimeAsked,
                       overlayCalls, help, view, section, shellOps>>
    BY <1>6 DEF TakeRuntimeState, mainVars
  <2>2. /\ Tail(runtimeWire) \in Seq(States) /\ Head(runtimeWire) \in States
        /\ Newest(Tail(runtimeWire), Head(runtimeWire)) = Newest(runtimeWire, shownRuntime)
    BY <2>1, NewestOfTail DEF ShellInv
  <2> QED
    BY <1>v, <2>1, <2>2 DEF ShellInv, ShellTypeOK
<1>7. CASE SetModalOverlayActive
  <2>1. /\ overlayCalls # <<>> /\ overlayCalls' = Tail(overlayCalls)
        /\ UsesOverlay => overlay' = Head(overlayCalls)
        /\ UNCHANGED <<platform, runtime, window, windows, jobs, runtimeWire, runtimeAsked,
                       shownRuntime, help, view, section, shellOps>>
    BY <1>7 DEF SetModalOverlayActive, barVars
  <2>2. /\ Tail(overlayCalls) \in Seq(BOOLEAN)
        /\ Newest(Tail(overlayCalls), Head(overlayCalls)) = Newest(overlayCalls, overlay)
    BY <2>1, NewestOfTail DEF ShellInv
  <2> QED
    BY <1>v, <2>1, <2>2 DEF ShellInv, ShellTypeOK
<1>8. CASE HandleRetry \/ HandleInstallBonjour
  <2>1. PICK j \in Jobs : jobs' = jobs \cup {j} /\ j.window = windows
    <3>1. /\ Job("retry", "restart") \in Jobs /\ Job("retry", "restart").window = windows
          /\ Job("install", "download") \in Jobs /\ Job("install", "download").window = windows
      BY DEF Job, Jobs, ShellInv
    <3> QED
      BY <1>8, <3>1 DEF HandleRetry, HandleInstallBonjour
  <2>2. /\ Op /\ window = "open"
        /\ UNCHANGED <<platform, runtime, window, windows, overlay, runtimeWire, runtimeAsked,
                       overlayCalls, shownRuntime, help, view, section>>
    BY <1>8 DEF HandleRetry, HandleInstallBonjour, ButtonsEnabled, InWindow, runtimeVars
  <2>3. windows \in 1..windows
    BY <2>2 DEF ShellInv
  <2>4. jobs' \subseteq Jobs /\ \A i \in jobs' : i.window \in 1..windows
    BY <2>1, <2>3 DEF ShellInv, ShellTypeOK
  <2> QED
    BY <1>s, <1>o, <2>2, <2>4 DEF ShellInv, ShellTypeOK
<1>9. ASSUME NEW j \in jobs, JobGoesOn(j) PROVE ShellInv'
  <2>1. PICK step \in {"run", "restart"} : jobs' = (jobs \ {j}) \cup {[j EXCEPT !.step = step]}
    BY <1>9 DEF JobGoesOn
  <2>2. [j EXCEPT !.step = step] \in Jobs /\ [j EXCEPT !.step = step].window = j.window
    BY DEF ShellInv, Jobs
  <2>3. jobs' \subseteq Jobs /\ \A i \in jobs' : i.window \in 1..windows
    BY <2>1, <2>2 DEF ShellInv, ShellTypeOK
  <2> QED
    BY <1>9, <1>s, <2>3 DEF JobGoesOn, runtimeVars, barVars, ShellInv, ShellTypeOK
<1>10. ASSUME NEW j \in jobs, JobEnds(j) PROVE ShellInv'
  BY <1>10, <1>s DEF JobEnds, runtimeVars, ShellInv, ShellTypeOK
<1>11. CASE CompleteSetup
  BY <1>11, <1>s, <1>o, <1>q DEF CompleteSetup, mainVars
<1>12. ASSUME NEW v \in Views, SetView(v) PROVE ShellInv'
  <2>1. UNCHANGED <<mainVars, runtimeWire, runtimeAsked, overlayCalls, shownRuntime, help, section>>
        /\ Op /\ view' = v
    BY <1>12 DEF SetView
  <2> QED
    BY <2>1, <1>s, <1>o DEF mainVars, ShellInv, ShellTypeOK
<1>13. ASSUME NEW open \in BOOLEAN, SetHelpOpen(open) PROVE ShellInv'
  <2>1. /\ help' = open /\ Op
        /\ overlayCalls' = IF UsesOverlay THEN overlayCalls \o <<FALSE, open>> ELSE overlayCalls
        /\ UNCHANGED <<platform, runtime, window, windows, overlay, jobs, runtimeWire,
                       runtimeAsked, shownRuntime, view, section>>
    BY <1>13 DEF SetHelpOpen, mainVars
  <2>2. /\ overlayCalls \o <<FALSE, open>> \in Seq(BOOLEAN)
        /\ Newest(overlayCalls \o <<FALSE, open>>, overlay) = open
    <3>1. overlayCalls \in Seq(BOOLEAN) /\ FALSE \in BOOLEAN
      BY DEF ShellInv
    <3>2. ASSUME NEW S, overlayCalls \in Seq(S), NEW x \in S, NEW y \in S
          PROVE  /\ overlayCalls \o <<x, y>> \in Seq(S)
                 /\ Newest(overlayCalls \o <<x, y>>, overlay) = y
      BY <3>2, NewestOfTwo
    <3> QED
      BY <3>1, <3>2, Zenon
  <2> QED
    BY <1>o, <1>v, <2>1, <2>2 DEF ShellInv, ShellTypeOK
<1>14. ASSUME NEW s \in Sections, SelectSection(s) PROVE ShellInv'
  BY <1>14, <1>s, <1>o DEF SelectSection, mainVars, runtimeVars, ShellInv, ShellTypeOK
<1>15. CASE TogglePanel \/ HandleDownloadApp \/ ToggleQr \/ HandleRequestFolderPermission
  BY <1>15, <1>s, <1>o, <1>q DEF TogglePanel, HandleDownloadApp, ToggleQr, mainVars, barVars,
     HandleRequestFolderPermission, runtimeVars
<1>16. ASSUME NEW l \in Links, OpenExternal(l) PROVE ShellInv'
  BY <1>16, <1>s, <1>o, <1>q DEF OpenExternal, mainVars, runtimeVars, barVars
<1>17. ASSUME NEW c \in permissionCalls, PermissionAnswered(c) PROVE ShellInv'
  BY <1>17, <1>s, <1>o, <1>q DEF PermissionAnswered, barVars
<1>18. CASE PowerEvent
  BY <1>18, <1>s, <1>o, <1>q DEF PowerEvent, mainVars, runtimeVars, barVars
<1>19. ASSUME NEW p \in posts, PostArrives(p) \/ PostFails(p) PROVE ShellInv'
  BY <1>19, <1>s, <1>o, <1>q DEF PostArrives, PostFails, mainVars, runtimeVars, barVars
<1>20. CASE UNCHANGED shellVars
  BY <1>20, <1>s, <1>o, <1>q DEF shellVars, mainVars, runtimeVars, barVars
<1> QED
  BY <1>1, <1>2, <1>3, <1>4, <1>5, <1>6, <1>7, <1>8, <1>9, <1>10, <1>11, <1>12, <1>13, <1>14,
     <1>15, <1>16, <1>17, <1>18, <1>19, <1>20 DEF ShellNext

LEMMA ShellShows == ShellInv => ShellIsCurrent
  BY DEF ShellInv, ShellIsCurrent, BannerIsCurrent, DimmedUnderHelp, Newest

\* Every variable of the window's shell keeps its shape.
THEOREM ShellIsTyped ==
  ASSUME DesktopShellAssumption PROVE ShellSpec => []ShellTypeOK
<1>1. ShellInv => ShellTypeOK
  BY DEF ShellInv
<1> QED
  BY <1>1, ShellStarts, ShellStep, PTL DEF ShellSpec

\* The banner and the screen of the window go by the sidecar's state once nothing about it
\* is on its way, and the dimming of the title bar by the help dialog.
THEOREM ShellGoesByTheSidecar ==
  ASSUME DesktopShellAssumption PROVE ShellSpec => []ShellIsCurrent
  BY ShellShows, ShellStarts, ShellStep, PTL DEF ShellSpec

=============================================================================
