--------------------------- MODULE ClientRegistry ---------------------------
(***************************************************************************)
(* What the sidecar knows of its live clients                              *)
(* (services/sidecar-go/internal/server/listener.go) and the sync sessions *)
(* in its store (internal/store/sessions.go).                              *)
(*                                                                         *)
(* Every connection is a goroutine.  TCPServer.connectedClients has one    *)
(* entry per client, whichever of its connections wrote it last;           *)
(* activeConns says which connections a client has.  A phone that lost its *)
(* Wi-Fi opens a new connection while the sidecar still waits for the old  *)
(* one, so the teardown of the one interleaves with the other's handlers   *)
(* at every point where TCPServer.mu is released.                          *)
(*                                                                         *)
(* Of the events, transfer.active.changed is kept: it is decided under the *)
(* lock and broadcast after it.  device.state.changed repeats what the     *)
(* desktop polls anyway.                                                   *)
(***************************************************************************)
EXTENDS Integers, Sequences, FiniteSets

CONSTANTS
  Clients,        \* clientIDs
  Conns,          \* connections
  ClientOf,       \* the clientID in each connection's HELLO_REQ
  Sessions,       \* sessionIDs; a phone draws a new one for every round
  MaxFaults,      \* session writes that fail and crashes of the sidecar
  NoSession

ASSUME RegistryAssumption ==
  /\ ClientOf \in [Conns -> Clients]
  /\ NoSession \notin Sessions
  /\ MaxFaults \in Nat

VARIABLES
  pc,         \* where the goroutine of each connection stands
  sid,        \* connection.sessionID
  news,       \* transfer.active.changed still to be broadcast: "none", "active"
              \* or "idle"
  active,     \* the connections in activeConns
  listed,     \* connectedClients, "none" for a client without an entry
  session,    \* state of each session row, "none" without one
  faults,     \* how much of MaxFaults is used
  shown,      \* the value the desktop's windows last got
  balance,    \* history: "true" events broadcast minus "false" ones
  overlapped, \* history: clients that had two registered connections at a time
  orphans     \* history: sessions whose end could not be written

vars == <<pc, sid, news, active, listed, session, faults, shown, balance,
          overlapped, orphans>>

-----------------------------------------------------------------------------
Terminal == {"completed", "interrupted"}

\* anyClientSyncingLocked
AnySyncing(l) == \E x \in Clients : l[x] = "syncing"

\* Which of the ids not seen yet a phone draws does not matter.
Unseen     == {s \in Sessions : session[s] = "none"}
NewSession == CHOOSE s \in Unseen : TRUE

ConnsOf(x) == {c \in active : ClientOf[c] = x}

Activity(l) == IF AnySyncing(l) THEN "active" ELSE "idle"

\* Both writers of connectedClients compare the activity before and after and
\* leave an event for after the unlock.
\* Mutant: the event is decided by the new state alone.
AnnounceAlways(c, l) == news' = [news EXCEPT ![c] = Activity(l)]
Announce(c, l) ==
  news' = IF AnySyncing(l) = AnySyncing(listed) THEN news
          ELSE [news EXCEPT ![c] = Activity(l)]

\* SetClientState
SetClientState(c, state) ==
  /\ listed' = [listed EXCEPT ![ClientOf[c]] = state]
  /\ Announce(c, listed')

Goto(c, where) == pc' = [pc EXCEPT ![c] = where]
At(c, where)   == pc[c] = where /\ news[c] = "none"

-----------------------------------------------------------------------------
(* The handlers. *)

\* handleHello: the connection knows its client, which is not registered yet.
Hello(c) ==
  /\ At(c, "closed")
  /\ Goto(c, "hello")
  /\ UNCHANGED <<sid, news, active, listed, session, faults, shown, balance,
                 overlapped, orphans>>

\* The end of handleAuth and handlePair: RegisterClientConnection.
Register(c) ==
  /\ At(c, "hello")
  /\ active' = active \cup {c}
  /\ overlapped' = IF ConnsOf(ClientOf[c]) = {} THEN overlapped
                   ELSE overlapped \cup {ClientOf[c]}
  /\ Goto(c, "registered")
  /\ UNCHANGED <<sid, news, listed, session, faults, shown, balance, orphans>>

\* ... then SetClientState.
Authenticated(c) ==
  /\ At(c, "registered")
  /\ SetClientState(c, "connected")
  /\ Goto(c, "ready")
  /\ UNCHANGED <<sid, active, session, faults, shown, balance, overlapped, orphans>>

\* handleSyncBegin: UpsertSession, and SYNC_BEGIN_RES still to be sent.
SyncBegin(c) ==
  /\ At(c, "ready") /\ Unseen # {}
  /\ session' = [session EXCEPT ![NewSession] = "transferring"]
  /\ sid' = [sid EXCEPT ![c] = NewSession]
  /\ Goto(c, "begin")
  /\ UNCHANGED <<news, active, listed, faults, shown, balance, overlapped, orphans>>

\* ... then SetClientState.
SyncBegun(c) ==
  /\ At(c, "begin")
  /\ SetClientState(c, "syncing")
  /\ Goto(c, "syncing")
  /\ UNCHANGED <<sid, active, session, faults, shown, balance, overlapped, orphans>>

\* A session's last write fails, and the failure is only logged.
EndNotWritten(s) ==
  /\ faults < MaxFaults /\ faults' = faults + 1
  /\ orphans' = orphans \cup {s}
  /\ UNCHANGED session

\* handleSyncEnd: CompleteSession.
SyncEnd(c) ==
  /\ At(c, "syncing")
  /\ \/ session' = [session EXCEPT ![sid[c]] = "completed"] /\ UNCHANGED <<faults, orphans>>
     \/ EndNotWritten(sid[c])
  /\ Goto(c, "end")
  /\ UNCHANGED <<sid, news, active, listed, shown, balance, overlapped>>

\* ... then SetClientState.
SyncEnded(c) ==
  /\ At(c, "end")
  /\ SetClientState(c, "connected")
  /\ Goto(c, "ready")
  /\ UNCHANGED <<sid, active, session, faults, shown, balance, overlapped, orphans>>

\* The broadcast a handler or the teardown owes, outside the lock.
Broadcast(c) ==
  /\ news[c] # "none"
  /\ balance' = balance + (IF news[c] = "active" THEN 1 ELSE -1)
  /\ shown' = (news[c] = "active")
  /\ news' = [news EXCEPT ![c] = "none"]
  /\ UNCHANGED <<pc, sid, active, listed, session, faults, overlapped, orphans>>

-----------------------------------------------------------------------------
(* handle()'s deferred teardown. *)

\* The peer is gone, silent for readDeadline or disconnected by the desktop, a
\* handler refused the frame, or an answer could not be sent; then
\* UnregisterClientConnection.
Unregister(c) ==
  /\ pc[c] \in {"hello", "ready", "begin", "syncing"} /\ news[c] = "none"
  /\ active' = active \ {c}
  /\ Goto(c, IF ConnsOf(ClientOf[c]) \ {c} # {} THEN "interrupt" ELSE "remove")
  /\ UNCHANGED <<sid, news, listed, session, faults, shown, balance, overlapped, orphans>>

\* RemoveClient's own look at activeConns.
\* Mutant: what UnregisterClientConnection found is taken to hold still.
UnusedAsFound(x) == TRUE
Unused(x)        == ConnsOf(x) = {}

RemoveClient(c) ==
  /\ At(c, "remove")
  /\ IF Unused(ClientOf[c])
       THEN /\ listed' = [listed EXCEPT ![ClientOf[c]] = "none"]
            /\ Announce(c, listed')
       ELSE UNCHANGED <<listed, news>>
  /\ Goto(c, "interrupt")
  /\ UNCHANGED <<sid, active, session, faults, shown, balance, overlapped, orphans>>

\* The sessions InterruptActiveSession leaves alone.
\* Mutants: none, and the wrong ones.
SpareNone(state) == FALSE
SpareActive(state) == state \notin Terminal
Spared(state)    == state \in Terminal

\* InterruptActiveSession
Interrupt(s) ==
  \/ Spared(session[s]) /\ UNCHANGED <<session, faults, orphans>>
  \/ /\ ~Spared(session[s])
     /\ session' = [session EXCEPT ![s] = "interrupted"]
     /\ UNCHANGED <<faults, orphans>>
  \/ EndNotWritten(s)

\* A connection that never began a round has no session to interrupt.
InterruptSession(c) ==
  /\ At(c, "interrupt")
  /\ IF sid[c] = NoSession THEN UNCHANGED <<session, faults, orphans>> ELSE Interrupt(sid[c])
  /\ sid' = [sid EXCEPT ![c] = NoSession]
  /\ Goto(c, "closed")
  /\ UNCHANGED <<news, active, listed, shown, balance, overlapped>>

\* The sidecar dies; nothing at startup looks at the session rows.
Crash ==
  /\ faults < MaxFaults /\ faults' = faults + 1
  /\ pc' = [c \in Conns |-> "closed"] /\ sid' = [c \in Conns |-> NoSession]
  /\ news' = [c \in Conns |-> "none"] /\ active' = {}
  /\ listed' = [x \in Clients |-> "none"]
  /\ shown' = FALSE /\ balance' = 0
  /\ orphans' = orphans \cup ({sid[c] : c \in Conns} \ {NoSession})
  /\ UNCHANGED <<session, overlapped>>

-----------------------------------------------------------------------------
Init ==
  /\ pc = [c \in Conns |-> "closed"] /\ sid = [c \in Conns |-> NoSession]
  /\ news = [c \in Conns |-> "none"] /\ active = {}
  /\ listed = [x \in Clients |-> "none"]
  /\ session = [s \in Sessions |-> "none"]
  /\ faults = 0 /\ shown = FALSE /\ balance = 0 /\ overlapped = {} /\ orphans = {}

\* Steps that wait for nothing, and those that wait for the phone.
Internal(c) == Authenticated(c) \/ SyncBegun(c) \/ SyncEnded(c) \/ Broadcast(c)
                 \/ RemoveClient(c) \/ InterruptSession(c)
EndOfRound(c) == SyncEnd(c) \/ Unregister(c)

Next == \/ \E c \in Conns : \/ Hello(c) \/ Register(c) \/ SyncBegin(c)
                            \/ Internal(c) \/ EndOfRound(c)
        \/ Crash

Spec == Init /\ [][Next]_vars

\* A goroutine goes on, and the phone either ends the round it began or is gone:
\* a connection that stays silent for readDeadline is closed.
FairSpec == Spec /\ \A c \in Conns : WF_vars(Internal(c)) /\ WF_vars(EndOfRound(c))

-----------------------------------------------------------------------------
(* Properties. *)

PCs == {"closed", "hello", "registered", "ready", "begin", "syncing", "end",
        "remove", "interrupt"}

\* Every variable has the shape its declaration says.
TypeOK ==
  /\ pc \in [Conns -> PCs]
  /\ sid \in [Conns -> Sessions \cup {NoSession}]
  /\ news \in [Conns -> {"none", "active", "idle"}]
  /\ active \subseteq Conns
  /\ listed \in [Clients -> {"none", "connected", "syncing"}]
  /\ session \in [Sessions -> {"none", "transferring"} \cup Terminal]
  /\ faults \in 0 .. MaxFaults
  /\ shown \in BOOLEAN /\ balance \in Int
  /\ overlapped \subseteq Clients /\ orphans \subseteq Sessions

\* A client is listed as long as it has a connection that got through
\* authentication, and no longer than one of its connections still has a part
\* of its teardown to do, however the old and the new one interleave.
ListedWhileConnected ==
  \A x \in Clients :
    /\ (\E c \in Conns : ClientOf[c] = x /\ pc[c] \in {"ready", "begin", "syncing", "end"})
         => listed[x] # "none"
    /\ listed[x] # "none" =>
         \E c \in Conns : ClientOf[c] = x /\ (c \in active \/ pc[c] = "remove")

\* A client that has one connection at a time counts as syncing from its
\* SYNC_BEGIN to its SYNC_END, even while the teardown of its previous
\* connection is still under way.
StateOfSoleConnection ==
  \A c \in Conns : ClientOf[c] \notin overlapped =>
    /\ pc[c] \in {"syncing", "end"} => listed[ClientOf[c]] = "syncing"
    /\ pc[c] \in {"ready", "begin"} => listed[ClientOf[c]] = "connected"

\* Every change of "somebody is syncing" is announced once: counting the
\* events on their way, they add up to the state.
ChangesAnnounced ==
  LET ontheway(v) == Cardinality({c \in Conns : news[c] = v})
  IN balance + ontheway("active") - ontheway("idle") = IF AnySyncing(listed) THEN 1 ELSE 0

\* "Terminal sessions must not be overwritten."
TerminalStays ==
  [][\A s \in Sessions : session[s] \in Terminal => session'[s] = session[s]]_vars

\* "... would otherwise stay transferring forever": a session ends, unless the
\* write of its end failed or the sidecar died in it.
SessionsEnd ==
  \A s \in Sessions : session[s] = "transferring" ~> session[s] \in Terminal \/ s \in orphans

\* What the code does not keep; checked by a run that ends in a counterexample.

\* "Files are being received. Change the root folder after transfer finishes."
\* is what the desktop says of the last event, so once every broadcast is out
\* the last one has the current state.
LastEventCurrent ==
  (\A c \in Conns : news[c] = "none") => shown = AnySyncing(listed)

=============================================================================
