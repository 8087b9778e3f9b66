----------------------- MODULE ClientRegistry_proofs ------------------------
(***************************************************************************)
(* Theorems about ClientRegistry, for any number of clients, connections,  *)
(* sessions and faults: type correctness, what the client map says of the  *)
(* connections (ListedWhileConnected, StateOfSoleConnection), the events   *)
(* (ChangesAnnounced) and the session rows (TerminalStays).                *)
(***************************************************************************)
EXTENDS ClientRegistry, FiniteSetTheorems, TLAPS

-----------------------------------------------------------------------------
(* Lemmas. *)

\* A phone that draws a session id gets one that has no row yet.
LEMMA NewSessionUnseen ==
  ASSUME Unseen # {}
  PROVE  NewSession \in Sessions /\ session[NewSession] = "none"
BY DEF Unseen, NewSession

\* Announce leaves at most one event for the connection.
LEMMA AnnounceType ==
  ASSUME TypeOK, NEW c \in Conns, NEW l, Announce(c, l)
  PROVE  news' \in [Conns -> {"none", "active", "idle"}]
BY DEF Announce, Activity, TypeOK

-----------------------------------------------------------------------------
(* Type correctness. *)

\* A connection inside a round knows the round's session.
SessionOfRound ==
  \A c \in Conns : pc[c] \in {"begin", "syncing", "end"} => sid[c] # NoSession

\* What is inductive about the types: the write of a session's end names a
\* session.
TypeInv == TypeOK /\ SessionOfRound

LEMMA InitType == Init => TypeInv
<1> SUFFICES ASSUME Init PROVE TypeInv
  OBVIOUS
<1> USE RegistryAssumption DEF Init
<1>1. pc \in [Conns -> PCs] /\ sid \in [Conns -> Sessions \cup {NoSession}]
  BY DEF PCs
<1>2. news \in [Conns -> {"none", "active", "idle"}]
  OBVIOUS
<1>3. /\ listed \in [Clients -> {"none", "connected", "syncing"}]
      /\ session \in [Sessions -> {"none", "transferring"} \cup Terminal]
  BY DEF Terminal
<1>4. faults \in 0 .. MaxFaults /\ balance \in Int
  OBVIOUS
<1>5. shown \in BOOLEAN
  BY Zenon
<1> QED
  BY <1>1, <1>2, <1>3, <1>4, <1>5 DEF TypeInv, TypeOK, SessionOfRound

LEMMA NextType == TypeInv /\ [Next]_vars => TypeInv'
<1> SUFFICES ASSUME TypeInv, [Next]_vars
             PROVE  TypeInv'
  OBVIOUS
<1> USE RegistryAssumption DEF TypeInv, SessionOfRound, PCs, Terminal, At, Goto
<1>1. ASSUME NEW c \in Conns, Hello(c) PROVE TypeInv'
  BY <1>1 DEF Hello, TypeOK
<1>2. ASSUME NEW c \in Conns, Register(c) PROVE TypeInv'
  BY <1>2 DEF Register, TypeOK
<1>3. ASSUME NEW c \in Conns, Authenticated(c) PROVE TypeInv'
  BY <1>3, AnnounceType DEF Authenticated, SetClientState, TypeOK
<1>4. ASSUME NEW c \in Conns, SyncBegin(c) PROVE TypeInv'
  BY <1>4, NewSessionUnseen DEF SyncBegin, TypeOK
<1>5. ASSUME NEW c \in Conns, SyncBegun(c) PROVE TypeInv'
  BY <1>5, AnnounceType DEF SyncBegun, SetClientState, TypeOK
<1>6. ASSUME NEW c \in Conns, SyncEnded(c) PROVE TypeInv'
  BY <1>6, AnnounceType DEF SyncEnded, SetClientState, TypeOK
<1>7. ASSUME NEW c \in Conns, Broadcast(c) PROVE TypeInv'
  BY <1>7 DEF Broadcast, TypeOK
<1>8. ASSUME NEW c \in Conns, Unregister(c) PROVE TypeInv'
  BY <1>8 DEF Unregister, TypeOK
<1>9. ASSUME NEW c \in Conns, RemoveClient(c) PROVE TypeInv'
  BY <1>9, AnnounceType DEF RemoveClient, TypeOK
<1>10. ASSUME NEW c \in Conns, InterruptSession(c) PROVE TypeInv'
  BY <1>10 DEF InterruptSession, Interrupt, EndNotWritten, TypeOK
<1>11. ASSUME NEW c \in Conns, SyncEnd(c) PROVE TypeInv'
  <2>1. sid[c] \in Sessions
    BY <1>11 DEF SyncEnd, TypeOK
  <2> QED
    BY <1>11, <2>1 DEF SyncEnd, EndNotWritten, TypeOK
<1>12. CASE Crash
  <2>1. orphans' \subseteq Sessions
    BY <1>12 DEF Crash, TypeOK
  <2>2. /\ faults' \in 0 .. MaxFaults /\ overlapped' \subseteq Clients
        /\ balance' \in Int /\ active' \subseteq Conns
    BY <1>12 DEF Crash, TypeOK
  <2>6. shown' \in BOOLEAN
    BY <1>12, Zenon DEF Crash
  <2>3. session' \in [Sessions -> {"none", "transferring"} \cup Terminal]
    BY <1>12 DEF Crash, TypeOK
  <2>4. /\ pc' \in [Conns -> PCs] /\ sid' \in [Conns -> Sessions \cup {NoSession}]
        /\ news' \in [Conns -> {"none", "active", "idle"}]
        /\ listed' \in [Clients -> {"none", "connected", "syncing"}]
    BY <1>12 DEF Crash
  <2>5. SessionOfRound'
    BY <1>12 DEF Crash
  <2> QED
    BY <2>1, <2>2, <2>3, <2>4, <2>5, <2>6 DEF TypeOK
<1>13. CASE UNCHANGED vars
  BY <1>13 DEF vars, TypeOK
<1> QED
  BY <1>1, <1>2, <1>3, <1>4, <1>5, <1>6, <1>7, <1>8, <1>9, <1>10, <1>11, <1>12, <1>13
  DEF Next, Internal, EndOfRound

LEMMA TypeInvariance == Spec => []TypeInv
BY InitType, NextType, PTL DEF Spec

\* Every reachable state has the shape the declarations say.
THEOREM TypeCorrect == Spec => []TypeOK
<1>1. TypeInv => TypeOK
  BY DEF TypeInv
<1> QED
  BY <1>1, TypeInvariance, PTL

-----------------------------------------------------------------------------
(* The client map. *)

\* activeConns holds the connections between their registration and the start
\* of their teardown.
ActiveWhileOpen ==
  \A c \in Conns : c \in active <=> pc[c] \in {"registered", "ready", "begin", "syncing", "end"}

RegistryInv == ActiveWhileOpen /\ ListedWhileConnected

LEMMA InitRegistry == Init => RegistryInv
BY DEF Init, RegistryInv, ActiveWhileOpen, ListedWhileConnected

\* SetClientState lists the client of a registered connection.
LEMMA SetClientStateLists ==
  ASSUME TypeInv, TypeInv', RegistryInv, NEW c \in Conns, c \in active,
         NEW state \in {"connected", "syncing"}, SetClientState(c, state),
         NEW where \in {"ready", "syncing"}, Goto(c, where), UNCHANGED active
  PROVE  RegistryInv'
<1>1. ClientOf[c] \in Clients
  BY RegistryAssumption
<1>2. ActiveWhileOpen'
  BY DEF RegistryInv, ActiveWhileOpen, Goto, TypeInv, TypeOK
<1>3. listed'[ClientOf[c]] # "none"
  BY <1>1 DEF SetClientState, TypeInv, TypeOK
<1>4. \A x \in Clients : x # ClientOf[c] => listed'[x] = listed[x]
  BY <1>1 DEF SetClientState, TypeInv, TypeOK
<1>5. \A d \in Conns : d # c => pc'[d] = pc[d]
  BY DEF Goto, TypeInv, TypeOK
<1> QED
  BY <1>2, <1>3, <1>4, <1>5 DEF RegistryInv, ListedWhileConnected

LEMMA NextRegistry == TypeInv /\ TypeInv' /\ RegistryInv /\ [Next]_vars => RegistryInv'
<1> SUFFICES ASSUME TypeInv, TypeInv', RegistryInv, [Next]_vars
             PROVE  RegistryInv'
  OBVIOUS
<1> USE RegistryAssumption DEF At
<1> DEFINE Moves(c, where) == \A d \in Conns : pc'[d] = IF d = c THEN where ELSE pc[d]
<1>0. ASSUME NEW c \in Conns, NEW where, Goto(c, where) PROVE Moves(c, where)
  BY <1>0 DEF Goto, TypeInv, TypeOK
<1>1. ASSUME NEW c \in Conns, Hello(c) PROVE RegistryInv'
  BY <1>1, <1>0 DEF Hello, RegistryInv, ActiveWhileOpen, ListedWhileConnected
<1>2. ASSUME NEW c \in Conns, Register(c) PROVE RegistryInv'
  BY <1>2, <1>0 DEF Register, RegistryInv, ActiveWhileOpen, ListedWhileConnected
<1>3. ASSUME NEW c \in Conns, Authenticated(c) PROVE RegistryInv'
  BY <1>3, SetClientStateLists DEF Authenticated, RegistryInv, ActiveWhileOpen
<1>4. ASSUME NEW c \in Conns, SyncBegin(c) PROVE RegistryInv'
  BY <1>4, <1>0 DEF SyncBegin, RegistryInv, ActiveWhileOpen, ListedWhileConnected
<1>5. ASSUME NEW c \in Conns, SyncBegun(c) PROVE RegistryInv'
  BY <1>5, SetClientStateLists DEF SyncBegun, RegistryInv, ActiveWhileOpen
<1>6. ASSUME NEW c \in Conns, SyncEnded(c) PROVE RegistryInv'
  BY <1>6, SetClientStateLists DEF SyncEnded, RegistryInv, ActiveWhileOpen
<1>7. ASSUME NEW c \in Conns, Broadcast(c) PROVE RegistryInv'
  BY <1>7 DEF Broadcast, RegistryInv, ActiveWhileOpen, ListedWhileConnected
<1>8. ASSUME NEW c \in Conns, Unregister(c) PROVE RegistryInv'
  <2>1. PICK where \in {"interrupt", "remove"} :
          /\ Goto(c, where)
          /\ where = "interrupt" => ConnsOf(ClientOf[c]) \ {c} # {}
    BY <1>8 DEF Unregister
  <2>2. Moves(c, where) /\ active' = active \ {c} /\ listed' = listed
    BY <1>8, <2>1, <1>0 DEF Unregister
  <2>3. ActiveWhileOpen'
    BY <2>2 DEF RegistryInv, ActiveWhileOpen
  <2>4. \A x \in Clients :
          (\E d \in Conns : ClientOf[d] = x /\ pc'[d] \in {"ready", "begin", "syncing", "end"})
            => listed'[x] # "none"
    BY <2>2 DEF RegistryInv, ListedWhileConnected
  <2>5. ASSUME NEW x \in Clients, listed'[x] # "none"
        PROVE  \E d \in Conns : ClientOf[d] = x /\ (d \in active' \/ pc'[d] = "remove")
    <3>1. PICK d \in Conns : ClientOf[d] = x /\ (d \in active \/ pc[d] = "remove")
      BY <2>2, <2>5 DEF RegistryInv, ListedWhileConnected
    <3>2. CASE d # c
      BY <3>1, <3>2, <2>2
    <3>3. CASE d = c /\ where = "remove"
      BY <3>1, <3>3, <2>2
    <3>4. CASE d = c /\ where = "interrupt"
      <4>1. PICK e \in active : ClientOf[e] = ClientOf[c] /\ e # c
        BY <2>1, <3>4 DEF ConnsOf
      <4>2. e \in Conns
        BY <4>1 DEF TypeInv, TypeOK
      <4> QED
        BY <4>1, <4>2, <3>1, <3>4, <2>2
    <3> QED
      BY <3>2, <3>3, <3>4
  <2> QED
    BY <2>3, <2>4, <2>5 DEF RegistryInv, ListedWhileConnected
<1>9. ASSUME NEW c \in Conns, RemoveClient(c) PROVE RegistryInv'
  <2>1. Moves(c, "interrupt") /\ active' = active /\ pc[c] = "remove"
    BY <1>9, <1>0 DEF RemoveClient
  <2>2. ActiveWhileOpen'
    BY <2>1 DEF RegistryInv, ActiveWhileOpen
  <2>3. CASE Unused(ClientOf[c])
    <3>1. \A x \in Clients : listed'[x] = IF x = ClientOf[c] THEN "none" ELSE listed[x]
      BY <1>9, <2>3 DEF RemoveClient, TypeInv, TypeOK
    <3>2. \A d \in Conns : ClientOf[d] = ClientOf[c] => d \notin active
      BY <2>3 DEF Unused, ConnsOf
    <3> QED
      BY <2>1, <2>2, <3>1, <3>2 DEF RegistryInv, ListedWhileConnected, ActiveWhileOpen
  <2>4. CASE ~Unused(ClientOf[c])
    <3>1. listed' = listed
      BY <1>9, <2>4 DEF RemoveClient
    <3>2. PICK e \in active : ClientOf[e] = ClientOf[c]
      BY <2>4 DEF Unused, ConnsOf
    <3>3. e \in Conns
      BY <3>2 DEF TypeInv, TypeOK
    <3> QED
      BY <2>1, <2>2, <3>1, <3>2, <3>3 DEF RegistryInv, ListedWhileConnected
  <2> QED
    BY <2>3, <2>4
<1>10. ASSUME NEW c \in Conns, InterruptSession(c) PROVE RegistryInv'
  BY <1>10, <1>0 DEF InterruptSession, RegistryInv, ActiveWhileOpen, ListedWhileConnected
<1>11. ASSUME NEW c \in Conns, SyncEnd(c) PROVE RegistryInv'
  BY <1>11, <1>0 DEF SyncEnd, RegistryInv, ActiveWhileOpen, ListedWhileConnected
<1>12. CASE Crash
  BY <1>12 DEF Crash, RegistryInv, ActiveWhileOpen, ListedWhileConnected
<1>13. CASE UNCHANGED vars
  BY <1>13 DEF vars, RegistryInv, ActiveWhileOpen, ListedWhileConnected
<1> QED
  BY <1>1, <1>2, <1>3, <1>4, <1>5, <1>6, <1>7, <1>8, <1>9, <1>10, <1>11, <1>12, <1>13
  DEF Next, Internal, EndOfRound

\* A connected client is listed and a listed client has a connection, however
\* the teardown of one connection interleaves with the handlers of another:
\* the reason RemoveClient looks at activeConns again.
THEOREM RegistryConsistent == Spec => []ListedWhileConnected
<1>1. RegistryInv => ListedWhileConnected
  BY DEF RegistryInv
<1> QED
  BY <1>1, InitRegistry, NextRegistry, TypeInvariance, PTL DEF Spec

-----------------------------------------------------------------------------
(* The state of a client with one connection at a time. *)

\* A client that never had two registered connections has at most one.
OneActive ==
  \A c, d \in active : ClientOf[c] = ClientOf[d] /\ ClientOf[c] \notin overlapped => c = d

SoleInv == OneActive /\ StateOfSoleConnection

LEMMA InitSole == Init => SoleInv
BY DEF Init, SoleInv, OneActive, StateOfSoleConnection

\* SetClientState says where the connection is, and no other connection of the
\* client is past its registration.
LEMMA SetClientStateSole ==
  ASSUME TypeInv, RegistryInv, SoleInv, NEW c \in active,
         NEW state, NEW where, SetClientState(c, state), Goto(c, where),
         \/ where = "ready" /\ state = "connected"
         \/ where = "syncing" /\ state = "syncing",
         UNCHANGED <<active, overlapped>>
  PROVE  SoleInv'
<1>1. /\ c \in Conns
      /\ \A d \in Conns : pc'[d] = IF d = c THEN where ELSE pc[d]
      /\ \A x \in Clients : listed'[x] = IF x = ClientOf[c] THEN state ELSE listed[x]
  BY DEF SetClientState, Goto, TypeInv, TypeOK
<1>2. ASSUME NEW d \in Conns, ClientOf[d] \notin overlapped, d # c, ClientOf[d] = ClientOf[c]
      PROVE  pc'[d] \notin {"ready", "begin", "syncing", "end"}
  BY <1>1, <1>2 DEF SoleInv, OneActive, RegistryInv, ActiveWhileOpen
<1>3. \A d \in Conns : ClientOf[d] \in Clients
  BY RegistryAssumption
<1>4. StateOfSoleConnection'
  BY <1>1, <1>2, <1>3 DEF SoleInv, StateOfSoleConnection
<1> QED
  BY <1>4 DEF SoleInv, OneActive

LEMMA NextSole == TypeInv /\ RegistryInv /\ SoleInv /\ [Next]_vars => SoleInv'
<1> SUFFICES ASSUME TypeInv, RegistryInv, SoleInv, [Next]_vars
             PROVE  SoleInv'
  OBVIOUS
<1> USE RegistryAssumption DEF At
<1> DEFINE Moves(c, where) == \A d \in Conns : pc'[d] = IF d = c THEN where ELSE pc[d]
<1>0. ASSUME NEW c \in Conns, NEW where, Goto(c, where) PROVE Moves(c, where)
  BY <1>0 DEF Goto, TypeInv, TypeOK
<1>1. ASSUME NEW c \in Conns, Hello(c) PROVE SoleInv'
  BY <1>1, <1>0 DEF Hello, SoleInv, OneActive, StateOfSoleConnection
<1>2. ASSUME NEW c \in Conns, Register(c) PROVE SoleInv'
  <2>1. /\ Moves(c, "registered") /\ active' = active \cup {c} /\ listed' = listed
        /\ overlapped \subseteq overlapped'
        /\ ConnsOf(ClientOf[c]) # {} => ClientOf[c] \in overlapped'
    BY <1>2, <1>0 DEF Register
  <2>2. \A d \in active : ClientOf[d] = ClientOf[c] => ClientOf[c] \in overlapped'
    BY <2>1 DEF ConnsOf
  <2>3. OneActive'
    BY <2>1, <2>2 DEF SoleInv, OneActive
  <2> QED
    BY <2>1, <2>3 DEF SoleInv, StateOfSoleConnection
<1>3. ASSUME NEW c \in Conns, Authenticated(c) PROVE SoleInv'
  BY <1>3, SetClientStateSole DEF Authenticated, RegistryInv, ActiveWhileOpen
<1>4. ASSUME NEW c \in Conns, SyncBegin(c) PROVE SoleInv'
  BY <1>4, <1>0 DEF SyncBegin, SoleInv, OneActive, StateOfSoleConnection
<1>5. ASSUME NEW c \in Conns, SyncBegun(c) PROVE SoleInv'
  BY <1>5, SetClientStateSole DEF SyncBegun, RegistryInv, ActiveWhileOpen
<1>6. ASSUME NEW c \in Conns, SyncEnded(c) PROVE SoleInv'
  BY <1>6, SetClientStateSole DEF SyncEnded, RegistryInv, ActiveWhileOpen
<1>7. ASSUME NEW c \in Conns, Broadcast(c) PROVE SoleInv'
  BY <1>7 DEF Broadcast, SoleInv, OneActive, StateOfSoleConnection
<1>8. ASSUME NEW c \in Conns, Unregister(c) PROVE SoleInv'
  <2>1. PICK where \in {"interrupt", "remove"} : Goto(c, where)
    BY <1>8 DEF Unregister
  <2> QED
    BY <1>8, <2>1, <1>0 DEF Unregister, SoleInv, OneActive, StateOfSoleConnection
<1>9. ASSUME NEW c \in Conns, RemoveClient(c) PROVE SoleInv'
  <2>1. Moves(c, "interrupt") /\ UNCHANGED <<active, overlapped>>
    BY <1>9, <1>0 DEF RemoveClient
  <2>2. CASE Unused(ClientOf[c])
    <3>1. \A x \in Clients : x # ClientOf[c] => listed'[x] = listed[x]
      BY <1>9, <2>2 DEF RemoveClient, TypeInv, TypeOK
    <3>2. \A d \in Conns : ClientOf[d] = ClientOf[c] => d \notin active
      BY <2>2 DEF Unused, ConnsOf
    <3> QED
      BY <2>1, <3>1, <3>2
         DEF SoleInv, OneActive, StateOfSoleConnection, RegistryInv, ActiveWhileOpen
  <2>3. CASE ~Unused(ClientOf[c])
    BY <1>9, <2>1, <2>3 DEF RemoveClient, SoleInv, OneActive, StateOfSoleConnection
  <2> QED
    BY <2>2, <2>3
<1>10. ASSUME NEW c \in Conns, InterruptSession(c) PROVE SoleInv'
  BY <1>10, <1>0 DEF InterruptSession, SoleInv, OneActive, StateOfSoleConnection
<1>11. ASSUME NEW c \in Conns, SyncEnd(c) PROVE SoleInv'
  BY <1>11, <1>0 DEF SyncEnd, SoleInv, OneActive, StateOfSoleConnection
<1>12. CASE Crash
  BY <1>12 DEF Crash, SoleInv, OneActive, StateOfSoleConnection
<1>13. CASE UNCHANGED vars
  BY <1>13 DEF vars, SoleInv, OneActive, StateOfSoleConnection
<1> QED
  BY <1>1, <1>2, <1>3, <1>4, <1>5, <1>6, <1>7, <1>8, <1>9, <1>10, <1>11, <1>12, <1>13
  DEF Next, Internal, EndOfRound

\* What the desktop shows of a phone with one connection at a time follows its
\* SYNC_BEGIN and SYNC_END, even while the teardown of the phone's previous
\* connection is under way.
THEOREM SoleConnectionShown == Spec => []StateOfSoleConnection
<1>1. SoleInv => StateOfSoleConnection
  BY DEF SoleInv
<1> QED
  BY <1>1, InitRegistry, NextRegistry, InitSole, NextSole, TypeInvariance, PTL DEF Spec

-----------------------------------------------------------------------------
(* The events.  Each step changes the sum of ChangesAnnounced as it        *)
(* changes the state.                                                      *)

OnTheWay(v) == {c \in Conns : news[c] = v}
Sum         == balance + Cardinality(OnTheWay("active")) - Cardinality(OnTheWay("idle"))
Syncing     == IF AnySyncing(listed) THEN 1 ELSE 0

LEMMA CountsAreNat ==
  ASSUME IsFiniteSet(Conns), TypeInv, NEW v
  PROVE  IsFiniteSet(OnTheWay(v)) /\ Cardinality(OnTheWay(v)) \in Nat
<1>1. IsFiniteSet(OnTheWay(v))
  BY FS_Subset DEF OnTheWay
<1> QED
  BY <1>1, FS_CardinalityType

\* An event of one connection is added to those on their way, or taken away.
LEMMA CountOne ==
  ASSUME IsFiniteSet(Conns), TypeInv, NEW c \in Conns, NEW v,
         \A d \in Conns : d # c => news'[d] = news[d]
  PROVE  /\ Cardinality(OnTheWay(v)') \in Nat
         /\ (news[c] = v <=> news'[c] = v) => OnTheWay(v)' = OnTheWay(v)
         /\ news[c] # v /\ news'[c] = v
              => Cardinality(OnTheWay(v)') = Cardinality(OnTheWay(v)) + 1
         /\ news[c] = v /\ news'[c] # v
              => Cardinality(OnTheWay(v)') = Cardinality(OnTheWay(v)) - 1
<1>1. IsFiniteSet(OnTheWay(v)) /\ Cardinality(OnTheWay(v)) \in Nat
  BY CountsAreNat
<1>2. CASE news[c] = v <=> news'[c] = v
  BY <1>1, <1>2 DEF OnTheWay
<1>3. CASE news[c] # v /\ news'[c] = v
  <2>1. OnTheWay(v)' = OnTheWay(v) \cup {c} /\ c \notin OnTheWay(v)
    BY <1>3 DEF OnTheWay
  <2>2. Cardinality(OnTheWay(v)') = Cardinality(OnTheWay(v)) + 1
    BY <1>1, <2>1, FS_AddElement
  <2> QED
    BY <1>1, <1>3, <2>2
<1>4. CASE news[c] = v /\ news'[c] # v
  <2>1. OnTheWay(v)' = OnTheWay(v) \ {c} /\ c \in OnTheWay(v)
    BY <1>4 DEF OnTheWay
  <2>2. Cardinality(OnTheWay(v)') = Cardinality(OnTheWay(v)) - 1
    BY <1>1, <2>1, FS_RemoveElement
  <2>3. IsFiniteSet(OnTheWay(v)')
    BY <1>1, <2>1, FS_RemoveElement
  <2>4. Cardinality(OnTheWay(v)') \in Nat
    BY <2>3, FS_CardinalityType
  <2> QED
    BY <1>4, <2>2, <2>4
<1> QED
  BY <1>2, <1>3, <1>4

\* A change of the state is announced.
LEMMA AnnouncedSum ==
  ASSUME IsFiniteSet(Conns), TypeInv, Sum = Syncing, NEW c \in Conns, news[c] = "none",
         Announce(c, listed'), balance' = balance
  PROVE  Sum' = Syncing'
<1>1. balance \in Int /\ news \in [Conns -> {"none", "active", "idle"}]
  BY DEF TypeInv, TypeOK
<1>2. CASE AnySyncing(listed') = AnySyncing(listed)
  <2>1. news' = news
    BY <1>2 DEF Announce
  <2>2. OnTheWay("active")' = OnTheWay("active") /\ OnTheWay("idle")' = OnTheWay("idle")
    BY <2>1 DEF OnTheWay
  <2> QED
    BY <1>2, <2>2 DEF Sum, Syncing
<1>3. CASE AnySyncing(listed') # AnySyncing(listed)
  <2>1. news' = [news EXCEPT ![c] = Activity(listed')]
    BY <1>3 DEF Announce
  <2>2. news'[c] = Activity(listed') /\ \A d \in Conns : d # c => news'[d] = news[d]
    BY <1>1, <2>1
  <2>3. /\ Cardinality(OnTheWay("active")) \in Nat /\ Cardinality(OnTheWay("idle")) \in Nat
    BY CountsAreNat
  <2>4. CASE AnySyncing(listed')
    <3>1. news'[c] = "active" /\ ~AnySyncing(listed)
      BY <1>3, <2>2, <2>4 DEF Activity, AnySyncing
    <3>2. /\ Cardinality(OnTheWay("active")') = Cardinality(OnTheWay("active")) + 1
          /\ OnTheWay("idle")' = OnTheWay("idle")
      BY <2>2, <3>1, CountOne
    <3> QED
      BY <1>1, <2>3, <2>4, <3>1, <3>2 DEF Sum, Syncing
  <2>5. CASE ~AnySyncing(listed')
    <3>1. news'[c] = "idle" /\ AnySyncing(listed)
      BY <1>3, <2>2, <2>5 DEF Activity, AnySyncing
    <3>2. /\ Cardinality(OnTheWay("idle")') = Cardinality(OnTheWay("idle")) + 1
          /\ OnTheWay("active")' = OnTheWay("active")
      BY <2>2, <3>1, CountOne
    <3> QED
      BY <1>1, <2>3, <2>5, <3>1, <3>2 DEF Sum, Syncing
  <2> QED
    BY <2>4, <2>5
<1> QED
  BY <1>2, <1>3

\* An event that goes out moves from one part of the sum to the other.
LEMMA BroadcastSum ==
  ASSUME IsFiniteSet(Conns), TypeInv, Sum = Syncing, NEW c \in Conns, Broadcast(c)
  PROVE  Sum' = Syncing'
<1>1. balance \in Int /\ news \in [Conns -> {"none", "active", "idle"}]
  BY DEF TypeInv, TypeOK
<1>2. /\ news'[c] = "none" /\ \A d \in Conns : d # c => news'[d] = news[d]
      /\ news[c] \in {"active", "idle"} /\ listed' = listed
      /\ balance' = balance + (IF news[c] = "active" THEN 1 ELSE -1)
  BY <1>1 DEF Broadcast
<1>3. /\ Cardinality(OnTheWay("active")) \in Nat /\ Cardinality(OnTheWay("idle")) \in Nat
  BY CountsAreNat
<1>4. Syncing' = Syncing
  BY <1>2 DEF Syncing, AnySyncing
<1>5. CASE news[c] = "active"
  <2>1. /\ Cardinality(OnTheWay("active")') = Cardinality(OnTheWay("active")) - 1
        /\ OnTheWay("idle")' = OnTheWay("idle")
    BY <1>2, <1>5, CountOne
  <2> QED
    BY <1>1, <1>2, <1>3, <1>4, <1>5, <2>1 DEF Sum
<1>6. CASE news[c] = "idle"
  <2>1. /\ Cardinality(OnTheWay("idle")') = Cardinality(OnTheWay("idle")) - 1
        /\ OnTheWay("active")' = OnTheWay("active")
    BY <1>2, <1>6, CountOne
  <2> QED
    BY <1>1, <1>2, <1>3, <1>4, <1>6, <2>1 DEF Sum
<1> QED
  BY <1>2, <1>5, <1>6

\* Nothing is on its way and nobody is syncing.
Nothing == /\ balance = 0
           /\ \A c \in Conns : news[c] = "none"
           /\ \A x \in Clients : listed[x] = "none"

LEMMA NothingSum == Nothing => Sum = Syncing
<1> SUFFICES ASSUME Nothing PROVE Sum = Syncing
  OBVIOUS
<1> USE DEF Nothing
<1>1. OnTheWay("active") = {} /\ OnTheWay("idle") = {}
  BY DEF OnTheWay
<1>2. Cardinality({}) = 0
  BY FS_EmptySet
<1> QED
  BY <1>1, <1>2 DEF Sum, Syncing, AnySyncing

LEMMA NextSum ==
  IsFiniteSet(Conns) /\ TypeInv /\ Sum = Syncing /\ [Next]_vars => (Sum = Syncing)'
<1> SUFFICES ASSUME IsFiniteSet(Conns), TypeInv, Sum = Syncing, [Next]_vars
             PROVE  (Sum = Syncing)'
  OBVIOUS
<1>1. ASSUME UNCHANGED <<news, listed, balance>> PROVE (Sum = Syncing)'
  BY <1>1 DEF Sum, Syncing, OnTheWay, AnySyncing
<1>2. ASSUME NEW c \in Conns,
             Hello(c) \/ Register(c) \/ SyncBegin(c) \/ EndOfRound(c) \/ InterruptSession(c)
      PROVE  (Sum = Syncing)'
  BY <1>1, <1>2 DEF Hello, Register, SyncBegin, EndOfRound, SyncEnd, Unregister, InterruptSession
<1>3. ASSUME NEW c \in Conns, Authenticated(c) \/ SyncBegun(c) \/ SyncEnded(c)
      PROVE  (Sum = Syncing)'
  BY <1>3, AnnouncedSum DEF Authenticated, SyncBegun, SyncEnded, SetClientState, At
<1>4. ASSUME NEW c \in Conns, RemoveClient(c) PROVE (Sum = Syncing)'
  BY <1>1, <1>4, AnnouncedSum DEF RemoveClient, At
<1>5. ASSUME NEW c \in Conns, Broadcast(c) PROVE (Sum = Syncing)'
  BY <1>5, BroadcastSum
<1>6. CASE Crash
  <2>1. Nothing'
    BY <1>6 DEF Crash, Nothing
  <2>2. (Nothing => Sum = Syncing)'
    BY NothingSum, PTL
  <2> QED
    BY <2>1, <2>2
<1>7. CASE UNCHANGED vars
  BY <1>1, <1>7 DEF vars
<1> QED
  BY <1>2, <1>3, <1>4, <1>5, <1>6, <1>7 DEF Next, Internal

\* Every change of "somebody is syncing" is announced exactly once, however the
\* broadcasts outside TCPServer.mu are overtaken by each other.  The count is
\* of a finite number of connections.
THEOREM ChangesAnnouncedOnce == ASSUME IsFiniteSet(Conns) PROVE Spec => []ChangesAnnounced
<1>1. Init => Sum = Syncing
  BY NothingSum DEF Init, Nothing
<1>2. TypeInv /\ Sum = Syncing /\ [Next]_vars => (Sum = Syncing)'
  BY NextSum
<1>3. Sum = Syncing => ChangesAnnounced
  BY DEF Sum, Syncing, OnTheWay, ChangesAnnounced
<1> QED
  BY <1>1, <1>2, <1>3, TypeInvariance, PTL DEF Spec

-----------------------------------------------------------------------------
(* Sessions. *)

\* A session id belongs to one connection, has a row, and is transferring
\* until the connection leaves the round.
RoundInv ==
  /\ \A c \in Conns : sid[c] # NoSession => session[sid[c]] # "none"
  /\ \A c, d \in Conns : c # d /\ sid[c] = sid[d] => sid[c] = NoSession
  /\ \A c \in Conns : pc[c] \in {"begin", "syncing"} => session[sid[c]] = "transferring"

\* What TerminalStays says of one step.
KeepsTerminal == \A s \in Sessions : session[s] \in Terminal => session'[s] = session[s]

LEMMA InitRound == Init => RoundInv
BY DEF Init, RoundInv

\* A step that leaves sid and the rows alone and starts no round.
LEMMA RoundUnmoved ==
  ASSUME TypeInv, RoundInv, UNCHANGED <<sid, session>>,
         \A c \in Conns : pc'[c] \in {"begin", "syncing"} => pc[c] \in {"begin", "syncing"}
  PROVE  RoundInv' /\ KeepsTerminal
BY DEF RoundInv, KeepsTerminal

LEMMA NextRound == TypeInv /\ TypeInv' /\ RoundInv /\ [Next]_vars => RoundInv' /\ KeepsTerminal
<1> SUFFICES ASSUME TypeInv, TypeInv', RoundInv, [Next]_vars
             PROVE  RoundInv' /\ KeepsTerminal
  OBVIOUS
<1> USE DEF At
<1> DEFINE Moves(c, where) == \A d \in Conns : pc'[d] = IF d = c THEN where ELSE pc[d]
<1>0. ASSUME NEW c \in Conns, NEW where, Goto(c, where) PROVE Moves(c, where)
  BY <1>0 DEF Goto, TypeInv, TypeOK
<1>1. ASSUME NEW c \in Conns, Hello(c) PROVE RoundInv' /\ KeepsTerminal
  BY <1>1, <1>0, RoundUnmoved DEF Hello
<1>2. ASSUME NEW c \in Conns, Register(c) PROVE RoundInv' /\ KeepsTerminal
  BY <1>2, <1>0, RoundUnmoved DEF Register
<1>3. ASSUME NEW c \in Conns, Authenticated(c) PROVE RoundInv' /\ KeepsTerminal
  BY <1>3, <1>0, RoundUnmoved DEF Authenticated
<1>4. ASSUME NEW c \in Conns, SyncBegin(c) PROVE RoundInv' /\ KeepsTerminal
  <2>1. /\ NewSession \in Sessions /\ session[NewSession] = "none"
        /\ NewSession # NoSession
    BY <1>4, NewSessionUnseen, RegistryAssumption DEF SyncBegin
  <2>2. /\ \A d \in Conns : sid'[d] = IF d = c THEN NewSession ELSE sid[d]
        /\ \A s \in Sessions : session'[s] = IF s = NewSession THEN "transferring" ELSE session[s]
    BY <1>4 DEF SyncBegin, TypeInv, TypeOK
  <2>3. \A d \in Conns : sid[d] \in Sessions \cup {NoSession} /\ sid[d] # NewSession
    BY <2>1 DEF RoundInv, TypeInv, TypeOK
  <2>4. Moves(c, "begin")
    BY <1>4, <1>0 DEF SyncBegin
  <2>5. \A d \in Conns : pc[d] \in {"begin", "syncing"} => sid[d] # NoSession
    BY DEF TypeInv, SessionOfRound
  <2>6. KeepsTerminal
    BY <2>1, <2>2 DEF KeepsTerminal, Terminal
  <2> QED
    BY <2>1, <2>2, <2>3, <2>4, <2>5, <2>6 DEF RoundInv
<1>5. ASSUME NEW c \in Conns, SyncBegun(c) PROVE RoundInv' /\ KeepsTerminal
  BY <1>5, <1>0, RoundUnmoved DEF SyncBegun
<1>6. ASSUME NEW c \in Conns, SyncEnded(c) PROVE RoundInv' /\ KeepsTerminal
  BY <1>6, <1>0, RoundUnmoved DEF SyncEnded
<1>7. ASSUME NEW c \in Conns, Broadcast(c) PROVE RoundInv' /\ KeepsTerminal
  BY <1>7, RoundUnmoved DEF Broadcast
<1>8. ASSUME NEW c \in Conns, Unregister(c) PROVE RoundInv' /\ KeepsTerminal
  BY <1>8, <1>0, RoundUnmoved DEF Unregister
<1>9. ASSUME NEW c \in Conns, RemoveClient(c) PROVE RoundInv' /\ KeepsTerminal
  BY <1>9, <1>0, RoundUnmoved DEF RemoveClient
<1>10. ASSUME NEW c \in Conns, InterruptSession(c) PROVE RoundInv' /\ KeepsTerminal
  <2>1. /\ Moves(c, "closed")
        /\ \A d \in Conns : sid'[d] = IF d = c THEN NoSession ELSE sid[d]
    BY <1>10, <1>0 DEF InterruptSession, TypeInv, TypeOK
  <2>2. \/ session' = session
        \/ /\ sid[c] # NoSession /\ session[sid[c]] \notin Terminal
           /\ session' = [session EXCEPT ![sid[c]] = "interrupted"]
    BY <1>10 DEF InterruptSession, Interrupt, Spared, EndNotWritten
  <2>3. \A s \in Sessions : s # sid[c] => session'[s] = session[s]
    BY <2>2 DEF TypeInv, TypeOK
  <2>4. \A d \in Conns : sid[d] # NoSession => session'[sid[d]] # "none"
    BY <2>2 DEF RoundInv, TypeInv, TypeOK
  <2>5. ASSUME NEW d \in Conns, pc'[d] \in {"begin", "syncing"}
        PROVE  session'[sid'[d]] = "transferring"
    <3>1. d # c /\ pc[d] \in {"begin", "syncing"} /\ sid'[d] = sid[d]
      BY <2>1, <2>5
    <3>2. sid[d] \in Sessions /\ sid[d] # sid[c]
      BY <3>1 DEF TypeInv, TypeOK, SessionOfRound, RoundInv
    <3> QED
      BY <3>1, <3>2, <2>3 DEF RoundInv
  <2>6. KeepsTerminal
    BY <2>2, <2>3 DEF KeepsTerminal
  <2> QED
    BY <2>1, <2>4, <2>5, <2>6 DEF RoundInv
<1>11. ASSUME NEW c \in Conns, SyncEnd(c) PROVE RoundInv' /\ KeepsTerminal
  <2>1. Moves(c, "end") /\ sid' = sid /\ sid[c] \in Sessions /\ session[sid[c]] = "transferring"
    BY <1>11, <1>0 DEF SyncEnd, TypeInv, TypeOK, SessionOfRound, RoundInv
  <2>2. \/ session' = session
        \/ session' = [session EXCEPT ![sid[c]] = "completed"]
    BY <1>11 DEF SyncEnd, EndNotWritten
  <2>3. \A s \in Sessions : s # sid[c] => session'[s] = session[s]
    BY <2>2 DEF TypeInv, TypeOK
  <2>4. \A d \in Conns : sid[d] # NoSession => session'[sid[d]] # "none"
    BY <2>2 DEF RoundInv, TypeInv, TypeOK
  <2>5. ASSUME NEW d \in Conns, pc'[d] \in {"begin", "syncing"}
        PROVE  session'[sid[d]] = "transferring"
    <3>1. d # c /\ pc[d] \in {"begin", "syncing"}
      BY <2>1, <2>5
    <3>2. sid[d] \in Sessions /\ sid[d] # sid[c]
      BY <3>1 DEF TypeInv, TypeOK, SessionOfRound, RoundInv
    <3> QED
      BY <3>1, <3>2, <2>3 DEF RoundInv
  <2>6. KeepsTerminal
    BY <2>1, <2>3 DEF KeepsTerminal, Terminal
  <2> QED
    BY <2>1, <2>4, <2>5, <2>6 DEF RoundInv
<1>12. CASE Crash
  BY <1>12 DEF Crash, RoundInv, KeepsTerminal
<1>13. CASE UNCHANGED vars
  BY <1>13, RoundUnmoved DEF vars
<1> QED
  BY <1>1, <1>2, <1>3, <1>4, <1>5, <1>6, <1>7, <1>8, <1>9, <1>10, <1>11, <1>12, <1>13
  DEF Next, Internal, EndOfRound

\* A session that was completed or interrupted is never written again, whichever
\* connection ends when.
THEOREM TerminalSessionsStay == Spec => TerminalStays
<1>1. TypeInv /\ TypeInv' /\ RoundInv /\ [Next]_vars => RoundInv' /\ [KeepsTerminal]_vars
  BY NextRound
<1>2. TerminalStays <=> [][KeepsTerminal]_vars
  BY PTL DEF TerminalStays, KeepsTerminal
<1> QED
  BY <1>1, <1>2, InitRound, TypeInvariance, PTL DEF Spec

=============================================================================
