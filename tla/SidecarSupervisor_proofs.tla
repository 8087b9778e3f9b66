---------------------- MODULE SidecarSupervisor_proofs ----------------------
(***************************************************************************)
(* Theorems about SidecarSupervisor, for any number of child processes,    *)
(* restart timers, restarts, health requests under way and budgets: type   *)
(* correctness, NoOrphan and HealthyIsWatched.                             *)
(*                                                                         *)
(* Neither invariant is inductive.  That a start() does not leave a        *)
(* healthy sidecar unwatched needs that it begins only while the state is  *)
(* "starting", so that a restart timer runs only while nothing healthy     *)
(* holds the port; and that the next start() spawns the only child needs   *)
(* that no two of them prepare at a time, which is where the assumption    *)
(* about time (NothingAsked) comes in.                                     *)
(***************************************************************************)
EXTENDS SidecarSupervisor, TLAPS

-----------------------------------------------------------------------------
(* The inductive invariant. *)

\* The calls of start() that have not spawned yet.
Prepares(k) == call[k].pc \in {"snapshot", "kill", "portwait"}

\* Who is where: start() is called at the beginning and by timers, stop() by Quit,
\* and only before the calls that hang or are retried.
CallInv ==
  /\ \A k \in Timed : call[k].pc # "ready"
  /\ \A k \in Calls \ {"quit", "retry"} :
       call[k].pc \in {"ready", "idle", "snapshot", "kill", "portwait", "health"}
  /\ call["quit"].pc \in {"idle", "exitwait", "stopkill", "stopwait"}
  /\ call["retry"].pc = "idle"
  /\ ~stopping => call["quit"].pc = "idle"

\* Once stop() was called no start() begins any more.
StopInv == stopping => ~timer /\ call["boot"].pc # "ready"

\* Nothing has happened before the first start().
BootInv ==
  call["boot"].pc = "ready" =>
    /\ ~polling /\ ~timer /\ status = "starting" /\ checks = 0 /\ child = NoProcess
    /\ \A k \in Timed : call[k].pc = "idle"

\* The port: nothing hangs on it, and the sidecar that ran before does not live
\* beside a child.
PortInv ==
  /\ \A p \in Procs : proc[p] # "hung"
  /\ proc[External] # "booting"
  /\ child # NoProcess => ~Alive(External)

\* A restart timer runs only while there is no sidecar.
TimerInv ==
  timer => /\ child = NoProcess /\ ~Healthy /\ status # "healthy"
           /\ \A k \in Calls : ~Prepares(k)

\* One start() prepares at a time, with no child, no request and no timer.
PrepareInv ==
  \A k \in Calls : Prepares(k) =>
    /\ child = NoProcess /\ checks = 0 /\ ~polling /\ ~timer /\ status # "healthy"
    /\ \A j \in Calls : Prepares(j) => j = k

\* Whoever waits for the health of a child that is gone waits in vain.
WaitInv ==
  child = NoProcess /\ (\E k \in Calls : call[k].pc = "health") => ~Healthy

\* Where the interval asks or has asked, nothing is still coming up.
AskInv == polling \/ checks > 0 => \A p \in Procs : proc[p] # "booting"

WatchInv == status = "healthy" => polling \/ recovering

SteadyInv ==
  /\ BootInv /\ PortInv /\ TimerInv /\ PrepareInv /\ WaitInv /\ AskInv /\ WatchInv
  /\ NoOrphan

\* Whoever waits for a child's health has spawned one.
TypeInv == TypeOK /\ \A k \in Calls : call[k].pc = "health" => call[k].own \in Children

SupervisorInv == TypeInv /\ (Undisturbed => CallInv /\ StopInv /\ (~stopping => SteadyInv))
-----------------------------------------------------------------------------
(* Helpers: the records of the calls, the budget, the next child. *)

CallStates == {"ready", "idle", "snapshot", "kill", "portwait", "health",
               "exitwait", "stopkill", "stopwait"}
Records     == [pc : CallStates, own : Children \cup {NoProcess}]
CallRecords == {r \in Records : r.pc = "health" => r.own \in Children}
States      == {"none", "booting", "serving", "hung", "exited"}

CallTypes == call \in [Calls -> CallRecords]
ProcTypes == proc \in [Procs -> States] /\ termed \subseteq Procs
ManagerTypes ==
  /\ child \in Children \cup {NoProcess} /\ restarts \in 0..MaxRestarts
  /\ status \in {"starting", "healthy", "failed", "stopped"}
  /\ polling \in BOOLEAN /\ timer \in BOOLEAN
  /\ stopping \in BOOLEAN /\ recovering \in BOOLEAN
BudgetTypes ==
  /\ events.left \in [{"crash", "hang", "refusal", "retry"} -> Nat]
  /\ events.seen \subseteq {"crash", "hang", "refusal", "retry"}
RestTypes ==
  /\ old \in BOOLEAN /\ checks \in 0..MaxInFlight
  /\ app \in {"running", "quitting", "gone"} /\ abandoned \in BOOLEAN

LEMMA Types ==
  TypeInv <=> CallTypes /\ ProcTypes /\ ManagerTypes /\ BudgetTypes /\ RestTypes
<1>1. CallTypes <=> /\ call \in [Calls -> Records]
                    /\ \A k \in Calls : call[k].pc = "health" => call[k].own \in Children
  BY DEF CallTypes, CallRecords
<1> QED
  BY <1>1, Zenon DEF TypeInv, TypeOK, Records, CallStates, ProcTypes, States, ManagerTypes,
                     BudgetTypes, RestTypes

LEMMA TypesNext ==
  CallTypes' /\ ProcTypes' /\ ManagerTypes' /\ BudgetTypes' /\ RestTypes' => TypeInv'
<1>1. CallTypes' <=> /\ call' \in [Calls -> Records]
                     /\ \A k \in Calls : call'[k].pc = "health" => call'[k].own \in Children
  BY DEF CallTypes, CallRecords, Records
<1> QED
  BY <1>1, Zenon DEF TypeInv, TypeOK, Records, CallStates, ProcTypes, States, ManagerTypes,
                     BudgetTypes, RestTypes

\* One call goes on, the others wait where they waited.
LEMMA CallGoesOn ==
  ASSUME CallTypes, NEW k \in Calls, NEW pc \in CallStates,
         NEW own \in Children \cup {NoProcess}, Waits(k, pc, own),
         pc = "health" => own \in Children
  PROVE  /\ CallTypes'
         /\ call'[k].pc = pc /\ call'[k].own = own
         /\ \A j \in Calls : j # k => call'[j] = call[j]
<1>1. call' = [call EXCEPT ![k] = [pc |-> pc, own |-> own]]
  BY DEF Waits
<1>2. [pc |-> pc, own |-> own] \in CallRecords
  BY DEF CallRecords, Records
<1> QED
  BY <1>1, <1>2 DEF CallTypes

LEMMA CallReturns ==
  ASSUME CallTypes, NEW k \in Calls, Return(k)
  PROVE  /\ CallTypes'
         /\ call'[k].pc = "idle"
         /\ \A j \in Calls : j # k => call'[j] = call[j]
<1>1. Waits(k, "idle", NoProcess)
  BY DEF Return
<1> QED
  BY <1>1, CallGoesOn DEF CallStates

\* The budget; what was seen stays seen.
LEMMA BudgetStep ==
  ASSUME BudgetTypes, NEW e \in {"crash", "hang", "refusal", "retry"}, Count(e)
  PROVE  BudgetTypes' /\ e \in events'.seen /\ (Undisturbed' => Undisturbed)
<1>1. /\ events' = [left |-> [events.left EXCEPT ![e] = @ - 1],
                    seen |-> events.seen \cup {e}]
      /\ events.left[e] > 0
  BY DEF Count
<1>2. events'.left = [events.left EXCEPT ![e] = @ - 1] /\ events'.seen = events.seen \cup {e}
  BY <1>1
<1>3. events.left[e] - 1 \in Nat
  BY <1>1 DEF BudgetTypes
<1> QED
  BY <1>2, <1>3 DEF BudgetTypes, Undisturbed

LEMMA BudgetKept ==
  ASSUME BudgetTypes, events' = events
  PROVE  BudgetTypes' /\ (Undisturbed' <=> Undisturbed)
BY DEF BudgetTypes, Undisturbed

LEMMA NewChildIsUnused == Unused # {} => NewChild \in Unused
BY DEF NewChild

LEMMA ManagerKept == ManagerTypes /\ UNCHANGED manager => ManagerTypes'
BY Zenon DEF ManagerTypes, manager

LEMMA ProcKept == ProcTypes /\ UNCHANGED <<proc, termed>> => ProcTypes'
BY Zenon DEF ProcTypes

LEMMA RestKept == RestTypes /\ UNCHANGED <<old, checks, app, abandoned>> => RestTypes'
BY Zenon DEF RestTypes

LEMMA CallKept == CallTypes /\ call' = call => CallTypes'
BY Zenon DEF CallTypes

-----------------------------------------------------------------------------
(* The parts the actions are made of. *)

LEMMA HandleFailureTypes ==
  ASSUME SupervisorAssumption, ManagerTypes, HandleFailure
  PROVE  ManagerTypes'
<1>1. restarts' \in 0..MaxRestarts
  BY DEF SupervisorAssumption, ManagerTypes, HandleFailure
<1>2. status' \in {"starting", "healthy", "failed", "stopped"}
  BY Zenon DEF ManagerTypes, HandleFailure
<1>3. timer' \in BOOLEAN
  BY Zenon DEF ManagerTypes, HandleFailure
<1>4. child' = NoProcess /\ polling' = FALSE /\ recovering' = FALSE /\ stopping' = stopping
  BY DEF HandleFailure
<1> QED
  BY <1>1, <1>2, <1>3, <1>4, Zenon DEF ManagerTypes

\* start() up to its first await, called without a child.
Begun(k) ==
  /\ stopping' = FALSE /\ recovering' = FALSE /\ timer' = FALSE /\ polling' = FALSE
  /\ child' = child /\ restarts' = restarts /\ status' = status

LEMMA StartFacts ==
  ASSUME CallTypes, ManagerTypes, NEW k \in Calls, NEW reuse \in BOOLEAN, Start(k, reuse)
  PROVE  /\ CallTypes' /\ ManagerTypes'
         /\ \A j \in Calls : j # k => call'[j] = call[j]
         /\ \/ child # NoProcess /\ UNCHANGED manager /\ call'[k].pc = "idle"
            \/ child = NoProcess /\ Begun(k) /\ call'[k].pc \in {"snapshot", "kill"}
<1>1. CASE child # NoProcess
  <2>1. Return(k) /\ UNCHANGED manager
    BY <1>1 DEF Start
  <2> QED
    BY <1>1, <2>1, CallReturns, ManagerKept
<1>2. CASE child = NoProcess
  <2>1. Begun(k) /\ Waits(k, IF reuse THEN "snapshot" ELSE "kill", NoProcess)
    BY <1>2, Zenon DEF Start, Begun
  <2>2. ManagerTypes'
    BY <2>1, Zenon DEF ManagerTypes, Begun
  <2>3. PICK pc \in {"snapshot", "kill"} : Waits(k, pc, NoProcess)
    BY <2>1
  <2>4. pc \in CallStates
    BY DEF CallStates
  <2>5. CallTypes' /\ call'[k].pc = pc /\ \A j \in Calls : j # k => call'[j] = call[j]
    BY <2>3, <2>4, CallGoesOn
  <2> QED
    BY <1>2, <2>1, <2>2, <2>5
<1> QED
  BY <1>1, <1>2

LEMMA HealthyFacts ==
  ASSUME SupervisorAssumption, CallTypes, ManagerTypes, NEW k \in Calls, BecomeHealthy(k)
  PROVE  /\ CallTypes' /\ ManagerTypes'
         /\ call'[k].pc = "idle" /\ \A j \in Calls : j # k => call'[j] = call[j]
         /\ polling' /\ status' = "healthy"
         /\ child' = child /\ timer' = timer /\ stopping' = stopping /\ recovering' = recovering
<1>1. /\ restarts' = 0 /\ polling' = TRUE /\ status' = "healthy" /\ Return(k)
      /\ child' = child /\ timer' = timer /\ stopping' = stopping /\ recovering' = recovering
  BY DEF BecomeHealthy
<1>2. 0 \in 0..MaxRestarts
  BY DEF SupervisorAssumption
<1>3. ManagerTypes'
  BY <1>1, <1>2, Zenon DEF ManagerTypes
<1> QED
  BY <1>1, <1>3, CallReturns

LEMMA SpawnFacts ==
  ASSUME CallTypes, ManagerTypes, ProcTypes, NEW k \in Calls, Spawn(k)
  PROVE  /\ CallTypes' /\ ManagerTypes' /\ ProcTypes'
         /\ \A j \in Calls : j # k => call'[j] = call[j]
         /\ call'[k].pc = "health" /\ status' = "starting"
         /\ child' \in Children
         /\ proc' = [proc EXCEPT ![child'] = "booting"]
         /\ polling' = polling /\ timer' = timer /\ stopping' = stopping
         /\ recovering' = recovering
<1>1. PICK c : c = NewChild
  OBVIOUS
<1>2. c \in Children
  BY <1>1, NewChildIsUnused DEF Spawn, Unused
<1>3. /\ proc' = [proc EXCEPT ![c] = "booting"] /\ termed' = termed \ {c}
      /\ child' = c /\ status' = "starting" /\ Waits(k, "health", c)
      /\ restarts' = restarts /\ polling' = polling /\ timer' = timer
      /\ stopping' = stopping /\ recovering' = recovering
  BY <1>1 DEF Spawn
<1>4. "health" \in CallStates
  BY DEF CallStates
<1>5. CallTypes' /\ call'[k].pc = "health" /\ \A j \in Calls : j # k => call'[j] = call[j]
  BY <1>2, <1>3, <1>4, CallGoesOn
<1>6. ManagerTypes'
  BY <1>2, <1>3, Zenon DEF ManagerTypes
<1>7. ProcTypes'
  BY <1>2, <1>3 DEF ProcTypes, States, Procs
<1> QED
  BY <1>2, <1>3, <1>5, <1>6, <1>7

\* stop() up to its first await; called with no start() in its way.
LEMMA StopBeginFacts ==
  ASSUME CallTypes, ProcTypes, ManagerTypes, NEW k \in Calls, StopBegin(k),
         restarts' \in 0..MaxRestarts
  PROVE  /\ CallTypes' /\ ManagerTypes' /\ termed' \subseteq Procs
         /\ stopping' /\ ~timer'
         /\ call'[k].pc \in {"exitwait", "stopkill"}
         /\ \A j \in Calls : j # k => call'[j] = call[j]
<1>1. /\ stopping' = TRUE /\ timer' = FALSE /\ polling' = FALSE
      /\ child' = child /\ status' = status /\ recovering' = recovering
  BY DEF StopBegin
<1>2. ManagerTypes'
  BY <1>1, Zenon DEF ManagerTypes
<1>3. "exitwait" \in CallStates /\ "stopkill" \in CallStates
  BY DEF CallStates
<1>4. child \in Children \cup {NoProcess} /\ NoProcess \in Children \cup {NoProcess}
  BY DEF ManagerTypes
<1>5. CASE child # NoProcess
  <2>1. Waits(k, "exitwait", child) /\ termed' = termed \cup {child}
    BY <1>5 DEF StopBegin, Term
  <2>2. CallTypes' /\ call'[k].pc = "exitwait" /\ \A j \in Calls : j # k => call'[j] = call[j]
    BY <2>1, <1>3, <1>4, CallGoesOn
  <2> QED
    BY <1>1, <1>2, <1>4, <1>5, <2>1, <2>2 DEF ProcTypes, Procs
<1>6. CASE child = NoProcess
  <2>1. Waits(k, "stopkill", NoProcess) /\ termed' = termed
    BY <1>6 DEF StopBegin
  <2>2. CallTypes' /\ call'[k].pc = "stopkill" /\ \A j \in Calls : j # k => call'[j] = call[j]
    BY <2>1, <1>3, <1>4, CallGoesOn
  <2> QED
    BY <1>1, <1>2, <2>1, <2>2 DEF ProcTypes
<1> QED
  BY <1>5, <1>6

\* The signal to whoever holds the port.
LEMMA ForceFacts ==
  ASSUME CallTypes, ProcTypes, NEW k \in Calls, NEW pc \in CallStates, ForceShutdown(k, pc),
         pc # "health"
  PROVE  /\ CallTypes' /\ termed' \subseteq Procs /\ call'[k].pc = pc
         /\ \A j \in Calls : j # k => call'[j] = call[j]
<1>1. termed' = termed \cup Foreign /\ Waits(k, pc, NoProcess)
  BY DEF ForceShutdown, Term
<1>2. Foreign \subseteq Procs
  BY DEF Foreign, Holders
<1> QED
  BY <1>1, <1>2, CallGoesOn DEF ProcTypes

-----------------------------------------------------------------------------
(* The steps: the operating system and the health requests. *)

KeptInv == Undisturbed => CallInv /\ StopInv /\ (~stopping => SteadyInv)

LEMMA Parts == SupervisorInv <=> TypeInv /\ KeptInv
BY DEF SupervisorInv, KeptInv

LEMMA PartsNext == TypeInv' /\ KeptInv' => SupervisorInv'
BY DEF SupervisorInv, KeptInv

\* Where no call moves, the parts about the calls and about stop() stay.
LEMMA CallsStay ==
  ASSUME CallInv, StopInv, call' = call, stopping' = stopping, timer' => timer
  PROVE  CallInv' /\ StopInv'
BY DEF CallInv, StopInv

\* Processes that end disturb nothing.
LEMMA ProcessesEnd ==
  ASSUME KeptInv, UNCHANGED <<old, manager, checks, call>>, Undisturbed' => Undisturbed,
         \A q \in Procs : proc'[q] = proc[q] \/ proc'[q] \in {"none", "exited"}
  PROVE  KeptInv'
<1> SUFFICES ASSUME Undisturbed' PROVE CallInv' /\ StopInv' /\ (~stopping' => SteadyInv')
  BY DEF KeptInv
<1>1. /\ child' = child /\ status' = status /\ polling' = polling /\ timer' = timer
      /\ stopping' = stopping /\ recovering' = recovering
  BY DEF manager
<1>2. CallInv /\ StopInv /\ (~stopping => SteadyInv)
  BY DEF KeptInv
<1>3. CallInv' /\ StopInv'
  BY <1>1, <1>2, CallsStay
<1>4. ASSUME ~stopping' PROVE SteadyInv'
  <2>1. SteadyInv
    BY <1>1, <1>2, <1>4
  <2>2. \A q \in Procs : Alive(q)' => Alive(q)
    BY DEF Alive
  <2>3. Healthy' => Healthy
    BY DEF Healthy, Compatible
  <2>4. External \in Procs /\ Children \subseteq Procs
    BY DEF Procs
  <2>5. BootInv'
    BY <1>1, <2>1 DEF SteadyInv, BootInv
  <2>6. PortInv'
    BY <1>1, <2>1, <2>2, <2>4 DEF SteadyInv, PortInv
  <2>7. TimerInv'
    BY <1>1, <2>1, <2>3 DEF SteadyInv, TimerInv, Prepares
  <2>8. PrepareInv'
    BY <1>1, <2>1 DEF SteadyInv, PrepareInv, Prepares
  <2>9. WaitInv' /\ WatchInv'
    BY <1>1, <2>1, <2>3 DEF SteadyInv, WaitInv, WatchInv
  <2>11. AskInv'
    BY <1>1, <2>1 DEF SteadyInv, AskInv
  <2>10. NoOrphan'
    BY <1>1, <2>1, <2>2, <2>4, <1>4, <1>2 DEF SteadyInv, NoOrphan, Undisturbed
  <2> QED
    BY <2>5, <2>6, <2>7, <2>8, <2>9, <2>10, <2>11 DEF SteadyInv
<1> QED
  BY <1>3, <1>4

\* The only process that comes up is the child.
LEMMA BindStep ==
  ASSUME SupervisorAssumption, SupervisorInv, NEW p \in Procs, Bind(p)
  PROVE  SupervisorInv'
<1>1. /\ proc[p] = "booting" /\ proc' = [proc EXCEPT ![p] = "serving"]
      /\ UNCHANGED <<old, termed, checks, call, app, events, abandoned>>
      /\ child' = child /\ status' = status /\ polling' = polling /\ timer' = timer
      /\ stopping' = stopping /\ recovering' = recovering /\ restarts' = restarts
  BY DEF Bind, manager
<1>2. CallTypes /\ ProcTypes /\ ManagerTypes /\ BudgetTypes /\ RestTypes /\ KeptInv
  BY Types, Parts
<1>3. ProcTypes'
  BY <1>1, <1>2 DEF ProcTypes, States
<1>4. TypeInv'
  <2>1. UNCHANGED manager
    BY <1>1 DEF manager
  <2> QED
    BY <1>1, <1>2, <1>3, <2>1, CallKept, ManagerKept, BudgetKept, RestKept, TypesNext
<1>5. ASSUME Undisturbed' PROVE CallInv' /\ StopInv' /\ (~stopping' => SteadyInv')
  <2>1. Undisturbed
    BY <1>1, <1>5 DEF Undisturbed
  <2>2. CallInv /\ StopInv /\ (~stopping => SteadyInv)
    BY <1>2, <2>1 DEF KeptInv
  <2>3. CallInv' /\ StopInv'
    BY <1>1, <2>2, CallsStay
  <2>4. ASSUME ~stopping' PROVE SteadyInv'
    <3>1. SteadyInv /\ ~stopping
      BY <1>1, <2>2, <2>4
    <3>2. p \in Children /\ p = child
      BY <1>1, <2>1, <3>1 DEF SteadyInv, PortInv, NoOrphan, Alive, Procs
    <3>3. child # NoProcess
      BY <3>2 DEF SupervisorAssumption, Procs
    <3>4. \A q \in Procs : proc'[q] = IF q = p THEN "serving" ELSE proc[q]
      BY <1>1, <1>2 DEF ProcTypes
    <3>5. External # p /\ External \in Procs
      BY <3>2 DEF SupervisorAssumption, Procs
    <3>6. BootInv'
      BY <1>1, <3>1 DEF SteadyInv, BootInv
    <3>7. PortInv'
      BY <1>1, <3>1, <3>4, <3>5 DEF SteadyInv, PortInv, Alive
    <3>8. TimerInv' /\ WaitInv' /\ PrepareInv' /\ WatchInv'
      BY <1>1, <3>1, <3>3 DEF SteadyInv, TimerInv, WaitInv, PrepareInv, WatchInv, Prepares
    <3>10. AskInv'
      BY <1>1, <3>1, <3>4 DEF SteadyInv, AskInv
    <3>9. NoOrphan'
      BY <1>1, <2>1, <3>1, <3>2, <3>4 DEF SteadyInv, NoOrphan, Alive, Procs
    <3> QED
      BY <3>6, <3>7, <3>8, <3>9, <3>10 DEF SteadyInv
  <2> QED
    BY <2>3, <2>4
<1> QED
  BY <1>4, <1>5, PartsNext DEF KeptInv

\* Exit and Crash.
LEMMA EndStep ==
  ASSUME SupervisorAssumption, SupervisorInv, NEW p \in Procs, Exit(p) \/ Crash(p)
  PROVE  SupervisorInv'
<1>1. /\ proc' = [proc EXCEPT ![p] = "exited"]
      /\ UNCHANGED <<old, termed, manager, checks, call, app, abandoned>>
  BY DEF Exit, Crash
<1>2. CallTypes /\ ProcTypes /\ ManagerTypes /\ BudgetTypes /\ RestTypes /\ KeptInv
  BY Types, Parts
<1>3. BudgetTypes' /\ (Undisturbed' => Undisturbed)
  <2>1. CASE Exit(p)
    BY <1>2, <2>1, BudgetKept DEF Exit
  <2>2. CASE Crash(p)
    BY <1>2, <2>2, BudgetStep DEF Crash
  <2> QED
    BY <2>1, <2>2
<1>4. ProcTypes'
  BY <1>1, <1>2 DEF ProcTypes, States
<1>5. TypeInv'
  BY <1>1, <1>2, <1>3, <1>4, CallKept, ManagerKept, RestKept, TypesNext
<1>6. \A q \in Procs : proc'[q] = proc[q] \/ proc'[q] \in {"none", "exited"}
  BY <1>1, <1>2 DEF ProcTypes
<1>7. KeptInv'
  BY <1>1, <1>2, <1>3, <1>6, ProcessesEnd
<1> QED
  BY <1>5, <1>7, PartsNext

\* After a hang nothing is promised.
LEMMA HangStep ==
  ASSUME SupervisorAssumption, SupervisorInv, NEW p \in Procs, Hang(p)
  PROVE  SupervisorInv'
<1>1. /\ proc' = [proc EXCEPT ![p] = "hung"] /\ Count("hang")
      /\ UNCHANGED <<old, termed, manager, checks, call, app, abandoned>>
  BY DEF Hang
<1>2. CallTypes /\ ProcTypes /\ ManagerTypes /\ BudgetTypes /\ RestTypes
  BY Types, Parts
<1>3. BudgetTypes' /\ "hang" \in events'.seen
  BY <1>1, <1>2, BudgetStep
<1>4. ProcTypes'
  BY <1>1, <1>2 DEF ProcTypes, States
<1>5. TypeInv'
  BY <1>1, <1>2, <1>3, <1>4, CallKept, ManagerKept, RestKept, TypesNext
<1>6. KeptInv'
  BY <1>3 DEF KeptInv, Undisturbed
<1> QED
  BY <1>5, <1>6, PartsNext

\* The failure path, taken when the child is gone and nothing healthy answers.
LEMMA FailureKeeps ==
  ASSUME SupervisorAssumption, ManagerTypes, SteadyInv, StopInv, ~stopping, HandleFailure,
         UNCHANGED <<old, call>>,
         call["boot"].pc # "ready", \A k \in Calls : ~Prepares(k),
         \A p \in Children : ~Alive(p)', ~Healthy',
         \A p \in Procs : proc'[p] # "hung", proc'[External] # "booting"
  PROVE  SteadyInv' /\ StopInv'
<1>1. /\ child' = NoProcess /\ polling' = FALSE /\ recovering' = FALSE /\ stopping' = stopping
      /\ status' \in {"starting", "failed"}
  BY DEF HandleFailure, SupervisorAssumption, ManagerTypes
<1>3. StopInv' /\ BootInv'
  BY <1>1 DEF StopInv, BootInv
<1>4. PortInv'
  BY <1>1 DEF PortInv
<1>5. \A k \in Calls : ~Prepares(k)'
  BY DEF Prepares
<1>2. TimerInv'
  BY <1>1, <1>5 DEF TimerInv
<1>6. PrepareInv'
  BY <1>5 DEF PrepareInv
<1>7. WaitInv' /\ WatchInv'
  BY <1>1 DEF WaitInv, WatchInv
<1>8. AskInv'
  BY <1>1 DEF AskInv, Alive, Procs
<1>9. NoOrphan'
  BY DEF NoOrphan
<1> QED
  BY <1>2, <1>3, <1>4, <1>6, <1>7, <1>8, <1>9 DEF SteadyInv

LEMMA OnExitStep ==
  ASSUME SupervisorAssumption, SupervisorInv, NEW p \in Procs, OnExit(p)
  PROVE  SupervisorInv'
<1>1. /\ p \in Children /\ proc[p] = "exited" /\ proc' = [proc EXCEPT ![p] = "none"]
      /\ UNCHANGED <<old, termed, checks, call, app, events, abandoned>>
  BY DEF OnExit
<1>2. CallTypes /\ ProcTypes /\ ManagerTypes /\ BudgetTypes /\ RestTypes /\ KeptInv
  BY Types, Parts
<1>3. ProcTypes'
  BY <1>1, <1>2 DEF ProcTypes, States
<1>4. CallTypes' /\ RestTypes' /\ BudgetTypes' /\ (Undisturbed' <=> Undisturbed)
  BY <1>1, <1>2, CallKept, RestKept, BudgetKept
<1>5. CASE child # p
  <2>1. UNCHANGED manager
    BY <1>5 DEF OnExit
  <2>2. \A q \in Procs : proc'[q] = proc[q] \/ proc'[q] \in {"none", "exited"}
    BY <1>1, <1>2 DEF ProcTypes
  <2>3. KeptInv'
    BY <1>1, <1>2, <1>4, <2>1, <2>2, ProcessesEnd
  <2> QED
    BY <1>2, <1>3, <1>4, <2>1, <2>3, ManagerKept, TypesNext, PartsNext
<1>6. CASE child = p
  <2>1. HandleFailure
    BY <1>6 DEF OnExit
  <2>2. ManagerTypes'
    BY <1>2, <2>1, HandleFailureTypes
  <2>3. TypeInv'
    BY <1>3, <1>4, <2>2, TypesNext
  <2>4. stopping' = stopping /\ (stopping => timer' = timer)
    BY <2>1 DEF HandleFailure
  <2>5. ASSUME Undisturbed' PROVE CallInv' /\ StopInv' /\ (~stopping' => SteadyInv')
    <3>1. CallInv /\ StopInv /\ (~stopping => SteadyInv)
      BY <1>2, <1>4, <2>5 DEF KeptInv
    <3>2. CallInv'
      BY <1>1, <2>4, <3>1 DEF CallInv
    <3>3. CASE stopping
      <4>1. StopInv'
        BY <1>1, <2>4, <3>1, <3>3 DEF StopInv
      <4> QED
        BY <2>4, <3>2, <3>3, <4>1
    <3>4. CASE ~stopping
      <4>1. SteadyInv /\ Undisturbed
        BY <1>4, <2>5, <3>1, <3>4
      <4>2. child # NoProcess /\ External # p /\ External \in Procs
        BY <1>1, <1>6 DEF SupervisorAssumption, Procs
      <4>3. call["boot"].pc # "ready" /\ \A k \in Calls : ~Prepares(k)
        BY <4>1, <4>2 DEF SteadyInv, BootInv, PrepareInv
      <4>4. \A q \in Procs : proc'[q] = IF q = p THEN "none" ELSE proc[q]
        BY <1>1, <1>2 DEF ProcTypes
      <4>5. \A q \in Children : ~Alive(q)'
        BY <1>1, <1>6, <3>4, <4>1, <4>4 DEF SteadyInv, NoOrphan, Alive, Procs
      <4>6. proc'[External] = proc[External] /\ ~Alive(External)
        BY <4>1, <4>2, <4>4 DEF SteadyInv, PortInv
      <4>7. ~Healthy'
        BY <4>5, <4>6 DEF Healthy, Alive, Procs
      <4>8. (\A q \in Procs : proc'[q] # "hung") /\ proc'[External] # "booting"
        BY <4>1, <4>4, <4>6 DEF SteadyInv, PortInv
      <4>9. SteadyInv' /\ StopInv'
        BY <1>1, <1>2, <2>1, <3>1, <3>4, <4>1, <4>3, <4>5, <4>7, <4>8, FailureKeeps
      <4> QED
        BY <3>2, <4>9
    <3> QED
      BY <3>3, <3>4
  <2> QED
    BY <2>3, <2>5, PartsNext DEF KeptInv
<1> QED
  BY <1>5, <1>6

\* Requests that are sent or answered: the interval runs, or ran, so that no
\* start() is preparing.
LEMMA RequestsKeep ==
  ASSUME KeptInv, checks \in Nat, polling \/ checks > 0,
         UNCHANGED <<proc, old, manager, call, events>>, checks' > 0 => polling \/ checks > 0
  PROVE  KeptInv'
<1> SUFFICES ASSUME Undisturbed' PROVE CallInv' /\ StopInv' /\ (~stopping' => SteadyInv')
  BY DEF KeptInv
<1>1. /\ child' = child /\ status' = status /\ polling' = polling /\ timer' = timer
      /\ stopping' = stopping /\ recovering' = recovering
  BY DEF manager
<1>2. Undisturbed
  BY DEF Undisturbed
<1>3. CallInv /\ StopInv /\ (~stopping => SteadyInv)
  BY <1>2 DEF KeptInv
<1>4. CallInv' /\ StopInv'
  BY <1>1, <1>3, CallsStay
<1>5. ASSUME ~stopping' PROVE SteadyInv'
  <2>1. SteadyInv
    BY <1>1, <1>3, <1>5
  <2>2. Healthy' <=> Healthy
    BY DEF Healthy, Compatible
  <2>3. BootInv'
    BY <1>1, <2>1 DEF SteadyInv, BootInv
  <2>4. PortInv' /\ NoOrphan'
    BY <1>1, <1>2, <1>5, <2>1 DEF SteadyInv, PortInv, NoOrphan, Alive
  <2>5. TimerInv'
    BY <1>1, <2>1, <2>2 DEF SteadyInv, TimerInv, Prepares
  <2>6. PrepareInv'
    BY <1>1, <2>1 DEF SteadyInv, PrepareInv, Prepares
  <2>7. WaitInv' /\ WatchInv'
    BY <1>1, <2>1, <2>2 DEF SteadyInv, WaitInv, WatchInv
  <2>8. AskInv'
    BY <1>1, <2>1 DEF SteadyInv, AskInv
  <2> QED
    BY <2>3, <2>4, <2>5, <2>6, <2>7, <2>8 DEF SteadyInv
<1> QED
  BY <1>4, <1>5

LEMMA CheckStep ==
  ASSUME SupervisorAssumption, SupervisorInv, CheckSend \/ CheckOk
  PROVE  SupervisorInv'
<1>1. CallTypes /\ ProcTypes /\ ManagerTypes /\ BudgetTypes /\ RestTypes /\ KeptInv
  BY Types, Parts
<1>2. /\ UNCHANGED <<proc, old, termed, manager, call, app, events, abandoned>>
      /\ (polling \/ checks > 0) /\ checks' \in 0..MaxInFlight
  BY <1>1 DEF CheckSend, CheckOk, RestTypes, SupervisorAssumption
<1>3. checks \in Nat
  BY <1>1 DEF RestTypes, SupervisorAssumption
<1>4. KeptInv'
  BY <1>1, <1>2, <1>3, RequestsKeep
<1>5. RestTypes'
  BY <1>1, <1>2, Zenon DEF RestTypes
<1> QED
  BY <1>1, <1>2, <1>4, <1>5, CallKept, ManagerKept, BudgetKept, ProcKept, TypesNext, PartsNext

\* A failed request: ignored, answered by a signal to the child, or, with no
\* child left to signal, by the failure path.
LEMMA CheckFailedStep ==
  ASSUME SupervisorAssumption, SupervisorInv, CheckFailed
  PROVE  SupervisorInv'
<1>1. CallTypes /\ ProcTypes /\ ManagerTypes /\ BudgetTypes /\ RestTypes /\ KeptInv
  BY Types, Parts
<1>2. /\ UNCHANGED <<proc, old, call, app, events, abandoned>>
      /\ checks > 0 /\ ~Healthy /\ checks' = checks - 1
  BY DEF CheckFailed
<1>3. checks \in Nat /\ RestTypes'
  <2>1. checks \in Nat /\ checks' \in 0..MaxInFlight
    BY <1>1, <1>2 DEF RestTypes, SupervisorAssumption
  <2> QED
    BY <1>1, <1>2, <2>1, Zenon DEF RestTypes
<1>4. CallTypes' /\ BudgetTypes' /\ (Undisturbed' <=> Undisturbed)
  BY <1>1, <1>2, CallKept, BudgetKept
<1>5. CASE stopping \/ recovering
  <2>1. UNCHANGED manager /\ termed' = termed
    BY <1>5 DEF CheckFailed
  <2>2. KeptInv'
    BY <1>1, <1>2, <1>3, <2>1, RequestsKeep
  <2> QED
    BY <1>1, <1>2, <1>3, <1>4, <2>1, <2>2, ManagerKept, ProcKept, TypesNext, PartsNext
<1>6. CASE ~(stopping \/ recovering) /\ child # NoProcess /\ child \notin termed
  <2>1. /\ recovering' = TRUE /\ polling' = FALSE /\ termed' = termed \cup {child}
        /\ UNCHANGED <<child, restarts, status, timer, stopping>>
    BY <1>6 DEF CheckFailed, Term
  <2>2. ManagerTypes'
    BY <1>1, <2>1, Zenon DEF ManagerTypes
  <2>3. ProcTypes'
    BY <1>1, <1>2, <1>6, <2>1 DEF ProcTypes, ManagerTypes, Procs
  <2>4. ASSUME Undisturbed' PROVE CallInv' /\ StopInv' /\ (~stopping' => SteadyInv')
    <3>1. CallInv /\ StopInv /\ SteadyInv /\ Undisturbed
      BY <1>1, <1>4, <1>6, <2>4 DEF KeptInv
    <3>2. CallInv' /\ StopInv'
      BY <1>2, <2>1, <3>1, CallsStay
    <3>3. BootInv' /\ TimerInv'
      BY <1>6, <2>1, <1>2, <3>1 DEF SteadyInv, BootInv, TimerInv
    <3>4. PortInv' /\ NoOrphan'
      BY <1>2, <1>6, <2>1, <3>1 DEF SteadyInv, PortInv, NoOrphan, Alive
    <3>5. PrepareInv'
      BY <1>2, <1>6, <2>1, <3>1 DEF SteadyInv, PrepareInv, Prepares
    <3>6. WaitInv' /\ WatchInv'
      BY <1>6, <2>1 DEF WaitInv, WatchInv
    <3>7. AskInv'
      BY <1>2, <1>3, <2>1, <3>1 DEF SteadyInv, AskInv
    <3> QED
      BY <3>2, <3>3, <3>4, <3>5, <3>6, <3>7 DEF SteadyInv
  <2> QED
    BY <1>3, <1>4, <2>2, <2>3, <2>4, TypesNext, PartsNext DEF KeptInv
<1>7. CASE ~(stopping \/ recovering) /\ ~(child # NoProcess /\ child \notin termed)
  <2>1. HandleFailure /\ termed' = termed
    BY <1>7 DEF CheckFailed
  <2>2. ManagerTypes' /\ ProcTypes'
    BY <1>1, <1>2, <2>1, HandleFailureTypes, ProcKept
  <2>3. stopping' = stopping
    BY <2>1 DEF HandleFailure
  <2>4. ASSUME Undisturbed' PROVE CallInv' /\ StopInv' /\ (~stopping' => SteadyInv')
    <3>1. CallInv /\ StopInv /\ SteadyInv /\ Undisturbed /\ ~stopping
      BY <1>1, <1>4, <1>7, <2>4 DEF KeptInv
    <3>2. CallInv'
      BY <1>2, <2>3, <3>1 DEF CallInv
    <3>3. checks # 0
      BY <1>2
    <3>4. call["boot"].pc # "ready" /\ \A k \in Calls : ~Prepares(k)
      BY <3>1, <3>3 DEF SteadyInv, BootInv, PrepareInv
    <3>5. ~Healthy'
      BY <1>2 DEF Healthy, Compatible
    <3>6. \A q \in Procs : proc'[q] # "booting" /\ proc'[q] # "hung"
      BY <1>2, <3>1 DEF SteadyInv, AskInv, PortInv
    <3>7. \A q \in Children : ~Alive(q)'
      BY <3>5, <3>6 DEF Alive, Healthy, Compatible, Procs, SupervisorAssumption
    <3>8. External \in Procs
      BY DEF Procs
    <3>9. SteadyInv' /\ StopInv'
      BY <1>1, <1>2, <2>1, <3>1, <3>4, <3>5, <3>6, <3>7, <3>8, FailureKeeps
    <3> QED
      BY <3>2, <3>9
  <2> QED
    BY <1>3, <1>4, <2>2, <2>4, TypesNext, PartsNext DEF KeptInv
<1> QED
  BY <1>5, <1>6, <1>7

-----------------------------------------------------------------------------
(* The steps: start(). *)

\* A call of start() goes on.
LEMMA StarterMoves ==
  ASSUME SupervisorAssumption, CallInv, StopInv, NEW k \in Calls \ {"quit", "retry"},
         call'[k].pc \in {"idle", "snapshot", "kill", "portwait", "health"},
         \A j \in Calls : j # k => call'[j] = call[j],
         stopping' <=> stopping, timer' => timer
  PROVE  CallInv' /\ StopInv'
<1>1. Timed \subseteq Calls /\ "boot" \in Calls /\ "quit" \in Calls /\ "retry" \in Calls
  BY DEF Calls
<1>2. call'["quit"] = call["quit"] /\ call'["retry"] = call["retry"]
  BY <1>1
<1>3. \A j \in Timed : call'[j].pc # "ready"
  BY <1>1 DEF CallInv
<1>4. call'["boot"].pc = "ready" => call["boot"].pc = "ready"
  BY <1>1
<1>5. \A j \in Calls \ {"quit", "retry"} :
        call'[j].pc \in {"ready", "idle", "snapshot", "kill", "portwait", "health"}
  BY DEF CallInv
<1> QED
  BY <1>2, <1>3, <1>4, <1>5 DEF CallInv, StopInv

\* A start() begins.
LEMMA StartKeeps ==
  ASSUME SupervisorAssumption, SteadyInv, CallInv, StopInv, ~stopping,
         NEW k \in Calls \ {"quit", "retry"}, child = NoProcess, Begun(k),
         call'[k].pc \in {"snapshot", "kill"},
         \A j \in Calls : j # k => call'[j] = call[j],
         UNCHANGED <<proc, old, checks, events>>,
         checks = 0, status # "healthy", \A j \in Calls : ~Prepares(j),
         k = "boot" \/ call["boot"].pc # "ready"
  PROVE  CallInv' /\ StopInv' /\ SteadyInv'
<1>1. /\ stopping' = FALSE /\ recovering' = FALSE /\ timer' = FALSE /\ polling' = FALSE
      /\ child' = NoProcess /\ status' = status
  BY DEF Begun
<1>2. CallInv' /\ StopInv'
  BY <1>1, StarterMoves
<1>3. "boot" \in Calls /\ call'["boot"].pc # "ready"
  BY DEF Calls
<1>4. Healthy' <=> Healthy
  BY DEF Healthy, Compatible
<1>5. BootInv' /\ TimerInv' /\ WatchInv' /\ AskInv'
  <2>1. BootInv'
    BY <1>3 DEF BootInv
  <2>2. TimerInv' /\ WatchInv'
    BY <1>1 DEF TimerInv, WatchInv
  <2>3. AskInv'
    BY <1>1 DEF AskInv
  <2> QED
    BY <2>1, <2>2, <2>3
<1>6. PortInv' /\ NoOrphan'
  BY <1>1 DEF SteadyInv, PortInv, NoOrphan, Alive, Undisturbed
<1>7. \A j \in Calls : Prepares(j)' => j = k
  BY DEF Prepares
<1>8. PrepareInv'
  BY <1>1, <1>7 DEF PrepareInv
<1>9. WaitInv'
  BY <1>1, <1>4 DEF SteadyInv, WaitInv
<1> QED
  BY <1>2, <1>5, <1>6, <1>8, <1>9 DEF SteadyInv

\* A start() spawns: nothing serves, so that the new child is alone.
LEMMA SpawnKeeps ==
  ASSUME SupervisorAssumption, CallTypes, ManagerTypes, ProcTypes,
         SteadyInv, CallInv, StopInv, Undisturbed, ~stopping,
         NEW k \in Calls \ {"quit", "retry"}, Prepares(k), Spawn(k),
         proc[External] # "serving", UNCHANGED <<old, checks, events>>
  PROVE  SteadyInv'
<1>1. /\ \A j \in Calls : j # k => call'[j] = call[j]
      /\ call'[k].pc = "health" /\ status' = "starting"
      /\ child' \in Children
      /\ proc' = [proc EXCEPT ![child'] = "booting"]
      /\ polling' = polling /\ timer' = timer /\ stopping' = stopping
  BY SpawnFacts
<1>2. /\ child = NoProcess /\ checks = 0 /\ ~polling /\ ~timer
      /\ \A j \in Calls : Prepares(j) => j = k
  BY DEF SteadyInv, PrepareInv
<1>3. PICK c \in Children : c = child'
  BY <1>1
<1>4. \A q \in Procs : proc'[q] = IF q = c THEN "booting" ELSE proc[q]
  BY <1>1, <1>3 DEF ProcTypes
<1>5. c # NoProcess /\ External # c /\ External \in Procs /\ c \in Procs
  BY DEF SupervisorAssumption, Procs
<1>6. call["boot"].pc # "ready" \/ k = "boot"
  <2>1. ASSUME call["boot"].pc = "ready", k # "boot" PROVE FALSE
    <3>1. k \in Timed
      BY <2>1 DEF Calls
    <3>2. call[k].pc = "idle"
      BY <2>1, <3>1 DEF SteadyInv, BootInv
    <3> QED
      BY <3>2 DEF Prepares
  <2> QED
    BY <2>1
<1>7. BootInv' /\ TimerInv' /\ WatchInv' /\ WaitInv'
  BY <1>1, <1>2, <1>3, <1>5, <1>6 DEF BootInv, TimerInv, WatchInv, WaitInv, Calls
<1>8. PortInv'
  BY <1>4, <1>5 DEF SteadyInv, PortInv, Alive
<1>9. \A j \in Calls : ~Prepares(j)'
  BY <1>1, <1>2 DEF Prepares
<1>10. PrepareInv'
  BY <1>9 DEF PrepareInv
<1>11. AskInv'
  BY <1>1, <1>2 DEF AskInv
<1>12. \A q \in Children : ~Alive(q)
  BY <1>2 DEF SteadyInv, NoOrphan, SupervisorAssumption, Procs
<1>13. NoOrphan'
  BY <1>3, <1>4, <1>12 DEF NoOrphan, Alive, Procs
<1> QED
  BY <1>7, <1>8, <1>10, <1>11, <1>13 DEF SteadyInv

\* A start() finds the sidecar healthy; it is the only one that still prepares,
\* if it does.
LEMMA HealthyKeeps ==
  ASSUME SupervisorAssumption, CallTypes, ManagerTypes,
         SteadyInv, CallInv, StopInv, Undisturbed, ~stopping,
         NEW k \in Calls \ {"quit", "retry"}, call[k].pc \in {"snapshot", "health"},
         BecomeHealthy(k), Healthy, UNCHANGED <<proc, old, checks, events>>
  PROVE  SteadyInv'
<1>1. /\ call'[k].pc = "idle" /\ \A j \in Calls : j # k => call'[j] = call[j]
      /\ polling' /\ status' = "healthy"
      /\ child' = child /\ timer' = timer /\ stopping' = stopping
  BY HealthyFacts
<1>2. Healthy'
  BY DEF Healthy, Compatible
<1>3. ~timer
  BY DEF SteadyInv, TimerInv
<1>4. \A j \in Calls : Prepares(j) => j = k
  <2>1. CASE call[k].pc = "snapshot"
    BY <2>1 DEF SteadyInv, PrepareInv, Prepares
  <2>2. CASE call[k].pc = "health"
    BY <2>2 DEF SteadyInv, PrepareInv, WaitInv
  <2> QED
    BY <2>1, <2>2
<1>5. \A j \in Calls : ~Prepares(j)'
  BY <1>1, <1>4 DEF Prepares
<1>6. TimerInv' /\ PrepareInv' /\ WatchInv'
  BY <1>1, <1>3, <1>5 DEF TimerInv, PrepareInv, WatchInv
<1>7. PortInv' /\ NoOrphan'
  BY <1>1 DEF SteadyInv, PortInv, NoOrphan, Alive
<1>8. call["boot"].pc # "ready"
  <2>1. ASSUME call["boot"].pc = "ready" PROVE FALSE
    <3>1. k \in Timed
      BY <2>1 DEF Calls
    <3>2. call[k].pc = "idle"
      BY <2>1, <3>1 DEF SteadyInv, BootInv
    <3> QED
      BY <3>2
  <2> QED
    BY <2>1
<1>9. BootInv'
  BY <1>1, <1>8 DEF BootInv, Calls
<1>10. child = NoProcess => \A j \in Calls : call[j].pc # "health"
  BY DEF SteadyInv, WaitInv
<1>11. WaitInv'
  BY <1>1, <1>10 DEF WaitInv
<1>12. \A q \in Procs : proc[q] # "booting"
  <2>1. PICK s \in Procs : proc[s] = "serving"
    BY DEF Healthy
  <2>2. ASSUME NEW q \in Procs, proc[q] = "booting" PROVE FALSE
    <3>1. q \in Children /\ q = child
      BY <2>2 DEF SteadyInv, PortInv, NoOrphan, Alive, Procs
    <3>2. child # NoProcess
      BY <3>1 DEF SupervisorAssumption, Procs
    <3>3. s \in Children /\ s = child
      BY <2>1, <3>2 DEF SteadyInv, PortInv, NoOrphan, Alive, Procs
    <3> QED
      BY <2>1, <2>2, <3>1, <3>3
  <2> QED
    BY <2>2
<1>13. AskInv'
  BY <1>12 DEF AskInv
<1> QED
  BY <1>6, <1>7, <1>9, <1>11, <1>13 DEF SteadyInv

\* A start() waits for the next thing, or gives up, and touches nothing else.
LEMMA WaitingKeeps ==
  ASSUME SupervisorAssumption, SteadyInv, NEW k \in Calls \ {"quit", "retry"},
         \/ Prepares(k) /\ call'[k].pc \in {"idle", "kill", "portwait"}
         \/ call[k].pc = "health" /\ call'[k].pc = "idle",
         \A j \in Calls : j # k => call'[j] = call[j],
         UNCHANGED <<proc, old, manager, checks>>, Undisturbed' <=> Undisturbed
  PROVE  SteadyInv'
<1>1. /\ child' = child /\ status' = status /\ polling' = polling /\ timer' = timer
      /\ stopping' = stopping /\ recovering' = recovering
  BY DEF manager
<1>2. Healthy' <=> Healthy
  BY DEF Healthy, Compatible
<1>3. \A j \in Calls : Prepares(j)' => Prepares(j)
  BY DEF Prepares
<1>4. \A j \in Calls : call'[j].pc = "health" => call[j].pc = "health"
  OBVIOUS
<1>5. BootInv'
  <2>1. call'["boot"].pc = "ready" => call["boot"].pc = "ready" /\ k # "boot"
    BY DEF Calls
  <2>2. k # "boot" /\ call["boot"].pc = "ready" => k \in Timed /\ call[k].pc = "idle"
    BY DEF Calls, SteadyInv, BootInv
  <2>3. call["boot"].pc = "ready" /\ k # "boot" => FALSE
    BY <2>2 DEF Prepares
  <2> QED
    BY <2>1, <2>3 DEF BootInv
<1>6. TimerInv' /\ PrepareInv'
  BY <1>1, <1>2, <1>3 DEF SteadyInv, TimerInv, PrepareInv
<1>7. PortInv' /\ NoOrphan'
  BY <1>1 DEF SteadyInv, PortInv, NoOrphan, Alive
<1>8. WaitInv'
  BY <1>1, <1>2, <1>4 DEF SteadyInv, WaitInv
<1>9. AskInv' /\ WatchInv'
  BY <1>1 DEF SteadyInv, AskInv, WatchInv
<1> QED
  BY <1>5, <1>6, <1>7, <1>8, <1>9 DEF SteadyInv

\* What a step of a starting call does to the parts about the calls.
LEMMA StarterStep ==
  ASSUME SupervisorAssumption, Undisturbed' <=> Undisturbed, KeptInv,
         NEW k \in Calls \ {"quit", "retry"},
         call'[k].pc \in {"idle", "snapshot", "kill", "portwait", "health"},
         \A j \in Calls : j # k => call'[j] = call[j],
         stopping' = stopping, timer' = timer,
         Undisturbed /\ ~stopping => SteadyInv'
  PROVE  KeptInv'
<1> SUFFICES ASSUME Undisturbed' PROVE CallInv' /\ StopInv' /\ (~stopping' => SteadyInv')
  BY DEF KeptInv
<1>1. CallInv /\ StopInv
  BY DEF KeptInv
<1> QED
  BY <1>1, StarterMoves

\* Boot and TimerFires.
LEMMA BootStep ==
  ASSUME SupervisorAssumption, SupervisorInv, Boot
  PROVE  SupervisorInv'
<1>1. /\ call["boot"].pc = "ready" /\ Start("boot", ReuseByDefault)
      /\ UNCHANGED <<proc, old, termed, checks, app, events, abandoned>>
  BY DEF Boot, At
<1>2. CallTypes /\ ProcTypes /\ ManagerTypes /\ BudgetTypes /\ RestTypes /\ KeptInv
  BY Types, Parts
<1>3. "boot" \in Calls /\ ReuseByDefault \in BOOLEAN
  BY DEF Calls, SupervisorAssumption
<1>4. /\ CallTypes' /\ ManagerTypes'
      /\ \A j \in Calls : j # "boot" => call'[j] = call[j]
      /\ \/ child # NoProcess /\ UNCHANGED manager /\ call'["boot"].pc = "idle"
         \/ child = NoProcess /\ Begun("boot") /\ call'["boot"].pc \in {"snapshot", "kill"}
  BY <1>1, <1>2, <1>3, StartFacts
<1>5. TypeInv' /\ (Undisturbed' <=> Undisturbed)
  BY <1>1, <1>2, <1>4, ProcKept, BudgetKept, RestKept, TypesNext
<1>6. ASSUME Undisturbed' PROVE CallInv' /\ StopInv' /\ (~stopping' => SteadyInv')
  <2>1. CallInv /\ StopInv /\ ~stopping /\ SteadyInv
    BY <1>1, <1>2, <1>5, <1>6 DEF KeptInv, StopInv
  <2>2. /\ status # "healthy" /\ checks = 0 /\ child = NoProcess
        /\ \A k \in Timed : call[k].pc = "idle"
    BY <1>1, <2>1 DEF SteadyInv, BootInv
  <2>3. \A j \in Calls : ~Prepares(j)
    BY <1>1, <2>1, <2>2 DEF CallInv, Prepares, Calls
  <2> QED
    BY <1>1, <1>3, <1>4, <2>1, <2>2, <2>3, StartKeeps
<1> QED
  BY <1>5, <1>6, PartsNext DEF KeptInv

LEMMA TimerStep ==
  ASSUME SupervisorAssumption, SupervisorInv, NEW k \in Timed, TimerFires(k)
  PROVE  SupervisorInv'
<1>1. /\ call[k].pc = "idle" /\ timer /\ NothingAsked
      /\ UNCHANGED <<proc, old, termed, checks, app, events, abandoned>>
  BY DEF TimerFires, At
<1>2. CallTypes /\ ProcTypes /\ ManagerTypes /\ BudgetTypes /\ RestTypes /\ KeptInv
  BY Types, Parts
<1>3. k \in Calls /\ k \notin {"boot", "quit", "retry"} /\ ReuseByDefault \in BOOLEAN
  BY DEF Calls, SupervisorAssumption
<1>4. BudgetTypes' /\ ProcTypes' /\ RestTypes' /\ (Undisturbed' <=> Undisturbed)
  BY <1>1, <1>2, ProcKept, BudgetKept, RestKept
<1>5. CASE child # NoProcess
  <2>1. /\ timer' = FALSE /\ Return(k)
        /\ UNCHANGED <<child, restarts, status, polling, stopping, recovering>>
    BY <1>5 DEF TimerFires
  <2>2. ManagerTypes' /\ CallTypes'
    BY <1>2, <1>3, <2>1, CallReturns, Zenon DEF ManagerTypes
  <2>3. ASSUME Undisturbed' PROVE FALSE
    BY <1>1, <1>2, <1>4, <1>5, <2>3 DEF KeptInv, StopInv, SteadyInv, TimerInv
  <2> QED
    BY <1>4, <2>2, <2>3, TypesNext, PartsNext DEF KeptInv
<1>6. CASE child = NoProcess
  <2>1. Start(k, ReuseByDefault)
    BY <1>6 DEF TimerFires
  <2>2. /\ CallTypes' /\ ManagerTypes'
        /\ \A j \in Calls : j # k => call'[j] = call[j]
        /\ Begun(k) /\ call'[k].pc \in {"snapshot", "kill"}
    BY <1>2, <1>3, <1>6, <2>1, StartFacts
  <2>3. ASSUME Undisturbed' PROVE CallInv' /\ StopInv' /\ (~stopping' => SteadyInv')
    <3>1. CallInv /\ StopInv /\ ~stopping /\ SteadyInv
      BY <1>1, <1>2, <1>4, <2>3 DEF KeptInv, StopInv
    <3>2. status # "healthy" /\ \A j \in Calls : ~Prepares(j)
      BY <1>1, <3>1 DEF SteadyInv, TimerInv
    <3>3. checks = 0
      BY <1>1, <1>4, <2>3 DEF NothingAsked, Undisturbed
    <3>4. call["boot"].pc # "ready"
      BY <1>1, <3>1 DEF SteadyInv, BootInv
    <3> QED
      BY <1>1, <1>3, <1>6, <2>2, <3>1, <3>2, <3>3, <3>4, StartKeeps
  <2> QED
    BY <1>4, <2>2, <2>3, TypesNext, PartsNext DEF KeptInv
<1> QED
  BY <1>5, <1>6

\* A call that waits where only start() waits is one.
LEMMA Starters ==
  ASSUME CallInv, NEW k \in Calls,
         call[k].pc \in {"snapshot", "kill", "portwait", "health"}
  PROVE  k \in Calls \ {"quit", "retry"}
BY DEF CallInv

\* Spawn(k), in Snapshot, StartKills and PortFree.
LEMMA SpawnStep ==
  ASSUME SupervisorAssumption, SupervisorInv, NEW k \in Calls, Prepares(k), Spawn(k),
         proc[External] # "serving", UNCHANGED <<old, checks, app, events, abandoned>>
  PROVE  SupervisorInv'
<1>1. CallTypes /\ ProcTypes /\ ManagerTypes /\ BudgetTypes /\ RestTypes /\ KeptInv
  BY Types, Parts
<1>2. /\ CallTypes' /\ ManagerTypes' /\ ProcTypes'
      /\ \A j \in Calls : j # k => call'[j] = call[j]
      /\ call'[k].pc = "health" /\ timer' = timer /\ stopping' = stopping
  BY <1>1, SpawnFacts
<1>3. BudgetTypes' /\ RestTypes' /\ (Undisturbed' <=> Undisturbed)
  BY <1>1, BudgetKept, RestKept
<1>4. KeptInv'
  <2> SUFFICES ASSUME Undisturbed PROVE KeptInv'
    BY <1>3 DEF KeptInv
  <2>1. CallInv /\ StopInv
    BY <1>1 DEF KeptInv
  <2>2. k \in Calls \ {"quit", "retry"}
    BY <2>1, Starters DEF Prepares
  <2>3. ASSUME ~stopping PROVE SteadyInv'
    <3>1. SteadyInv
      BY <1>1, <2>3 DEF KeptInv
    <3> QED
      BY <1>1, <2>1, <2>2, <2>3, <3>1, SpawnKeeps
  <2> QED
    BY <1>1, <1>2, <1>3, <2>2, <2>3, StarterStep
<1> QED
  BY <1>2, <1>3, <1>4, TypesNext, PartsNext

\* BecomeHealthy(k), in Snapshot and HealthSeen.
LEMMA HealthyStep ==
  ASSUME SupervisorAssumption, SupervisorInv, NEW k \in Calls,
         call[k].pc \in {"snapshot", "health"}, BecomeHealthy(k), Healthy,
         UNCHANGED <<proc, old, termed, checks, app, events, abandoned>>
  PROVE  SupervisorInv'
<1>1. CallTypes /\ ProcTypes /\ ManagerTypes /\ BudgetTypes /\ RestTypes /\ KeptInv
  BY Types, Parts
<1>2. /\ CallTypes' /\ ManagerTypes'
      /\ \A j \in Calls : j # k => call'[j] = call[j]
      /\ call'[k].pc = "idle" /\ timer' = timer /\ stopping' = stopping
  BY <1>1, HealthyFacts
<1>3. BudgetTypes' /\ RestTypes' /\ ProcTypes' /\ (Undisturbed' <=> Undisturbed)
  BY <1>1, BudgetKept, RestKept, ProcKept
<1>4. KeptInv'
  <2> SUFFICES ASSUME Undisturbed PROVE KeptInv'
    BY <1>3 DEF KeptInv
  <2>1. CallInv /\ StopInv
    BY <1>1 DEF KeptInv
  <2>2. k \in Calls \ {"quit", "retry"}
    BY <2>1, Starters
  <2>3. ASSUME ~stopping PROVE SteadyInv'
    <3>1. SteadyInv
      BY <1>1, <2>3 DEF KeptInv
    <3> QED
      BY <1>1, <2>1, <2>2, <2>3, <3>1, HealthyKeeps
  <2> QED
    BY <1>1, <1>2, <1>3, <2>2, <2>3, StarterStep
<1> QED
  BY <1>2, <1>3, <1>4, TypesNext, PartsNext

\* A start() waits for the next thing, or rejects.
LEMMA WaitingStep ==
  ASSUME SupervisorAssumption, SupervisorInv, NEW k \in Calls, CallTypes',
         \/ Prepares(k) /\ call'[k].pc \in {"idle", "kill", "portwait"}
         \/ call[k].pc = "health" /\ call'[k].pc = "idle",
         \A j \in Calls : j # k => call'[j] = call[j],
         UNCHANGED <<proc, old, manager, checks>>, termed' \subseteq Procs,
         BudgetTypes', Undisturbed' <=> Undisturbed, RestTypes'
  PROVE  SupervisorInv'
<1>1. CallTypes /\ ProcTypes /\ ManagerTypes /\ BudgetTypes /\ RestTypes /\ KeptInv
  BY Types, Parts
<1>2. ManagerTypes' /\ ProcTypes'
  BY <1>1, ManagerKept DEF ProcTypes
<1>3. stopping' = stopping /\ timer' = timer
  BY DEF manager
<1>4. KeptInv'
  <2> SUFFICES ASSUME Undisturbed PROVE KeptInv'
    BY DEF KeptInv
  <2>1. CallInv /\ StopInv
    BY <1>1 DEF KeptInv
  <2>2. k \in Calls \ {"quit", "retry"}
    BY <2>1, Starters DEF Prepares
  <2>3. ASSUME ~stopping PROVE SteadyInv'
    <3>1. SteadyInv
      BY <1>1, <2>3 DEF KeptInv
    <3> QED
      BY <2>2, <3>1, WaitingKeeps
  <2> QED
    BY <1>1, <1>3, <2>2, <2>3, StarterStep
<1> QED
  BY <1>2, <1>4, TypesNext, PartsNext

\* The answer of getHealthSnapshot.
LEMMA SnapshotStep ==
  ASSUME SupervisorAssumption, SupervisorInv, NEW k \in Calls, Snapshot(k)
  PROVE  SupervisorInv'
<1>1. call[k].pc = "snapshot" /\ UNCHANGED <<old, checks, app, events, abandoned>>
  BY DEF Snapshot, At
<1>2. Prepares(k)
  BY <1>1 DEF Prepares
<1>3. CASE Healthy
  <2>1. BecomeHealthy(k) /\ UNCHANGED <<proc, termed>>
    BY <1>3 DEF Snapshot
  <2> QED
    BY <1>1, <1>3, <2>1, HealthyStep
<1>4. CASE Reachable /\ ~Healthy
  <2>1. Waits(k, "kill", NoProcess) /\ UNCHANGED <<manager, proc, termed>>
    BY <1>4 DEF Snapshot
  <2>2. CallTypes /\ ProcTypes /\ BudgetTypes /\ RestTypes
    BY Types, Parts
  <2>3. "kill" \in CallStates
    BY DEF CallStates
  <2>4. CallTypes' /\ call'[k].pc = "kill" /\ \A j \in Calls : j # k => call'[j] = call[j]
    BY <2>1, <2>2, <2>3, CallGoesOn
  <2>5. BudgetTypes' /\ RestTypes' /\ (Undisturbed' <=> Undisturbed) /\ termed' \subseteq Procs
    BY <1>1, <2>1, <2>2, BudgetKept, RestKept DEF ProcTypes
  <2> QED
    BY <1>1, <1>2, <2>1, <2>4, <2>5, WaitingStep
<1>5. CASE ~Healthy /\ ~(Reachable /\ ~Healthy)
  <2>1. Spawn(k)
    BY <1>5 DEF Snapshot
  <2>2. proc[External] # "serving"
    BY <1>5 DEF Reachable, Procs
  <2> QED
    BY <1>1, <1>2, <2>1, <2>2, SpawnStep
<1> QED
  BY <1>3, <1>4, <1>5

LEMMA StartKillsStep ==
  ASSUME SupervisorAssumption, SupervisorInv, NEW k \in Calls, StartKills(k)
  PROVE  SupervisorInv'
<1>1. call[k].pc = "kill" /\ UNCHANGED <<old, checks, app, events, abandoned>>
  BY DEF StartKills, At
<1>2. Prepares(k)
  BY <1>1 DEF Prepares
<1>3. CASE ForceShutdown(k, "portwait") /\ UNCHANGED <<manager, proc>>
  <2>1. CallTypes /\ ProcTypes /\ BudgetTypes /\ RestTypes
    BY Types, Parts
  <2>2. "portwait" \in CallStates
    BY DEF CallStates
  <2>3. /\ CallTypes' /\ termed' \subseteq Procs /\ call'[k].pc = "portwait"
        /\ \A j \in Calls : j # k => call'[j] = call[j]
    BY <1>3, <2>1, <2>2, ForceFacts
  <2>4. BudgetTypes' /\ RestTypes' /\ (Undisturbed' <=> Undisturbed)
    <3>1. UNCHANGED <<old, checks, app, abandoned>>
      BY <1>1
    <3> QED
      BY <1>1, <2>1, <3>1, BudgetKept, RestKept
  <2> QED
    BY <1>1, <1>2, <1>3, <2>3, <2>4, WaitingStep
<1>4. CASE Foreign = {} /\ Spawn(k)
  <2>1. CASE Undisturbed /\ ~stopping
    <3>1. SteadyInv
      BY <2>1 DEF SupervisorInv
    <3>2. child = NoProcess
      BY <1>2, <3>1 DEF SteadyInv, PrepareInv
    <3>3. proc[External] # "serving"
      BY <1>4, <3>2 DEF Foreign, Holders, Procs, SupervisorAssumption
    <3> QED
      BY <1>1, <1>2, <1>4, <3>3, SpawnStep
  <2>2. CASE ~(Undisturbed /\ ~stopping)
    <3>1. CallTypes /\ ProcTypes /\ ManagerTypes /\ BudgetTypes /\ RestTypes /\ KeptInv
      BY Types, Parts
    <3>2. /\ CallTypes' /\ ManagerTypes' /\ ProcTypes'
          /\ \A j \in Calls : j # k => call'[j] = call[j]
          /\ call'[k].pc = "health" /\ timer' = timer /\ stopping' = stopping
      BY <1>4, <3>1, SpawnFacts
    <3>3. BudgetTypes' /\ RestTypes' /\ (Undisturbed' <=> Undisturbed)
      BY <1>1, <3>1, BudgetKept, RestKept
    <3>4. KeptInv'
      <4> SUFFICES ASSUME Undisturbed PROVE KeptInv'
        BY <3>3 DEF KeptInv
      <4>1. k \in Calls \ {"quit", "retry"}
        BY <1>1, <3>1, Starters DEF KeptInv
      <4> QED
        BY <2>2, <3>1, <3>2, <3>3, <4>1, StarterStep
    <3> QED
      BY <3>2, <3>3, <3>4, TypesNext, PartsNext
  <2> QED
    BY <2>1, <2>2
<1> QED
  BY <1>3, <1>4 DEF StartKills

LEMMA PortFreeStep ==
  ASSUME SupervisorAssumption, SupervisorInv, NEW k \in Calls, PortFree(k)
  PROVE  SupervisorInv'
<1>1. /\ call[k].pc = "portwait" /\ ~Reachable /\ Spawn(k)
      /\ UNCHANGED <<old, checks, app, events, abandoned>>
  BY DEF PortFree, At
<1>2. Prepares(k) /\ proc[External] # "serving"
  BY <1>1 DEF Prepares, Reachable, Procs
<1> QED
  BY <1>1, <1>2, SpawnStep

LEMMA HealthSeenStep ==
  ASSUME SupervisorAssumption, SupervisorInv, NEW k \in Calls, HealthSeen(k)
  PROVE  SupervisorInv'
BY HealthyStep DEF HealthSeen, At

LEMMA HealthTimeoutStep ==
  ASSUME SupervisorAssumption, SupervisorInv, NEW k \in Calls, HealthTimeout(k)
  PROVE  SupervisorInv'
<1>1. /\ call[k].pc = "health" /\ Return(k)
      /\ UNCHANGED <<proc, old, manager, checks, app, events, abandoned>>
  BY DEF HealthTimeout, At
<1>2. CallTypes /\ ProcTypes /\ BudgetTypes /\ RestTypes /\ ManagerTypes
  BY Types, Parts
<1>3. CallTypes' /\ call'[k].pc = "idle" /\ \A j \in Calls : j # k => call'[j] = call[j]
  BY <1>1, <1>2, CallReturns
<1>4. BudgetTypes' /\ RestTypes' /\ (Undisturbed' <=> Undisturbed)
  BY <1>1, <1>2, BudgetKept, RestKept
<1>5. termed' \subseteq Procs
  <2>1. call[k].own \in Children
    BY <1>1, <1>2 DEF CallTypes, CallRecords, Records
  <2>2. CASE child # NoProcess
    BY <1>2, <2>2 DEF HealthTimeout, Term, ProcTypes, ManagerTypes, Procs
  <2>3. CASE child = NoProcess
    BY <1>1, <1>2, <2>1, <2>3 DEF HealthTimeout, Term, ProcTypes, SupervisorAssumption, Procs
  <2> QED
    BY <2>2, <2>3
<1> QED
  BY <1>1, <1>3, <1>4, <1>5, WaitingStep

-----------------------------------------------------------------------------
(* The steps: stop(), and calls that reject. *)

\* As long as nothing upset the bookkeeping, the call that stops is the one that
\* quits, and no start() follows it.
LEMMA Stoppers ==
  ASSUME KeptInv, Undisturbed, NEW k \in Calls,
         call[k].pc \in {"exitwait", "stopkill", "stopwait"}
  PROVE  k = "quit" /\ stopping
BY DEF KeptInv, CallInv, Calls

LEMMA StopperStep ==
  ASSUME KeptInv, Undisturbed' => Undisturbed, NEW k \in Calls,
         call[k].pc \in {"exitwait", "stopkill", "stopwait"},
         k = "quit" => /\ call'[k].pc \in {"idle", "exitwait", "stopkill", "stopwait"}
                       /\ stopping' = stopping /\ timer' = timer,
         \A j \in Calls : j # k => call'[j] = call[j]
  PROVE  KeptInv'
<1> SUFFICES ASSUME Undisturbed' PROVE CallInv' /\ StopInv' /\ (~stopping' => SteadyInv')
  BY DEF KeptInv
<1>1. k = "quit" /\ stopping
  BY Stoppers
<1>2. CallInv /\ StopInv
  BY DEF KeptInv
<1>3. \A j \in Calls \ {"quit"} : call'[j] = call[j]
  BY <1>1
<1>4. Timed \subseteq Calls /\ "boot" \in Calls /\ "retry" \in Calls
  BY DEF Calls
<1>5. \A j \in Timed : call'[j].pc # "ready"
  <2> SUFFICES ASSUME NEW j \in Timed PROVE call'[j].pc # "ready"
    OBVIOUS
  <2>1. CASE j = "quit"
    BY <1>1, <2>1
  <2>2. CASE j # "quit"
    BY <1>2, <1>3, <1>4, <2>2 DEF CallInv
  <2> QED
    BY <2>1, <2>2
<1>6. CallInv'
  BY <1>1, <1>2, <1>3, <1>4, <1>5 DEF CallInv
<1>7. StopInv'
  BY <1>1, <1>2, <1>3, <1>4 DEF StopInv
<1> QED
  BY <1>1, <1>6, <1>7

\* KillFails and PortTaken.
LEMMA RejectStep ==
  ASSUME SupervisorAssumption, SupervisorInv, NEW k \in Calls, KillFails(k) \/ PortTaken(k)
  PROVE  SupervisorInv'
<1>1. /\ call[k].pc \in {"kill", "portwait", "stopkill", "stopwait"}
      /\ Return(k) /\ UNCHANGED <<proc, old, termed, manager, checks>>
      /\ app' = (IF k = "quit" THEN "gone" ELSE app)
      /\ abandoned' = (abandoned \/ k # "quit")
  BY DEF KillFails, PortTaken, Reject, At
<1>2. CallTypes /\ ProcTypes /\ ManagerTypes /\ BudgetTypes /\ RestTypes /\ KeptInv
  BY Types, Parts
<1>3. BudgetTypes' /\ (Undisturbed' <=> Undisturbed)
  <2>1. CASE KillFails(k)
    <3>1. Count("refusal")
      BY <2>1 DEF KillFails
    <3>2. events'.seen = events.seen \cup {"refusal"}
      BY <3>1 DEF Count
    <3> QED
      BY <1>2, <3>1, <3>2, BudgetStep DEF Undisturbed
  <2>2. CASE PortTaken(k)
    BY <1>2, <2>2, BudgetKept DEF PortTaken
  <2> QED
    BY <2>1, <2>2
<1>4. RestTypes'
  <2>1. app' \in {"running", "quitting", "gone"}
    BY <1>1, <1>2, Zenon DEF RestTypes
  <2>2. abandoned' \in BOOLEAN
    BY <1>1, Zenon
  <2> QED
    BY <1>1, <1>2, <2>1, <2>2, Zenon DEF RestTypes
<1>5. CallTypes' /\ call'[k].pc = "idle" /\ \A j \in Calls : j # k => call'[j] = call[j]
  BY <1>1, <1>2, CallReturns
<1>6. CASE call[k].pc \in {"kill", "portwait"}
  <2>1. Prepares(k)
    BY <1>6 DEF Prepares
  <2>2. termed' \subseteq Procs
    BY <1>1, <1>2 DEF ProcTypes
  <2> QED
    BY <1>1, <1>3, <1>4, <1>5, <2>1, <2>2, WaitingStep
<1>7. CASE call[k].pc \in {"stopkill", "stopwait"}
  <2>1. stopping' = stopping /\ timer' = timer
    BY <1>1 DEF manager
  <2>2. KeptInv'
    BY <1>2, <1>3, <1>5, <1>7, <2>1, StopperStep
  <2> QED
    BY <1>1, <1>2, <1>3, <1>4, <1>5, <2>2, ProcKept, ManagerKept, TypesNext, PartsNext
<1> QED
  BY <1>1, <1>6, <1>7

LEMMA RetryStep ==
  ASSUME SupervisorAssumption, SupervisorInv, Retry
  PROVE  SupervisorInv'
<1>1. /\ StopBegin("retry") /\ Count("retry") /\ restarts' = 0
      /\ UNCHANGED <<proc, old, checks, app, abandoned>>
  BY DEF Retry
<1>2. CallTypes /\ ProcTypes /\ ManagerTypes /\ BudgetTypes /\ RestTypes
  BY Types, Parts
<1>3. "retry" \in Calls /\ restarts' \in 0..MaxRestarts
  BY <1>1 DEF Calls, SupervisorAssumption
<1>4. CallTypes' /\ ManagerTypes' /\ termed' \subseteq Procs
  BY <1>1, <1>2, <1>3, StopBeginFacts
<1>5. BudgetTypes' /\ "retry" \in events'.seen
  BY <1>1, <1>2, BudgetStep
<1>6. ProcTypes' /\ RestTypes'
  BY <1>1, <1>2, <1>4, RestKept DEF ProcTypes
<1>7. KeptInv'
  BY <1>5 DEF KeptInv, Undisturbed
<1> QED
  BY <1>4, <1>5, <1>6, <1>7, TypesNext, PartsNext

LEMMA QuitStep ==
  ASSUME SupervisorAssumption, SupervisorInv, Quit
  PROVE  SupervisorInv'
<1>1. /\ call["boot"].pc # "ready" /\ app' = "quitting" /\ StopBegin("quit")
      /\ UNCHANGED <<proc, old, checks, restarts, events, abandoned>>
  BY DEF Quit
<1>2. CallTypes /\ ProcTypes /\ ManagerTypes /\ BudgetTypes /\ RestTypes /\ KeptInv
  BY Types, Parts
<1>3. "quit" \in Calls /\ restarts' \in 0..MaxRestarts
  BY <1>1, <1>2 DEF Calls, ManagerTypes
<1>4. /\ CallTypes' /\ ManagerTypes' /\ termed' \subseteq Procs /\ stopping' /\ ~timer'
      /\ call'["quit"].pc \in {"exitwait", "stopkill"}
      /\ \A j \in Calls : j # "quit" => call'[j] = call[j]
  BY <1>1, <1>2, <1>3, StopBeginFacts
<1>5. BudgetTypes' /\ (Undisturbed' <=> Undisturbed)
  BY <1>1, <1>2, BudgetKept
<1>6. ProcTypes' /\ RestTypes'
  <2>1. ProcTypes'
    BY <1>1, <1>2, <1>4 DEF ProcTypes
  <2>2. RestTypes'
    BY <1>1, <1>2, Zenon DEF RestTypes
  <2> QED
    BY <2>1, <2>2
<1>7. ASSUME Undisturbed' PROVE CallInv' /\ StopInv'
  <2>1. CallInv
    BY <1>2, <1>5, <1>7 DEF KeptInv
  <2>2. "quit" \notin Timed /\ Timed \subseteq Calls /\ "boot" \in Calls /\ "retry" \in Calls
    BY DEF SupervisorAssumption, Calls
  <2>3. \A j \in Timed : call'[j].pc # "ready"
    BY <1>4, <2>1, <2>2 DEF CallInv
  <2>4. CallInv'
    BY <1>4, <2>1, <2>2, <2>3 DEF CallInv
  <2> QED
    BY <1>1, <1>4, <2>2, <2>4 DEF StopInv
<1>8. KeptInv'
  BY <1>4, <1>7 DEF KeptInv
<1> QED
  BY <1>4, <1>5, <1>6, <1>8, TypesNext, PartsNext

LEMMA StopGoesOnStep ==
  ASSUME SupervisorAssumption, SupervisorInv, NEW k \in Calls, StopGoesOn(k)
  PROVE  SupervisorInv'
<1>1. /\ call[k].pc = "exitwait" /\ child' = NoProcess /\ Waits(k, "stopkill", NoProcess)
      /\ UNCHANGED <<old, termed, restarts, status, polling, timer, stopping,
                     recovering, checks, app, events, abandoned>>
  BY DEF StopGoesOn, At
<1>2. CallTypes /\ ProcTypes /\ ManagerTypes /\ BudgetTypes /\ RestTypes /\ KeptInv
  BY Types, Parts
<1>3. "stopkill" \in CallStates
  BY DEF CallStates
<1>4. CallTypes' /\ call'[k].pc = "stopkill" /\ \A j \in Calls : j # k => call'[j] = call[j]
  BY <1>1, <1>2, <1>3, CallGoesOn
<1>5. ManagerTypes' /\ RestTypes' /\ BudgetTypes' /\ (Undisturbed' <=> Undisturbed)
  <2>1. ManagerTypes'
    BY <1>1, <1>2, Zenon DEF ManagerTypes
  <2> QED
    BY <1>1, <1>2, <2>1, RestKept, BudgetKept
<1>6. ProcTypes'
  <2>1. proc' = proc \/ proc' = [proc EXCEPT ![child] = "exited"]
    BY DEF StopGoesOn
  <2> QED
    BY <1>1, <1>2, <2>1 DEF ProcTypes, States
<1>7. KeptInv'
  BY <1>1, <1>2, <1>4, <1>5, StopperStep
<1> QED
  BY <1>4, <1>5, <1>6, <1>7, TypesNext, PartsNext

\* The end of stop().
LEMMA StoppedFacts ==
  ASSUME CallTypes, ManagerTypes, RestTypes, NEW k \in Calls, Stopped(k),
         UNCHANGED <<old, checks, abandoned>>
  PROVE  /\ CallTypes' /\ ManagerTypes' /\ RestTypes'
         /\ \A j \in Calls : j # k => call'[j] = call[j]
         /\ k = "quit" => call'[k].pc = "idle" /\ stopping' = stopping /\ timer' = timer
<1>1. CASE k = "quit"
  <2>1. /\ status' = "stopped" /\ app' = "gone" /\ Return(k)
        /\ UNCHANGED <<child, restarts, polling, timer, stopping, recovering>>
    BY <1>1 DEF Stopped
  <2>2. ManagerTypes'
    BY <2>1, Zenon DEF ManagerTypes
  <2>3. RestTypes'
    BY <2>1, Zenon DEF RestTypes
  <2> QED
    BY <2>1, <2>2, <2>3, CallReturns
<1>2. CASE k # "quit" /\ child # NoProcess
  <2>1. /\ status' = "stopped" /\ Return(k)
        /\ UNCHANGED <<child, restarts, polling, timer, stopping, recovering, app>>
    BY <1>2 DEF Stopped
  <2>2. ManagerTypes'
    BY <2>1, Zenon DEF ManagerTypes
  <2> QED
    BY <1>2, <2>1, <2>2, CallReturns, RestKept
<1>3. CASE k # "quit" /\ child = NoProcess
  <2>1. /\ status' = "stopped" /\ Waits(k, "kill", NoProcess)
        /\ stopping' = FALSE /\ recovering' = FALSE /\ timer' = FALSE /\ polling' = FALSE
        /\ UNCHANGED <<child, restarts, app>>
    BY <1>3 DEF Stopped
  <2>2. ManagerTypes'
    BY <2>1, Zenon DEF ManagerTypes
  <2>3. "kill" \in CallStates
    BY DEF CallStates
  <2> QED
    BY <1>3, <2>1, <2>2, <2>3, CallGoesOn, RestKept
<1> QED
  BY <1>1, <1>2, <1>3

LEMMA StopEndStep ==
  ASSUME SupervisorAssumption, SupervisorInv, NEW k \in Calls, StopKills(k) \/ StopPortFree(k)
  PROVE  SupervisorInv'
<1>1. /\ call[k].pc \in {"stopkill", "stopwait"}
      /\ UNCHANGED <<proc, old, checks, events, abandoned>>
  BY DEF StopKills, StopPortFree, At
<1>2. CallTypes /\ ProcTypes /\ ManagerTypes /\ BudgetTypes /\ RestTypes /\ KeptInv
  BY Types, Parts
<1>3. BudgetTypes' /\ (Undisturbed' <=> Undisturbed)
  BY <1>1, <1>2, BudgetKept
<1>4. CASE ForceShutdown(k, "stopwait") /\ UNCHANGED <<manager, app>>
  <2>1. "stopwait" \in CallStates
    BY DEF CallStates
  <2>2. /\ CallTypes' /\ termed' \subseteq Procs /\ call'[k].pc = "stopwait"
        /\ \A j \in Calls : j # k => call'[j] = call[j]
    BY <1>2, <1>4, <2>1, ForceFacts
  <2>3. ManagerTypes' /\ RestTypes' /\ ProcTypes'
    BY <1>1, <1>2, <1>4, <2>2, ManagerKept, RestKept DEF ProcTypes
  <2>4. stopping' = stopping /\ timer' = timer
    BY <1>4 DEF manager
  <2>5. KeptInv'
    BY <1>1, <1>2, <1>3, <2>2, <2>4, StopperStep
  <2> QED
    BY <1>3, <2>2, <2>3, <2>5, TypesNext, PartsNext
<1>5. CASE Stopped(k) /\ UNCHANGED termed
  <2>1. /\ CallTypes' /\ ManagerTypes' /\ RestTypes'
        /\ \A j \in Calls : j # k => call'[j] = call[j]
        /\ k = "quit" => call'[k].pc = "idle" /\ stopping' = stopping /\ timer' = timer
    BY <1>1, <1>2, <1>5, StoppedFacts
  <2>2. KeptInv'
    BY <1>1, <1>2, <1>3, <2>1, StopperStep
  <2> QED
    BY <1>1, <1>2, <1>3, <1>5, <2>1, <2>2, ProcKept, TypesNext, PartsNext
<1> QED
  BY <1>4, <1>5 DEF StopKills, StopPortFree

-----------------------------------------------------------------------------
(* The theorems. *)

LEMMA SupervisorInit ==
  ASSUME SupervisorAssumption, Init
  PROVE  SupervisorInv
<1>1. PICK there \in BOOLEAN :
        /\ proc = [p \in Procs |-> IF p = External /\ there THEN "serving" ELSE "none"]
        /\ old \in {FALSE, there}
  BY DEF Init
<1>2. PICK b \in Budgets : events = [left |-> b, seen |-> {}]
  BY DEF Init
<1>3. /\ termed = {} /\ child = NoProcess /\ restarts = 0 /\ status = "starting"
      /\ polling = FALSE /\ checks = 0 /\ timer = FALSE
      /\ stopping = FALSE /\ recovering = FALSE /\ app = "running" /\ abandoned = FALSE
      /\ call = [k \in Calls |-> [pc |-> IF k = "boot" THEN "ready" ELSE "idle",
                                  own |-> NoProcess]]
  BY DEF Init
<1>4. ProcTypes
  BY <1>1, <1>3 DEF ProcTypes, States
<1>5. CallTypes
  BY <1>3 DEF CallTypes, CallRecords, Records, CallStates
<1>6. ManagerTypes /\ RestTypes
  <2>1. 0 \in 0..MaxRestarts /\ 0 \in 0..MaxInFlight
    BY DEF SupervisorAssumption
  <2>2. ManagerTypes
    BY <1>3, <2>1, Zenon DEF ManagerTypes
  <2>3. old \in BOOLEAN
    BY <1>1, Zenon
  <2> QED
    BY <1>3, <2>1, <2>2, <2>3, Zenon DEF RestTypes
<1>7. BudgetTypes
  <2>1. events.left = b /\ events.seen = {} /\ b \in [{"crash", "hang", "refusal", "retry"} -> Nat]
    BY <1>2 DEF SupervisorAssumption
  <2> QED
    BY <2>1 DEF BudgetTypes
<1>8. \A k \in Calls : call[k].pc = IF k = "boot" THEN "ready" ELSE "idle"
  BY <1>3
<1>9. CallInv
  BY <1>8 DEF CallInv, Calls, SupervisorAssumption
<1>10. StopInv /\ BootInv
  BY <1>3, <1>8 DEF StopInv, BootInv, Calls, SupervisorAssumption
<1>11. PortInv /\ NoOrphan /\ AskInv
  BY <1>1, <1>3 DEF PortInv, NoOrphan, AskInv, Alive, Procs, SupervisorAssumption
<1>12. TimerInv /\ PrepareInv /\ WaitInv /\ WatchInv
  BY <1>3, <1>8 DEF TimerInv, PrepareInv, WaitInv, WatchInv, Prepares
<1>13. KeptInv
  BY <1>9, <1>10, <1>11, <1>12 DEF KeptInv, SteadyInv
<1> QED
  BY <1>4, <1>5, <1>6, <1>7, <1>13, Types, Parts

LEMMA SupervisorStep ==
  ASSUME SupervisorAssumption, SupervisorInv, [Next]_vars
  PROVE  SupervisorInv'
<1>1. ASSUME NEW p \in Procs, Bind(p) \/ Exit(p) \/ Crash(p) \/ Hang(p) \/ OnExit(p)
      PROVE  SupervisorInv'
  BY <1>1, BindStep, EndStep, HangStep, OnExitStep
<1>2. CASE CheckSend \/ CheckOk \/ CheckFailed
  BY <1>2, CheckStep, CheckFailedStep
<1>3. CASE Boot \/ Retry \/ Quit
  BY <1>3, BootStep, RetryStep, QuitStep
<1>4. ASSUME NEW k \in Timed, TimerFires(k) PROVE SupervisorInv'
  BY <1>4, TimerStep
<1>5. ASSUME NEW k \in Calls, StartStep(k) PROVE SupervisorInv'
  BY <1>5, SnapshotStep, StartKillsStep, PortFreeStep, HealthSeenStep, HealthTimeoutStep
     DEF StartStep
<1>6. ASSUME NEW k \in Calls, StopStep(k) \/ KillFails(k) PROVE SupervisorInv'
  BY <1>6, StopGoesOnStep, StopEndStep, RejectStep DEF StopStep
<1>7. CASE UNCHANGED vars
  <2>1. CallTypes /\ ProcTypes /\ ManagerTypes /\ BudgetTypes /\ RestTypes /\ KeptInv
    BY Types, Parts
  <2>2. UNCHANGED <<proc, old, termed, manager, checks, call, app, events, abandoned>>
    BY <1>7 DEF vars
  <2>3. KeptInv'
    BY <2>1, <2>2, BudgetKept, ProcessesEnd
  <2> QED
    BY <2>1, <2>2, <2>3, CallKept, ProcKept, ManagerKept, BudgetKept, RestKept,
       TypesNext, PartsNext
<1> QED
  BY <1>1, <1>2, <1>3, <1>4, <1>5, <1>6, <1>7 DEF Next

THEOREM SupervisorInvariant ==
  ASSUME SupervisorAssumption
  PROVE  Spec => []SupervisorInv
<1>1. Init => SupervisorInv
  BY SupervisorInit
<1>2. SupervisorInv /\ [Next]_vars => SupervisorInv'
  BY SupervisorStep
<1> QED
  BY <1>1, <1>2, PTL DEF Spec

\* Every field of SidecarManager and everything the operating system knows of a
\* process keeps its type, whichever of start()'s and stop()'s calls are under way.
THEOREM SupervisorTypeCorrect ==
  ASSUME SupervisorAssumption
  PROVE  Spec => []TypeOK
<1>1. SupervisorInv => TypeOK
  BY DEF SupervisorInv, TypeInv
<1> QED
  BY <1>1, SupervisorInvariant, PTL

\* Until something hangs or the retry button is pressed, SidecarManager.process
\* names the only child process that lives, or stop() is at work.
THEOREM ChildrenAreKnown ==
  ASSUME SupervisorAssumption
  PROVE  Spec => []NoOrphan
<1>1. SupervisorInv => NoOrphan
  BY DEF SupervisorInv, SteadyInv, NoOrphan
<1> QED
  BY <1>1, SupervisorInvariant, PTL

\* Until something hangs or the retry button is pressed, a state "healthy" is
\* watched by the interval, or its end is being worked on.
THEOREM HealthyStaysWatched ==
  ASSUME SupervisorAssumption
  PROVE  Spec => []HealthyIsWatched
<1>1. SupervisorInv => HealthyIsWatched
  BY DEF SupervisorInv, SteadyInv, WatchInv, HealthyIsWatched
<1> QED
  BY <1>1, SupervisorInvariant, PTL

=============================================================================
