-------------------------- MODULE SidecarSupervisor --------------------------
(***************************************************************************)
(* How the Electron main process keeps one Go sidecar running:             *)
(* SidecarManager (apps/desktop/src/main/sidecar-manager.ts) as index.ts   *)
(* and the "retry" button drive it.                                        *)
(*                                                                         *)
(* start() and stop() are async: an action is what runs between two        *)
(* awaits.  Nothing cancels a call that is waiting, so several of them are *)
(* under way at a time and each finds, when it goes on, the fields as the  *)
(* others left them.  The operating system is modelled as far as it        *)
(* matters: one process can hold the HTTP port, and the health request is  *)
(* answered by whichever process holds it.                                 *)
(***************************************************************************)
EXTENDS Naturals, FiniteSets

CONSTANTS
  Children,       \* processes this application can spawn
  External,       \* a sidecar that was running before
  Timed,          \* start() calls made by restart timers
  NoProcess,
  MaxRestarts,    \* SidecarManager.maxRestarts
  MaxInFlight,    \* health checks answered later than the next one is sent
  Budgets,        \* how many crashes, hangs, refused kills and uses of the retry
                  \* button there may be: one of these combinations
  ReuseByDefault  \* ~isDev

Procs == Children \cup {External}
Calls == Timed \cup {"boot", "retry", "quit"}

SupervisorAssumption ==
  /\ External \notin Children /\ NoProcess \notin Procs
  /\ Timed \cap {"boot", "retry", "quit"} = {}
  /\ MaxRestarts \in Nat /\ MaxInFlight \in Nat
  /\ Budgets \subseteq [{"crash", "hang", "refusal", "retry"} -> Nat]
  /\ ReuseByDefault \in BOOLEAN

VARIABLES
  proc,       \* what the operating system knows of each process
  old,        \* External lacks the capabilities this version requires
  termed,     \* processes that got a SIGTERM
  child,      \* SidecarManager.process
  restarts,   \* restartCount
  status,     \* state.status
  polling,    \* healthInterval
  checks,     \* health requests of the interval not answered yet
  timer,      \* restartTimer
  stopping, recovering,
  call,       \* where each async call waits, and the child a start() spawned
  app,        \* "running", "quitting" or "gone"
  events,     \* what is left of the behaviour's budget, and history: which kinds
              \* have happened
  abandoned   \* history: a start() has rejected before it spawned anything

manager == <<child, restarts, status, polling, timer, stopping, recovering>>
vars == <<proc, old, termed, manager, checks, call, app, events, abandoned>>

-----------------------------------------------------------------------------
Alive(p)  == proc[p] \in {"booting", "serving", "hung"}
Holders   == {p \in Procs : proc[p] \in {"serving", "hung"}}
Reachable == \E p \in Procs : proc[p] = "serving"
Compatible(p) == p # External \/ ~old
\* healthCheck: an answer, and from a sidecar of this version.
Healthy   == \E p \in Procs : proc[p] = "serving" /\ Compatible(p)

Waits(k, pc, own) == call' = [call EXCEPT ![k] = [pc |-> pc, own |-> own]]
Return(k)         == Waits(k, "idle", NoProcess)
At(k, pc)         == app # "gone" /\ call[k].pc = pc

Count(event) ==
  /\ events.left[event] > 0
  /\ events' = [left |-> [events.left EXCEPT ![event] = @ - 1],
                seen |-> events.seen \cup {event}]

\* The assumption about time: as long as no process ever hung, the local health
\* request is answered, or refused, before the next timer (one or three seconds).
NothingAsked == "hang" \notin events.seen => checks = 0 /\ \A k \in Calls : call[k].pc # "snapshot"

\* ChildProcess.kill and kill(1): a signal, which the process may act on later.
Term(ps) == termed' = termed \cup ps

-----------------------------------------------------------------------------
(* The operating system. *)

Bind(p) ==
  /\ app # "gone" /\ proc[p] = "booting" /\ Holders = {}
  /\ proc' = [proc EXCEPT ![p] = "serving"]
  /\ UNCHANGED <<old, termed, manager, checks, call, app, events, abandoned>>

\* The port is taken, or the process obeys a SIGTERM.
Exit(p) ==
  /\ app # "gone"
  /\ \/ proc[p] = "booting" /\ Holders # {}
     \/ Alive(p) /\ p \in termed
  /\ proc' = [proc EXCEPT ![p] = "exited"]
  /\ UNCHANGED <<old, termed, manager, checks, call, app, events, abandoned>>

Crash(p) ==
  /\ app # "gone" /\ Alive(p) /\ Count("crash")
  /\ proc' = [proc EXCEPT ![p] = "exited"]
  /\ UNCHANGED <<old, termed, manager, checks, call, app, abandoned>>

\* A hung process keeps the port, answers nothing and may ignore SIGTERM.
Hang(p) ==
  /\ app # "gone" /\ proc[p] = "serving" /\ Count("hang")
  /\ proc' = [proc EXCEPT ![p] = "hung"]
  /\ UNCHANGED <<old, termed, manager, checks, call, app, abandoned>>

-----------------------------------------------------------------------------
(* The failure path. *)

\* handleFailure; every caller has just cleared the process field.
\* Mutants: the last failure is not made a state; nor is the first; one restart
\* more.
HandleFailureSilent ==
  /\ child' = NoProcess
  /\ polling' = FALSE /\ recovering' = FALSE
  /\ IF stopping THEN status' = "stopped" /\ UNCHANGED <<restarts, timer>>
     ELSE IF restarts < MaxRestarts
     THEN status' = "starting" /\ restarts' = restarts + 1 /\ timer' = TRUE
     ELSE UNCHANGED <<status, restarts, timer>>
  /\ UNCHANGED stopping
HandleFailureUntold ==
  /\ child' = NoProcess
  /\ polling' = FALSE /\ recovering' = FALSE
  /\ IF stopping THEN status' = "stopped" /\ UNCHANGED <<restarts, timer>>
     ELSE IF restarts < MaxRestarts
     THEN restarts' = restarts + 1 /\ timer' = TRUE /\ UNCHANGED status
     ELSE status' = "failed" /\ UNCHANGED <<restarts, timer>>
  /\ UNCHANGED stopping
HandleFailureOnceMore ==
  /\ child' = NoProcess
  /\ polling' = FALSE /\ recovering' = FALSE
  /\ IF stopping THEN status' = "stopped" /\ UNCHANGED <<restarts, timer>>
     ELSE IF restarts <= MaxRestarts
     THEN status' = "starting" /\ restarts' = restarts + 1 /\ timer' = TRUE
     ELSE status' = "failed" /\ UNCHANGED <<restarts, timer>>
  /\ UNCHANGED stopping
HandleFailure ==
  /\ child' = NoProcess
  /\ polling' = FALSE /\ recovering' = FALSE
  /\ IF stopping THEN /\ status' = "stopped"
                      /\ UNCHANGED <<restarts, timer>>
     ELSE IF restarts < MaxRestarts
     THEN /\ status' = "starting" /\ restarts' = restarts + 1 /\ timer' = TRUE
     ELSE /\ status' = "failed" /\ UNCHANGED <<restarts, timer>>
  /\ UNCHANGED stopping

\* The 'exit' (or 'error') handler; also what lets stop() go on.
OnExit(p) ==
  /\ app # "gone" /\ p \in Children /\ proc[p] = "exited"
  /\ proc' = [proc EXCEPT ![p] = "none"]
  /\ IF child = p THEN HandleFailure ELSE UNCHANGED manager
  /\ UNCHANGED <<old, termed, checks, call, app, events, abandoned>>

\* setInterval's callback, every three seconds.
CheckSend ==
  /\ app # "gone" /\ polling /\ checks < MaxInFlight /\ NothingAsked
  /\ checks' = checks + 1
  /\ UNCHANGED <<proc, old, termed, manager, call, app, events, abandoned>>

CheckOk ==
  /\ app # "gone" /\ checks > 0 /\ Healthy
  /\ checks' = checks - 1
  /\ UNCHANGED <<proc, old, termed, manager, call, app, events, abandoned>>

\* ... and handleHealthCheckFailure.
CheckFailed ==
  /\ app # "gone" /\ checks > 0 /\ ~Healthy
  /\ checks' = checks - 1
  /\ IF stopping \/ recovering THEN UNCHANGED <<manager, termed>>
     ELSE IF child # NoProcess /\ child \notin termed
     THEN /\ recovering' = TRUE /\ polling' = FALSE
          /\ Term({child})
          /\ UNCHANGED <<child, restarts, status, timer, stopping>>
     ELSE HandleFailure /\ UNCHANGED termed
  /\ UNCHANGED <<proc, old, call, app, events, abandoned>>

-----------------------------------------------------------------------------
(* start(). *)

\* Up to the first await.
Start(k, reuse) ==
  IF child # NoProcess THEN Return(k) /\ UNCHANGED manager
  ELSE /\ stopping' = FALSE /\ recovering' = FALSE /\ timer' = FALSE /\ polling' = FALSE
       /\ Waits(k, IF reuse THEN "snapshot" ELSE "kill", NoProcess)
       /\ UNCHANGED <<child, restarts, status>>

\* app.whenReady.
Boot ==
  /\ At("boot", "ready")
  /\ Start("boot", ReuseByDefault)
  /\ UNCHANGED <<proc, old, termed, checks, app, events, abandoned>>

\* The restart timer expires.
TimerFires(k) ==
  /\ At(k, "idle") /\ timer /\ NothingAsked
  /\ IF child # NoProcess
     THEN timer' = FALSE /\ Return(k)
          /\ UNCHANGED <<child, restarts, status, polling, stopping, recovering>>
     ELSE Start(k, ReuseByDefault)
  /\ UNCHANGED <<proc, old, termed, checks, app, events, abandoned>>

\* waitForHealth succeeded, or the running sidecar can be reused.
BecomeHealthy(k) ==
  /\ restarts' = 0 /\ polling' = TRUE /\ status' = "healthy"
  /\ Return(k)
  /\ UNCHANGED <<child, timer, stopping, recovering>>

\* An identity no call remembers can be given to a new process; which one does
\* not matter.
Unused   == {p \in Children : proc[p] = "none" /\ \A j \in Calls : call[j].own # p}
NewChild == CHOOSE p \in Unused : TRUE

\* The state "starting", spawn, and the first await of waitForHealth.
Spawn(k) ==
  /\ Unused # {}
  /\ proc' = [proc EXCEPT ![NewChild] = "booting"]
  /\ termed' = termed \ {NewChild}
  /\ child' = NewChild /\ status' = "starting"
  /\ Waits(k, "health", NewChild)
  /\ UNCHANGED <<restarts, polling, timer, stopping, recovering>>

\* The answer to getHealthSnapshot, or none.
Snapshot(k) ==
  /\ At(k, "snapshot")
  /\ CASE Healthy                -> BecomeHealthy(k) /\ UNCHANGED <<proc, termed>>
       [] Reachable /\ ~Healthy  -> Waits(k, "kill", NoProcess) /\ UNCHANGED <<manager, proc, termed>>
       [] OTHER                  -> Spawn(k)
  /\ UNCHANGED <<old, checks, app, events, abandoned>>

\* forceShutdownExistingSidecar, in start() and (with next = "stopwait") in
\* stop(): whoever listens on the port and is not this.process.
Foreign == Holders \ {child}
ForceShutdown(k, next) ==
  /\ Foreign # {}
  /\ Term(Foreign)
  /\ Waits(k, next, NoProcess)

StartKills(k) ==
  /\ At(k, "kill")
  /\ \/ ForceShutdown(k, "portwait") /\ UNCHANGED <<manager, proc>>
     \/ Foreign = {} /\ Spawn(k)
  /\ UNCHANGED <<old, checks, app, events, abandoned>>

\* waitForSidecarToStop, in start().
PortFree(k) ==
  /\ At(k, "portwait") /\ ~Reachable
  /\ Spawn(k)
  /\ UNCHANGED <<old, checks, app, events, abandoned>>

HealthSeen(k) ==
  /\ At(k, "health") /\ Healthy
  /\ BecomeHealthy(k)
  /\ UNCHANGED <<proc, old, termed, checks, app, events, abandoned>>

\* The last of the retries of waitForHealth.  Mutant: the field is cleared before
\* the process is gone.
HealthTimeoutForgets(k) ==
  /\ At(k, "health") /\ ~Healthy
  /\ IF child = call[k].own /\ child \notin termed
     THEN Term({child}) /\ child' = NoProcess
     ELSE UNCHANGED <<termed, child>>
  /\ Return(k)
  /\ UNCHANGED <<proc, old, restarts, status, polling, timer, stopping, recovering,
                 checks, app, events, abandoned>>
HealthTimeout(k) ==
  /\ At(k, "health") /\ ~Healthy
  /\ IF child = call[k].own /\ child \notin termed THEN Term({child}) ELSE UNCHANGED termed
  /\ Return(k)
  /\ UNCHANGED <<proc, old, manager, checks, app, events, abandoned>>

\* A call rejects.  After stop() for quitting, app.quit() follows in any case;
\* a start() leaves everything as it is.
Reject(k) ==
  /\ app' = IF k = "quit" THEN "gone" ELSE app
  /\ abandoned' = (abandoned \/ k # "quit")
  /\ Return(k)
  /\ UNCHANGED <<proc, old, termed, manager, checks>>

\* kill(1) or taskkill fails.
KillFails(k) ==
  /\ At(k, "kill") \/ At(k, "stopkill")
  /\ Foreign # {} /\ Count("refusal")
  /\ Reject(k)

\* waitForSidecarToStop: the port is still served after five seconds.
PortTaken(k) ==
  /\ At(k, "portwait") \/ At(k, "stopwait")
  /\ Reachable
  /\ Reject(k) /\ UNCHANGED events

-----------------------------------------------------------------------------
(* stop(), and its two callers. *)

\* Up to the first await.
StopBegin(k) ==
  /\ stopping' = TRUE /\ timer' = FALSE /\ polling' = FALSE
  /\ IF child # NoProcess
     THEN Term({child}) /\ Waits(k, "exitwait", child)
     ELSE UNCHANGED termed /\ Waits(k, "stopkill", NoProcess)
  /\ UNCHANGED <<child, status, recovering>>

\* retryStart: the banner's button and the Bonjour installer.
Retry ==
  /\ At("retry", "idle") /\ Count("retry")
  /\ call["boot"].pc # "ready" /\ app = "running"
  /\ restarts' = 0
  /\ StopBegin("retry")
  /\ UNCHANGED <<proc, old, checks, app, abandoned>>

\* before-quit.
Quit ==
  /\ app = "running" /\ call["boot"].pc # "ready"
  /\ app' = "quitting"
  /\ StopBegin("quit")
  /\ UNCHANGED <<proc, old, checks, restarts, events, abandoned>>

\* The child's exit event came, or five seconds passed: then whatever the field
\* names by now gets a SIGKILL.
\* Mutant: without the five seconds.
StopGoesOnPatient(k) ==
  /\ At(k, "exitwait") /\ proc[call[k].own] = "none"
  /\ child' = NoProcess
  /\ Waits(k, "stopkill", NoProcess)
  /\ UNCHANGED <<proc, old, termed, restarts, status, polling, timer, stopping,
                 recovering, checks, app, events, abandoned>>
StopGoesOn(k) ==
  /\ At(k, "exitwait")
  /\ proc' = IF proc[call[k].own] # "none" /\ child # NoProcess /\ Alive(child)
             THEN [proc EXCEPT ![child] = "exited"] ELSE proc
  /\ child' = NoProcess
  /\ Waits(k, "stopkill", NoProcess)
  /\ UNCHANGED <<old, termed, restarts, status, polling, timer, stopping,
                 recovering, checks, app, events, abandoned>>

\* The end of stop(): the state "stopped", then the caller goes on.
Stopped(k) ==
  IF k = "quit"
  THEN /\ status' = "stopped" /\ app' = "gone" /\ Return(k)
       /\ UNCHANGED <<child, restarts, polling, timer, stopping, recovering>>
  ELSE /\ IF child # NoProcess
          THEN Return(k) /\ UNCHANGED <<stopping, recovering, timer, polling>>
          ELSE /\ stopping' = FALSE /\ recovering' = FALSE /\ timer' = FALSE /\ polling' = FALSE
               /\ Waits(k, "kill", NoProcess)
       /\ status' = "stopped" /\ UNCHANGED <<child, restarts, app>>

StopKills(k) ==
  /\ At(k, "stopkill")
  /\ \/ ForceShutdown(k, "stopwait") /\ UNCHANGED <<manager, app>>
     \/ Foreign = {} /\ Stopped(k) /\ UNCHANGED termed
  /\ UNCHANGED <<proc, old, checks, events, abandoned>>

StopPortFree(k) ==
  /\ At(k, "stopwait") /\ ~Reachable
  /\ Stopped(k)
  /\ UNCHANGED <<proc, old, termed, checks, events, abandoned>>

-----------------------------------------------------------------------------
Init ==
  /\ \E there \in BOOLEAN :
       /\ proc = [p \in Procs |-> IF p = External /\ there THEN "serving" ELSE "none"]
       /\ old \in {FALSE, there}
  /\ termed = {} /\ child = NoProcess /\ restarts = 0 /\ status = "starting"
  /\ polling = FALSE /\ checks = 0 /\ timer = FALSE
  /\ stopping = FALSE /\ recovering = FALSE
  /\ call = [k \in Calls |-> [pc |-> IF k = "boot" THEN "ready" ELSE "idle",
                              own |-> NoProcess]]
  /\ app = "running"
  /\ \E b \in Budgets : events = [left |-> b, seen |-> {}]
  /\ abandoned = FALSE

StartStep(k) ==
  \/ Snapshot(k) \/ StartKills(k) \/ PortFree(k) \/ HealthSeen(k) \/ HealthTimeout(k)
StopStep(k) == StopGoesOn(k) \/ StopKills(k) \/ StopPortFree(k) \/ PortTaken(k)

Next ==
  \/ \E p \in Procs : Bind(p) \/ Exit(p) \/ Crash(p) \/ Hang(p) \/ OnExit(p)
  \/ CheckSend \/ CheckOk \/ CheckFailed
  \/ Boot \/ Retry \/ Quit
  \/ \E k \in Timed : TimerFires(k)
  \/ \E k \in Calls : StartStep(k) \/ StopStep(k) \/ KillFails(k)

Spec == Init /\ [][Next]_vars

\* Timers expire, requests are answered or time out, spawned processes come up,
\* and a process that still serves obeys SIGTERM.  A hung one need not.
Fairness ==
  /\ \A p \in Procs : /\ WF_vars(Bind(p)) /\ WF_vars(OnExit(p))
                      /\ WF_vars(proc[p] # "hung" /\ Exit(p))
  /\ WF_vars(CheckOk \/ CheckFailed) /\ WF_vars(CheckSend)
  /\ WF_vars(Boot)
  /\ \A k \in Timed : WF_vars(TimerFires(k))
  /\ \A k \in Calls : WF_vars(StartStep(k)) /\ WF_vars(StopStep(k))

FairSpec == Spec /\ Fairness

-----------------------------------------------------------------------------
TypeOK ==
  /\ proc \in [Procs -> {"none", "booting", "serving", "hung", "exited"}]
  /\ old \in BOOLEAN /\ termed \subseteq Procs
  /\ child \in Children \cup {NoProcess}
  /\ restarts \in 0..MaxRestarts
  /\ status \in {"starting", "healthy", "failed", "stopped"}
  /\ polling \in BOOLEAN /\ timer \in BOOLEAN
  /\ stopping \in BOOLEAN /\ recovering \in BOOLEAN
  /\ checks \in 0..MaxInFlight
  /\ call \in [Calls -> [pc : {"ready", "idle", "snapshot", "kill", "portwait", "health",
                               "exitwait", "stopkill", "stopwait"},
                         own : Children \cup {NoProcess}]]
  /\ app \in {"running", "quitting", "gone"}
  /\ events.left \in [{"crash", "hang", "refusal", "retry"} -> Nat]
  /\ events.seen \subseteq {"crash", "hang", "refusal", "retry"}
  /\ abandoned \in BOOLEAN

\* Two things upset the bookkeeping, as long as they have not happened ...
Undisturbed == events.seen \cap {"hang", "retry"} = {}

\* While the windows are told the sidecar is healthy somebody watches it: the
\* interval runs, or a failure it found is being worked on, or the sidecar is
\* being stopped (startHealthCheck, stopHealthCheck).  The retry button, pressed
\* while a start() is under way, can bring about the opposite; so can a sidecar
\* that hung, whose late answers let three start() calls overlap.
HealthyIsWatched ==
  app # "gone" /\ status = "healthy" /\ Undisturbed => polling \/ stopping \/ recovering

\* The manager knows the process it spawned: no living child but the one of its
\* field, which OnExit and stop() look at, unless stop() has let go of it.
NoOrphan == Undisturbed /\ ~stopping => \A p \in Children : Alive(p) => p = child

\* "starting" is not for ever: the windows get to see another state, unless a
\* start() was abandoned before its spawn (nobody tries again then) or a hung
\* process ignores its SIGTERM.
StartingEnds ==
  []<>(\/ status # "starting" \/ app = "gone" \/ abandoned
       \/ \E p \in termed : proc[p] = "hung")

\* Quitting, which nothing takes back, ends, whatever the sidecar does (stop()'s five
\* seconds and before-quit's finally).
QuitEnds == []<>(app # "quitting")

=============================================================================
