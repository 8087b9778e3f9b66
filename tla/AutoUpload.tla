------------------------------ MODULE AutoUpload ------------------------------
(***************************************************************************)
(* Turning auto upload on and off from the phone's two screens that can    *)
(* do it, the album's header and the settings screen, and the baseline     *)
(* from which "transferred this session" is counted: a number in a module  *)
(* variable, with a copy in AsyncStorage.                                  *)
(*                                                                         *)
(* Every await is a step, so handlers of a screen that is gone go on, and  *)
(* handlers of two screens interleave.  The native module is external: it  *)
(* keeps the state of auto upload and the count of transferred assets, and *)
(* each of its calls may be refused.                                       *)
(***************************************************************************)
EXTENDS PhoneValues, Naturals, FiniteSets

CONSTANTS
  Unread,      \* cachedSessionBaseline is undefined
  MaxTasks,    \* handlers that are ever started
  MaxTransferred      \* assets transferred

UploadStates == {"disabled", "active", "interrupted"}

AutoUploadAssumption ==
  /\ MaxTasks \in Nat /\ MaxTransferred \in Nat
  /\ Unread # None /\ Unread \notin Nat /\ None \notin Nat \cup UploadStates

VARIABLES
  state, transferred,       \* native: state of auto upload, assets transferred
  cached, disk,      \* cachedSessionBaseline; the copy in AsyncStorage
  tasks, tasksStarted,    \* handlers that wait for an answer; handlers so far
  mounted,            \* "none", "album" or "settings": what is mounted
  config,            \* album: autoUploadConfig.state
  custom,            \* album: timeRangeMode is "custom", customTimeFrom not chosen
  dialog,            \* album: the question whether to turn it off
  persisted, switch, \* settings: persistedAutoUploadEnabled, autoUploadEnabled
  configLoading, configError, configSaving,   \* settings
  since,             \* history: "transferred" when auto upload last left "disabled"
  lost               \* history: a removal failed or the app ended before it; auto upload
                     \* was turned off while an earlier baseline was on its way to memory
                     \* or storage, or went off without this module's knowing

engineVars   == <<state, transferred, since>>
storeVars    == <<cached, disk>>
headerVars    == <<config, custom, dialog>>
switchVars == <<persisted, switch, configLoading, configError, configSaving>>
uploadVars == <<engineVars, storeVars, tasks, tasksStarted, mounted, headerVars, switchVars, lost>>

-----------------------------------------------------------------------------
(* Handlers that are under way: who started them and what they wait for. *)

Task(who, flow, step, base) ==
  [id |-> tasksStarted + 1, who |-> who, flow |-> flow, step |-> step, base |-> base,
   raw |-> None, live |-> TRUE]
TaskStarts(t) ==
  tasksStarted < MaxTasks /\ tasksStarted' = tasksStarted + 1 /\ tasks' = tasks \cup {t}
TaskGoes(t, step) == tasks' = (tasks \ {t}) \cup {[t EXCEPT !.step = step]}
TaskGoesWith(t, step, base) ==
  tasks' = (tasks \ {t}) \cup {[t EXCEPT !.step = step, !.base = base]}
TaskEnds(t) == tasks' = tasks \ {t}

-----------------------------------------------------------------------------
(* Screens. *)

OpenAlbum ==
  /\ mounted = "none" /\ mounted' = "album"
  /\ config' = None /\ custom' = FALSE /\ dialog' = FALSE
  /\ TaskStarts(Task("album", "load", "reload", 0))
  /\ UNCHANGED <<engineVars, storeVars, switchVars, lost>>

OpenSettings ==
  /\ mounted = "none" /\ mounted' = "settings"
  /\ persisted' = FALSE /\ switch' = FALSE /\ configSaving' = FALSE
  /\ configLoading' = TRUE /\ configError' = FALSE
  /\ TaskStarts(Task("settings", "hydrate", "hydrate", 0))
  /\ UNCHANGED <<engineVars, storeVars, headerVars, lost>>

\* Back: what is under way goes on, and sets state nobody sees.
LeaveScreen ==
  /\ mounted # "none" /\ ~dialog /\ mounted' = "none"
  /\ tasks' = {[t EXCEPT !.live = FALSE] : t \in tasks}
  /\ config' = None /\ custom' = FALSE
  /\ persisted' = FALSE /\ switch' = FALSE /\ configSaving' = FALSE
  /\ configLoading' = TRUE /\ configError' = FALSE
  /\ UNCHANGED <<engineVars, storeVars, tasksStarted, dialog, lost>>

IsShown(t) == t.live

Hydrate(t) ==
  /\ t.step = "hydrate" /\ TaskEnds(t)
  /\ IF IsShown(t)
     THEN /\ configLoading' = FALSE
          /\ \/ /\ persisted' = (state # "disabled") /\ switch' = (state # "disabled")
                /\ configError' = FALSE
             \/ configError' = TRUE /\ UNCHANGED <<persisted, switch>>
          /\ UNCHANGED configSaving
     ELSE UNCHANGED switchVars
  /\ UNCHANGED <<engineVars, storeVars, tasksStarted, mounted, headerVars, lost>>

-----------------------------------------------------------------------------
(* The album's header. *)

\* The button of the header: an active upload is asked about, else it is turned on,
\* which a phone with an incomplete range cannot.  A phone that is not connected to
\* the desktop (deviceConnected) may be told so instead, and nothing changes.
ToggleShown == mounted = "album" /\ config # None
Toggle ==
  /\ ToggleShown /\ ~dialog
  /\ IF config = "active"
     THEN dialog' = TRUE /\ UNCHANGED <<tasks, tasksStarted>>
     ELSE /\ ~(config = "disabled" /\ custom)
          /\ TaskStarts(Task("album", "enable", "prime", 0)) /\ UNCHANGED dialog
  /\ UNCHANGED <<engineVars, storeVars, mounted, config, custom, switchVars, lost>>

CloseAuto(confirm) ==
  /\ dialog /\ dialog' = FALSE
  /\ IF confirm THEN TaskStarts(Task("album", "disable", "disable", 0))
                ELSE UNCHANGED <<tasks, tasksStarted>>
  /\ UNCHANGED <<engineVars, storeVars, mounted, config, custom, switchVars, lost>>

\* A range is chosen: the whole configuration goes back as it was read, "enabled"
\* included.  The custom range is saved when its date is.
RangeShown == ToggleShown /\ config # "active"
ChooseRange(isCustom, hasDate) ==
  /\ RangeShown /\ ~dialog
  /\ IF isCustom /\ ~hasDate
     THEN custom' = TRUE /\ UNCHANGED <<tasks, tasksStarted>>
     ELSE /\ custom' = FALSE
          /\ TaskStarts(Task("album", IF config = "disabled" THEN "rangeOff" ELSE "rangeOn",
                             "save", 0))
  /\ UNCHANGED <<engineVars, storeVars, mounted, config, dialog, switchVars, lost>>

\* loadConfig
ReloadConfig(t) ==
  /\ t.step = "reload" /\ TaskEnds(t)
  /\ IF IsShown(t) THEN config' \in {state, config} ELSE UNCHANGED config
  /\ UNCHANGED <<engineVars, storeVars, tasksStarted, mounted, custom, dialog, switchVars, lost>>

\* The number on display: getAutoUploadSessionTransferredCount after a load.
LoadProgress ==
  /\ mounted = "album" /\ config = "active"
  /\ TaskStarts(Task("album", "progress", "read", 0))
  /\ UNCHANGED <<engineVars, storeVars, mounted, headerVars, switchVars, lost>>

-----------------------------------------------------------------------------
(* The switch of the settings screen. *)

SwitchFree == mounted = "settings" /\ ~configLoading /\ ~configError /\ ~configSaving
FlipSwitch ==
  /\ SwitchFree /\ switch' = ~switch
  /\ IF switch /\ ~persisted
     THEN UNCHANGED <<configSaving, tasks, tasksStarted>>
     ELSE /\ configSaving' = TRUE
          /\ TaskStarts(Task("settings", IF switch THEN "disable" ELSE "enable",
                         IF switch THEN "disable" ELSE IF persisted THEN "save" ELSE "prepare",
                         IF persisted THEN 0 ELSE 1))
  /\ UNCHANGED <<engineVars, storeVars, mounted, headerVars, persisted, configLoading,
                 configError, lost>>

\* The end of a handler: the switch stays, or goes back after a failure.
TaskSettles(t, ok) ==
  IF t.who = "album"
  THEN /\ IF ok THEN TaskGoes(t, "reload") ELSE TaskEnds(t)
       /\ UNCHANGED switchVars
  ELSE /\ TaskEnds(t)
       /\ IF ~IsShown(t) THEN UNCHANGED switchVars
          ELSE /\ configSaving' = FALSE
               /\ IF ok THEN /\ persisted' = (t.flow = "enable")
                             /\ switch' = (t.flow = "enable")
                        ELSE /\ switch' = (persisted \/ t.flow = "disable")
                             /\ UNCHANGED persisted
               /\ UNCHANGED <<configLoading, configError>>

-----------------------------------------------------------------------------
(* SyncEngineModule and autoUploadRoundProgress, one await at a time. *)

Becomes(new) ==
  /\ state' = new
  /\ since' = IF state = "disabled" /\ new # "disabled" THEN transferred ELSE since

\* primeAutoUploadRoundBaseline and prepareAutoUploadEnable: may be refused.
Prepare(t) ==
  /\ t.step \in {"prime", "prepare"}
  /\ \/ /\ TaskGoes(t, IF t.step = "prime" THEN "prepare"
                   ELSE IF t.who = "album" THEN "config" ELSE "save")
        /\ UNCHANGED switchVars
     \/ t.step = "prepare" /\ TaskSettles(t, FALSE)
  /\ UNCHANGED <<engineVars, storeVars, tasksStarted, mounted, headerVars, lost>>

\* saveAutoUploadConfig: native turns auto upload on at once, where it was off.
Save(t) ==
  /\ t.step = "save"
  /\ \/ /\ IF t.flow = "rangeOff" THEN Becomes("disabled")
           ELSE IF state = "disabled" THEN Becomes("active") ELSE UNCHANGED <<state, since>>
        /\ lost' = (lost \/ (t.flow = "rangeOff" /\ state # "disabled"))
        /\ IF t.who = "settings" /\ t.base = 1
           THEN TaskGoes(t, "config") /\ UNCHANGED switchVars ELSE TaskSettles(t, TRUE)
     \/ TaskSettles(t, FALSE) /\ UNCHANGED <<state, since, lost>>
  /\ UNCHANGED <<transferred, storeVars, tasksStarted, mounted, headerVars>>

\* enableAutoUpload: a session of an earlier time is forgotten where native says that
\* auto upload is off.  An answer that fails counts as one that says nothing.
Config(t) ==
  /\ t.step = "config"
  /\ \/ /\ state = "disabled" /\ cached' = None /\ TaskGoes(t, "remove") /\ UNCHANGED lost
     \/ /\ state # "disabled" /\ TaskGoes(t, "read") /\ UNCHANGED <<cached, lost>>
     \/ /\ state = "disabled" /\ TaskGoes(t, "read") /\ lost' = TRUE /\ UNCHANGED cached
  /\ UNCHANGED <<engineVars, disk, tasksStarted, mounted, headerVars, switchVars>>

\* clearAutoUploadSession, after the module variable: best effort.
ClearStored(t) ==
  /\ t.step = "remove"
  /\ \/ disk' = None /\ UNCHANGED lost
     \/ lost' = TRUE /\ UNCHANGED disk
  /\ IF t.flow = "enable" THEN TaskGoes(t, "read") /\ UNCHANGED switchVars ELSE TaskSettles(t, TRUE)
  /\ UNCHANGED <<engineVars, cached, tasksStarted, mounted, headerVars>>

\* readAutoUploadSessionBaseline: storage is asked while nothing is known...
GoesOn(t, known) ==
  CASE t.flow = "progress" -> TaskEnds(t)
    [] t.flow = "infer" /\ known # None -> TaskEnds(t)
    [] t.flow = "enable" /\ known # None -> TaskGoes(t, "resume")
    [] OTHER -> TaskGoes(t, "count")
Asking(t) == [t EXCEPT !.step = "storage", !.raw = disk]
Read(t) ==
  /\ t.step = "read"
  /\ IF cached = Unread THEN tasks' = (tasks \ {t}) \cup {Asking(t)} ELSE GoesOn(t, cached)
  /\ UNCHANGED <<engineVars, storeVars, tasksStarted, mounted, headerVars, switchVars, lost>>
\* ... and what it says is taken whatever happened meanwhile; nothing, where it fails.
StorageAnswers(t) ==
  /\ t.step = "storage"
  /\ \E known \in {t.raw, None} : cached' = known /\ GoesOn(t, known)
  /\ UNCHANGED <<engineVars, disk, tasksStarted, mounted, headerVars, switchVars, lost>>

\* getTransferredAlbumCount, and the write's module variable.
Count(t) ==
  /\ t.step = "count"
  /\ \/ /\ cached' = (IF t.flow = "infer" THEN t.base ELSE transferred)
        /\ TaskGoesWith(t, "write", IF t.flow = "infer" THEN t.base ELSE transferred)
     \/ t.flow = "enable" /\ TaskGoes(t, "resume") /\ UNCHANGED cached
  /\ UNCHANGED <<engineVars, disk, tasksStarted, mounted, headerVars, switchVars, lost>>

Write(t) ==
  /\ t.step = "write" /\ disk' \in {t.base, disk}
  /\ IF t.flow = "infer" THEN TaskEnds(t) ELSE TaskGoes(t, "resume")
  /\ UNCHANGED <<engineVars, cached, tasksStarted, mounted, headerVars, switchVars, lost>>

\* resumeAutoUpload.
Resume(t) ==
  /\ t.step = "resume"
  /\ \/ Becomes("active") /\ TaskSettles(t, TRUE)
     \/ TaskSettles(t, FALSE) /\ UNCHANGED <<state, since>>
  /\ UNCHANGED <<transferred, storeVars, tasksStarted, mounted, headerVars, lost>>

\* disableAutoUpload: native first.  A handler under way may have taken its baseline
\* already, and brings it back.
AsksStorage(t) == t.step = "storage"
Taken(t) == AsksStorage(t) \/ t.step = "write" \/ t.flow = "infer"
\* Mutant: the session is kept for the next time.
DisableKeepsSession(t) ==
  /\ t.step = "disable"
  /\ \/ Becomes("disabled") /\ TaskSettles(t, TRUE)
     \/ TaskSettles(t, FALSE) /\ UNCHANGED <<state, since>>
  /\ UNCHANGED <<transferred, storeVars, tasksStarted, mounted, headerVars, lost>>
Disable(t) ==
  /\ t.step = "disable"
  /\ \/ /\ Becomes("disabled") /\ lost' = (lost \/ \E u \in tasks : Taken(u))
        /\ TaskGoes(t, "forget") /\ UNCHANGED switchVars
     \/ TaskSettles(t, FALSE) /\ UNCHANGED <<state, since, lost>>
  /\ UNCHANGED <<transferred, storeVars, tasksStarted, mounted, headerVars>>
\* Then the session is forgotten: the module variable first.
Forget(t) ==
  /\ t.step = "forget" /\ cached' = None /\ TaskGoes(t, "remove")
  /\ lost' = (lost \/ \E u \in tasks : AsksStorage(u))
  /\ UNCHANGED <<engineVars, disk, tasksStarted, mounted, headerVars, switchVars>>

-----------------------------------------------------------------------------
(* Native. *)

Transfer ==
  /\ state = "active" /\ transferred < MaxTransferred /\ transferred' = transferred + 1
  /\ UNCHANGED <<state, since, storeVars, tasks, tasksStarted, mounted, headerVars,
                 switchVars, lost>>

\* Native interrupts an upload.
NativeChanges ==
  /\ state = "active" /\ state' = "interrupted"
  /\ UNCHANGED <<transferred, since, storeVars, tasks, tasksStarted, mounted, headerVars,
                 switchVars, lost>>

\* onSyncStateChanged with a round of auto upload: the round's baseline becomes the
\* session's where there is none (rememberAutoUploadSessionBaselineFromRound).
RoundCounts == state = "active"
RoundBaselines == since..transferred
Infer ==
  /\ mounted = "album" /\ RoundCounts
  /\ \E base \in RoundBaselines :
       CASE cached = None -> cached' = base /\ TaskStarts(Task("album", "infer", "write", base))
         [] cached = Unread -> /\ UNCHANGED cached
                               /\ TaskStarts(Asking(Task("album", "infer", "read", base)))
         [] OTHER -> FALSE
  /\ UNCHANGED <<engineVars, disk, mounted, headerVars, switchVars, lost>>

\* The app ends and starts again; native goes on where it was.
Restart ==
  /\ cached' = Unread /\ tasks' = {} /\ mounted' = "none" /\ dialog' = FALSE
  /\ config' = None /\ custom' = FALSE
  /\ persisted' = FALSE /\ switch' = FALSE /\ configSaving' = FALSE
  /\ configLoading' = TRUE /\ configError' = FALSE
  /\ UNCHANGED <<engineVars, disk, tasksStarted>>
  /\ lost' = (lost \/ \E t \in tasks : t.step \in {"forget", "remove", "write"})

Step(t) ==
  \/ Hydrate(t) \/ ReloadConfig(t) \/ Prepare(t) \/ Save(t) \/ Config(t) \/ ClearStored(t)
  \/ Read(t)
  \/ StorageAnswers(t) \/ Count(t) \/ Write(t) \/ Resume(t) \/ Disable(t) \/ Forget(t)

-----------------------------------------------------------------------------
UploadInit ==
  /\ transferred = 0 /\ since = 0 /\ cached = Unread
  /\ \/ state = "disabled" /\ disk = None
     \/ state = "active" /\ disk = 0       \* left on by an earlier run of the app
  /\ tasks = {} /\ tasksStarted = 0 /\ mounted = "none"
  /\ config = None /\ custom = FALSE /\ dialog = FALSE
  /\ persisted = FALSE /\ switch = FALSE
  /\ configLoading = TRUE /\ configError = FALSE /\ configSaving = FALSE
  /\ lost = FALSE

UploadNext ==
  \/ OpenAlbum \/ OpenSettings \/ LeaveScreen \/ Toggle \/ FlipSwitch \/ LoadProgress
  \/ CloseAuto(TRUE) \/ CloseAuto(FALSE)
  \/ ChooseRange(FALSE, FALSE) \/ ChooseRange(TRUE, FALSE) \/ ChooseRange(TRUE, TRUE)
  \/ Transfer \/ NativeChanges \/ Infer \/ Restart
  \/ \E t \in tasks : Step(t)

UploadSpec == UploadInit /\ [][UploadNext]_uploadVars /\ WF_uploadVars(\E t \in tasks : Step(t))

-----------------------------------------------------------------------------
UploadTypeOK ==
  /\ state \in UploadStates /\ transferred \in 0..MaxTransferred /\ since \in 0..transferred
  /\ cached \in {Unread, None} \cup 0..MaxTransferred /\ disk \in {None} \cup 0..MaxTransferred
  /\ config \in UploadStates \cup {None} /\ mounted \in {"none", "album", "settings"}
  /\ tasksStarted \in 0..MaxTasks

\* With nothing under way, a session is counted from when auto upload was turned on, not
\* from a session before it, however the two screens' handlers interleave, except ("lost")
\* when a removal of the old session failed or the application ended before it, when auto
\* upload was turned off while a baseline was on its way to memory or storage, or when it
\* went off by the range or the engine and this module was not told.
SessionIsFresh ==
  state = "active" /\ tasks = {} /\ ~lost /\ cached \in Nat => cached >= since

=============================================================================
