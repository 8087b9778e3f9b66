----------------------------- MODULE Phone_proofs -----------------------------
(***************************************************************************)
(* Theorems about the phone's screens, one section per module of MCMobile  *)
(* but discovery and pairing (MobilePairing_proofs): for any number of     *)
(* calls, answers, assets, files, folders and changes.                     *)
(***************************************************************************)
EXTENDS AlbumBrowser, AutoUpload, LocalComputer, PhoneDownloads, SyncActivity, PhoneSettings,
        PhoneThumbnails, FiniteSetTheorems, SequenceTheorems, TLAPS

-----------------------------------------------------------------------------
(***************************************************************************)
(* AlbumBrowser: ListOfView.  The invariant says what each call that is on *)
(* its way will do to the list.                                            *)
(***************************************************************************)

\* The calls there are, and the stages they go through.
Calls == [kind : {"reset", "more", "refresh", "stats"}, id : Nat, view : Views,
          from : Nat, count : Nat,
          stage : {"status", "prompt", "browse", "refused", "broken"}]

\* The list is of the view on the screen, or a call that will make it so is on its way; a
\* call that is not the latest has nothing to say.
Pending == \E c \in flying : c.id = request /\ c.kind \in {"reset", "refresh"}
AlbumInv ==
  /\ flying \subseteq Calls /\ view \in Views /\ offset \in Nat /\ request \in Nat \ {0}
  /\ \A c \in flying : /\ c.id <= request /\ (c.id = request => c.view = view)
                       /\ c.kind = "stats" => c.id = 0
                       /\ c.kind = "refresh" => c.stage = "browse"
  /\ ~crossed => origin \subseteq {view} \/ Pending
  /\ ~crossed => \A c \in flying : c.id = request /\ c.kind = "more" => origin \subseteq {view}

LEMMA NewCall ==
  ASSUME AlbumAssumption, NEW kind \in {"reset", "more", "refresh", "stats"}, NEW id \in Nat,
         NEW v \in Views, NEW from \in Nat, NEW count \in Nat
  PROVE  LET c == Call(kind, id, v, from, count)
         IN  /\ c \in Calls /\ c.kind = kind /\ c.id = id /\ c.view = v
             /\ kind = "refresh" => c.stage = "browse"
  BY DEF Call, Calls

LEMMA StatsCalls ==
  ASSUME AlbumAssumption, NEW v \in Views, NEW c \in Stats(v)
  PROVE  c \in Calls /\ c.kind = "stats" /\ c.id = 0
<1>1. c = Call("stats", 0, v, 0, 0)
  BY DEF Stats
<1> QED
  BY <1>1, NewCall

LEMMA PageIsFinite ==
  ASSUME NEW v, NEW from \in Nat, NEW count \in Nat
  PROVE  Cardinality(Page(v, from, count)) \in Nat
<1> DEFINE all  == IF access \in Readable THEN Matching(v) ELSE <<>>
           last == IF from + count < Len(all) THEN from + count ELSE Len(all)
           at   == [i \in (from + 1)..last |-> all[i]]
<1>1. CASE last \in Int
  <2>1. IsFiniteSet((from + 1)..last)
    BY <1>1, FS_Interval
  <2>2. at \in Surjection((from + 1)..last, Page(v, from, count))
    BY DEF Page, Surjection
  <2> QED
    BY <2>1, <2>2, FS_Surjection, FS_CardinalityType
<1>2. Len(all) \in Nat
  OBVIOUS
<1> QED
  BY <1>1, <1>2

LEMMA AlbumStarts == AlbumAssumption /\ AlbumInit => AlbumInv
<1> SUFFICES ASSUME AlbumAssumption, AlbumInit PROVE AlbumInv
  OBVIOUS
<1> DEFINE first == Call("reset", 1, Start, 0, PageSize)
<1>1. first \in Calls /\ first.kind = "reset" /\ first.id = 1 /\ first.view = Start
  BY NewCall DEF AlbumAssumption
<1> HIDE DEF first
<1>2. flying = {first} \cup Stats(Start) /\ view = Start /\ Start \in Views
  BY DEF AlbumInit, AlbumAssumption, first
<1>3. \A c \in flying : c = first \/ (c \in Calls /\ c.kind = "stats" /\ c.id = 0)
  BY <1>2, StatsCalls
<1> QED
  BY <1>1, <1>2, <1>3 DEF AlbumInit, AlbumInv, Pending

\* A load begins for the view on the screen.
LEMMA ReloadKeeps ==
  ASSUME AlbumAssumption, AlbumInv, NEW v \in Views, Reload(v), view' = v, UNCHANGED crossed
  PROVE  AlbumInv'
<1> DEFINE new == Call("reset", request + 1, v, 0, PageSize)
<1>1. new \in Calls /\ new.kind = "reset" /\ new.id = request + 1 /\ new.view = v
  BY NewCall DEF AlbumAssumption, AlbumInv
<1> HIDE DEF new
<1>2. /\ flying' = flying \cup ({new} \cup Stats(v)) /\ request' = request + 1
      /\ UNCHANGED <<offset, origin>>
  BY DEF Reload, Fly, new
<1>3. \A c \in flying' : c \in flying \/ c = new \/ (c \in Calls /\ c.kind = "stats" /\ c.id = 0)
  BY <1>2, StatsCalls
<1>4. \A c \in flying : c \in Calls /\ c.id <= request /\ c.id \in Nat
  BY DEF AlbumInv, Calls
<1> QED
  BY <1>1, <1>2, <1>3, <1>4 DEF AlbumInv, Pending

\* A call goes to another stage of its own.
LEMMA MoveKeeps ==
  ASSUME AlbumInv, NEW c \in flying, c.kind # "refresh",
         NEW stage \in {"status", "prompt", "browse", "refused", "broken"}, Move(c, stage),
         UNCHANGED <<view, offset, request, crossed, origin>>
  PROVE  AlbumInv'
<1> DEFINE moved == [c EXCEPT !.stage = stage]
<1>1. /\ moved \in Calls /\ moved.kind = c.kind /\ moved.id = c.id /\ moved.view = c.view
      /\ moved.stage = stage
  BY DEF AlbumInv, Calls
<1> HIDE DEF moved
<1>2. flying' = (flying \ {c}) \cup {moved}
  BY DEF Move, moved
<1> QED
  BY <1>1, <1>2 DEF AlbumInv, Pending

\* The dialog is over: every call that waited for it goes to a stage.
LEMMA PromptKeeps ==
  ASSUME AlbumInv, NEW stage \in {"browse", "refused", "broken"},
         flying' = {IF c.stage = "prompt" THEN [c EXCEPT !.stage = stage] ELSE c : c \in flying},
         UNCHANGED <<view, offset, request, crossed, origin>>
  PROVE  AlbumInv'
<1> DEFINE moved(c) == IF c.stage = "prompt" THEN [c EXCEPT !.stage = stage] ELSE c
<1>1. \A c \in flying :
        /\ moved(c) \in Calls /\ moved(c).kind = c.kind /\ moved(c).id = c.id
        /\ moved(c).view = c.view /\ (c.kind = "refresh" => moved(c).stage = "browse")
  BY DEF AlbumInv, Calls
<1>2. flying' = {moved(c) : c \in flying}
  OBVIOUS
<1> HIDE DEF moved
<1>3. \A d \in flying' : \E c \in flying :
        /\ d = moved(c) /\ d \in Calls /\ d.kind = c.kind /\ d.id = c.id /\ d.view = c.view
        /\ d.kind = "refresh" => d.stage = "browse"
  BY <1>1, <1>2
<1>4. \A c \in flying : moved(c) \in flying'
  BY <1>2
<1>5. Pending => Pending'
  BY <1>1, <1>4 DEF Pending
<1> QED
  BY <1>3, <1>5 DEF AlbumInv

\* A call is over; "said" is what is known of the list then.
LEMMA CallOver ==
  ASSUME AlbumInv, NEW c \in flying, flying' = flying \ {c}, offset' \in Nat,
         UNCHANGED <<view, request>>, crossed => crossed',
         ~crossed' => \/ origin' \subseteq {view}
                      \/ origin' = origin /\ (c.id # request \/ c.kind = "stats" \/ c.kind = "more")
  PROVE  AlbumInv'
<1>1. c.kind = "stats" => c.id # request
  BY DEF AlbumInv, Calls
<1> QED
  BY <1>1 DEF AlbumInv, Pending

LEMMA AlbumStep == AlbumAssumption /\ AlbumInv /\ [AlbumNext]_albumVars => AlbumInv'
<1> SUFFICES ASSUME AlbumAssumption, AlbumInv, [AlbumNext]_albumVars PROVE AlbumInv'
  OBVIOUS
<1>a. CASE UNCHANGED <<flying, view, offset, request, crossed, origin>>
  BY <1>a DEF AlbumInv, Pending
<1>b. \A c \in flying : /\ c \in Calls /\ c.id \in Nat /\ c.view \in Views /\ c.from \in Nat
                        /\ c.count \in Nat
  BY DEF AlbumInv, Calls
<1>1. ASSUME NEW v \in Views, ChangeTab(v) \/ SelectCollection(v) PROVE AlbumInv'
  BY <1>1, ReloadKeeps DEF ChangeTab, SelectCollection
<1>2. CASE LibraryChanged \/ PickLimited
  <2>1. view \in Views /\ view' = view /\ Reload(view) /\ UNCHANGED crossed
    BY <1>2 DEF LibraryChanged, PickLimited, AlbumInv
  <2> QED
    BY <2>1, ReloadKeeps
<1>3. CASE EndReached
  <2> DEFINE new == Call("more", request + 1, view, offset, PageSize)
  <2>1. new \in Calls /\ new.kind = "more" /\ new.id = request + 1 /\ new.view = view
    BY NewCall DEF AlbumAssumption, AlbumInv
  <2> HIDE DEF new
  <2>2. /\ flying' = flying \cup {new} /\ request' = request + 1
        /\ crossed' = (crossed \/ origin # {view}) /\ UNCHANGED <<view, offset, origin>>
    BY <1>3 DEF EndReached, Fly, new
  <2>3. ~crossed' => origin' \subseteq {view'}
    BY <2>2
  <2>4. /\ flying' \subseteq Calls /\ view' \in Views /\ offset' \in Nat
        /\ request' \in Nat \ {0}
    BY <2>1, <2>2 DEF AlbumInv
  <2>5. \A c \in flying' : /\ c.id <= request' /\ (c.id = request' => c.view = view')
                           /\ c.kind = "stats" => c.id = 0
                           /\ c.kind = "refresh" => c.stage = "browse"
    BY <1>b, <2>1, <2>2 DEF AlbumInv
  <2> QED
    BY <2>3, <2>4, <2>5 DEF AlbumInv
<1>4. CASE QueueUpdated
  <2> DEFINE new == Call("refresh", request + 1, view, 0, offset)
  <2>1. /\ new \in Calls /\ new.kind = "refresh" /\ new.id = request + 1 /\ new.view = view
        /\ new.stage = "browse"
    BY NewCall DEF AlbumAssumption, AlbumInv
  <2> HIDE DEF new
  <2>2. CASE Refreshes
    <3>1. Fly({new}) /\ request' = request + 1 /\ UNCHANGED <<listVars, view, crossed>>
      BY <1>4, <2>2 DEF QueueUpdated, new
    <3>2. flying' = flying \cup {new} /\ UNCHANGED <<view, offset, origin, crossed>>
      BY <3>1 DEF Fly, listVars
    <3> QED
      BY <1>b, <2>1, <3>1, <3>2 DEF AlbumInv, Pending
  <2>3. CASE ~Refreshes
    BY <1>4, <2>3, <1>a DEF QueueUpdated, listVars
  <2> QED
    BY <2>2, <2>3
<1>5. CASE OpenSheet \/ CloseSheet \/ AutoUploadChanges
  BY <1>5, <1>a DEF OpenSheet, CloseSheet, AutoUploadChanges, listVars
<1>6. CASE PromptAnswered
  <2> DEFINE stage == IF access' \in Readable THEN "browse" ELSE "refused"
  <2>1. stage \in {"browse", "refused", "broken"}
    OBVIOUS
  <2>2. flying' = {IF c.stage = "prompt" THEN [c EXCEPT !.stage = stage] ELSE c : c \in flying}
        /\ UNCHANGED <<view, offset, request, crossed, origin>>
    BY <1>6 DEF PromptAnswered, listVars
  <2> HIDE DEF stage
  <2> QED
    BY <2>1, <2>2, PromptKeeps
<1>7. CASE PromptFails
  <2>1. flying' = {IF c.stage = "prompt" THEN [c EXCEPT !.stage = "broken"] ELSE c : c \in flying}
        /\ UNCHANGED <<view, offset, request, crossed, origin>>
    BY <1>7 DEF PromptFails, listVars
  <2> QED
    BY <2>1, PromptKeeps
<1>8. ASSUME NEW c \in flying, StatusAnswered(c) \/ StatusFails(c) PROVE AlbumInv'
  <2>1. c.stage = "status" /\ UNCHANGED <<view, offset, request, crossed, origin>>
    BY <1>8 DEF StatusAnswered, StatusFails, listVars
  <2>2. c.kind # "refresh"
    BY <2>1 DEF AlbumInv
  <2>3. \E stage \in {"prompt", "browse", "refused"} : Move(c, stage)
    BY <1>8 DEF StatusAnswered, StatusFails
  <2> QED
    BY <2>1, <2>2, <2>3, MoveKeeps
<1>9. ASSUME NEW c \in flying, LoadRefused(c) PROVE AlbumInv'
  <2>1. c.stage = "refused" /\ flying' = flying \ {c} /\ UNCHANGED <<view, request, crossed>>
    BY <1>9 DEF LoadRefused
  <2>2. c.kind # "refresh"
    BY <2>1 DEF AlbumInv
  <2>3. CASE c.kind = "reset"
    <3>1. origin' = {} /\ offset' = 0
      BY <1>9, <2>3 DEF LoadRefused
    <3> QED
      BY <2>1, <3>1, CallOver
  <2>4. CASE c.kind # "reset"
    <3>1. UNCHANGED <<origin, offset>>
      BY <1>9, <2>4 DEF LoadRefused
    <3>2. c.kind = "stats" \/ c.kind = "more"
      BY <2>2, <2>4, <1>b DEF Calls
    <3> QED
      BY <2>1, <3>1, <3>2, CallOver DEF AlbumInv
  <2> QED
    BY <2>3, <2>4
<1>10. ASSUME NEW c \in flying, Answered(c) PROVE AlbumInv'
  <2> DEFINE answer == Page(c.view, c.from, c.count)
  <2>1. flying' = flying \ {c} /\ UNCHANGED <<view, request, crossed>>
    BY <1>10 DEF Answered
  <2>2. Cardinality(answer) \in Nat
    BY <1>b, PageIsFinite
  <2>3. CASE c.kind = "stats" \/ ~Current(c)
    <3>1. UNCHANGED <<origin, offset>>
      BY <1>10, <2>3 DEF Answered
    <3> QED
      BY <2>1, <2>3, <3>1, CallOver DEF AlbumInv, Current
  <2>4. CASE c.kind # "stats" /\ Current(c)
    <3>1. c.view = view /\ c.kind \in {"reset", "more", "refresh"} /\ c.id = request
      BY <1>b, <2>4 DEF AlbumInv, Calls, Current
    <3>2. /\ \/ origin' = {c.view} \/ (c.kind = "more" /\ origin' = origin \cup {c.view})
          /\ \/ offset' = offset \/ offset' = Cardinality(answer)
             \/ offset' = offset + Cardinality(answer)
      BY <1>10, <2>4, <3>1 DEF Answered
    <3> HIDE DEF answer
    <3>3. offset' \in Nat
      BY <2>2, <3>2 DEF AlbumInv
    <3>4. ~crossed => origin' \subseteq {view}
      BY <3>1, <3>2 DEF AlbumInv
    <3> QED
      BY <2>1, <3>3, <3>4, CallOver
  <2> QED
    BY <2>3, <2>4
<1>11. ASSUME NEW c \in flying, Failed(c) PROVE AlbumInv'
  <2>1. /\ flying' = flying \ {c} /\ UNCHANGED <<view, request, offset>>
        /\ crossed' = (crossed \/ c.kind = "refresh")
    BY <1>11 DEF Failed
  <2>2. CASE c.kind = "reset" /\ Current(c)
    <3>1. origin' = {}
      BY <1>11, <2>2 DEF Failed
    <3> QED
      BY <2>1, <3>1, CallOver DEF AlbumInv
  <2>3. CASE ~(c.kind = "reset" /\ Current(c))
    <3>1. origin' = origin
      BY <1>11, <2>3 DEF Failed
    <3>2. c.kind = "refresh" \/ c.id # request \/ c.kind = "stats" \/ c.kind = "more"
      BY <1>b, <2>3 DEF Calls, Current
    <3> QED
      BY <2>1, <3>1, <3>2, CallOver DEF AlbumInv
  <2> QED
    BY <2>2, <2>3
<1>12. CASE UNCHANGED albumVars
  BY <1>12, <1>a DEF albumVars, listVars
<1> QED
  BY <1>1, <1>2, <1>3, <1>4, <1>5, <1>6, <1>7, <1>8, <1>9, <1>10, <1>11, <1>12 DEF AlbumNext

\* The album's list is of the tab and collection on the screen once the latest call is
\* through, whatever answers of earlier views come after it (AlbumWorkbenchScreen.tsx).
THEOREM ListIsOfView ==
  ASSUME AlbumAssumption PROVE AlbumSpec => []ListOfView
<1>1. AlbumInv => ListOfView
  BY DEF AlbumInv, Pending, ListOfView
<1> QED
  BY <1>1, AlbumStarts, AlbumStep, PTL DEF AlbumSpec

-----------------------------------------------------------------------------
(***************************************************************************)
(* AutoUpload: SessionIsFresh.  A baseline is in three places (the module  *)
(* variable, storage, and the handlers under way), and while auto upload   *)
(* is off there is none to compare it with; so the invariant bounds all    *)
(* three by where the next session would begin, and says which handler     *)
(* under way still has to forget what is too old.                          *)
(***************************************************************************)

\* What a baseline of the session of now is at least: while auto upload is off, nothing
\* is transferred, and the next session will begin here.
Bound == IF state = "disabled" THEN transferred ELSE since
IsFresh(v) == v \in Nat => v >= Bound

\* A session that is over is still known: its end has not got to the module variable,
\* or not to storage.
Forgetting == \E t \in tasks : t.step = "forget"
Removing   == \E t \in tasks : t.step = "remove"

Who   == {"album", "settings"}
Flows == {"load", "hydrate", "enable", "disable", "rangeOff", "rangeOn", "progress", "infer"}
Steps == {"hydrate", "reload", "prime", "prepare", "save", "config", "remove", "read", "storage",
          "count", "write", "resume", "disable", "forget"}
Tasks == [id : Nat, who : Who, flow : Flows, step : Steps, base : Nat,
          raw : Nat \cup {None}, live : BOOLEAN]
CountsInv == /\ state \in UploadStates /\ transferred \in Nat /\ since \in Nat
             /\ since <= transferred /\ tasksStarted \in Nat
             /\ cached \in Nat \cup {Unread, None} /\ disk \in Nat \cup {None}
TasksInv  == CountsInv /\ tasks \subseteq Tasks
Based(t) == /\ t.step = "write" \/ t.flow = "infer" => t.base >= Bound
            /\ AsksStorage(t) => IsFresh(t.raw) \/ Forgetting
MemoryInv  == IsFresh(cached) \/ Forgetting
StorageInv == \/ IsFresh(disk) \/ Forgetting
              \/ cached # Unread /\ Removing /\ \A t \in tasks : ~AsksStorage(t)
FreshInv   == MemoryInv /\ StorageInv /\ \A t \in tasks : Based(t)
UploadInv  == TasksInv /\ (~lost => FreshInv)

LEMMA UploadStarts == AutoUploadAssumption /\ UploadInit => UploadInv
<1> SUFFICES ASSUME AutoUploadAssumption, UploadInit PROVE UploadInv
  OBVIOUS
<1>1. CountsInv
  BY DEF UploadInit, CountsInv, UploadStates
<1>3. tasks \subseteq Tasks
  BY DEF UploadInit
<1>2. IsFresh(cached) /\ IsFresh(disk)
  BY DEF AutoUploadAssumption, UploadInit, IsFresh, Bound
<1> QED
  BY <1>1, <1>2, <1>3 DEF UploadInv, TasksInv, FreshInv, MemoryInv, StorageInv, UploadInit

-----------------------------------------------------------------------------
(* Types. *)

LEMMA TaskIsTyped ==
  ASSUME TasksInv, NEW who \in Who, NEW flow \in Flows, NEW step \in Steps, NEW base \in Nat
  PROVE  /\ Task(who, flow, step, base) \in Tasks
         /\ Asking(Task(who, flow, step, base)) \in Tasks
<1>1. tasksStarted + 1 \in Nat /\ disk \in Nat \cup {None}
  BY DEF TasksInv, CountsInv
<1>2. Task(who, flow, step, base) \in Tasks
  BY <1>1 DEF Task, Tasks
<1>3. \A t \in Tasks : Asking(t) \in Tasks
  BY <1>1 DEF Asking, Tasks, Steps
<1> QED
  BY <1>2, <1>3

LEMMA StartIsTyped ==
  ASSUME TasksInv, NEW t \in Tasks, TaskStarts(t)
  PROVE  tasks' \subseteq Tasks /\ tasksStarted' \in Nat
  BY DEF TasksInv, CountsInv, TaskStarts

LEMMA NewTask ==
  ASSUME TasksInv, NEW who \in Who, NEW flow \in Flows, NEW step \in Steps, NEW base \in Nat,
         TaskStarts(Task(who, flow, step, base))
  PROVE  tasks' \subseteq Tasks /\ tasksStarted' \in Nat
<1>1. Task(who, flow, step, base) \in Tasks
  BY TaskIsTyped
<1> QED
  BY <1>1, StartIsTyped

LEMMA GoingIsTyped ==
  ASSUME TasksInv, NEW t \in tasks, NEW step \in Steps, NEW base \in Nat
  PROVE  /\ TaskGoes(t, step) => tasks' \subseteq Tasks
         /\ TaskGoesWith(t, step, base) => tasks' \subseteq Tasks
         /\ TaskEnds(t) => tasks' \subseteq Tasks
         /\ [t EXCEPT !.live = FALSE] \in Tasks /\ Asking(t) \in Tasks
<1>1. t \in Tasks /\ disk \in Nat \cup {None}
  BY DEF TasksInv, CountsInv
<1>2. /\ [t EXCEPT !.step = step] \in Tasks
      /\ [t EXCEPT !.step = step, !.base = base] \in Tasks
      /\ [t EXCEPT !.live = FALSE] \in Tasks
  BY <1>1 DEF Tasks
<1>3. Asking(t) \in Tasks
  BY <1>1 DEF Tasks, Asking, Steps
<1> QED
  BY <1>2, <1>3 DEF TaskGoes, TaskGoesWith, TaskEnds, TasksInv

LEMMA StepIsTyped ==
  ASSUME TasksInv, NEW t \in tasks
  PROVE  /\ \A step \in Steps : TaskGoes(t, step) => tasks' \subseteq Tasks
         /\ \A step \in Steps, base \in Nat : TaskGoesWith(t, step, base) => tasks' \subseteq Tasks
         /\ TaskEnds(t) => tasks' \subseteq Tasks
         /\ \A ok : TaskSettles(t, ok) => tasks' \subseteq Tasks
         /\ \A known : GoesOn(t, known) => tasks' \subseteq Tasks
<1> USE DEF Steps
<1>1. ASSUME NEW step \in Steps, TaskGoes(t, step) PROVE tasks' \subseteq Tasks
  BY <1>1, GoingIsTyped, 0 \in Nat
<1>2. ASSUME NEW step \in Steps, NEW base \in Nat, TaskGoesWith(t, step, base)
      PROVE  tasks' \subseteq Tasks
  BY <1>2, GoingIsTyped
<1>3. ASSUME TaskEnds(t) PROVE tasks' \subseteq Tasks
  BY <1>3 DEF TaskEnds, TasksInv
<1>4. \A ok : TaskSettles(t, ok) => TaskGoes(t, "reload") \/ TaskEnds(t)
  BY DEF TaskSettles
<1>5. \A known : GoesOn(t, known) => TaskGoes(t, "resume") \/ TaskGoes(t, "count") \/ TaskEnds(t)
  BY DEF GoesOn
<1> QED
  BY <1>1, <1>2, <1>3, <1>4, <1>5

LEMMA TurningIsTyped ==
  ASSUME TasksInv, NEW new \in UploadStates, Becomes(new), UNCHANGED transferred
  PROVE  /\ state' \in UploadStates /\ transferred' \in Nat /\ since' \in Nat
         /\ since' <= transferred'
  BY DEF Becomes, TasksInv, CountsInv

LEMMA TasksStep ==
  ASSUME AutoUploadAssumption, TasksInv, [UploadNext]_uploadVars
  PROVE  TasksInv'
<1> USE DEF Who, Flows, Steps
<1>0. ASSUME UNCHANGED <<engineVars, storeVars, tasksStarted>>, tasks' \subseteq Tasks
      PROVE  TasksInv'
  BY <1>0 DEF TasksInv, CountsInv, engineVars, storeVars
<1>n. ASSUME UNCHANGED <<engineVars, storeVars>>,
             \/ UNCHANGED <<tasks, tasksStarted>>
             \/ \E who \in Who, flow \in Flows, step \in Steps, base \in Nat :
                  TaskStarts(Task(who, flow, step, base))
      PROVE  TasksInv'
  <2>1. CASE UNCHANGED <<tasks, tasksStarted>>
    BY <1>n, <2>1 DEF TasksInv, CountsInv, engineVars, storeVars
  <2>2. CASE ~ UNCHANGED <<tasks, tasksStarted>>
    <3>1. PICK who \in Who, flow \in Flows, step \in Steps, base \in Nat :
            TaskStarts(Task(who, flow, step, base))
      BY <1>n, <2>2
    <3>2. tasks' \subseteq Tasks /\ tasksStarted' \in Nat
      BY <3>1, NewTask
    <3> QED
      BY <1>n, <3>2 DEF TasksInv, CountsInv, engineVars, storeVars
  <2> QED
    BY <2>1, <2>2
<1>1. CASE OpenAlbum \/ OpenSettings \/ LoadProgress
  BY <1>1, <1>n DEF OpenAlbum, OpenSettings, LoadProgress
<1>2. CASE LeaveScreen
  <2>1. \A t \in tasks : [t EXCEPT !.live = FALSE] \in Tasks
    BY GoingIsTyped, 0 \in Nat, "reload" \in Steps
  <2>2. tasks' \subseteq Tasks
    BY <1>2, <2>1 DEF LeaveScreen
  <2> QED
    BY <1>2, <2>2, <1>0 DEF LeaveScreen
<1>3. CASE Toggle
  BY <1>3, <1>n DEF Toggle
<1>4. CASE FlipSwitch
  <2>1. \/ UNCHANGED <<tasks, tasksStarted>>
        \/ \E who \in Who, flow \in Flows, step \in Steps, base \in Nat :
             TaskStarts(Task(who, flow, step, base))
    BY <1>4 DEF FlipSwitch
  <2> QED
    BY <1>4, <2>1, <1>n DEF FlipSwitch
<1>5. ASSUME NEW confirm \in BOOLEAN, CloseAuto(confirm) PROVE TasksInv'
  BY <1>5, <1>n DEF CloseAuto
<1>6. ASSUME NEW isCustom \in BOOLEAN, NEW hasDate \in BOOLEAN, ChooseRange(isCustom, hasDate)
      PROVE  TasksInv'
  <2>1. \/ UNCHANGED <<tasks, tasksStarted>>
        \/ \E who \in Who, flow \in Flows, step \in Steps, base \in Nat :
             TaskStarts(Task(who, flow, step, base))
    BY <1>6 DEF ChooseRange
  <2> QED
    BY <1>6, <2>1, <1>n DEF ChooseRange
<1>7. CASE Transfer
  BY <1>7 DEF Transfer, TasksInv, CountsInv, storeVars
<1>8. CASE NativeChanges
  BY <1>8 DEF NativeChanges, TasksInv, CountsInv, storeVars, UploadStates
<1>9. CASE Infer
  <2>1. PICK base \in RoundBaselines :
          CASE cached = None -> cached' = base /\ TaskStarts(Task("album", "infer", "write", base))
            [] cached = Unread -> /\ UNCHANGED cached
                                  /\ TaskStarts(Asking(Task("album", "infer", "read", base)))
            [] OTHER -> FALSE
    BY <1>9 DEF Infer
  <2>2. base \in Nat
    BY DEF RoundBaselines, TasksInv, CountsInv
  <2>3. \E t \in Tasks : TaskStarts(t)
    BY <2>1, <2>2, TaskIsTyped
  <2>4. tasks' \subseteq Tasks /\ tasksStarted' \in Nat
    BY <2>3, StartIsTyped
  <2>5. cached' \in Nat \cup {Unread, None}
    BY <2>1, <2>2 DEF TasksInv, CountsInv
  <2> QED
    BY <1>9, <2>4, <2>5 DEF Infer, TasksInv, CountsInv, engineVars
<1>10. CASE Restart
  BY <1>10 DEF Restart, TasksInv, CountsInv, engineVars
<1>11. ASSUME NEW t \in tasks, Step(t) PROVE TasksInv'
  <2>t. t \in Tasks /\ disk \in Nat \cup {None} /\ transferred \in Nat
    BY DEF TasksInv, CountsInv
  <2>m. ASSUME UNCHANGED <<engineVars, tasksStarted>>, cached' \in Nat \cup {Unread, None},
               disk' \in Nat \cup {None}, tasks' \subseteq Tasks
        PROVE  TasksInv'
    BY <2>m DEF TasksInv, CountsInv, engineVars
  <2>e. ASSUME UNCHANGED <<transferred, disk, tasksStarted>>, cached' = cached,
               tasks' \subseteq Tasks,
               UNCHANGED <<state, since>> \/ \E new \in UploadStates : Becomes(new)
        PROVE  TasksInv'
    BY <2>e, TurningIsTyped DEF TasksInv, CountsInv
  <2>1. CASE Hydrate(t) \/ ReloadConfig(t)
    BY <2>1, <1>0, StepIsTyped DEF Hydrate, ReloadConfig
  <2>2. CASE Prepare(t)
    BY <2>2, <1>0, StepIsTyped DEF Prepare
  <2>3. CASE Save(t)
    <3>1. tasks' \subseteq Tasks
      BY <2>3, StepIsTyped DEF Save
    <3>2. UNCHANGED <<state, since>> \/ \E new \in UploadStates : Becomes(new)
      BY <2>3 DEF Save, UploadStates
    <3> QED
      BY <2>3, <3>1, <3>2, <2>e DEF Save, storeVars
  <2>4. CASE Config(t)
    <3>1. tasks' \subseteq Tasks
      BY <2>4, StepIsTyped DEF Config
    <3>2. cached' \in Nat \cup {Unread, None}
      BY <2>4 DEF Config, TasksInv, CountsInv
    <3> QED
      BY <2>4, <2>t, <2>m, <3>1, <3>2 DEF Config
  <2>5. CASE ClearStored(t)
    <3>1. tasks' \subseteq Tasks
      BY <2>5, StepIsTyped DEF ClearStored
    <3>2. cached' \in Nat \cup {Unread, None} /\ disk' \in Nat \cup {None}
      BY <2>5, <2>t DEF ClearStored, TasksInv, CountsInv
    <3> QED
      BY <2>5, <2>m, <3>1, <3>2 DEF ClearStored
  <2>6. CASE Read(t)
    <3>1. Asking(t) \in Tasks
      BY GoingIsTyped, 0 \in Nat, "reload" \in Steps
    <3>2. tasks' \subseteq Tasks
      BY <2>6, <3>1, StepIsTyped DEF Read, TasksInv
    <3> QED
      BY <2>6, <3>2, <1>0 DEF Read
  <2>7. CASE StorageAnswers(t)
    <3>1. tasks' \subseteq Tasks
      BY <2>7, StepIsTyped DEF StorageAnswers
    <3>2. cached' \in Nat \cup {Unread, None}
      BY <2>7, <2>t DEF StorageAnswers, Tasks
    <3> QED
      BY <2>7, <2>t, <2>m, <3>1, <3>2 DEF StorageAnswers
  <2>8. CASE Count(t)
    <3>1. t.base \in Nat
      BY <2>t DEF Tasks
    <3>2. tasks' \subseteq Tasks
      BY <2>8, <2>t, <3>1, StepIsTyped DEF Count
    <3>3. cached' \in Nat \cup {Unread, None}
      BY <2>8, <2>t, <3>1 DEF Count, TasksInv, CountsInv
    <3> QED
      BY <2>8, <2>t, <2>m, <3>2, <3>3 DEF Count
  <2>9. CASE Write(t)
    <3>1. tasks' \subseteq Tasks
      BY <2>9, StepIsTyped DEF Write
    <3>2. cached' \in Nat \cup {Unread, None} /\ disk' \in Nat \cup {None}
      BY <2>9, <2>t DEF Write, Tasks, TasksInv, CountsInv
    <3> QED
      BY <2>9, <2>m, <3>1, <3>2 DEF Write
  <2>10. CASE Resume(t)
    <3>1. tasks' \subseteq Tasks
      BY <2>10, StepIsTyped DEF Resume
    <3> QED
      BY <2>10, <3>1, <2>e DEF Resume, storeVars, UploadStates
  <2>11. CASE Disable(t)
    <3>1. tasks' \subseteq Tasks
      BY <2>11, StepIsTyped DEF Disable
    <3> QED
      BY <2>11, <3>1, <2>e DEF Disable, storeVars, UploadStates
  <2>12. CASE Forget(t)
    <3>1. tasks' \subseteq Tasks
      BY <2>12, StepIsTyped DEF Forget
    <3> QED
      BY <2>12, <2>t, <3>1, <2>m DEF Forget
  <2> QED
    BY <1>11, <2>1, <2>2, <2>3, <2>4, <2>5, <2>6, <2>7, <2>8, <2>9, <2>10, <2>11, <2>12
       DEF Step
<1>12. CASE UNCHANGED uploadVars
  BY <1>12, <1>n DEF uploadVars
<1> QED
  BY <1>1, <1>2, <1>3, <1>4, <1>5, <1>6, <1>7, <1>8, <1>9, <1>10, <1>11, <1>12 DEF UploadNext

-----------------------------------------------------------------------------
(* Freshness, in the steps after which nothing is lost. *)

LEMMA BoundOfNow ==
  TasksInv => Bound \in Nat /\ Bound <= transferred /\ since <= Bound
  BY DEF TasksInv, CountsInv, Bound

\* u has taken no baseline, has taken one of this session, or is a task from before.
Follows(u) ==
  \/ \E t \in tasks : /\ u.step = t.step /\ u.flow = t.flow /\ u.base = t.base
                      /\ u.raw = t.raw
  \/ /\ u.step # "write" /\ ~AsksStorage(u)
     /\ u.flow = "infer" => \E t \in tasks : t.flow = "infer" /\ u.base = t.base
  \/ /\ u.step = "write" \/ u.flow = "infer" => u.base >= Bound
     /\ AsksStorage(u) => u.raw = disk /\ cached = Unread
Stays(step) == (\E t \in tasks : t.step = step) => \E u \in tasks' : u.step = step

\* Handlers come and go; the bound stays, and what is known or stored anew is of now.
LEMMA FreshMove ==
  ASSUME TasksInv, FreshInv, Bound' = Bound, \A u \in tasks' : Follows(u), Stays("forget"),
         cached' = cached \/ (cached' # Unread /\ (Forgetting \/
                        (cached' \in Nat => cached' >= Bound))),
         (disk' = disk /\ Stays("remove")) \/ (disk' \in Nat => disk' >= Bound)
  PROVE  FreshInv'
<1>1. Forgetting => Forgetting'
  BY DEF Forgetting, Stays
<1>2. MemoryInv'
  BY <1>1 DEF MemoryInv, FreshInv, IsFresh
<1>3. ASSUME IsFresh(disk) \/ Forgetting \/ (disk' \in Nat => disk' >= Bound)
      PROVE  StorageInv'
  BY <1>1, <1>3 DEF StorageInv, IsFresh
<1>4. ASSUME disk' = disk, Stays("remove"), ~IsFresh(disk), ~Forgetting PROVE StorageInv'
  <2>1. cached # Unread /\ Removing /\ \A t \in tasks : ~AsksStorage(t)
    BY <1>4 DEF FreshInv, StorageInv
  <2>2. cached' # Unread /\ Removing'
    BY <1>4, <2>1 DEF Removing, Stays
  <2>3. \A u \in tasks' : ~AsksStorage(u)
    BY <2>1 DEF Follows, AsksStorage
  <2> QED
    BY <2>2, <2>3 DEF StorageInv, AsksStorage
<1>5. StorageInv'
  BY <1>3, <1>4 DEF IsFresh
<1>6. ASSUME NEW u \in tasks' PROVE Based(u)'
  <2>1. u.step = "write" \/ u.flow = "infer" => u.base >= Bound
    BY DEF Follows, FreshInv, Based
  <2>2. AsksStorage(u) => IsFresh(u.raw) \/ Forgetting
    <3>1. CASE \E t \in tasks : u.step = t.step /\ u.raw = t.raw
      BY <3>1 DEF FreshInv, Based, AsksStorage
    <3>2. CASE u.raw = disk /\ cached = Unread
      BY <3>2 DEF FreshInv, StorageInv
    <3> QED
      BY <3>1, <3>2 DEF Follows
  <2> QED
    BY <1>1, <2>1, <2>2 DEF Based, IsFresh, AsksStorage
<1> QED
  BY <1>2, <1>5, <1>6 DEF FreshInv

LEMMA FreshQuiet ==
  ASSUME TasksInv, FreshInv, UNCHANGED <<state, transferred, since, cached, disk>>,
         \A u \in tasks' : Follows(u), Stays("forget"), Stays("remove")
  PROVE  FreshInv'
<1>1. Bound' = Bound
  BY DEF Bound
<1> QED
  BY <1>1, FreshMove

LEMMA FreshStart ==
  ASSUME TasksInv, FreshInv, UNCHANGED <<engineVars, storeVars>>,
         NEW who \in Who, NEW flow \in Flows \ {"infer"}, NEW step \in Steps \ {"write", "storage"},
         NEW base \in Nat, TaskStarts(Task(who, flow, step, base))
  PROVE  FreshInv'
<1> DEFINE u == Task(who, flow, step, base)
<1>1. u.step = step /\ u.flow = flow
  BY DEF Task
<1>2. Follows(u)
  BY <1>1 DEF Follows, AsksStorage
<1>3. \A v \in tasks : Follows(v)
  BY DEF Follows
<1>4. Stays("forget") /\ Stays("remove")
  BY DEF TaskStarts, Stays
<1>5. \A v \in tasks' : Follows(v)
  BY <1>2, <1>3 DEF TaskStarts
<1> QED
  BY <1>4, <1>5, FreshQuiet DEF engineVars, storeVars

\* What is true of the tasks when one of them goes on or ends, whatever it leaves behind.
LEMMA FollowGoing ==
  ASSUME TasksInv, NEW t \in tasks, NEW step \in Steps \ {"write", "storage"},
         TaskGoes(t, step) \/ TaskEnds(t)
  PROVE  /\ \A u \in tasks' : Follows(u)
         /\ \A past \in {"forget", "remove"} : t.step # past \/ TaskGoes(t, past) => Stays(past)
<1> DEFINE u == [t EXCEPT !.step = step]
<1>1. t \in Tasks
  BY DEF TasksInv
<1>2. u.step = step /\ u.flow = t.flow /\ u.base = t.base
  BY <1>1 DEF Tasks
<1>3. Follows(u)
  BY <1>2 DEF Follows, AsksStorage
<1>4. \A v \in tasks : Follows(v)
  BY DEF Follows
<1>5. \A v \in tasks' : Follows(v)
  BY <1>3, <1>4 DEF TaskGoes, TaskEnds
<1>6. ASSUME NEW past \in {"forget", "remove"}, t.step # past PROVE Stays(past)
  BY <1>6 DEF Stays, TaskGoes, TaskEnds
<1>7. ASSUME NEW past \in {"forget", "remove"}, TaskGoes(t, past) PROVE Stays(past)
  <2>1. [t EXCEPT !.step = past].step = past
    BY <1>1 DEF Tasks
  <2> QED
    BY <1>7, <2>1 DEF Stays, TaskGoes
<1> QED
  BY <1>5, <1>6, <1>7

LEMMA FreshGoing ==
  ASSUME TasksInv, FreshInv, NEW t \in tasks, t.step \notin {"forget", "remove"},
         UNCHANGED <<state, transferred, since, cached, disk>>,
         \E step \in Steps \ {"write", "storage"} : TaskGoes(t, step) \/ TaskEnds(t)
  PROVE  FreshInv'
BY FollowGoing, FreshQuiet

LEMMA BoundStays ==
  ASSUME TasksInv, UNCHANGED transferred,
         \/ UNCHANGED <<state, since>>
         \/ \E new \in UploadStates : Becomes(new) /\ (state = "disabled" \/ new # "disabled")
  PROVE  Bound' = Bound
  BY DEF TasksInv, CountsInv, Bound, Becomes, UploadStates

\* A handler's end and its way on.
LEMMA Settling ==
  ASSUME NEW t \in tasks, NEW ok \in BOOLEAN, TaskSettles(t, ok)
  PROVE  TaskGoes(t, "reload") \/ TaskEnds(t)
  BY DEF TaskSettles

LEMMA LostStays == [UploadNext]_uploadVars /\ lost => lost'
<1> SUFFICES ASSUME [UploadNext]_uploadVars, lost PROVE lost'
  OBVIOUS
<1>1. CASE OpenAlbum \/ OpenSettings \/ LeaveScreen \/ Toggle \/ FlipSwitch \/ LoadProgress
  BY <1>1 DEF OpenAlbum, OpenSettings, LeaveScreen, Toggle, FlipSwitch, LoadProgress
<1>2. CASE \/ CloseAuto(TRUE) \/ CloseAuto(FALSE)
           \/ ChooseRange(FALSE, FALSE) \/ ChooseRange(TRUE, FALSE) \/ ChooseRange(TRUE, TRUE)
  BY <1>2 DEF CloseAuto, ChooseRange
<1>3. CASE Transfer \/ NativeChanges \/ Infer \/ Restart
  BY <1>3 DEF Transfer, NativeChanges, Infer, Restart
<1>4. ASSUME NEW t \in tasks, Step(t) PROVE lost'
  <2>1. CASE \/ Hydrate(t) \/ ReloadConfig(t) \/ Prepare(t) \/ Save(t) \/ Config(t) \/ ClearStored(t)
             \/ Read(t)
    BY <2>1 DEF Hydrate, ReloadConfig, Prepare, Save, Config, ClearStored, Read
  <2>2. CASE StorageAnswers(t) \/ Count(t) \/ Write(t) \/ Resume(t) \/ Disable(t) \/ Forget(t)
    BY <2>2 DEF StorageAnswers, Count, Write, Resume, Disable, Forget
  <2> QED
    BY <1>4, <2>1, <2>2 DEF Step
<1>5. CASE UNCHANGED uploadVars
  BY <1>5 DEF uploadVars
<1> QED
  BY <1>1, <1>2, <1>3, <1>4, <1>5 DEF UploadNext

\* A step of a handler.
LEMMA FreshHandler ==
  ASSUME AutoUploadAssumption, TasksInv, FreshInv, NEW t \in tasks, Step(t), ~lost'
  PROVE  FreshInv'
<1> USE DEF Steps
<1>t. t \in Tasks /\ disk \in Nat \cup {None} /\ Based(t) /\ transferred \in Nat
  BY DEF TasksInv, CountsInv, FreshInv
<1>f. t.base \in Nat /\ t.raw \in Nat \cup {None}
  BY <1>t DEF Tasks
<1>n. None \notin Nat /\ None # Unread /\ Unread \notin Nat
  BY DEF AutoUploadAssumption
<1>q. \A v \in tasks : Follows(v)
  BY DEF Follows
<1>1. CASE Hydrate(t)
  BY <1>1, FreshGoing DEF Hydrate, engineVars, storeVars
<1>2. CASE ReloadConfig(t)
  BY <1>2, FreshGoing DEF ReloadConfig, engineVars, storeVars
<1>3. CASE Prepare(t)
  BY <1>3, Settling, FreshGoing DEF Prepare, engineVars, storeVars
<1>4. CASE Save(t)
  <2>1. TaskGoes(t, "config") \/ TaskGoes(t, "reload") \/ TaskEnds(t)
    BY <1>4, Settling DEF Save
  <2>2. Bound' = Bound
    BY <1>4, BoundStays DEF Save, UploadStates
  <2>3. \A u \in tasks' : Follows(u)
    BY <2>1, FollowGoing
  <2>4. Stays("forget") /\ Stays("remove")
    BY <1>4, <2>1, FollowGoing DEF Save
  <2> QED
    BY <1>4, <2>2, <2>3, <2>4, FreshMove DEF Save, storeVars
<1>5. CASE Config(t)
  <2>1. TaskGoes(t, "remove") \/ TaskGoes(t, "read")
    BY <1>5 DEF Config
  <2>2. \A u \in tasks' : Follows(u)
    BY <2>1, FollowGoing
  <2>3. Stays("forget") /\ Stays("remove")
    BY <1>5, <2>1, FollowGoing DEF Config
  <2>4. Bound' = Bound /\ disk' = disk /\ (cached' = cached \/ cached' = None)
    BY <1>5 DEF Config, engineVars, Bound
  <2> QED
    BY <1>n, <2>2, <2>3, <2>4, FreshMove
<1>6. CASE ClearStored(t)
  <2>1. TaskGoes(t, "read") \/ TaskGoes(t, "reload") \/ TaskEnds(t)
    BY <1>6, Settling DEF ClearStored
  <2>2. \A u \in tasks' : Follows(u)
    BY <2>1, FollowGoing
  <2>3. Stays("forget")
    BY <1>6, <2>1, FollowGoing DEF ClearStored
  <2>4. Bound' = Bound /\ disk' = None /\ cached' = cached
    BY <1>6 DEF ClearStored, engineVars, Bound
  <2> QED
    BY <1>n, <2>2, <2>3, <2>4, FreshMove
<1>7. CASE Read(t)
  <2>1. CASE cached # Unread
    <3>1. \E step \in Steps \ {"write", "storage"} : TaskGoes(t, step) \/ TaskEnds(t)
      BY <1>7, <2>1 DEF Read, GoesOn
    <3> QED
      BY <1>7, <3>1, FreshGoing DEF Read, engineVars, storeVars
  <2>2. CASE cached = Unread
    <3> DEFINE u == Asking(t)
    <3>1. u.step = "storage" /\ u.raw = disk /\ u.flow = t.flow /\ u.base = t.base
      BY <1>t DEF Asking, Tasks
    <3>2. Follows(u)
      BY <1>t, <2>2, <3>1 DEF Follows, Based
    <3>3. tasks' = (tasks \ {t}) \cup {u} /\ t.step = "read"
      BY <1>7, <2>2 DEF Read
    <3>4. \A v \in tasks' : Follows(v)
      BY <1>q, <3>2, <3>3
    <3>5. Stays("forget") /\ Stays("remove")
      BY <3>3 DEF Stays
    <3> QED
      BY <1>7, <3>4, <3>5, FreshQuiet DEF Read, engineVars, storeVars
  <2> QED
    BY <2>1, <2>2
<1>8. CASE StorageAnswers(t)
  <2>1. PICK known \in {t.raw, None} : cached' = known /\ GoesOn(t, known)
    BY <1>8 DEF StorageAnswers
  <2>2. \E step \in Steps \ {"write", "storage"} : TaskGoes(t, step) \/ TaskEnds(t)
    BY <2>1 DEF GoesOn
  <2>3. \A u \in tasks' : Follows(u)
    BY <2>2, FollowGoing
  <2>4. Stays("forget") /\ Stays("remove")
    BY <1>8, <2>2, FollowGoing DEF StorageAnswers
  <2>5. IsFresh(t.raw) \/ Forgetting
    BY <1>8, <1>t DEF StorageAnswers, Based, AsksStorage
  <2>6. cached' # Unread /\ (Forgetting \/ (cached' \in Nat => cached' >= Bound))
    BY <1>f, <1>n, <2>1, <2>5 DEF IsFresh
  <2>7. Bound' = Bound /\ disk' = disk
    BY <1>8 DEF StorageAnswers, engineVars, Bound
  <2> QED
    BY <2>3, <2>4, <2>6, <2>7, FreshMove
<1>9. CASE Count(t)
  <2>1. CASE TaskGoes(t, "resume") /\ UNCHANGED cached
    BY <1>9, <2>1, FreshGoing DEF Count, engineVars
  <2>2. ASSUME NEW base \in Nat, base >= Bound, cached' = base, TaskGoesWith(t, "write", base)
        PROVE  FreshInv'
    <3> DEFINE u == [t EXCEPT !.step = "write", !.base = base]
    <3>1. u.step = "write" /\ u.base = base
      BY <1>t DEF Tasks
    <3>2. Follows(u)
      BY <2>2, <3>1 DEF Follows, AsksStorage
    <3>3. \A v \in tasks' : Follows(v)
      BY <1>q, <2>2, <3>2 DEF TaskGoesWith
    <3>4. t.step = "count"
      BY <1>9 DEF Count
    <3>5. Stays("forget") /\ Stays("remove")
      BY <2>2, <3>4 DEF TaskGoesWith, Stays
    <3>6. Bound' = Bound /\ disk' = disk
      BY <1>9 DEF Count, engineVars, Bound
    <3> QED
      BY <1>n, <2>2, <3>3, <3>5, <3>6, FreshMove
  <2>3. transferred >= Bound /\ (t.flow = "infer" => t.base >= Bound)
    BY <1>t, BoundOfNow DEF Based
  <2> QED
    BY <1>9, <1>t, <1>f, <2>1, <2>2, <2>3 DEF Count
<1>10. CASE Write(t)
  <2>1. TaskGoes(t, "resume") \/ TaskEnds(t)
    BY <1>10 DEF Write
  <2>2. \A u \in tasks' : Follows(u)
    BY <2>1, FollowGoing
  <2>3. Stays("forget") /\ Stays("remove")
    BY <1>10, <2>1, FollowGoing DEF Write
  <2>4. t.base >= Bound
    BY <1>10, <1>t DEF Write, Based
  <2>5. Bound' = Bound /\ cached' = cached /\ disk' \in {t.base, disk}
    BY <1>10 DEF Write, engineVars, Bound
  <2> QED
    BY <2>2, <2>3, <2>4, <2>5, FreshMove
<1>11. CASE Resume(t)
  <2>1. TaskGoes(t, "reload") \/ TaskEnds(t)
    BY <1>11, Settling DEF Resume
  <2>2. Bound' = Bound
    BY <1>11, BoundStays DEF Resume, UploadStates
  <2>3. \A u \in tasks' : Follows(u)
    BY <2>1, FollowGoing
  <2>4. Stays("forget") /\ Stays("remove")
    BY <1>11, <2>1, FollowGoing DEF Resume
  <2> QED
    BY <1>11, <2>2, <2>3, <2>4, FreshMove DEF Resume, storeVars
<1>12. CASE Disable(t)
  <2>1. CASE TaskSettles(t, FALSE) /\ UNCHANGED <<state, since>>
    <3>1. TaskGoes(t, "reload") \/ TaskEnds(t)
      BY <2>1, Settling
    <3> QED
      BY <1>12, <2>1, <3>1, FreshGoing DEF Disable, storeVars
  <2>2. CASE TaskGoes(t, "forget") /\ lost' = (lost \/ \E u \in tasks : Taken(u))
    <3> DEFINE u == [t EXCEPT !.step = "forget"]
    <3>1. u.step = "forget" /\ u.flow = t.flow
      BY <1>t DEF Tasks
    <3>2. Forgetting'
      BY <2>2, <3>1 DEF Forgetting, TaskGoes
    <3>3. \A v \in tasks : ~Taken(v)
      BY <2>2
    <3>4. ASSUME NEW v \in tasks' PROVE Based(v)'
      <4>1. CASE v \in tasks
        BY <3>3, <4>1 DEF Based, Taken, AsksStorage
      <4>2. CASE v = u
        BY <3>1, <3>3, <4>2 DEF Based, Taken, AsksStorage
      <4> QED
        BY <2>2, <4>1, <4>2 DEF TaskGoes
    <3> QED
      BY <3>2, <3>4 DEF FreshInv, MemoryInv, StorageInv
  <2> QED
    BY <1>12, <2>1, <2>2 DEF Disable
<1>13. CASE Forget(t)
  <2> DEFINE u == [t EXCEPT !.step = "remove"]
  <2>1. u.step = "remove" /\ u.flow = t.flow /\ u.base = t.base
    BY <1>t DEF Tasks
  <2>2. /\ tasks' = (tasks \ {t}) \cup {u} /\ cached' = None /\ disk' = disk /\ Bound' = Bound
        /\ \A v \in tasks : ~AsksStorage(v)
    BY <1>13 DEF Forget, TaskGoes, engineVars, Bound
  <2>3. \A v \in tasks' : ~AsksStorage(v)
    BY <2>1, <2>2 DEF AsksStorage
  <2>4. Removing'
    BY <2>1, <2>2 DEF Removing
  <2>5. MemoryInv'
    BY <1>n, <2>2 DEF MemoryInv, IsFresh
  <2>6. StorageInv'
    BY <1>n, <2>2, <2>3, <2>4 DEF StorageInv, AsksStorage
  <2>7. ASSUME NEW v \in tasks' PROVE Based(v)'
    <3>1. v.step = "write" \/ v.flow = "infer" => v.base >= Bound
      BY <1>t, <2>1, <2>2 DEF FreshInv, Based
    <3> QED
      BY <2>2, <2>3, <3>1 DEF Based, AsksStorage
  <2> QED
    BY <2>5, <2>6, <2>7 DEF FreshInv
<1> QED
  BY <1>1, <1>2, <1>3, <1>4, <1>5, <1>6, <1>7, <1>8, <1>9, <1>10, <1>11, <1>12, <1>13 DEF Step

LEMMA FreshStep ==
  ASSUME AutoUploadAssumption, UploadInv, [UploadNext]_uploadVars
  PROVE  UploadInv'
<1> USE DEF Who, Flows, Steps
<1>1. TasksInv /\ TasksInv'
  BY TasksStep DEF UploadInv
<1> SUFFICES ASSUME ~lost' PROVE FreshInv'
  BY <1>1 DEF UploadInv
<1>2. FreshInv
  BY LostStays DEF UploadInv
<1>q. \A v \in tasks : Follows(v)
  BY DEF Follows
<1>n. None \notin Nat /\ None # Unread /\ Unread \notin Nat
  BY DEF AutoUploadAssumption
<1>s. ASSUME UNCHANGED <<engineVars, storeVars>>, UNCHANGED tasks PROVE FreshInv'
  BY <1>1, <1>2, <1>q, <1>s, FreshQuiet DEF Stays, engineVars, storeVars
<1>b. ASSUME UNCHANGED <<engineVars, storeVars>>,
             UNCHANGED tasks \/
               \E who \in Who, flow \in Flows \ {"infer"}, step \in Steps \ {"write", "storage"},
                  base \in Nat : TaskStarts(Task(who, flow, step, base))
      PROVE  FreshInv'
  <2>2. CASE UNCHANGED tasks
    BY <1>b, <1>s, <2>2
  <2>3. CASE ~ UNCHANGED tasks
    <3>1. PICK who \in Who, flow \in Flows \ {"infer"}, step \in Steps \ {"write", "storage"},
               base \in Nat : TaskStarts(Task(who, flow, step, base))
      BY <1>b, <2>3
    <3> QED
      BY <1>1, <1>2, <1>b, <3>1, FreshStart
  <2> QED
    BY <2>2, <2>3
<1>3. CASE OpenAlbum \/ OpenSettings \/ LoadProgress
  BY <1>3, <1>b DEF OpenAlbum, OpenSettings, LoadProgress
<1>4. CASE LeaveScreen
  <2>1. ASSUME NEW t \in tasks
        PROVE  /\ Follows([t EXCEPT !.live = FALSE])
               /\ [t EXCEPT !.live = FALSE].step = t.step
    <3>1. t \in Tasks
      BY <1>1 DEF TasksInv
    <3> QED
      BY <3>1 DEF Tasks, Follows
  <2>2. \A u \in tasks' : Follows(u)
    BY <1>4, <2>1 DEF LeaveScreen
  <2>3. Stays("forget") /\ Stays("remove")
    BY <1>4, <2>1 DEF LeaveScreen, Stays
  <2> QED
    BY <1>1, <1>2, <1>4, <2>2, <2>3, FreshQuiet DEF LeaveScreen, engineVars, storeVars
<1>5. CASE Toggle
  BY <1>5, <1>b DEF Toggle
<1>6. CASE FlipSwitch
  <2>1. \/ UNCHANGED tasks
        \/ \E who \in Who, flow \in Flows \ {"infer"}, step \in Steps \ {"write", "storage"},
              base \in Nat : TaskStarts(Task(who, flow, step, base))
    BY <1>6 DEF FlipSwitch
  <2> QED
    BY <1>6, <2>1, <1>b DEF FlipSwitch
<1>7. ASSUME NEW confirm \in BOOLEAN, CloseAuto(confirm) PROVE FreshInv'
  BY <1>7, <1>b DEF CloseAuto
<1>8. ASSUME NEW isCustom \in BOOLEAN, NEW hasDate \in BOOLEAN, ChooseRange(isCustom, hasDate)
      PROVE  FreshInv'
  <2>1. \/ UNCHANGED tasks
        \/ \E who \in Who, flow \in Flows \ {"infer"}, step \in Steps \ {"write", "storage"},
              base \in Nat : TaskStarts(Task(who, flow, step, base))
    BY <1>8 DEF ChooseRange
  <2> QED
    BY <1>8, <2>1, <1>b DEF ChooseRange
<1>9. CASE Transfer \/ NativeChanges
  <2>1. Bound' = Bound /\ UNCHANGED <<cached, disk, tasks>>
    BY <1>9 DEF Transfer, NativeChanges, Bound, storeVars
  <2> QED
    BY <1>1, <1>2, <1>q, <2>1, FreshMove DEF Stays
<1>10. CASE Infer
  <2>1. PICK base \in RoundBaselines :
          CASE cached = None -> cached' = base /\ TaskStarts(Task("album", "infer", "write", base))
            [] cached = Unread -> /\ UNCHANGED cached
                                  /\ TaskStarts(Asking(Task("album", "infer", "read", base)))
            [] OTHER -> FALSE
    BY <1>10 DEF Infer
  <2>2. base \in Nat /\ base >= Bound /\ Bound' = Bound /\ disk' = disk
    BY <1>1, <1>10 DEF RoundBaselines, RoundCounts, Infer, TasksInv, CountsInv, Bound, engineVars
  <2>3. ASSUME NEW u, TaskStarts(u), Follows(u), cached' = cached \/ cached' = base
        PROVE  FreshInv'
    <3>1. \A v \in tasks' : Follows(v)
      BY <1>q, <2>3 DEF TaskStarts
    <3>2. Stays("forget") /\ Stays("remove")
      BY <2>3 DEF TaskStarts, Stays
    <3> QED
      BY <1>1, <1>2, <1>n, <2>2, <2>3, <3>1, <3>2, FreshMove
  <2>4. CASE cached = None
    <3> DEFINE u == Task("album", "infer", "write", base)
    <3>1. u.step = "write" /\ u.base = base
      BY DEF Task
    <3>2. Follows(u)
      BY <2>2, <3>1 DEF Follows, AsksStorage
    <3>3. TaskStarts(u) /\ cached' = base
      BY <1>n, <2>1, <2>4
    <3> QED
      BY <2>3, <3>2, <3>3
  <2>5. CASE cached = Unread
    <3> DEFINE u == Asking(Task("album", "infer", "read", base))
    <3>1. u.step = "storage" /\ u.base = base /\ u.raw = disk
      BY DEF Task, Asking
    <3>2. AsksStorage(u) => u.raw = disk /\ cached = Unread
      BY <2>5, <3>1
    <3>3. u.step # "write" /\ u.base >= Bound
      BY <2>2, <3>1
    <3>4. Follows(u)
      BY <3>2, <3>3 DEF Follows
    <3>5. TaskStarts(u) /\ cached' = cached
      BY <1>n, <2>1, <2>5
    <3> QED
      BY <2>3, <3>4, <3>5
  <2> QED
    BY <2>1, <2>4, <2>5
<1>11. CASE Restart
  <2>1. ~Forgetting /\ ~Removing /\ tasks' = {} /\ cached' = Unread /\ disk' = disk /\ Bound' = Bound
    BY <1>11 DEF Restart, Forgetting, Removing, engineVars, Bound
  <2>2. IsFresh(disk)
    BY <1>2, <2>1 DEF FreshInv, StorageInv
  <2> QED
    BY <1>n, <2>1, <2>2 DEF FreshInv, MemoryInv, StorageInv, IsFresh
<1>12. ASSUME NEW t \in tasks, Step(t) PROVE FreshInv'
  BY <1>1, <1>2, <1>12, FreshHandler
<1>13. CASE UNCHANGED uploadVars
  BY <1>13, <1>s DEF uploadVars
<1> QED
  BY <1>3, <1>4, <1>5, <1>6, <1>7, <1>8, <1>9, <1>10, <1>11, <1>12, <1>13 DEF UploadNext

\* With nothing under way, a session of auto upload is counted from its own beginning, not
\* from one that was over, unless an enabling, a disabling or a restart crossed a handler
\* (autoUploadRoundProgress.ts and its two screens).
THEOREM SessionCountsFromItsStart ==
  ASSUME AutoUploadAssumption PROVE UploadSpec => []SessionIsFresh
<1>1. UploadInv => SessionIsFresh
  BY DEF UploadInv, FreshInv, MemoryInv, IsFresh, Forgetting, Bound, SessionIsFresh
<1> QED
  BY <1>1, UploadStarts, FreshStep, PTL DEF UploadSpec

-----------------------------------------------------------------------------
(***************************************************************************)
(* LocalComputer: ItemsAreOfFolder.                                        *)
(***************************************************************************)

\* A listing is kept at the folder it is a listing of.
ComputerInv ==
  /\ folderStack \in Seq(Folders)
  /\ listed \in [Folders -> Folders \cup {Root, None}]
  /\ \A f \in Folders : listed[f] \in {None, Root, f}

\* A request that ends or fails puts a listing only at its own folder.
LEMMA ComputerStarts == LocalComputerAssumption /\ ComputerInit => ComputerInv
  BY DEF ComputerInit, ComputerInv

LEMMA ComputerStep == LocalComputerAssumption /\ ComputerInv /\ [ComputerNext]_computerVars
                        => ComputerInv'
<1> SUFFICES ASSUME LocalComputerAssumption, ComputerInv, [ComputerNext]_computerVars
             PROVE  ComputerInv'
  OBVIOUS
<1> USE DEF ComputerInv
<1>a. CASE UNCHANGED <<folderStack, listed>>
  BY <1>a
<1>b. CASE UNCHANGED browseVars
  BY <1>a, <1>b DEF browseVars
<1>1. CASE Retry
  BY <1>1 DEF Retry, LoadData
<1>2. CASE GoBack
  <2>1. folderStack' \in Seq(Folders)
    BY <1>2 DEF GoBack
  <2> QED
    BY <1>2, <2>1 DEF GoBack
<1>3. CASE RetryFolder
  BY <1>3, <1>a DEF RetryFolder
<1>4. CASE ReachabilityChanged \/ ToggleSheet \/ SelectionButton \/ DownloadSelected
           \/ ShareSelected \/ ClosePreview
  BY <1>4, <1>b DEF ReachabilityChanged, ToggleSheet, SelectionButton, DownloadSelected,
                    ShareSelected, ClosePreview
<1>5. ASSUME NEW f \in Folders, OpenFolder(f) PROVE ComputerInv'
  BY <1>5 DEF OpenFolder
<1>6. ASSUME NEW f \in Files, ToggleSelection(f) \/ Download(f) \/ OpenFile(f)
      PROVE  ComputerInv'
  BY <1>6, <1>b DEF ToggleSelection, Download, OpenFile
<1>7. ASSUME NEW l \in loads, LoadStep(l) PROVE ComputerInv'
  <2>1. CASE TakeBinding(l) \/ TakeListing(l) \/ NoRoute(l) \/ Again(l)
    BY <2>1, <1>a DEF TakeBinding, TakeListing, NoRoute, Again
  <2>2. CASE Finished(l)
    BY <2>2 DEF Finished, PlaceOf
  <2>3. ASSUME NEW refusal \in BOOLEAN, Fails(l, refusal) PROVE ComputerInv'
    BY <2>3 DEF Fails
  <2>4. CASE TimesOut(l) \/ Refused(l) \/ Broken(l)
    BY <2>3, <2>4 DEF TimesOut, Refused, Broken
  <2> QED
    BY <1>7, <2>1, <2>2, <2>4 DEF LoadStep
<1>8. ASSUME NEW j \in jobs, JobBinding(j) \/ SharePrepares(j) \/ JobEnds(j)
      PROVE  ComputerInv'
  BY <1>8, <1>b DEF JobBinding, SharePrepares, JobEnds
<1>9. CASE UNCHANGED computerVars
  BY <1>9, <1>b DEF computerVars
<1> QED
  BY <1>1, <1>2, <1>3, <1>4, <1>5, <1>6, <1>7, <1>8, <1>9 DEF ComputerNext

\* What is shown for the folder on top is a listing of that folder.
LEMMA ItemsOfFolder == LocalComputerAssumption /\ ComputerInv => ItemsAreOfFolder
<1> SUFFICES ASSUME LocalComputerAssumption, ComputerInv, NEW x \in ShownItems
             PROVE  FolderOf[x] = Here
  BY DEF ItemsAreOfFolder
<1>1. Source # None /\ FolderOf[x] = Source
  BY DEF ShownItems, Items, Children
<1>2. CASE Here = Root
  BY <1>1, <1>2 DEF Source
<1>3. CASE Here # Root
  <2>1. Here \in Folders
    BY <1>3 DEF Here, ComputerInv
  <2> QED
    BY <1>1, <1>3, <2>1 DEF Source, ComputerInv
<1> QED
  BY <1>2, <1>3

\* What is shown of a folder of the computer is a listing of that folder, whatever folder the
\* answers that come late are about (LocalComputerScreen.tsx).
THEOREM FolderShowsItsItems ==
  ASSUME LocalComputerAssumption PROVE ComputerSpec => []ItemsAreOfFolder
  BY ItemsOfFolder, ComputerStarts, ComputerStep, PTL DEF ComputerSpec

-----------------------------------------------------------------------------
(***************************************************************************)
(* SyncActivity: ShownIsTrue.  For each kind of value the last push on its *)
(* way is what the engine has; an answer that no push has overtaken is so  *)
(* too; and what is shown is, or there is an answer or a push to come.     *)
(***************************************************************************)

AllKinds == {"overview", "queue", "history", "binding", "downloads"}
Pushed   == Kinds \ {"downloads"}
\* What is shown of a value the engine has.
Rendered(kind, v) == IF kind = "overview" THEN NormalizedOverview(v) ELSE v

Contents  == Overviews \cup Nat \cup {None, "connected", "offline", EMPTY_SYNC_OVERVIEW}
Snapshots == [AllKinds -> Contents]
Posts == [number : Nat, kind : Pushed, value : Contents]
AllRequests == [number : Nat, kind : Kinds, focus : Nat, computed : BOOLEAN,
                answer : Snapshots, behind : BOOLEAN]
IsRequest(r) == r \in AllRequests /\ r.focus <= focus
FieldsInv ==
  /\ engine \in Snapshots
  /\ engine["history"] \in Nat /\ engine["downloads"] \in Nat
  /\ shown = [kind \in AllKinds |-> shown[kind]]
  /\ focus \in Nat /\ changes \in Nat /\ posted \in Seq(Posts)
  /\ \A r \in requests : IsRequest(r)

\* The last that is on its way of a kind is what the engine has now.
NonePosted(kind) == \A i \in DOMAIN posted : posted[i].kind # kind
PostedInv ==
  /\ ~focused => posted = <<>>
  /\ \A i \in DOMAIN posted :
       (\A j \in DOMAIN posted : j > i => posted[j].kind # posted[i].kind) =>
         posted[i].value = engine[posted[i].kind]
\* An answer that no push has overtaken is what the engine has, once nothing is on its way.
AnswersInv ==
  focused => \A r \in requests :
    /\ r.focus = focus /\ r.computed /\ ~r.behind /\ r.kind \in Pushed /\ NonePosted(r.kind)
    => r.answer[r.kind] = engine[r.kind]
\* What is shown is what the engine has, or an answer or a push is still to come.
Asked(kind) == \E r \in requests : r.kind = kind /\ r.focus = focus
ShownInv ==
  focused /\ ~answerCrossed => \A kind \in Pushed :
    NonePosted(kind) => shown[kind] = Rendered(kind, engine[kind]) \/ Asked(kind)
ActivityInv == FieldsInv /\ PostedInv /\ AnswersInv /\ ShownInv

LEMMA FieldSet ==
  ASSUME NEW s, s = [kind \in AllKinds |-> s[kind]], NEW kind \in AllKinds, NEW v
  PROVE  /\ [s EXCEPT ![kind] = v] = [k \in AllKinds |-> [s EXCEPT ![kind] = v][k]]
         /\ [s EXCEPT ![kind] = v][kind] = v
         /\ \A k \in AllKinds \ {kind} : [s EXCEPT ![kind] = v][k] = s[k]
  OBVIOUS
LEMMA BlankFields == Blank \in Snapshots /\ Blank = [kind \in AllKinds |-> Blank[kind]]
<1>1. Blank = [kind \in AllKinds |-> Blank[kind]]
  BY DEF Blank, AllKinds
<1>2. \A kind \in AllKinds : Blank[kind] \in Contents
  BY DEF Blank, AllKinds, Contents
<1> QED
  BY <1>1, <1>2 DEF Snapshots
LEMMA ShownFields ==
  ASSUME FieldsInv, NEW kind \in AllKinds, NEW v, Shows(kind, v)
  PROVE  /\ shown' = [k \in AllKinds |-> shown'[k]] /\ shown'[kind] = Rendered(kind, v)
         /\ \A k \in AllKinds \ {kind} : shown'[k] = shown[k]
  BY FieldSet DEF FieldsInv, Shows, Rendered

LEMMA ActivityStarts == SyncActivityAssumption /\ ActivityInit => ActivityInv
<1> SUFFICES ASSUME SyncActivityAssumption, ActivityInit PROVE ActivityInv
  OBVIOUS
<1>1. PICK o \in Overviews : engine = [Blank EXCEPT !.overview = o, !.binding = "connected"]
  BY DEF ActivityInit
<1>2. /\ engine = [kind \in AllKinds |-> engine[kind]]
      /\ engine["overview"] = o /\ engine["queue"] = 0 /\ engine["history"] = 0
      /\ engine["binding"] = "connected" /\ engine["downloads"] = 0
  BY <1>1 DEF Blank, AllKinds
<1>3. \A kind \in AllKinds : engine[kind] \in Contents
  BY <1>2 DEF AllKinds, Contents
<1>4. posted = <<>>
  BY DEF ActivityInit
<1>6. DOMAIN posted = {} /\ posted \in Seq(Posts)
  BY <1>4, EmptySeq
<1>7. engine \in Snapshots
  BY <1>2, <1>3 DEF Snapshots
<1>8. shown = [kind \in AllKinds |-> shown[kind]]
  BY BlankFields DEF ActivityInit
<1>9. focus = 0 /\ changes = 0 /\ requests = {}
  BY DEF ActivityInit
<1>5. FieldsInv
  BY <1>2, <1>6, <1>7, <1>8, <1>9 DEF FieldsInv
<1> QED
  BY <1>4, <1>5, <1>6 DEF ActivityInit, ActivityInv, PostedInv, AnswersInv, ShownInv

\* What is true of a request but for what becomes of it here.
LEMMA RequestSet ==
  ASSUME NEW r, IsRequest(r), NEW answer \in Snapshots
  PROVE  LET c == [r EXCEPT !.computed = TRUE, !.answer = answer]
         IN /\ IsRequest(c) /\ c.kind = r.kind /\ c.focus = r.focus /\ c.answer = answer
            /\ c.behind = r.behind
  BY DEF IsRequest, AllRequests

LEMMA ActivityStep ==
  ASSUME SyncActivityAssumption, ActivityInv, [ActivityNext]_activityVars
  PROVE  ActivityInv'
<1>k. Kinds \subseteq AllKinds /\ Pushed \subseteq AllKinds
  BY DEF SyncActivityAssumption, AllKinds, Pushed
<1>i. FieldsInv /\ PostedInv /\ AnswersInv /\ ShownInv
  BY DEF ActivityInv
<1>1. CASE FocusActivity
  <2>1. /\ posted' = <<>> /\ posted' \in Seq(Posts) /\ DOMAIN posted' = {} /\ focused'
        /\ focus' = focus + 1 /\ focus' \in Nat
    BY <1>1, <1>i DEF FocusActivity, FieldsInv
  <2>2. \A kind \in Kinds : LET r == RequestFor(0, kind) IN
          r \in AllRequests /\ r.focus = focus' /\ ~r.computed /\ r.kind = kind
    BY <2>1, BlankFields DEF RequestFor, AllRequests
  <2>3. requests' = requests \cup {RequestFor(0, kind) : kind \in Kinds}
    BY <1>1 DEF FocusActivity
  <2>4. \A r \in requests : r \in AllRequests /\ r.focus <= focus' /\ r.focus # focus'
    BY <1>i, <2>1 DEF FieldsInv, IsRequest, AllRequests
  <2>9. \A r \in requests' : r \in AllRequests /\ r.focus <= focus'
    BY <2>1, <2>2, <2>3, <2>4
  <2>5. FieldsInv'
    BY <1>1, <1>i, <2>1, <2>9 DEF FocusActivity, FieldsInv, IsRequest
  <2>6. PostedInv'
    BY <2>1 DEF PostedInv
  <2>7. AnswersInv'
    BY <2>2, <2>3, <2>4 DEF AnswersInv
  <2>8. \A kind \in Pushed : Asked(kind)'
    BY <2>2, <2>3 DEF Asked, Pushed
  <2> QED
    BY <2>5, <2>6, <2>7, <2>8 DEF ActivityInv, ShownInv
<1>2. CASE Blur
  <2>1. posted' \in Seq(Posts) /\ DOMAIN posted' = {} /\ ~focused'
    BY <1>2 DEF Blur
  <2>2. FieldsInv'
    BY <1>2, <1>i, <2>1 DEF Blur, FieldsInv, IsRequest
  <2> QED
    BY <1>2, <2>1, <2>2 DEF Blur, ActivityInv, PostedInv, AnswersInv, ShownInv
<1>3. CASE Push
  <2> PICK e : e = Head(posted)
    OBVIOUS
  <2> DEFINE Late(r) == [r EXCEPT !.behind = @ \/ (r.kind = e.kind /\ r.computed)]
  <2>1. /\ posted # <<>> /\ posted' = Tail(posted) /\ posted' \in Seq(Posts)
        /\ Len(posted) \in Nat \ {0} /\ DOMAIN posted = 1 .. Len(posted)
        /\ DOMAIN posted' = 1 .. (Len(posted) - 1) /\ e = posted[1] /\ e \in Posts
        /\ \A i \in DOMAIN posted' : posted'[i] = posted[i + 1]
    BY <1>3, <1>i DEF Push, FieldsInv
  <2>2. e.kind \in Pushed
    BY <2>1 DEF Posts
  <2>3. \A r \in requests : /\ IsRequest(Late(r)) /\ Late(r).kind = r.kind
                            /\ Late(r).focus = r.focus /\ Late(r).answer = r.answer
                            /\ Late(r).computed = r.computed
                            /\ ~Late(r).behind =>
                                 ~r.behind /\ ~(r.kind = e.kind /\ r.computed)
    BY <1>i DEF FieldsInv, IsRequest, AllRequests
  <2>4. UNCHANGED <<engine, changes, focused, focus, answerCrossed>>
    BY <1>3 DEF Push
  <2>5. \/ /\ e.kind \in {"overview", "binding"} /\ Shows(e.kind, e.value)
           /\ requests' = {Late(r) : r \in requests}
        \/ /\ e.kind \notin {"overview", "binding"} /\ shown' = shown
           /\ requests' = {Late(r) : r \in requests} \cup {RequestFor(e.number, e.kind)}
    BY <1>3 DEF Push
  <2>6. LET n == RequestFor(e.number, e.kind)
        IN IsRequest(n) /\ ~n.computed /\ n.kind = e.kind /\ n.focus = focus
    BY <1>i, <2>1, <2>2, <2>4, BlankFields
       DEF RequestFor, IsRequest, AllRequests, Pushed, FieldsInv, Posts
  <2> HIDE DEF Late
  <2>7. FieldsInv'
    <3>1. \A r \in requests' : IsRequest(r)
      BY <2>3, <2>5, <2>6
    <3>2. shown' = [kind \in AllKinds |-> shown'[kind]]
      BY <1>i, <1>k, <2>2, <2>5, ShownFields DEF FieldsInv
    <3> QED
      BY <1>i, <2>1, <2>4, <3>1, <3>2 DEF FieldsInv, IsRequest
  <2>8. PostedInv'
    <3>1. ASSUME NEW i \in DOMAIN posted',
                 \A j \in DOMAIN posted' : j > i => posted'[j].kind # posted'[i].kind
          PROVE  posted'[i].value = engine'[posted'[i].kind]
      <4>1. i + 1 \in DOMAIN posted /\ posted'[i] = posted[i + 1]
        BY <2>1
      <4>2. ASSUME NEW j \in DOMAIN posted, j > i + 1 PROVE posted[j].kind # posted[i + 1].kind
        <5>1. j - 1 \in DOMAIN posted' /\ j - 1 > i /\ posted'[j - 1] = posted[(j - 1) + 1]
          BY <2>1, <4>2
        <5>2. (j - 1) + 1 = j
          BY <2>1
        <5> QED
          BY <3>1, <4>1, <5>1, <5>2
      <4> QED
        BY <1>i, <2>4, <4>1, <4>2 DEF PostedInv
    <3>2. ~focused' => posted' = <<>>
      BY <1>i, <2>1, <2>4 DEF PostedInv
    <3> QED
      BY <3>1, <3>2 DEF PostedInv
  <2>9. ASSUME NEW kind, NonePosted(kind)', kind # e.kind PROVE NonePosted(kind)
    <3>1. ASSUME NEW i \in DOMAIN posted PROVE posted[i].kind # kind
      <4>1. CASE i = 1
        BY <2>1, <2>9, <4>1
      <4>2. CASE i # 1
        <5>1. i - 1 \in DOMAIN posted' /\ posted'[i - 1] = posted[(i - 1) + 1] /\ (i - 1) + 1 = i
          BY <2>1, <4>2
        <5> QED
          BY <2>9, <5>1 DEF NonePosted
      <4> QED
        BY <4>1, <4>2
    <3> QED
      BY <3>1 DEF NonePosted
  <2>10. NonePosted(e.kind)' => e.value = engine[e.kind]
    <3> SUFFICES ASSUME NonePosted(e.kind)' PROVE e.value = engine[e.kind]
      OBVIOUS
    <3>1. ASSUME NEW j \in DOMAIN posted, j > 1 PROVE posted[j].kind # posted[1].kind
      <4>1. j - 1 \in DOMAIN posted' /\ posted'[j - 1] = posted[(j - 1) + 1] /\ (j - 1) + 1 = j
        BY <2>1, <3>1
      <4>2. posted'[j - 1].kind # e.kind
        BY <4>1 DEF NonePosted
      <4> QED
        BY <2>1, <4>1, <4>2
    <3>2. 1 \in DOMAIN posted
      BY <2>1
    <3> QED
      BY <1>i, <2>1, <3>1, <3>2 DEF PostedInv
  <2>11. AnswersInv'
    <3> SUFFICES ASSUME focused, NEW c \in requests', c.focus = focus, c.computed, ~c.behind,
                        c.kind \in Pushed, NonePosted(c.kind)'
                 PROVE  c.answer[c.kind] = engine[c.kind]
      BY <2>4 DEF AnswersInv
    <3>1. PICK r \in requests : c = Late(r)
      BY <2>5, <2>6
    <3>2. /\ c.kind = r.kind /\ r.focus = focus /\ c.answer = r.answer /\ r.computed
          /\ ~r.behind /\ r.kind # e.kind
      BY <2>3, <3>1
    <3> QED
      BY <1>i, <2>9, <3>2 DEF AnswersInv
  <2>12. ShownInv'
    <3> SUFFICES ASSUME focused, ~answerCrossed, NEW kind \in Pushed, NonePosted(kind)'
                 PROVE  shown'[kind] = Rendered(kind, engine[kind]) \/ Asked(kind)'
      BY <2>4 DEF ShownInv, Rendered, NormalizedOverview
    <3>1. Asked(kind) => Asked(kind)'
      BY <2>3, <2>4, <2>5 DEF Asked
    <3>2. CASE kind = e.kind
      <4>1. CASE e.kind \in {"overview", "binding"}
        <5>1. Shows(e.kind, e.value) /\ e.kind \in AllKinds
          BY <1>k, <2>2, <2>5, <4>1
        <5>2. shown'[e.kind] = Rendered(e.kind, e.value)
          BY <1>i, <5>1, ShownFields
        <5>3. e.value = engine[e.kind]
          BY <2>10, <3>2
        <5> QED
          BY <3>2, <5>2, <5>3
      <4>2. CASE e.kind \notin {"overview", "binding"}
        BY <2>4, <2>5, <2>6, <3>2, <4>2 DEF Asked
      <4> QED
        BY <4>1, <4>2
    <3>3. CASE kind # e.kind
      <4>1. shown'[kind] = shown[kind]
        BY <1>i, <1>k, <2>2, <2>5, <3>3, ShownFields
      <4> QED
        BY <1>i, <2>9, <3>1, <3>3, <4>1 DEF ShownInv
    <3> QED
      BY <3>2, <3>3
  <2> QED
    BY <2>7, <2>8, <2>11, <2>12 DEF ActivityInv
<1>4. ASSUME NEW kind \in Kinds, Changes(kind) PROVE ActivityInv'
  <2>1. PICK v \in Values(kind) \ {engine[kind]} : engine' = [engine EXCEPT ![kind] = v]
    BY <1>4 DEF Changes
  <2>2. v \in Contents /\ (kind \in {"history", "downloads"} => v \in Nat)
    BY <1>i, <1>k, <2>1 DEF Values, Contents, FieldsInv, AllKinds
  <2>3. /\ engine' \in Snapshots /\ engine'[kind] = v
        /\ \A k \in AllKinds \ {kind} : engine'[k] = engine[k]
    BY <1>i, <1>k, <2>1, <2>2 DEF FieldsInv, Snapshots
  <2>4. engine'["history"] \in Nat /\ engine'["downloads"] \in Nat
    BY <1>i, <2>2, <2>3 DEF FieldsInv, AllKinds
  <2>5. changes' = changes + 1 /\ changes' \in Nat /\ UNCHANGED <<focus,
                        focused, requests, shown, answerCrossed>>
    BY <1>4, <1>i DEF Changes, FieldsInv
  <2> DEFINE e == [number |-> changes', kind |-> kind, value |-> engine'[kind]]
  <2>6. CASE focused /\ kind # "downloads"
    <3>1. e \in Posts /\ e.kind = kind /\ e.value = engine'[kind] /\ kind \in Pushed
      BY <2>2, <2>3, <2>5, <2>6 DEF Posts, Pushed
    <3>2. posted' = Append(posted, e)
      BY <1>4, <2>6 DEF Changes
    <3> HIDE DEF e
    <3>3. /\ posted \in Seq(Posts) /\ Len(posted) \in Nat /\ posted' \in Seq(Posts)
          /\ DOMAIN posted = 1 .. Len(posted) /\ DOMAIN posted' = 1 .. (Len(posted) + 1)
          /\ posted'[Len(posted) + 1] = e
          /\ \A i \in DOMAIN posted : posted'[i] = posted[i]
      BY <1>i, <3>1, <3>2 DEF FieldsInv
    <3>4. FieldsInv'
      BY <1>i, <2>3, <2>4, <2>5, <3>3 DEF FieldsInv, IsRequest
    <3>5. ~NonePosted(kind)'
      BY <3>1, <3>3 DEF NonePosted
    <3>6. PostedInv'
      <4>1. ASSUME NEW i \in DOMAIN posted',
                   \A j \in DOMAIN posted' : j > i => posted'[j].kind # posted'[i].kind
            PROVE  posted'[i].value = engine'[posted'[i].kind]
        <5>1. CASE i = Len(posted) + 1
          BY <3>1, <3>3, <5>1
        <5>2. CASE i # Len(posted) + 1
          <6>1. i \in DOMAIN posted /\ posted'[i] = posted[i]
            BY <3>3, <5>2
          <6>2. posted[i].kind # kind
            BY <3>1, <3>3, <4>1, <6>1
          <6>3. \A j \in DOMAIN posted : j > i => posted[j].kind # posted[i].kind
            BY <3>3, <4>1, <6>1
          <6>4. posted[i].value = engine[posted[i].kind]
            BY <1>i, <6>1, <6>3 DEF PostedInv
          <6>5. posted[i] \in Posts
            BY <3>3, <6>1
          <6>6. posted[i].kind \in AllKinds \ {kind}
            BY <1>k, <6>2, <6>5 DEF Posts
          <6> QED
            BY <2>3, <6>1, <6>4, <6>6
        <5> QED
          BY <5>1, <5>2
      <4> QED
        BY <2>5, <2>6, <4>1 DEF PostedInv
    <3>7. \A k : NonePosted(k)' => NonePosted(k) /\ k # kind
      BY <3>3, <3>5 DEF NonePosted
    <3>8. AnswersInv'
      BY <1>i, <1>k, <2>3, <2>5, <3>7 DEF AnswersInv
    <3>9. ShownInv'
      <4> SUFFICES ASSUME focused, ~answerCrossed, NEW k \in Pushed, NonePosted(k)'
                   PROVE  shown'[k] = Rendered(k, engine'[k]) \/ Asked(k)'
        BY <2>5 DEF ShownInv, Rendered, NormalizedOverview
      <4>1. NonePosted(k) /\ engine'[k] = engine[k]
        BY <1>k, <2>3, <3>7
      <4> QED
        BY <1>i, <2>5, <4>1 DEF ShownInv, Asked
    <3> QED
      BY <3>4, <3>6, <3>8, <3>9 DEF ActivityInv
  <2>7. CASE ~(focused /\ kind # "downloads")
    <3>1. posted' = posted
      BY <1>4, <2>7 DEF Changes
    <3>2. FieldsInv'
      BY <1>i, <2>3, <2>4, <2>5, <3>1 DEF FieldsInv, IsRequest
    <3>3. CASE ~focused
      <4>1. DOMAIN posted' = {}
        BY <1>i, <3>1, <3>3 DEF PostedInv
      <4>2. PostedInv'
        BY <1>i, <2>5, <3>1, <3>3, <4>1 DEF PostedInv
      <4> QED
        BY <2>5, <3>2, <3>3, <4>2 DEF ActivityInv, AnswersInv, ShownInv
    <3>4. CASE focused
      <4>1. kind \notin Pushed /\ \A k \in Pushed : engine'[k] = engine[k]
        BY <1>k, <2>3, <2>7, <3>4 DEF Pushed
      <4>2. \A i \in DOMAIN posted : posted[i].kind \in Pushed
        <5>1. posted \in Seq(Posts)
          BY <1>i DEF FieldsInv
        <5>2. \A i \in DOMAIN posted : posted[i] \in Posts
          BY <5>1
        <5> QED
          BY <5>2 DEF Posts
      <4>3. PostedInv'
        BY <1>i, <2>5, <3>1, <4>1, <4>2 DEF PostedInv
      <4>4. AnswersInv'
        BY <1>i, <2>5, <3>1, <4>1 DEF AnswersInv, NonePosted
      <4>5. ShownInv'
        BY <1>i, <2>5, <3>1, <4>1 DEF ShownInv, NonePosted, Asked, Rendered, NormalizedOverview
      <4> QED
        BY <3>2, <4>3, <4>4, <4>5 DEF ActivityInv
    <3> QED
      BY <3>3, <3>4
  <2> QED
    BY <2>6, <2>7
<1>5. ASSUME NEW r \in requests, Computes(r) PROVE ActivityInv'
  <2> DEFINE answer == [Blank EXCEPT ![r.kind] = engine[r.kind]]
             c == [r EXCEPT !.computed = TRUE, !.answer = answer]
  <2>1. IsRequest(r) /\ r.kind \in AllKinds
    BY <1>i, <1>k DEF FieldsInv, IsRequest, AllRequests
  <2>2. answer \in Snapshots /\ answer[r.kind] = engine[r.kind]
    BY <1>i, <2>1, BlankFields DEF Snapshots, FieldsInv
  <2>3. IsRequest(c) /\ c.kind = r.kind /\ c.focus = r.focus /\ c.answer = answer
    BY <2>1, <2>2, RequestSet
  <2>4. /\ requests' = (requests \ {r}) \cup {c}
        /\ UNCHANGED <<engine, changes, posted, focus, focused, shown, answerCrossed>>
    BY <1>5 DEF Computes
  <2> HIDE DEF c, answer
  <2>5. FieldsInv'
    BY <1>i, <2>3, <2>4 DEF FieldsInv, IsRequest
  <2>6. PostedInv'
    BY <1>i, <2>4 DEF PostedInv
  <2>7. AnswersInv'
    BY <1>i, <2>2, <2>3, <2>4 DEF AnswersInv, NonePosted
  <2>8. ShownInv'
    BY <1>i, <2>3, <2>4 DEF ShownInv, NonePosted, Asked, Rendered, NormalizedOverview
  <2> QED
    BY <2>5, <2>6, <2>7, <2>8 DEF ActivityInv
<1>6. ASSUME NEW r \in requests, Arrives(r) \/ RequestFails(r) PROVE ActivityInv'
  <2>1. r.kind \in AllKinds
    BY <1>i, <1>k DEF FieldsInv, IsRequest, AllRequests
  <2>2. requests' = requests \ {r} /\ UNCHANGED <<engine, changes, posted, focus, focused>>
    BY <1>6 DEF Arrives, RequestFails
  <2>3. shown' = [k \in AllKinds |-> shown'[k]]
    BY <1>6, <1>i, <2>1, ShownFields DEF Arrives, RequestFails, FieldsInv
  <2>4. FieldsInv'
    BY <1>i, <2>2, <2>3 DEF FieldsInv, IsRequest
  <2>5. PostedInv' /\ AnswersInv'
    BY <1>i, <2>2 DEF PostedInv, AnswersInv, NonePosted
  <2>6. ShownInv'
    <3> SUFFICES ASSUME focused, ~answerCrossed', NEW kind \in Pushed, NonePosted(kind)
                 PROVE  shown'[kind] = Rendered(kind, engine[kind]) \/ Asked(kind)'
      BY <2>2 DEF ShownInv, NonePosted, Rendered, NormalizedOverview
    <3>1. ~answerCrossed
      BY <1>6 DEF Arrives, RequestFails
    <3>2. CASE ~Takes(r)
      <4>1. r.focus # focus /\ shown' = shown
        BY <1>6, <3>2 DEF Takes, Arrives, RequestFails
      <4> QED
        BY <1>i, <2>2, <3>1, <4>1 DEF ShownInv, Asked
    <3>3. CASE Takes(r)
      <4>1. r.focus = focus /\ r.computed /\ ~r.behind /\ Shows(r.kind, r.answer[r.kind])
        BY <1>6, <3>3 DEF Takes, Arrives, RequestFails
      <4>2. CASE kind = r.kind
        <5>1. shown'[kind] = Rendered(kind, r.answer[kind])
          BY <1>i, <2>1, <4>1, <4>2, ShownFields
        <5>2. r.answer[kind] = engine[kind]
          BY <1>i, <4>1, <4>2 DEF AnswersInv
        <5> QED
          BY <5>1, <5>2
      <4>3. CASE kind # r.kind
        <5>1. shown'[kind] = shown[kind]
          BY <1>i, <1>k, <2>1, <4>1, <4>3, ShownFields
        <5> QED
          BY <1>i, <2>2, <3>1, <4>3, <5>1 DEF ShownInv, Asked
      <4> QED
        BY <4>2, <4>3
    <3> QED
      BY <3>2, <3>3
  <2> QED
    BY <2>4, <2>5, <2>6 DEF ActivityInv
<1>7. CASE UNCHANGED activityVars
  <2>1. FieldsInv'
    BY <1>7, <1>i DEF activityVars, FieldsInv, IsRequest
  <2>2. PostedInv' /\ AnswersInv'
    BY <1>7, <1>i DEF activityVars, PostedInv, AnswersInv, NonePosted
  <2>3. ShownInv'
    BY <1>7, <1>i DEF activityVars, ShownInv, NonePosted, Asked, Rendered, NormalizedOverview
  <2> QED
    BY <2>1, <2>2, <2>3 DEF ActivityInv
<1> QED
  BY <1>1, <1>2, <1>3, <1>4, <1>5, <1>6, <1>7 DEF ActivityNext

\* The activity screen shows what the engine has, once nothing is on its way to it and
\* unless an answer crossed a push (SyncActivityHomeSections.tsx and its service).
THEOREM HomeShowsTheEngine ==
  ASSUME SyncActivityAssumption PROVE ActivitySpec => []ShownIsTrue
<1>1. ActivityInv => ShownIsTrue
  <2> SUFFICES ASSUME ActivityInv, Settled, ~answerCrossed, NEW kind \in Kinds \ {"downloads"}
               PROVE  shown[kind] = IF kind = "overview" THEN NormalizedOverview(engine.overview)
                                    ELSE engine[kind]
    BY DEF ShownIsTrue
  <2>1. NonePosted(kind) /\ ~Asked(kind) /\ focused /\ kind \in Pushed
    BY DEF Settled, NonePosted, Asked, Pushed
  <2>2. shown[kind] = Rendered(kind, engine[kind])
    BY <2>1 DEF ActivityInv, ShownInv
  <2> QED
    BY <2>2 DEF Rendered
<1> QED
  BY <1>1, ActivityStarts, ActivityStep, PTL DEF ActivitySpec

-----------------------------------------------------------------------------
(***************************************************************************)
(* PhoneSettings: ShownIsInForce.  While calls do not overlap there is one *)
(* about the name and one about the language, and the invariant says for   *)
(* each step of it which of the values are equal already.                  *)
(***************************************************************************)

NameOps     == {op \in ops : op.kind \in {"loadName", "saveName"}}
LanguageOps == {op \in ops : op.kind \in {"loadLanguage", "saveLanguage"}}
NativeCalls ==
  [number : Nat, kind : {"loadName", "saveName", "loadLanguage", "saveLanguage", "export"},
   value : Names \cup Preferences \cup {None}, step : {1, 2}]

CallsInv ==
  /\ ops \subseteq NativeCalls /\ started \in Nat /\ \A op \in ops : op.number <= started
  /\ \A op \in ops : /\ op.kind = "saveName" => op.value \in Names
                     /\ op.kind = "saveLanguage" => op.value \in Preferences
ValuesInv ==
  /\ SettingsTypeOK /\ applied \in Languages /\ phone \in Languages /\ editing \in Names \cup {None}
\* What is saved is what is shown, but for what the one call under way has still to do.
NameInv ==
  /\ \A a, b \in NameOps : a = b
  /\ (\A op \in ops : op.kind # "loadName") => deviceName = nativeName
LanguageInv ==
  /\ \A a, b \in LanguageOps : a = b
  /\ \A op \in ops : op.kind = "saveLanguage" /\ op.step = 2 => storedPreference = op.value
  /\ (\A op \in ops : op.kind # "saveLanguage" \/ op.step = 1) =>
       /\ applied = Resolved(storedPreference)
       /\ (\A op \in ops : op.kind # "loadLanguage") =>
            preference = storedPreference /\ language = applied
SettingsInv == CallsInv /\ ValuesInv /\ (~overlapped => NameInv /\ LanguageInv)

LEMMA SettingsStart == PhoneSettingsAssumption /\ SettingsInit => SettingsInv
<1> SUFFICES ASSUME PhoneSettingsAssumption, SettingsInit PROVE SettingsInv
  OBVIOUS
<1>1. CallsInv
  BY DEF SettingsInit, CallsInv, NativeCalls
<1>2. ValuesInv
  BY DEF PhoneSettingsAssumption, SettingsInit, ValuesInv, SettingsTypeOK, Resolved, Preferences
<1>3. NameInv
  BY DEF SettingsInit, NameInv, NameOps
<1>4. LanguageInv
  BY DEF SettingsInit, LanguageInv, LanguageOps
<1> QED
  BY <1>1, <1>2, <1>3, <1>4 DEF SettingsInv

\* Where the language is not touched, and the same calls about it are under way.
LEMMA LanguageKept ==
  ASSUME LanguageInv, LanguageOps' = LanguageOps,
         UNCHANGED <<storedPreference, applied, phone, preference, language>>
  PROVE  LanguageInv'
<1>1. Resolved(storedPreference)' = Resolved(storedPreference)
  BY DEF Resolved
<1>2. \A op : op.kind \in {"loadLanguage", "saveLanguage"} => (op \in ops <=> op \in ops')
  BY DEF LanguageOps
<1> QED
  BY <1>1, <1>2 DEF LanguageInv
LEMMA NameKept ==
  ASSUME NameInv, NameOps' = NameOps, UNCHANGED <<deviceName, nativeName>>
  PROVE  NameInv'
<1>1. \A op : op.kind \in {"loadName", "saveName"} => (op \in ops <=> op \in ops')
  BY DEF NameOps
<1> QED
  BY <1>1 DEF NameInv

LEMMA CallBegins ==
  ASSUME CallsInv, NEW kind, NEW value, Begin(kind, value),
         kind \in {"saveName", "saveLanguage", "export"},
         value \in IF kind = "saveName" THEN Names ELSE IF kind = "saveLanguage" THEN Preferences
                   ELSE {None}
  PROVE  /\ CallsInv'
         /\ ~overlapped' => ~overlapped /\ \A op \in ops : About(op.kind) # About(kind)
         /\ kind # "saveName" => NameOps' = NameOps
         /\ kind # "saveLanguage" => LanguageOps' = LanguageOps
<1> DEFINE new == [number |-> started', kind |-> kind, value |-> value, step |-> 1]
<1>1. started' = started + 1 /\ started' \in Nat /\ ops' = ops \cup {new}
  BY DEF Begin, CallsInv
<1>2. new \in NativeCalls /\ new.kind = kind /\ new.value = value
  BY <1>1 DEF NativeCalls
<1>3. \A op \in ops : op.number \in Nat
  BY DEF CallsInv, NativeCalls
<1>4. CallsInv'
  BY <1>1, <1>2, <1>3 DEF CallsInv
<1>5. /\ kind # "saveName" => NameOps' = NameOps
      /\ kind # "saveLanguage" => LanguageOps' = LanguageOps
  BY <1>1, <1>2 DEF NameOps, LanguageOps
<1>6. ~overlapped' => ~overlapped /\ \A op \in ops : About(op.kind) # About(kind)
  BY DEF Begin
<1> QED
  BY <1>4, <1>5, <1>6

LEMMA CallEnds ==
  ASSUME CallsInv, NEW op \in ops, Over(op), UNCHANGED started
  PROVE  /\ CallsInv'
         /\ About(op.kind) # "name" => NameOps' = NameOps
         /\ About(op.kind) # "language" => LanguageOps' = LanguageOps
<1>1. CallsInv'
  BY DEF CallsInv, Over
<1> QED
  BY <1>1 DEF Over, About, NameOps, LanguageOps

LEMMA SettingsStep ==
  ASSUME PhoneSettingsAssumption, SettingsInv, [SettingsNext]_phoneSettingsVars
  PROVE  SettingsInv'
<1> USE DEF nameVars, languageVars
<1>i. CallsInv /\ ValuesInv /\ (~overlapped => NameInv /\ LanguageInv)
  BY DEF SettingsInv
<1>k. ASSUME CallsInv', ValuesInv', ~overlapped' => ~overlapped, NameOps' = NameOps,
             LanguageOps' = LanguageOps,
             UNCHANGED <<nativeName, storedPreference, applied, phone, deviceName, preference,
                          language>>
      PROVE  SettingsInv'
  BY <1>i, <1>k, NameKept, LanguageKept DEF SettingsInv
<1>u. ASSUME UNCHANGED <<ops, started, overlapped>>, ValuesInv',
             UNCHANGED <<nativeName, storedPreference, applied, phone, deviceName, preference,
                          language>>
      PROVE  SettingsInv'
  <2>1. CallsInv'
    BY <1>i, <1>u DEF CallsInv
  <2>2. NameOps' = NameOps /\ LanguageOps' = LanguageOps
    BY <1>u DEF NameOps, LanguageOps
  <2> QED
    BY <1>k, <1>u, <2>1, <2>2
<1>1. CASE OpenEdit \/ CloseEdit \/ SwitchView \/ PickManual
  <2>1. ValuesInv'
    BY <1>1, <1>i DEF OpenEdit, CloseEdit, SwitchView, PickManual, ValuesInv, SettingsTypeOK
  <2> QED
    BY <1>1, <1>u, <2>1 DEF OpenEdit, CloseEdit, SwitchView, PickManual
<1>2. CASE Export
  <2>1. ValuesInv'
    BY <1>2, <1>i DEF Export, ValuesInv, SettingsTypeOK
  <2>2. /\ CallsInv' /\ (~overlapped' => ~overlapped)
        /\ NameOps' = NameOps /\ LanguageOps' = LanguageOps
    BY <1>2, <1>i, CallBegins DEF Export
  <2> QED
    BY <1>2, <1>k, <2>1, <2>2 DEF Export
<1>3. ASSUME NEW name \in Names \cup {None}, Type(name) PROVE SettingsInv'
  <2>1. ValuesInv'
    BY <1>3, <1>i DEF Type, ValuesInv, SettingsTypeOK
  <2> QED
    BY <1>3, <1>u, <2>1 DEF Type
<1>4. ASSUME NEW byButton \in BOOLEAN, SaveName(byButton) PROVE SettingsInv'
  <2>1. ValuesInv'
    BY <1>4, <1>i DEF SaveName, ValuesInv, SettingsTypeOK
  <2>2. CASE editing = None
    BY <1>4, <1>u, <2>1, <2>2 DEF SaveName
  <2>3. CASE editing # None
    <3>1. Begin("saveName", editing) /\ editing \in Names
      BY <1>4, <1>i, <2>3 DEF SaveName, ValuesInv
    <3>2. /\ CallsInv' /\ LanguageOps' = LanguageOps
          /\ ~overlapped' => ~overlapped /\ \A op \in ops : About(op.kind) # About("saveName")
      BY <1>i, <3>1, CallBegins
    <3>3. ~overlapped' => LanguageInv'
      BY <1>4, <1>i, <3>2, LanguageKept DEF SaveName
    <3>4. ASSUME ~overlapped' PROVE NameInv'
      <4>1. \A op \in ops : op.kind \notin {"loadName", "saveName"}
        BY <3>2, <3>4 DEF About
      <4>2. deviceName' = nativeName'
        BY <1>4, <1>i, <3>2, <3>4, <4>1 DEF NameInv, SaveName
      <4>3. \A op \in NameOps' : op = [number |-> started', kind |-> "saveName",
                                       value |-> editing, step |-> 1]
        BY <3>1, <4>1 DEF NameOps, Begin
      <4> QED
        BY <4>2, <4>3 DEF NameInv
    <3> QED
      BY <2>1, <3>2, <3>3, <3>4 DEF SettingsInv
  <2> QED
    BY <2>2, <2>3
<1>5. ASSUME NEW p \in Preferences, Choose(p) PROVE SettingsInv'
  <2>1. ValuesInv'
    BY <1>5, <1>i DEF Choose, ValuesInv, SettingsTypeOK
  <2>2. Begin("saveLanguage", p)
    BY <1>5 DEF Choose
  <2>3. /\ CallsInv' /\ NameOps' = NameOps
        /\ ~overlapped' => ~overlapped /\ \A op \in ops : About(op.kind) # About("saveLanguage")
    BY <1>i, <2>2, CallBegins
  <2>4. ~overlapped' => NameInv'
    BY <1>5, <1>i, <2>3, NameKept DEF Choose
  <2>5. ASSUME ~overlapped' PROVE LanguageInv'
    <3> DEFINE new == [number |-> started', kind |-> "saveLanguage", value |-> p, step |-> 1]
    <3>1. \A op \in ops : op.kind \notin {"loadLanguage", "saveLanguage"}
      BY <2>3, <2>5 DEF About
    <3>2. /\ applied = Resolved(storedPreference)
          /\ preference = storedPreference /\ language = applied
      BY <1>i, <2>3, <2>5, <3>1 DEF LanguageInv
    <3>3. ops' = ops \cup {new} /\ new.kind = "saveLanguage" /\ new.step = 1
      BY <2>2 DEF Begin
    <3>4. \A op \in LanguageOps' : op = new
      BY <3>1, <3>3 DEF LanguageOps
    <3>5. \A op \in ops' : op.kind # "saveLanguage" \/ op.step # 2
      BY <3>1, <3>3
    <3> HIDE DEF new
    <3> QED
      BY <1>5, <3>2, <3>4, <3>5 DEF LanguageInv, Choose, Resolved
  <2> QED
    BY <2>1, <2>3, <2>4, <2>5 DEF SettingsInv
<1>6. ASSUME NEW op \in ops, NameSaved(op) \/ NameFails(op) \/ NameLoaded(op) PROVE SettingsInv'
  <2>0. op \in NativeCalls /\ (op.kind = "saveName" => op.value \in Names)
    BY <1>i DEF CallsInv
  <2>1. ValuesInv'
    BY <1>6, <1>i, <2>0 DEF NameSaved, NameFails, NameLoaded, ValuesInv, SettingsTypeOK
  <2>2. op.kind \in {"loadName", "saveName"} /\ Over(op) /\ UNCHANGED <<started, overlapped>>
    BY <1>6 DEF NameSaved, NameFails, NameLoaded
  <2>3. CallsInv' /\ LanguageOps' = LanguageOps
    BY <1>i, <2>2, CallEnds DEF About
  <2>4. ~overlapped' => LanguageInv'
    BY <1>6, <1>i, <2>2, <2>3, LanguageKept DEF NameSaved, NameFails, NameLoaded
  <2>5. ASSUME ~overlapped' PROVE NameInv'
    <3>1. NameInv
      BY <1>i, <2>2, <2>5
    <3>2. NameOps' = {}
      BY <2>2, <3>1 DEF NameInv, NameOps, Over
    <3>3. op.kind = "saveName" => deviceName = nativeName
      BY <2>2, <3>1 DEF NameInv, NameOps
    <3>4. deviceName' = nativeName'
      BY <1>6, <3>3 DEF NameSaved, NameFails, NameLoaded
    <3> QED
      BY <3>2, <3>4 DEF NameInv
  <2> QED
    BY <2>1, <2>3, <2>4, <2>5 DEF SettingsInv
<1>l. ASSUME NEW op \in ops, op.kind \in {"loadLanguage", "saveLanguage"}, Over(op),
             UNCHANGED started, LanguageInv
      PROVE  CallsInv' /\ NameOps' = NameOps /\ LanguageOps' = {}
  <2>1. CallsInv' /\ NameOps' = NameOps
    BY <1>i, <1>l, CallEnds DEF About
  <2>2. LanguageOps' = {}
    BY <1>l DEF LanguageInv, LanguageOps, Over
  <2> QED
    BY <2>1, <2>2
<1>e. ASSUME LanguageOps' = {}, applied' = Resolved(storedPreference)',
             preference' = storedPreference', language' = applied'
      PROVE  LanguageInv'
  <2>1. \A op \in ops' : op.kind \notin {"loadLanguage", "saveLanguage"}
    BY <1>e DEF LanguageOps
  <2> QED
    BY <1>e, <2>1 DEF LanguageInv
<1>r. \A p \in Preferences : Resolved(p) \in Languages
  BY <1>i DEF Resolved, Preferences, ValuesInv
<1>7. ASSUME NEW op \in ops, Stored(op) PROVE SettingsInv'
  <2> DEFINE next == [op EXCEPT !.step = 2]
  <2>0. op \in NativeCalls /\ op.kind = "saveLanguage" /\ op.value \in Preferences
    BY <1>7, <1>i DEF CallsInv, Stored
  <2>1. /\ next \in NativeCalls /\ next.kind = "saveLanguage" /\ next.value = op.value
        /\ next.step = 2 /\ next.number = op.number
    BY <2>0 DEF NativeCalls
  <2>2. ops' = (ops \ {op}) \cup {next} /\ storedPreference' = op.value
    BY <1>7 DEF Stored
  <2> HIDE DEF next
  <2>3. CallsInv'
    BY <1>7, <1>i, <2>0, <2>1, <2>2 DEF CallsInv, Stored
  <2>4. ValuesInv'
    BY <1>7, <1>i, <2>0 DEF Stored, ValuesInv, SettingsTypeOK
  <2>5. NameOps' = NameOps
    BY <2>0, <2>1, <2>2 DEF NameOps
  <2>6. ~overlapped' => ~overlapped /\ NameInv'
    BY <1>7, <1>i, <2>5, NameKept DEF Stored
  <2>7. ASSUME ~overlapped' PROVE LanguageInv'
    <3>1. LanguageInv
      BY <1>i, <2>6, <2>7
    <3>2. \A a \in ops' : a.kind \in {"loadLanguage", "saveLanguage"} => a = next
      BY <2>0, <2>2, <3>1 DEF LanguageInv, LanguageOps
    <3> QED
      BY <2>1, <2>2, <3>2 DEF LanguageInv, LanguageOps
  <2> QED
    BY <2>3, <2>4, <2>6, <2>7 DEF SettingsInv
<1>8. ASSUME NEW op \in ops, Applied(op) PROVE SettingsInv'
  <2>0. op \in NativeCalls /\ op.kind = "saveLanguage" /\ op.step = 2 /\ op.value \in Preferences
    BY <1>8, <1>i DEF CallsInv, Applied
  <2>1. CallsInv' /\ NameOps' = NameOps
    BY <1>8, <1>i, <2>0, CallEnds DEF Applied, About
  <2>2. ValuesInv'
    BY <1>8, <1>i, <1>r, <2>0 DEF Applied, Shown, ValuesInv, SettingsTypeOK
  <2>3. ~overlapped' => ~overlapped /\ NameInv'
    BY <1>8, <1>i, <2>1, NameKept DEF Applied
  <2>4. ASSUME ~overlapped' PROVE LanguageInv'
    <3>1. LanguageInv
      BY <1>i, <2>3, <2>4
    <3>2. LanguageOps' = {}
      BY <1>8, <1>l, <2>0, <3>1 DEF Applied
    <3>3. storedPreference = op.value
      BY <2>0, <3>1 DEF LanguageInv
    <3>4. /\ applied' = Resolved(storedPreference)' /\ preference' = storedPreference'
          /\ language' = applied'
      BY <1>8, <3>3 DEF Applied, Shown, Resolved
    <3> QED
      BY <1>e, <3>2, <3>4
  <2> QED
    BY <2>1, <2>2, <2>3, <2>4 DEF SettingsInv
<1>9. ASSUME NEW op \in ops, LanguageFails(op) PROVE SettingsInv'
  <2>0. op \in NativeCalls /\ op.kind = "saveLanguage" /\ op.step \in {1, 2}
    BY <1>9, <1>i DEF CallsInv, LanguageFails, NativeCalls
  <2>1. CallsInv' /\ NameOps' = NameOps
    BY <1>9, <1>i, <2>0, CallEnds DEF LanguageFails, About
  <2>2. ValuesInv'
    BY <1>9, <1>i DEF LanguageFails, ValuesInv, SettingsTypeOK
  <2>3. ~overlapped' => ~overlapped /\ op.step = 1
    BY <1>9, <2>0 DEF LanguageFails
  <2>4. ~overlapped' => NameInv'
    BY <1>9, <1>i, <2>1, <2>3, NameKept DEF LanguageFails
  <2>5. ASSUME ~overlapped' PROVE LanguageInv'
    <3>1. LanguageInv
      BY <1>i, <2>3, <2>5
    <3>2. LanguageOps' = {}
      BY <1>9, <1>l, <2>0, <3>1 DEF LanguageFails
    <3>3. \A a \in ops : a.kind \in {"loadLanguage", "saveLanguage"} => a = op
      BY <2>0, <3>1 DEF LanguageInv, LanguageOps
    <3>4. \A a \in ops : a.kind # "saveLanguage" \/ a.step = 1
      BY <2>3, <2>5, <3>3
    <3>5. \A a \in ops : a.kind # "loadLanguage"
      BY <2>0, <3>3
    <3>6. applied = Resolved(storedPreference) /\ preference = storedPreference /\ language = applied
      BY <3>1, <3>4, <3>5 DEF LanguageInv
    <3>7. applied' = Resolved(storedPreference)' /\ preference' = storedPreference'
          /\ language' = applied'
      BY <1>9, <3>6 DEF LanguageFails, Resolved
    <3> QED
      BY <1>e, <3>2, <3>7
  <2> QED
    BY <2>1, <2>2, <2>4, <2>5 DEF SettingsInv
<1>10. ASSUME NEW op \in ops, LanguageLoaded(op) PROVE SettingsInv'
  <2>0. op \in NativeCalls /\ op.kind = "loadLanguage" /\ storedPreference \in Preferences
    BY <1>10, <1>i DEF CallsInv, LanguageLoaded, ValuesInv, SettingsTypeOK
  <2>1. CallsInv' /\ NameOps' = NameOps
    BY <1>10, <1>i, <2>0, CallEnds DEF LanguageLoaded, About
  <2>2. ValuesInv'
    BY <1>10, <1>i, <1>r, <2>0 DEF LanguageLoaded, Shown, ValuesInv, SettingsTypeOK
  <2>3. ~overlapped' => ~overlapped /\ NameInv'
    BY <1>10, <1>i, <2>1, NameKept DEF LanguageLoaded
  <2>4. ASSUME ~overlapped' PROVE LanguageInv'
    <3>1. LanguageInv
      BY <1>i, <2>3, <2>4
    <3>2. LanguageOps' = {}
      BY <1>10, <1>l, <2>0, <3>1 DEF LanguageLoaded
    <3>3. \A a \in ops : a.kind # "saveLanguage"
      BY <2>0, <3>1 DEF LanguageInv, LanguageOps
    <3>4. applied = Resolved(storedPreference)
      BY <3>1, <3>3 DEF LanguageInv
    <3>5. /\ applied' = Resolved(storedPreference)' /\ preference' = storedPreference'
          /\ language' = applied'
      BY <1>10, <3>4 DEF LanguageLoaded, Shown, Resolved
    <3> QED
      BY <1>e, <3>2, <3>5
  <2> QED
    BY <2>1, <2>2, <2>3, <2>4 DEF SettingsInv
<1>11. ASSUME NEW op \in ops, LoadFails(op) PROVE SettingsInv'
  <2>1. CallsInv'
    BY <1>11, <1>i, CallEnds DEF LoadFails
  <2>2. System \in Preferences
    BY DEF Preferences
  <2>3. ValuesInv'
    BY <1>11, <1>i, <1>r, <2>2 DEF LoadFails, Shown, ValuesInv, SettingsTypeOK
  <2>4. overlapped'
    BY <1>11 DEF LoadFails
  <2> QED
    BY <2>1, <2>3, <2>4 DEF SettingsInv
<1>12. ASSUME NEW op \in ops, ExportEnds(op) PROVE SettingsInv'
  <2>1. ValuesInv'
    BY <1>12, <1>i DEF ExportEnds, ValuesInv, SettingsTypeOK
  <2>2. CallsInv' /\ NameOps' = NameOps /\ LanguageOps' = LanguageOps
    BY <1>12, <1>i, CallEnds DEF ExportEnds, About
  <2> QED
    BY <1>12, <1>k, <2>1, <2>2 DEF ExportEnds
<1>13. CASE UNCHANGED phoneSettingsVars
  <2>1. ValuesInv'
    BY <1>13, <1>i DEF phoneSettingsVars, ValuesInv, SettingsTypeOK
  <2> QED
    BY <1>13, <1>u, <2>1 DEF phoneSettingsVars
<1> QED
  BY <1>1, <1>2, <1>3, <1>4, <1>5, <1>6, <1>7, <1>8, <1>9, <1>10, <1>11, <1>12, <1>13
     DEF SettingsNext

\* Once no call is under way, the screen shows the name and the language that are stored
\* and in force, unless two calls about one of them overlapped or i18n failed behind a
\* save (the settings screen of the phone).
THEOREM SettingsShowWhatIsInForce ==
  ASSUME PhoneSettingsAssumption PROVE SettingsSpec => []ShownIsInForce
<1>1. SettingsInv => ShownIsInForce
  BY DEF SettingsInv, NameInv, LanguageInv, ShownIsInForce
<1> QED
  BY <1>1, SettingsStart, SettingsStep, PTL DEF SettingsSpec

-----------------------------------------------------------------------------
(***************************************************************************)
(* PhoneThumbnails: NoStaleSignature.                                      *)
(***************************************************************************)

\* What a tile shows of a file of the computer's own directories holds no address, and
\* what is stored or shown is a record, or nothing.
Tile == [rec : Record \cup {None}, failed : BOOLEAN, live : BOOLEAN, asked : BOOLEAN]
TilesInv ==
  /\ TilesTypeOK
  /\ \A p \in TilePlaces, f \in PersonalDir :
       tiles[p][f].rec # None => tiles[p][f].rec.urls = {}

\* A list of records as a screen may be given it.
Clean(recs) ==
  /\ recs \in [Resources -> Record \cup {None}]
  /\ \A f \in PersonalDir : recs[f] # None => recs[f].urls = {}

\* A record is told from "none" by having its fields.
LEMMA ListedIsClean ==
  ASSUME ThumbnailsAssumption, store \in [Resources -> Record \cup {None}]
  PROVE  Clean(Listed)
  BY DEF ThumbnailsAssumption, Clean, Listed, NormalizedRecord, IsPersonalDir, Record

LEMMA TilesStart == ThumbnailsAssumption /\ TilesInit => TilesInv
<1> SUFFICES ASSUME ThumbnailsAssumption, TilesInit PROVE TilesInv
  OBVIOUS
<1>1. store \in [Resources -> Record \cup {None}]
  BY DEF TilesInit, Record, Urls
<1>2. tiles \in [TilePlaces -> [Resources -> Tile]]
  BY DEF TilesInit, Off, Tile
<1> QED
  BY <1>1, <1>2 DEF TilesInit, TilesInv, TilesTypeOK, Tile, TilePlaces, Off, ThumbnailsAssumption

\* A tile that is rendered with a record, at home or on the screen of the records.
LEMMA TileOfRecord ==
  ASSUME NEW f \in Resources, NEW t \in Tile, NEW r \in Record \cup {None}
  PROVE  /\ HomeTile(f, t, r) \in Tile /\ HomeTile(f, t, r).rec = r
         /\ Off \in Tile /\ Off.rec = None
         /\ r # None => \A p \in TilePlaces : Fresh(p, f, r) \in Tile /\ Fresh(p, f, r).rec = r
  BY DEF HomeTile, Fresh, Off, Tile, Asks, IsPersonalDir

\* The home tab with clean records keeps the invariant.
LEMMA HomeIsClean ==
  ASSUME ThumbnailsAssumption, TilesInv, NEW recs, Clean(recs),
         tiles' = [tiles EXCEPT !["home"] = HomeTiles(recs)]
  PROVE  /\ tiles' \in [TilePlaces -> [Resources -> Tile]]
         /\ \A p \in TilePlaces, f \in PersonalDir :
              tiles'[p][f].rec # None => tiles'[p][f].rec.urls = {}
<1>1. tiles \in [TilePlaces -> [Resources -> Tile]] /\ "home" \in TilePlaces
  BY DEF TilesInv, TilesTypeOK, Tile, TilePlaces
<1>2. \A f \in Resources : HomeTile(f, tiles["home"][f], recs[f]) \in Tile
                           /\ HomeTile(f, tiles["home"][f], recs[f]).rec = recs[f]
  BY <1>1, TileOfRecord DEF Clean
<1>3. HomeTiles(recs) \in [Resources -> Tile] /\ \A f \in Resources : HomeTiles(recs)[f].rec = recs[f]
  BY <1>2 DEF HomeTiles
<1> QED
  BY <1>1, <1>3 DEF TilesInv, Clean, ThumbnailsAssumption

LEMMA TilesStep == ThumbnailsAssumption /\ TilesInv /\ [TilesNext]_tileVars => TilesInv'
<1> SUFFICES ASSUME ThumbnailsAssumption, TilesInv, [TilesNext]_tileVars PROVE TilesInv'
  OBVIOUS
<1>0. /\ tiles \in [TilePlaces -> [Resources -> Tile]] /\ PersonalDir \subseteq Resources
      /\ store \in [Resources -> Record \cup {None}]
      /\ rows \in [Resources -> {"off", "shown", "failed"}] /\ Android \in BOOLEAN
  BY DEF TilesInv, TilesTypeOK, Tile, ThumbnailsAssumption
<1>a. Clean(Listed)
  BY <1>0, ListedIsClean
\* What the step does to the tiles is enough to look at.
<1> DEFINE TilesKept ==
             /\ tiles' \in [TilePlaces -> [Resources -> Tile]]
             /\ \A p \in TilePlaces, f \in PersonalDir :
                  tiles'[p][f].rec # None => tiles'[p][f].rec.urls = {}
<1>1. CASE HomeFocus
  <2>1. TilesKept
    BY <1>1, <1>a, HomeIsClean DEF HomeFocus
  <2> QED
    BY <2>1, <1>1 DEF HomeFocus, rowVars, TilesInv, TilesTypeOK, Tile
<1>2. CASE HomePush
  <2> DEFINE recs == [f \in Resources |-> tiles["home"][f].rec]
  <2>1. \A f \in Resources : tiles["home"][f] \in Tile
    BY <1>0 DEF TilePlaces
  <2>2. Clean(recs)
    BY <1>0, <2>1 DEF Clean, Tile, TilesInv, TilePlaces
  <2>3. TilesKept
    BY <1>2, <2>2, HomeIsClean DEF HomePush
  <2> QED
    BY <2>3, <1>2 DEF HomePush, rowVars, TilesInv, TilesTypeOK, Tile
<1>3. CASE RecordsFocus
  <2> DEFINE new == [f \in Resources |-> IF Listed[f] = None THEN Off
                                         ELSE Fresh("records", f, Listed[f])]
  <2>1. \A f \in Resources : new[f] \in Tile /\ new[f].rec = Listed[f]
    <3> SUFFICES ASSUME NEW f \in Resources PROVE new[f] \in Tile /\ new[f].rec = Listed[f]
      OBVIOUS
    <3>1. Listed[f] \in Record \cup {None}
      BY <1>a DEF Clean
    <3>2. PICK t \in Tile : TRUE
      BY <1>0 DEF TilePlaces
    <3> QED
      BY <3>1, <3>2, TileOfRecord DEF TilePlaces
  <2>2. tiles' = [tiles EXCEPT !["records"] = new] /\ new \in [Resources -> Tile]
    BY <1>3, <2>1 DEF RecordsFocus
  <2> HIDE DEF new
  <2>3. TilesKept
    BY <1>0, <1>a, <2>1, <2>2 DEF TilesInv, Clean
  <2> QED
    BY <2>3, <1>3 DEF RecordsFocus, rowVars, TilesInv, TilesTypeOK, Tile
<1>4. CASE Leave
  <2>1. [f \in Resources |-> Off] \in [Resources -> Tile]
    BY DEF Off, Tile
  <2>2. TilesKept
    BY <1>0, <1>4, <2>1 DEF Leave, TilesInv, Off
  <2> QED
    BY <1>0, <2>2, <1>4 DEF Leave, NoRows, TilesInv, TilesTypeOK, Tile, TilePlaces
<1>5. CASE FocusReceived \/ IdleTask \/ BlurReceived
  BY <1>0, <1>5 DEF FocusReceived, IdleTask, BlurReceived, TilesInv, TilesTypeOK
<1>6. ASSUME NEW s \in Lists \cup {"records"}, Open(s) PROVE TilesInv'
  BY <1>0, <1>6 DEF Open, NoRows, TilesInv, TilesTypeOK, TilePlaces
<1>7. ASSUME NEW f \in Resources, NEW r \in Inputs, RecordDownload(f, r) PROVE TilesInv'
  <2>1. [r EXCEPT !.urls = IF IsPersonalDir(f) THEN {} ELSE @] \in Record
    BY DEF Inputs, Record, Urls
  <2>2. store' \in [Resources -> Record \cup {None}]
    BY <1>a, <1>7, <2>1 DEF RecordDownload, Clean
  <2>3. UNCHANGED <<screen, tiles, rowVars>>
    BY <1>7 DEF RecordDownload
  <2> QED
    BY <2>2, <2>3 DEF rowVars, TilesInv, TilesTypeOK
<1>8. ASSUME NEW p \in TilePlaces, NEW f \in Resources, LiveAnswer(p, f) \/ ImageFails(p, f)
      PROVE  TilesInv'
  <2>1. PICK new \in Tile : /\ tiles' = [tiles EXCEPT ![p][f] = new] /\ new.rec = tiles[p][f].rec
                            /\ UNCHANGED <<screen, store, rowVars>>
    <3> DEFINE t == tiles[p][f]
    <3>1. t \in Tile
      BY <1>0
    <3>2. CASE LiveAnswer(p, f)
      <4>1. PICK ok \in BOOLEAN :
              tiles' = [tiles EXCEPT ![p][f].asked = FALSE, ![p][f].live = ok]
        BY <3>2 DEF LiveAnswer
      <4>2. tiles' = [tiles EXCEPT ![p][f] = [t EXCEPT !.asked = FALSE, !.live = ok]]
        BY <1>0, <4>1
      <4>3. [t EXCEPT !.asked = FALSE, !.live = ok] \in Tile
            /\ [t EXCEPT !.asked = FALSE, !.live = ok].rec = t.rec
        BY <3>1 DEF Tile
      <4> QED
        BY <3>2, <4>2, <4>3 DEF LiveAnswer
    <3>3. CASE ImageFails(p, f)
      <4>1. [t EXCEPT !.failed = TRUE] \in Tile /\ [t EXCEPT !.failed = TRUE].rec = t.rec
        BY <3>1 DEF Tile
      <4> QED
        BY <3>3, <4>1 DEF ImageFails
    <3> QED
      BY <1>8, <3>2, <3>3
  <2>2. TilesKept
    BY <1>0, <2>1 DEF TilesInv
  <2> QED
    BY <2>1, <2>2 DEF rowVars, TilesInv, TilesTypeOK, Tile
<1>9. ASSUME NEW f \in Resources, RowShown(f) \/ RowFails(f) PROVE TilesInv'
  BY <1>0, <1>9 DEF RowShown, RowFails, TilesInv, TilesTypeOK
<1>10. CASE UNCHANGED tileVars
  BY <1>10 DEF tileVars, rowVars, TilesInv, TilesTypeOK
<1> QED
  BY <1>1, <1>2, <1>3, <1>4, <1>5, <1>6, <1>7, <1>8, <1>9, <1>10 DEF TilesNext

LEMMA TilesAddress == TilesInv => NoStaleSignature
  BY DEF TilesInv, NoStaleSignature, Address, ThumbnailSource, HomeSource, RecordsSource

\* Every variable of the tiles keeps its shape.
THEOREM TilesAreTyped ==
  ASSUME ThumbnailsAssumption PROVE TilesSpec => []TilesTypeOK
<1>1. TilesInv => TilesTypeOK
  BY DEF TilesInv
<1> QED
  BY <1>1, TilesStart, TilesStep, PTL DEF TilesSpec

\* No tile asks the computer's own directories for a picture under an address that an
\* earlier signature was for: what is stored of them holds no address.
THEOREM SignaturesAreFresh ==
  ASSUME ThumbnailsAssumption PROVE TilesSpec => []NoStaleSignature
  BY TilesAddress, TilesStart, TilesStep, PTL DEF TilesSpec

-----------------------------------------------------------------------------
(***************************************************************************)
(* PhoneDownloads: RecordsKept.  What is stored is the newest part of what *)
(* was recorded, and to record into the part is to record into the whole   *)
(* and cut again.  It needs that no list holds a file twice.               *)
(***************************************************************************)

Recordable == ReceivedFiles \cup {Other}
RecordLists == Seq(Recordable)
Once(s) == \A i, j \in 1 .. Len(s) : s[i] = s[j] => i = j
\* The place of f in s, or the one behind the last.
At(s, f, p) == /\ p \in 1 .. Len(s) + 1
               /\ \A i \in 1 .. Len(s) : s[i] = f <=> i = p

LEMMA Placed ==
  ASSUME NEW s \in RecordLists, Once(s), NEW f
  PROVE  \E p : At(s, f, p)
<1>0. Len(s) \in Nat
  BY LenProperties DEF RecordLists
<1>1. CASE \E p \in 1 .. Len(s) : s[p] = f
  <2>1. PICK p \in 1 .. Len(s) : s[p] = f
    BY <1>1
  <2>2. \A i \in 1 .. Len(s) : s[i] = f <=> i = p
    BY <2>1 DEF Once
  <2>3. At(s, f, p)
    BY <1>0, <2>1, <2>2 DEF At
  <2> QED
    BY <2>3
<1>2. CASE ~\E p \in 1 .. Len(s) : s[p] = f
  <2>1. At(s, f, Len(s) + 1)
    BY <1>0, <1>2 DEF At
  <2> QED
    BY <2>1
<1> QED
  BY <1>1, <1>2

\* Without takes the one record of the file away.
LEMMA WithoutElements ==
  ASSUME NEW s \in RecordLists, Once(s), NEW f, NEW p, At(s, f, p)
  PROVE  /\ Without(s, f) \in RecordLists
         /\ Len(Without(s, f)) = IF p <= Len(s) THEN Len(s) - 1 ELSE Len(s)
         /\ \A i \in 1 .. Len(Without(s, f)) :
              Without(s, f)[i] = IF i < p THEN s[i] ELSE s[i + 1]
<1>0. /\ Len(s) \in Nat /\ p \in 1 .. Len(s) + 1 /\ s \in Seq(Recordable)
      /\ \A i \in 1 .. Len(s) : s[i] \in Recordable
  BY LenProperties, ElementOfSeq DEF RecordLists, At
<1>1. CASE p = Len(s) + 1
  <2>1. ~\E i \in 1 .. Len(s) : s[i] = f
    BY <1>0, <1>1 DEF At
  <2>2. Without(s, f) = s
    BY <2>1 DEF Without, RemoveFirst
  <2> QED
    BY <1>0, <1>1, <2>2
<1>2. CASE p <= Len(s)
  <2>1. p \in 1 .. Len(s) /\ s[p] = f /\ {i \in 1 .. Len(s) : s[i] = f} = {p}
    BY <1>0, <1>2 DEF At
  <2>2. Min({p}) = p
    BY <1>0, <2>1 DEF Min
  <2> DEFINE a == SubSeq(s, 1, p - 1)
             b == SubSeq(s, p + 1, Len(s))
  <2>4. Without(s, f) = a \o b
    BY <2>1, <2>2 DEF Without, RemoveFirst, RemoveAt, SelectInSeq
  <2>5. /\ a \in Seq(Recordable) /\ Len(a) = p - 1 /\ \A i \in 1 .. p - 1 : a[i] = s[i]
    <3>1. \A i \in 1 .. p - 1 : s[i] \in Recordable
      BY <1>0, <1>2
    <3>2. /\ a \in Seq(Recordable) /\ Len(a) = IF 1 <= p - 1 THEN p - 1 - 1 + 1 ELSE 0
          /\ \A i \in 1 .. p - 1 - 1 + 1 : a[i] = s[1 + i - 1]
      BY <1>0, <3>1, SubSeqProperties
    <3> QED
      BY <1>0, <3>2
  <2>6. /\ b \in Seq(Recordable) /\ Len(b) = Len(s) - p
        /\ \A i \in 1 .. Len(s) - p : b[i] = s[p + i]
    <3>1. \A i \in p + 1 .. Len(s) : s[i] \in Recordable
      BY <1>0, <1>2
    <3>2. /\ b \in Seq(Recordable) /\ Len(b) = IF p + 1 <= Len(s) THEN Len(s) - (p + 1) + 1 ELSE 0
          /\ \A i \in 1 .. Len(s) - (p + 1) + 1 : b[i] = s[(p + 1) + i - 1]
      BY <1>0, <3>1, SubSeqProperties
    <3> QED
      BY <1>0, <1>2, <3>2
  <2> HIDE DEF a, b
  <2>7. /\ a \o b \in Seq(Recordable) /\ Len(a \o b) = Len(s) - 1
        /\ \A i \in 1 .. Len(s) - 1 :
             (a \o b)[i] = IF i <= Len(a) THEN a[i] ELSE b[i - Len(a)]
    <3>1. /\ a \o b \in Seq(Recordable) /\ Len(a \o b) = Len(a) + Len(b)
          /\ \A i \in 1 .. Len(a) + Len(b) :
               (a \o b)[i] = IF i <= Len(a) THEN a[i] ELSE b[i - Len(a)]
      BY <2>5, <2>6, ConcatProperties
    <3>2. Len(a) + Len(b) = Len(s) - 1
      BY <1>0, <2>5, <2>6
    <3> QED
      BY <3>1, <3>2
  <2>8. ASSUME NEW i \in 1 .. Len(s) - 1
        PROVE  (a \o b)[i] = IF i < p THEN s[i] ELSE s[i + 1]
    <3>1. CASE i < p
      BY <1>0, <2>5, <2>7, <3>1
    <3>2. CASE ~(i < p)
      <4>1. i - Len(a) \in 1 .. Len(s) - p /\ p + (i - Len(a)) = i + 1 /\ ~(i <= Len(a))
        BY <1>0, <2>5, <3>2
      <4> QED
        BY <2>6, <2>7, <3>2, <4>1
    <3> QED
      BY <3>1, <3>2
  <2> QED
    BY <1>2, <2>4, <2>7, <2>8 DEF RecordLists
<1> QED
  BY <1>0, <1>1, <1>2

\* A list with the record of a new download in front.
Noted(s, f) == <<f>> \o Without(s, f)

LEMMA NotedElements ==
  ASSUME NEW s \in RecordLists, Once(s), NEW f \in Recordable, NEW p, At(s, f, p)
  PROVE  /\ Noted(s, f) \in RecordLists /\ Once(Noted(s, f))
         /\ Len(Noted(s, f)) = IF p <= Len(s) THEN Len(s) ELSE Len(s) + 1
         /\ \A i \in 1 .. Len(Noted(s, f)) :
              Noted(s, f)[i] = IF i = 1 THEN f ELSE IF i - 1 < p THEN s[i - 1] ELSE s[i]
<1> DEFINE w == Without(s, f)
           n == Noted(s, f)
<1>0. Len(s) \in Nat /\ p \in 1 .. Len(s) + 1 /\ \A i \in 1 .. Len(s) : s[i] = f <=> i = p
  BY LenProperties DEF RecordLists, At
<1>1. /\ w \in RecordLists /\ Len(w) = IF p <= Len(s) THEN Len(s) - 1 ELSE Len(s)
      /\ \A i \in 1 .. Len(w) : w[i] = IF i < p THEN s[i] ELSE s[i + 1]
  BY WithoutElements
<1>2. <<f>> \in Seq(Recordable) /\ Len(<<f>>) = 1 /\ <<f>>[1] = f
  OBVIOUS
<1> HIDE DEF w
<1>3. /\ n \in RecordLists /\ Len(n) = 1 + Len(w)
      /\ \A i \in 1 .. 1 + Len(w) : n[i] = IF i <= 1 THEN <<f>>[i] ELSE w[i - 1]
  BY <1>1, <1>2, ConcatProperties DEF RecordLists, Noted, w
<1> HIDE DEF n
<1>4. Len(n) = IF p <= Len(s) THEN Len(s) ELSE Len(s) + 1
  BY <1>0, <1>1, <1>3
<1>5. ASSUME NEW i \in 1 .. Len(n)
      PROVE  n[i] = IF i = 1 THEN f ELSE IF i - 1 < p THEN s[i - 1] ELSE s[i]
  <2>1. CASE i = 1
    BY <1>0, <1>1, <1>2, <1>3, <2>1
  <2>2. CASE i # 1
    <3>1. i - 1 \in 1 .. Len(w) /\ ~(i <= 1) /\ (i - 1) + 1 = i
      BY <1>0, <1>1, <1>3, <2>2
    <3> QED
      BY <1>1, <1>3, <2>2, <3>1
  <2> QED
    BY <2>1, <2>2
<1>6. Once(n)
  <2> SUFFICES ASSUME NEW i \in 1 .. Len(n), NEW j \in 1 .. Len(n), n[i] = n[j], i # j
               PROVE  FALSE
    BY DEF Once
  <2>1. ASSUME NEW k \in 1 .. Len(n), k # 1 PROVE n[k] # f
    <3>1. CASE k - 1 < p
      <4>1. k - 1 \in 1 .. Len(s) /\ k - 1 # p
        BY <1>0, <1>4, <2>1, <3>1
      <4> QED
        BY <1>0, <1>5, <2>1, <3>1, <4>1
    <3>2. CASE ~(k - 1 < p)
      <4>1. k \in 1 .. Len(s) /\ k # p
        BY <1>0, <1>4, <2>1, <3>2
      <4> QED
        BY <1>0, <1>5, <2>1, <3>2, <4>1
    <3> QED
      BY <3>1, <3>2
  <2>2. i # 1 /\ j # 1
    BY <1>5, <2>1
  <2> DEFINE from(k) == IF k - 1 < p THEN k - 1 ELSE k
  <2>3. \A k \in 1 .. Len(n) : k # 1 => n[k] = s[from(k)] /\ from(k) \in 1 .. Len(s)
    BY <1>0, <1>4, <1>5
  <2>4. from(i) # from(j) \/ {i - 1, j - 1} \cap {p} # {} \/ {i, j} \cap {p} # {}
    BY <1>0, <2>2
  <2>5. from(i) = from(j)
    BY <2>2, <2>3 DEF Once
  <2>6. from(i) # p /\ from(j) # p
    BY <1>0, <2>1, <2>2, <2>3
  <2> QED
    BY <1>0, <2>2, <2>5, <2>6
<1> QED
  BY <1>3, <1>4, <1>5, <1>6 DEF n

LEMMA CutElements ==
  ASSUME PhoneDownloadsAssumption, NEW s \in RecordLists
  PROVE  /\ Cut(s) \in RecordLists /\ Len(Cut(s)) = IF Len(s) < MaxRecords THEN Len(s) ELSE MaxRecords
         /\ \A i \in 1 .. Len(Cut(s)) : Cut(s)[i] = s[i]
         /\ Once(s) => Once(Cut(s))
<1> DEFINE m == IF Len(s) < MaxRecords THEN Len(s) ELSE MaxRecords
<1>1. /\ Len(s) \in Nat /\ MaxRecords \in Nat \ {0} /\ m \in Nat /\ m <= Len(s)
      /\ \A i \in 1 .. Len(s) : s[i] \in Recordable
  BY LenProperties, ElementOfSeq DEF RecordLists, PhoneDownloadsAssumption
<1>2. Cut(s) = SubSeq(s, 1, m)
  BY DEF Cut
<1> HIDE DEF m
<1>3. \A i \in 1 .. m : s[i] \in Recordable
  BY <1>1
<1>4. /\ SubSeq(s, 1, m) \in Seq(Recordable)
      /\ Len(SubSeq(s, 1, m)) = IF 1 <= m THEN m - 1 + 1 ELSE 0
      /\ \A i \in 1 .. m - 1 + 1 : SubSeq(s, 1, m)[i] = s[1 + i - 1]
  BY <1>1, <1>3, SubSeqProperties
<1>5. Cut(s) \in RecordLists /\ Len(Cut(s)) = m /\ \A i \in 1 .. m : Cut(s)[i] = s[i]
  BY <1>1, <1>2, <1>4 DEF RecordLists
<1>6. Once(s) => Once(Cut(s))
  BY <1>1, <1>5 DEF Once
<1> QED
  BY <1>5, <1>6 DEF m

\* To record into the part that is stored is to record into the whole and to cut again.
LEMMA CutBeforeAndAfter ==
  ASSUME PhoneDownloadsAssumption, NEW s \in RecordLists, Once(s), NEW f \in Recordable
  PROVE  Cut(Noted(Cut(s), f)) = Cut(Noted(s, f))
<1> DEFINE c == Cut(s)
           a == Noted(c, f)
           b == Noted(s, f)
           ca == Cut(a)
           cb == Cut(b)
<1>1. /\ c \in RecordLists /\ Len(c) = (IF Len(s) < MaxRecords THEN Len(s) ELSE MaxRecords)
      /\ \A i \in 1 .. Len(c) : c[i] = s[i]
      /\ Once(c)
  BY CutElements
<1>2. Len(s) \in Nat /\ MaxRecords \in Nat \ {0}
  BY LenProperties DEF RecordLists, PhoneDownloadsAssumption
<1> HIDE DEF c
<1>3. PICK p : At(s, f, p)
  BY Placed
<1>4. PICK q : At(c, f, q)
  BY <1>1, Placed
<1>5. /\ p \in 1 .. Len(s) + 1 /\ q \in 1 .. Len(c) + 1
      /\ \A i \in 1 .. Len(s) : s[i] = f <=> i = p
      /\ \A i \in 1 .. Len(c) : c[i] = f <=> i = q
  BY <1>3, <1>4 DEF At
<1>6. \/ p <= Len(c) /\ q = p
      \/ p > Len(c) /\ q = Len(c) + 1
  BY <1>1, <1>2, <1>5
<1>7. /\ a \in RecordLists /\ Len(a) = (IF q <= Len(c) THEN Len(c) ELSE Len(c) + 1)
      /\ \A i \in 1 .. Len(a) : a[i] = IF i = 1 THEN f ELSE IF i - 1 < q THEN c[i - 1] ELSE c[i]
  BY <1>1, <1>4, NotedElements
<1>8. /\ b \in RecordLists /\ Len(b) = (IF p <= Len(s) THEN Len(s) ELSE Len(s) + 1)
      /\ \A i \in 1 .. Len(b) : b[i] = IF i = 1 THEN f ELSE IF i - 1 < p THEN s[i - 1] ELSE s[i]
  BY <1>3, NotedElements
<1> HIDE DEF a, b
<1>9. /\ ca \in RecordLists /\ Len(ca) = (IF Len(a) < MaxRecords THEN Len(a) ELSE MaxRecords)
      /\ \A i \in 1 .. Len(ca) : ca[i] = a[i]
      /\ cb \in RecordLists /\ Len(cb) = (IF Len(b) < MaxRecords THEN Len(b) ELSE MaxRecords)
      /\ \A i \in 1 .. Len(cb) : cb[i] = b[i]
  BY <1>7, <1>8, CutElements
<1> HIDE DEF ca, cb
<1>10. Len(ca) = Len(cb) /\ Len(ca) <= MaxRecords /\ Len(ca) <= Len(a) /\ Len(ca) <= Len(b)
       /\ Len(ca) \in Nat
  BY <1>1, <1>2, <1>5, <1>6, <1>7, <1>8, <1>9
<1>11. ASSUME NEW i \in 1 .. Len(ca) PROVE ca[i] = cb[i]
  <2>1. ca[i] = a[i] /\ cb[i] = b[i] /\ i \in 1 .. Len(a) /\ i \in 1 .. Len(b)
    BY <1>7, <1>8, <1>9, <1>10, LenProperties DEF RecordLists
  <2>2. CASE i = 1
    BY <1>7, <1>8, <2>1, <2>2
  <2>3. CASE i # 1 /\ i - 1 < q
    <3>1. i - 1 \in 1 .. Len(c) /\ i - 1 < p
      BY <1>1, <1>2, <1>5, <1>6, <1>10, <2>3
    <3> QED
      BY <1>1, <1>7, <1>8, <2>1, <2>3, <3>1
  <2>4. CASE i # 1 /\ ~(i - 1 < q)
    <3>1. q = p /\ q <= Len(c) /\ i \in 1 .. Len(c)
      BY <1>1, <1>2, <1>5, <1>6, <1>7, <2>1, <2>4
    <3> QED
      BY <1>1, <1>7, <1>8, <2>1, <2>4, <3>1
  <2> QED
    BY <2>2, <2>3, <2>4
<1>12. ca = cb
  BY <1>9, <1>10, <1>11, SeqEqual DEF RecordLists
<1> QED
  BY <1>12 DEF ca, cb, a, b, c

-----------------------------------------------------------------------------
(* The invariant. *)

DownloadSteps == {"binding", "native", "read", "write"}
AllDownloads ==
  [id : Nat, kind : {"library", "other", "preview", "view", "again"}, file : Recordable,
   visit : Nat, step : DownloadSteps, seen : RecordLists]

\* While recordings do not overlap there is one that has read the records and not yet
\* written them, and it has read what is stored.
RecordsInv ==
  /\ downloads \subseteq AllDownloads /\ downloadCount \in Nat /\ visit \in Nat
  /\ recordStore \in RecordLists /\ Once(recordStore) /\ kept \in RecordLists /\ Once(kept)
  /\ \A j \in downloads : Once(j.seen)
  /\ ~recordsCross =>
       /\ RecordsKept
       /\ \A j, k \in downloads : j.step = "write" => /\ k.step = "write" => j = k
                                                      /\ j.seen = recordStore

LEMMA RecordsStart == PhoneDownloadsAssumption /\ DownloadsInit => RecordsInv
<1> SUFFICES ASSUME PhoneDownloadsAssumption, DownloadsInit PROVE RecordsInv
  OBVIOUS
<1>1. /\ recordStore = <<Other>> /\ kept = <<Other>> /\ downloads = {} /\ downloadCount = 0
      /\ visit = 0
  BY DEF DownloadsInit
<1>2. <<Other>> \in RecordLists /\ Len(<<Other>>) = 1
  BY DEF RecordLists, Recordable
<1>3. Once(<<Other>>)
  BY <1>2 DEF Once
<1>4. Cut(<<Other>>) = <<Other>>
  <2> DEFINE one == <<Other>>
  <2>1. MaxRecords \in Nat \ {0} /\ one \in RecordLists /\ Len(one) = 1
    BY <1>2 DEF PhoneDownloadsAssumption
  <2> HIDE DEF one
  <2>2. /\ Cut(one) \in RecordLists
        /\ Len(Cut(one)) = IF Len(one) < MaxRecords THEN Len(one) ELSE MaxRecords
        /\ \A i \in 1 .. Len(Cut(one)) : Cut(one)[i] = one[i]
    BY <2>1, CutElements
  <2>3. Len(Cut(one)) = Len(one)
    BY <2>1, <2>2
  <2>4. Cut(one) = one
    BY <2>1, <2>2, <2>3, SeqEqual DEF RecordLists
  <2> QED
    BY <2>4 DEF one
<1> QED
  BY <1>1, <1>2, <1>3, <1>4 DEF RecordsInv, RecordsKept

\* A step that writes no record: a download may begin, go on or end.
LEMMA NoRecord ==
  ASSUME RecordsInv, UNCHANGED <<recordStore, kept, recordsCross>>,
         visit' \in Nat, downloadCount' \in Nat,
         NEW old, NEW new \in SUBSET AllDownloads, downloads' = (downloads \ old) \cup new,
         \A j \in new : j.step # "write" /\ Once(j.seen)
  PROVE  RecordsInv'
<1>1. downloads' \subseteq AllDownloads /\ \A j \in downloads' : Once(j.seen)
  BY DEF RecordsInv
<1>2. ~recordsCross =>
        \A j, k \in downloads' : j.step = "write" => /\ k.step = "write" => j = k
                                                     /\ j.seen = recordStore
  BY DEF RecordsInv
<1> QED
  BY <1>1, <1>2 DEF RecordsInv, RecordsKept

LEMMA DownloadsStay ==
  ASSUME RecordsInv, UNCHANGED recordVars, visit' \in Nat
  PROVE  RecordsInv'
<1>1. /\ downloads' = downloads /\ downloadCount' = downloadCount
      /\ recordStore' = recordStore /\ kept' = kept /\ recordsCross' = recordsCross
  BY DEF recordVars
<1>2. \A j \in downloads : Once(j.seen)
  BY DEF RecordsInv
<1>3. \A j \in downloads' : Once(j.seen)
  BY <1>1, <1>2
<1> QED
  BY <1>1, <1>3 DEF RecordsInv, RecordsKept

LEMMA DownloadBegins ==
  ASSUME RecordsInv, NEW kind \in {"library", "other", "preview", "view", "again"},
         NEW f \in Recordable, NEW step \in {"binding", "native"},
         BeginDownload(NewDownload(kind, f, step)),
         UNCHANGED <<visit, recordStore, kept, recordsCross>>
  PROVE  RecordsInv'
<1> DEFINE j == NewDownload(kind, f, step)
<1>1. downloadCount \in Nat /\ visit \in Nat /\ downloadCount' = downloadCount + 1
  BY DEF RecordsInv, BeginDownload
<1>2. <<>> \in RecordLists /\ Once(<<>>)
  BY EmptySeq DEF RecordLists, Once
<1>3. {j} \subseteq AllDownloads /\ j.step # "write" /\ Once(j.seen)
  BY <1>1, <1>2 DEF NewDownload, AllDownloads, DownloadSteps
<1>4. downloads' = (downloads \ {}) \cup {j}
  BY DEF BeginDownload
<1> HIDE DEF j
<1>5. {j} \in SUBSET AllDownloads /\ \A k \in {j} : k.step # "write" /\ Once(k.seen)
  BY <1>3
<1>6. UNCHANGED <<recordStore, kept, recordsCross>> /\ visit' \in Nat /\ downloadCount' \in Nat
  BY <1>1
<1> QED
  BY <1>4, <1>5, <1>6, NoRecord

LEMMA DownloadMoves ==
  ASSUME RecordsInv, NEW j \in downloads,
         \/ \E step \in {"native", "read"} : DownloadGoes(j, step)
         \/ DownloadEnds(j),
         UNCHANGED <<visit, downloadCount, recordStore, kept, recordsCross>>
  PROVE  RecordsInv'
<1>1. /\ downloadCount \in Nat /\ visit \in Nat /\ j \in AllDownloads /\ Once(j.seen)
  BY DEF RecordsInv
<1>2. ASSUME NEW step \in {"native", "read"}, DownloadGoes(j, step) PROVE RecordsInv'
  <2> DEFINE n == [j EXCEPT !.step = step]
  <2>1. n \in AllDownloads /\ n.step # "write" /\ Once(n.seen)
    BY <1>1, <1>2 DEF AllDownloads, DownloadSteps
  <2>2. downloads' = (downloads \ {j}) \cup {n}
    BY <1>2 DEF DownloadGoes
  <2> HIDE DEF n
  <2>3. {n} \in SUBSET AllDownloads /\ \A k \in {n} : k.step # "write" /\ Once(k.seen)
    BY <2>1
  <2> QED
    BY <1>1, <2>2, <2>3, NoRecord
<1>3. CASE DownloadEnds(j)
  <2>1. downloads' = (downloads \ {j}) \cup {}
    BY <1>3 DEF DownloadEnds
  <2>2. {} \in SUBSET AllDownloads /\ \A k \in {} : k.step # "write" /\ Once(k.seen)
    OBVIOUS
  <2> QED
    BY <1>1, <2>1, <2>2, NoRecord
<1> QED
  BY <1>2, <1>3

LEMMA ReadingKeeps ==
  ASSUME RecordsInv, NEW j \in downloads, RecordReads(j)
  PROVE  RecordsInv'
<1>1. PICK ok \in BOOLEAN :
        /\ downloads' = (downloads \ {j}) \cup
             {[j EXCEPT !.step = "write", !.seen = IF ok THEN recordStore ELSE <<>>]}
        /\ recordsCross' = (recordsCross \/ ~ok \/ \E k \in downloads : k.step = "write")
  BY DEF RecordReads
<1> DEFINE n == [j EXCEPT !.step = "write", !.seen = IF ok THEN recordStore ELSE <<>>]
<1>2. /\ UNCHANGED <<recordStore, kept, visit, downloadCount>>
      /\ downloadCount \in Nat /\ visit \in Nat /\ j \in AllDownloads
      /\ recordStore \in RecordLists /\ Once(recordStore)
  BY DEF RecordReads, RecordsInv
<1>3. <<>> \in RecordLists /\ Once(<<>>)
  BY EmptySeq DEF RecordLists, Once
<1>4. /\ n \in AllDownloads /\ n.step = "write" /\ Once(n.seen)
      /\ ok => n.seen = recordStore
  BY <1>2, <1>3 DEF AllDownloads, DownloadSteps
<1>5. downloads' = (downloads \ {j}) \cup {n}
  BY <1>1
<1> HIDE DEF n
<1>6. downloads' \subseteq AllDownloads /\ \A k \in downloads' : Once(k.seen)
  BY <1>4, <1>5 DEF RecordsInv
<1>7. ASSUME ~recordsCross'
      PROVE  /\ ~recordsCross
             /\ \A a, b \in downloads' : a.step = "write" => /\ b.step = "write" => a = b
                                                            /\ a.seen = recordStore
  BY <1>1, <1>4, <1>5, <1>7
<1> QED
  BY <1>2, <1>6, <1>7 DEF RecordsInv, RecordsKept

LEMMA WritingKeeps ==
  ASSUME PhoneDownloadsAssumption, RecordsInv, NEW j \in downloads, RecordWrites(j)
  PROVE  RecordsInv'
<1>1. /\ downloads' = downloads \ {j} /\ j.step = "write"
      /\ recordStore' = Cut(Noted(j.seen, j.file)) /\ kept' = Noted(kept, j.file)
      /\ UNCHANGED <<visit, downloadCount, recordsCross>>
  BY DEF RecordWrites, DownloadEnds, Recorded, Noted
<1>2. /\ j.seen \in RecordLists /\ Once(j.seen) /\ j.file \in Recordable
      /\ kept \in RecordLists /\ Once(kept) /\ downloadCount \in Nat /\ visit \in Nat
  BY DEF RecordsInv, AllDownloads
<1>3. Noted(j.seen, j.file) \in RecordLists /\ Once(Noted(j.seen, j.file))
  BY <1>2, Placed, NotedElements
<1>4. Noted(kept, j.file) \in RecordLists /\ Once(Noted(kept, j.file))
  BY <1>2, Placed, NotedElements
<1>5. Cut(Noted(j.seen, j.file)) \in RecordLists /\ Once(Cut(Noted(j.seen, j.file)))
  BY <1>3, CutElements
<1>6. downloads' \subseteq AllDownloads /\ \A k \in downloads' : Once(k.seen)
  BY <1>1 DEF RecordsInv
<1>7. ASSUME ~recordsCross
      PROVE  /\ recordStore' = Cut(kept')
             /\ \A k \in downloads' : k.step # "write"
  <2>1. j.seen = Cut(kept) /\ \A k \in downloads : k.step = "write" => j = k
    BY <1>1, <1>7 DEF RecordsInv, RecordsKept
  <2>2. Cut(Noted(Cut(kept), j.file)) = Cut(Noted(kept, j.file))
    BY <1>2, CutBeforeAndAfter
  <2>3. Cut(kept') = Cut(Noted(kept, j.file))
    BY <1>1
  <2> QED
    BY <1>1, <2>1, <2>2, <2>3
<1>8. recordStore' \in RecordLists /\ Once(recordStore') /\ kept' \in RecordLists /\ Once(kept')
  BY <1>1, <1>4, <1>5
<1>9. visit' \in Nat /\ downloadCount' \in Nat /\ recordsCross' = recordsCross
  BY <1>1, <1>2
<1> QED
  BY <1>6, <1>7, <1>8, <1>9 DEF RecordsInv, RecordsKept

LEMMA RecordsStep ==
  PhoneDownloadsAssumption /\ RecordsInv /\ [DownloadsNext]_downloadVars => RecordsInv'
<1> SUFFICES ASSUME PhoneDownloadsAssumption, RecordsInv, [DownloadsNext]_downloadVars
             PROVE  RecordsInv'
  OBVIOUS
<1>0. visit \in Nat /\ downloadCount \in Nat
  BY DEF RecordsInv
<1>1. CASE UNCHANGED downloadVars
  BY <1>0, <1>1, DownloadsStay DEF downloadVars
<1>2. CASE \/ FileArrives \/ HostLost \/ OpenLibrary \/ LoadNextPage \/ LeaveList \/ CloseViewed
           \/ SortSheet \/ OpenRecords \/ ShowRecords
  <2>1. UNCHANGED recordVars /\ visit' \in {visit, visit + 1}
    BY <1>2 DEF FileArrives, HostLost, OpenLibrary, LoadNextPage, LeaveList, CloseViewed, SortSheet,
                OpenRecords, ShowRecords
  <2> QED
    BY <1>0, <2>1, DownloadsStay
<1>3. ASSUME NEW r \in pageRequests, FirstBinding(r) \/ Answers(r) \/ Fallback(r) \/ PageFails(r)
      PROVE  RecordsInv'
  <2>1. UNCHANGED recordVars /\ UNCHANGED visit
    BY <1>3 DEF FirstBinding, Answers, Fallback, PageFails
  <2> QED
    BY <1>0, <2>1, DownloadsStay
<1>4. CASE OtherDownload
  BY <1>4, DownloadBegins DEF OtherDownload, Recordable
<1>5. ASSUME NEW f \in ReceivedFiles, DownloadItem(f) \/ OpenItem(f)
      PROVE  RecordsInv'
  BY <1>5, DownloadBegins DEF DownloadItem, OpenItem, Recordable
<1>6. ASSUME NEW f \in Recordable, OpenRecord(f)
      PROVE  RecordsInv'
  <2>1. CASE BeginDownload(NewDownload("view", f, "native"))
    BY <1>6, <2>1, DownloadBegins DEF OpenRecord
  <2>2. CASE UNCHANGED <<downloads, downloadCount>>
    BY <1>0, <1>6, <2>2, DownloadsStay DEF OpenRecord, recordVars
  <2> QED
    BY <1>6, <2>1, <2>2 DEF OpenRecord
<1>7. ASSUME NEW f \in Recordable, DownloadAgain(f)
      PROVE  RecordsInv'
  BY <1>7, DownloadBegins DEF DownloadAgain
<1>8. ASSUME NEW j \in downloads,
             DownloadBinding(j) \/ JobFetched(j) \/ Previewed(j) \/ JobFails(j) \/ AgainEnds(j)
      PROVE  RecordsInv'
  <2>1. \/ \E step \in {"native", "read"} : DownloadGoes(j, step)
        \/ DownloadEnds(j)
    BY <1>8 DEF DownloadBinding, JobFetched, Previewed, JobFails, AgainEnds
  <2>2. UNCHANGED <<visit, downloadCount, recordStore, kept, recordsCross>>
    BY <1>8 DEF DownloadBinding, JobFetched, Previewed, JobFails, AgainEnds
  <2> QED
    BY <2>1, <2>2, DownloadMoves
<1> QED
  BY <1>1, <1>2, <1>3, <1>4, <1>5, <1>6, <1>7, <1>8, ReadingKeeps, WritingKeeps
     DEF DownloadsNext, Recordable

\* Whatever downloads there are and however long their awaits: recordDownloadedFile leaves
\* the last MaxRecords files recorded, newest first and each once, unless two recordings
\* overlapped or reading the store failed.
THEOREM LastDownloadsAreKept ==
  ASSUME PhoneDownloadsAssumption PROVE DownloadsSpec => []RecordsKept
<1>1. RecordsInv /\ ~recordsCross => RecordsKept
  BY DEF RecordsInv
<1>2. RecordsInv => RecordsKept
  BY <1>1 DEF RecordsKept
<1> QED
  BY <1>2, RecordsStart, RecordsStep, PTL DEF DownloadsSpec

=============================================================================
