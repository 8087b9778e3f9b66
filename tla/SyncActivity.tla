----------------------------- MODULE SyncActivity -----------------------------
(***************************************************************************)
(* SyncActivityScreen.tsx and its sections: the home tab shows what the    *)
(* native engine does, from a snapshot it asks for when it gets the focus, *)
(* from what the engine pushes, and from snapshots a push makes it ask for *)
(* again.  A snapshot is computed by the engine at one moment and arrives  *)
(* at a later one.                                                         *)
(*                                                                         *)
(* The engine is external: it pushes every change of its overview, in      *)
(* order (SyncEngineManager.swift, emitSyncStateChanged).  Bytes go with   *)
(* the counts and are left out, like speed and labels.                     *)
(***************************************************************************)
EXTENDS PhoneValues, Naturals, Sequences, FiniteSets

CONSTANTS
  File,
  Overviews,     \* what the engine may be doing
  Kinds,         \* what is followed: of overview, queue, history, binding and downloads
  MaxChanges, MaxFocuses

Overview == [auto : {"active", "disabled", "interrupted"},
             state : {"idle", "queued", "uploading", "completed", "paused_auto_upload"},
             done : Nat, total : Nat, pending : Nat, file : {None, File}]
SyncActivityAssumption ==
  /\ None # File /\ Overviews \subseteq Overview
  /\ Kinds \subseteq {"overview", "queue", "history", "binding", "downloads"}
  /\ \A n \in {MaxChanges, MaxFocuses} : n \in Nat

VARIABLES
  engine,        \* native: the overview, the lengths of queue and history, the binding;
                 \* AsyncStorage: the number of download records (module PhoneDownloads)
  changes,       \* changes of it so far
  posted,        \* events on their way to the screen, in order
  focus, focused, \* times the screen got the focus; it has it
  requests,      \* getSyncOverview, getReadOnlyQueue, getHistoryDays, getBindingState and
                 \* listDownloadRecords under way
  shown,         \* overview, queueItems.length, historyDays.length, bindingState,
                 \* downloadRecords.length
  answerCrossed        \* history: an answer arrived behind a later push, or failed

activityVars == <<engine, changes, posted, focus, focused, requests, shown, answerCrossed>>

EMPTY_SYNC_OVERVIEW == [auto |-> "disabled", state |-> "idle", done |-> 0, total |-> 0,
                        pending |-> 0, file |-> None]

\* What the screen starts with, and goes back to where a call fails.
Blank == [overview |-> EMPTY_SYNC_OVERVIEW, queue |-> 0, history |-> 0, binding |-> None,
          downloads |-> 0]

\* normalizeSyncOverview, of an overview the engine sends whole.
NormalizedOverview(o) ==
  [o EXCEPT !.file = IF o.state \in {"idle", "completed", "paused_auto_upload"} THEN None ELSE @]

-----------------------------------------------------------------------------
(* What the cards say. *)

\* buildUploadProgress: the queue stands in for a total the engine does not have.
Total == IF shown.overview.total > 0 THEN shown.overview.total ELSE shown.queue
Done  == IF Total > 0 /\ shown.overview.done > Total THEN Total ELSE shown.overview.done
IsActive == shown.overview.state \in {"queued", "uploading"}
IsCompleted ==
  /\ Total > 0 /\ Done >= Total /\ shown.overview.pending = 0
  /\ \/ shown.overview.state \in {"completed", "idle"}
     \/ shown.overview.state = "uploading" /\ shown.overview.file = None
Card == CASE shown.overview.auto = "active" /\ IsCompleted -> "completed"
          [] shown.overview.auto = "active" /\ ~IsCompleted /\ (IsActive \/ Total > 0) -> "progress"
          [] OTHER -> "none"
Status == CASE shown.overview.auto # "active" -> "autoDisabled"
            [] shown.overview.auto = "active" /\ Total > 0 -> "uploadedCount"
            [] OTHER -> "waitingForSync"
\* formatConnectionMetaParts
StateLabel == IF shown.binding # None THEN shown.binding
              ELSE IF shown.overview.auto = "active" THEN "active" ELSE "inactive"
\* SyncRecordTimelineSection: the last three days.
DaysShown == IF shown.history > 3 THEN 3 ELSE shown.history
\* RecentDownloadsSection: the last four downloads.
DownloadsShown == IF shown.downloads > 4 THEN 4 ELSE shown.downloads

-----------------------------------------------------------------------------
(* The engine. *)

Values(kind) == CASE kind = "overview" -> Overviews [] kind = "queue" -> {0, 1}
                  [] kind \in {"history", "downloads"} -> {engine[kind] + 1}
                  [] kind = "binding" -> {"connected", "offline", None}

\* A change of the engine is pushed to the screen that listens; a download that another
\* screen has begun is recorded without a word.
Changes(kind) ==
  /\ changes < MaxChanges /\ changes' = changes + 1
  /\ \E v \in Values(kind) \ {engine[kind]} : engine' = [engine EXCEPT ![kind] = v]
  /\ posted' = IF focused /\ kind # "downloads"
               THEN Append(posted, [number |-> changes', kind |-> kind, value |-> engine'[kind]])
               ELSE posted
  /\ UNCHANGED <<focus, focused, requests, shown, answerCrossed>>

-----------------------------------------------------------------------------
(* The screen. *)

RequestFor(n, kind) == [number |-> n, kind |-> kind, focus |-> focus', computed |-> FALSE,
                     answer |-> Blank, behind |-> FALSE]

\* The focus effect: everything is asked for, and the screen listens.
FocusActivity ==
  /\ ~focused /\ focus < MaxFocuses /\ focus' = focus + 1 /\ focused' = TRUE
  /\ requests' = requests \cup {RequestFor(0, kind) : kind \in Kinds}
  /\ posted' = <<>> /\ answerCrossed' = FALSE /\ UNCHANGED <<engine, changes, shown>>
Blur == /\ focused /\ focused' = FALSE /\ posted' = <<>>
        /\ UNCHANGED <<engine, changes, focus, requests, shown, answerCrossed>>

\* The engine computes an answer...
Computes(r) ==
  /\ r \in requests /\ ~r.computed
  /\ requests' = (requests \ {r}) \cup
       {[r EXCEPT !.computed = TRUE, !.answer = [Blank EXCEPT ![r.kind] = engine[r.kind]]]}
  /\ UNCHANGED <<engine, changes, posted, focus, focused, shown, answerCrossed>>

Shows(kind, v) ==
  shown' = [shown EXCEPT ![kind] = IF kind = "overview" THEN NormalizedOverview(v) ELSE v]

\* An answer counts only for the focus it was asked in.
\* Mutant: whenever the screen has the focus.
TakesAny(r) == focused
Takes(r) == focused /\ r.focus = focus

\* ... and it arrives, or the call fails and what was shown is emptied (of the records
\* too: listDownloadRecords answers none when it cannot read them).
Arrives(r) ==
  /\ r \in requests /\ r.computed /\ requests' = requests \ {r}
  /\ IF Takes(r)
     THEN /\ Shows(r.kind, r.answer[r.kind])
          /\ answerCrossed' = (answerCrossed \/ (r.focus = focus /\ r.behind))
     ELSE UNCHANGED <<shown, answerCrossed>>
  /\ UNCHANGED <<engine, changes, posted, focus, focused>>
RequestFails(r) ==
  /\ r \in requests /\ requests' = requests \ {r}
  /\ IF Takes(r) THEN Shows(r.kind, Blank[r.kind]) /\ answerCrossed' = TRUE
                 ELSE UNCHANGED <<shown, answerCrossed>>
  /\ UNCHANGED <<engine, changes, posted, focus, focused>>

\* A push: the overview and the binding come with it, the others are asked for again.
\* Answers of the same kind computed before it are behind from now on.
Push ==
  /\ posted # <<>> /\ posted' = Tail(posted) /\ focus' = focus
  /\ LET e == Head(posted)
         late == {[r EXCEPT !.behind = @ \/ (r.kind = e.kind /\ r.computed)] : r \in requests}
     IN IF e.kind \in {"overview", "binding"}
        THEN Shows(e.kind, e.value) /\ requests' = late
        ELSE shown' = shown /\ requests' = late \cup {RequestFor(e.number, e.kind)}
  /\ UNCHANGED <<engine, changes, focused, answerCrossed>>

-----------------------------------------------------------------------------
ActivityInit ==
  /\ engine \in {[Blank EXCEPT !.overview = o, !.binding = "connected"] : o \in Overviews}
  /\ changes = 0 /\ posted = <<>> /\ focus = 0 /\ focused = FALSE /\ requests = {}
  /\ shown = Blank /\ answerCrossed = FALSE

ActivityNext ==
  \/ FocusActivity \/ Blur \/ Push
  \/ \E kind \in Kinds : Changes(kind)
  \/ \E r \in requests : Computes(r) \/ Arrives(r) \/ RequestFails(r)

ActivitySpec == ActivityInit /\ [][ActivityNext]_activityVars

-----------------------------------------------------------------------------
ActivityTypeOK ==
  /\ focus \in 0 .. MaxFocuses /\ shown.overview \in Overview
  /\ \A r \in requests : r.kind \in Kinds /\ r.focus \in 1 .. focus

\* When nothing is on its way to the screen, it shows what the engine does (all that the
\* engine pushes), also after the screen was left and entered again while answers were on
\* their way; unless ("answerCrossed") an answer of this focus arrived behind a later push,
\* which it overwrites until the next one, or a call failed.
Settled == focused /\ posted = <<>> /\ \A r \in requests : r.focus # focus
ShownIsTrue ==
  Settled /\ ~answerCrossed =>
    \A kind \in Kinds \ {"downloads"} :
      shown[kind] = IF kind = "overview" THEN NormalizedOverview(engine.overview) ELSE engine[kind]

=============================================================================
