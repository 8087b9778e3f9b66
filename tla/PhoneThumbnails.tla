--------------------------- MODULE PhoneThumbnails ---------------------------
(***************************************************************************)
(* The pictures of the phone's downloads: RecentDownloadPreview of the     *)
(* home tab, DownloadRecordPreviewThumbnail of DownloadRecordsScreen, and  *)
(* the rows of PhoneSyncSpaceScreen and LocalComputerScreen.               *)
(*                                                                         *)
(* A record may hold addresses on the computer.  Those of a file from the  *)
(* computer's own directories are signed for five minutes, so              *)
(* download-records-service.ts keeps none of them and a tile asks native   *)
(* for a fresh one.  Native and the image loader are external; names,      *)
(* sizes, icons and logging are left out.                                  *)
(***************************************************************************)
EXTENDS PhoneValues, FiniteSets

CONSTANTS
  Resources,        \* the ids of the records, which are the resources' ids
  PersonalDir,  \* those of the computer's own directories
  VideoResources,       \* photos are the other ones; documents have no picture
  Android       \* Platform.OS === 'android'

Urls == {"thumbnailUrl", "previewUrl", "streamUrl"}
Record == [localPath : BOOLEAN, urls : SUBSET Urls]

ThumbnailsAssumption ==
  /\ PersonalDir \subseteq Resources /\ VideoResources \subseteq Resources
  /\ Android \in BOOLEAN /\ None \notin Resources \cup Record

TilePlaces == {"home", "records"}
Lists == {"received", "folder"}

VARIABLES
  screen,      \* the screen on top of the tabs, "home" when there is none
  store,       \* AsyncStorage: the record of a file
  tiles,       \* of a place and a file: the record shown, thumbnailFailed, whether there is
               \* a liveUri, and whether an address is awaited
  rows,        \* of a file in the list on top: off, shown, or its picture failed
  enabled, deferred, idle  \* remoteThumbnailsEnabled, hasDeferredAndroidThumbnails, the idle task

rowVars  == <<rows, enabled, deferred, idle>>
tileVars == <<screen, store, tiles, rowVars>>

-----------------------------------------------------------------------------
(* Records. *)

IsPersonalDir(f) == f \in PersonalDir

\* What is read is stripped like what is written: an older version kept the addresses.
\* Mutant: they are only left out when a record is written.
AsStored(f, r) == r
NormalizedRecord(f, r) == IF IsPersonalDir(f) THEN [r EXCEPT !.urls = {}] ELSE r

Listed == [f \in Resources |-> IF store[f] = None THEN None ELSE NormalizedRecord(f, store[f])]

\* recordDownloadedFile rewrites all the records.
RecordDownload(f, r) ==
  /\ store' = [Listed EXCEPT ![f] = [r EXCEPT !.urls = IF IsPersonalDir(f) THEN {} ELSE @]]
  /\ UNCHANGED <<screen, tiles, rowVars>>

-----------------------------------------------------------------------------
(* Tiles. *)

\* getRecentDownloadThumbnailSource: only a photo is shown from the phone's file.
HomeSource(f, r) ==
  IF f \notin VideoResources /\ r.localPath THEN "localPath"
  ELSE IF "thumbnailUrl" \in r.urls THEN "thumbnailUrl"
  ELSE IF f \in VideoResources THEN None
  ELSE IF "previewUrl" \in r.urls THEN "previewUrl"
  ELSE IF "streamUrl" \in r.urls THEN "streamUrl" ELSE None

\* getDownloadRecordThumbnailUri
RecordsSource(f, r) ==
  IF r.localPath THEN "localPath"
  ELSE IF f \notin VideoResources /\ "previewUrl" \in r.urls THEN "previewUrl"
  ELSE IF f \notin VideoResources /\ "streamUrl" \in r.urls THEN "streamUrl"
  ELSE IF "thumbnailUrl" \in r.urls THEN "thumbnailUrl" ELSE None

ThumbnailSource(p, f, r) == IF p = "home" THEN HomeSource(f, r) ELSE RecordsSource(f, r)
Asks(p, f, r) == ThumbnailSource(p, f, r) = None /\ IsPersonalDir(f)

Off == [rec |-> None, failed |-> FALSE, live |-> FALSE, asked |-> FALSE]

\* A tile that is mounted, or whose effect runs again.
Fresh(p, f, r) == [rec |-> r, failed |-> FALSE, live |-> FALSE, asked |-> Asks(p, f, r)]

\* The home tab renders its tile with a record: a source is another object each time, so
\* the effect runs again unless there is none and was none.
HomeTile(f, t, r) ==
  IF r = None THEN Off
  ELSE IF t.rec # None /\ HomeSource(f, t.rec) = None /\ HomeSource(f, r) = None
  THEN [t EXCEPT !.rec = r] ELSE Fresh("home", f, r)

HomeTiles(recs) == [f \in Resources |-> HomeTile(f, tiles["home"][f], recs[f])]

\* The home tab reads the records when it gets the focus, and renders when it is pushed
\* something.
HomeFocus == /\ screen = "home" /\ tiles' = [tiles EXCEPT !["home"] = HomeTiles(Listed)]
             /\ UNCHANGED <<screen, store, rowVars>>
HomePush ==
  /\ tiles' = [tiles EXCEPT !["home"] = HomeTiles([f \in Resources |-> tiles["home"][f].rec])]
  /\ UNCHANGED <<screen, store, rowVars>>

\* DownloadRecordsScreen gets the focus: a spinner until the records are read, then tiles.
RecordsFocus ==
  /\ screen = "records"
  /\ tiles' = [tiles EXCEPT !["records"] =
                 [f \in Resources |-> IF Listed[f] = None THEN Off
                                      ELSE Fresh("records", f, Listed[f])]]
  /\ UNCHANGED <<screen, store, rowVars>>

\* A screen is mounted on the tabs, or left.
NoRows == /\ rows' = [f \in Resources |-> "off"] /\ idle' = FALSE
          /\ enabled' = ~Android /\ deferred' = ~Android
Open(s) == /\ screen = "home" /\ screen' = s /\ NoRows
           /\ UNCHANGED <<store, tiles>>
Leave == /\ screen # "home" /\ screen' = "home" /\ NoRows
         /\ tiles' = [tiles EXCEPT !["records"] = [f \in Resources |-> Off]]
         /\ UNCHANGED store

\* Native answers with an address, an empty one or an error.
LiveAnswer(p, f) ==
  /\ tiles[p][f].asked
  /\ \E ok \in BOOLEAN : tiles' = [tiles EXCEPT ![p][f].asked = FALSE, ![p][f].live = ok]
  /\ UNCHANGED <<screen, store, rowVars>>

\* What the image loader is given.
Address(p, f) ==
  LET t == tiles[p][f]
  IN  IF t.rec = None \/ t.failed THEN None
      ELSE IF ThumbnailSource(p, f, t.rec) # None THEN ThumbnailSource(p, f, t.rec)
      ELSE IF t.live THEN "live" ELSE None

ImageFails(p, f) ==
  /\ Address(p, f) # None /\ tiles' = [tiles EXCEPT ![p][f].failed = TRUE]
  /\ UNCHANGED <<screen, store, rowVars>>

-----------------------------------------------------------------------------
(* Rows: their addresses come with the list. *)

\* A folder's or the received files' list is answered; a row that failed stays so.
RowShown(f) ==
  /\ screen \in Lists /\ rows[f] = "off" /\ rows' = [rows EXCEPT ![f] = "shown"]
  /\ UNCHANGED <<screen, store, tiles, enabled, deferred, idle>>

\* Received files wait for the idle task of the first focus on Android.
RowPicture(f) == rows[f] = "shown" /\ (screen = "received" => enabled)
RowFails(f) ==
  /\ RowPicture(f) /\ rows' = [rows EXCEPT ![f] = "failed"]
  /\ UNCHANGED <<screen, store, tiles, enabled, deferred, idle>>

FocusReceived ==
  /\ screen = "received" /\ ~idle
  /\ IF ~deferred THEN enabled' = FALSE /\ idle' = TRUE ELSE enabled' = TRUE /\ UNCHANGED idle
  /\ UNCHANGED <<screen, store, tiles, rows, deferred>>
IdleTask ==
  /\ idle /\ idle' = FALSE /\ deferred' = TRUE /\ enabled' = TRUE
  /\ UNCHANGED <<screen, store, tiles, rows>>
BlurReceived ==
  /\ idle /\ idle' = FALSE
  /\ UNCHANGED <<screen, store, tiles, rows, enabled, deferred>>

-----------------------------------------------------------------------------
\* An older version of the application may have written the records.
TilesInit ==
  /\ screen = "home"
  /\ store \in [Resources -> {None} \cup [localPath : {FALSE}, urls : {{}, Urls}]]
  /\ tiles = [p \in TilePlaces |-> [f \in Resources |-> Off]]
  /\ rows = [f \in Resources |-> "off"] /\ idle = FALSE
  /\ enabled = ~Android /\ deferred = ~Android

\* What a download is recorded with.
Inputs == [localPath : BOOLEAN, urls : {{}, Urls}]

TilesNext ==
  \/ HomeFocus \/ HomePush \/ RecordsFocus \/ Leave \/ FocusReceived \/ IdleTask \/ BlurReceived
  \/ \E s \in Lists \cup {"records"} : Open(s)
  \/ \E f \in Resources, r \in Inputs : RecordDownload(f, r)
  \/ \E p \in TilePlaces, f \in Resources : LiveAnswer(p, f) \/ ImageFails(p, f)
  \/ \E f \in Resources : RowShown(f) \/ RowFails(f)

TilesSpec == TilesInit /\ [][TilesNext]_tileVars

-----------------------------------------------------------------------------
TilesTypeOK ==
  /\ screen \in Lists \cup TilePlaces
  /\ store \in [Resources -> Record \cup {None}]
  /\ tiles \in [TilePlaces -> [Resources -> [rec : Record \cup {None}, failed : BOOLEAN,
                                     live : BOOLEAN, asked : BOOLEAN]]]
  /\ rows \in [Resources -> {"off", "shown", "failed"}]
  /\ <<enabled, deferred, idle>> \in BOOLEAN \X BOOLEAN \X BOOLEAN

\* No tile is given an address that was kept for a file of the computer's own directories
\* (its signature has run out), whichever version wrote the record and whatever was
\* recorded since the list was read: it shows the phone's file or a fresh address.
NoStaleSignature ==
  \A p \in TilePlaces, f \in PersonalDir : Address(p, f) \in {None, "localPath", "live"}

=============================================================================
