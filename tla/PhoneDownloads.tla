---------------------------- MODULE PhoneDownloads ----------------------------
(***************************************************************************)
(* What the phone takes back from the computer: PhoneSyncSpaceScreen.tsx   *)
(* lists the received files page by page, newest first, and downloads      *)
(* them; download-records-service.ts remembers the downloads, those of     *)
(* LocalComputerScreen too; DownloadRecordsScreen.tsx shows them.          *)
(*                                                                         *)
(* A download goes on when its screen is left, so that the next screen may *)
(* start one beside it.  The computer's library, which grows while it is   *)
(* read, and AsyncStorage are external.  Sorting, sections, sizes and the  *)
(* wording of alerts are left out.                                         *)
(***************************************************************************)
EXTENDS PhoneValues, Naturals, Sequences, SequencesExt, FiniteSets

CONSTANTS
  ReceivedFiles,  \* received files, in the order they arrive: 1 .. n
  First,          \* how many of them have arrived at the start
  Gone,           \* those of them deleted on the computer: listed with fileStatus 'deleted'
  Other,          \* a file of the computer's own directories
  FilesPerPage,   \* RECEIVED_LIBRARY_PAGE_SIZE
  MaxRecords,     \* MAX_RECORDS
  MaxVisits, MaxDownloads

PhoneDownloadsAssumption ==
  /\ ReceivedFiles = 1 .. Cardinality(ReceivedFiles) /\ First \in 0 .. Cardinality(ReceivedFiles)
  /\ Gone \subseteq ReceivedFiles
  /\ None \notin ReceivedFiles \cup {Other} /\ Other \notin ReceivedFiles
  /\ FilesPerPage \in Nat \ {0} /\ MaxRecords \in Nat \ {0}
  /\ MaxVisits \in Nat /\ MaxDownloads \in Nat

VARIABLES
  arrived,        \* the library holds the files 1 .. arrived, the last first
  hasHost,        \* native: the binding has a host
  onTop, visit,   \* the screen on top, screens so far
  items, page, more,  \* items, currentPage, hasMorePages
  host,           \* binding?.host of the screen
  listLoading, once, failed, nextLoading,  \* loading, hasLoadedOnce, loadError, loadingMore
  pageRequests,   \* listGlobalReceivedLibraryPage under way
  downloadingId,
  viewed, sortSheet,  \* preview of the screen on top, showSortSheet
  downloads, downloadCount,  \* downloads under way, of all screens; those so far
  recordStore,    \* AsyncStorage: the records, newest first
  recordsShown, reading,  \* records and loading of DownloadRecordsScreen
  kept,           \* history: the files recorded, in the order they were written
  recordsCross    \* history: two recordings overlapped, or reading the store failed

libraryVars == <<items, page, more, host, listLoading, once, failed, nextLoading, pageRequests>>
recordVars  == <<downloads, downloadCount, recordStore, kept, recordsCross>>
showVars == <<recordsShown, reading, sortSheet>>
downloadVars == <<arrived, hasHost, onTop, visit, libraryVars, downloadingId, viewed, recordVars,
                  showVars>>

-----------------------------------------------------------------------------
(* The computer's answers. *)

Library == [i \in 1 .. arrived |-> arrived + 1 - i]
AskedPage(p) == SubSeq(Library, (p - 1) * FilesPerPage + 1,
                       IF p * FilesPerPage < arrived THEN p * FilesPerPage ELSE arrived)
\* The computer's answer or native's, in one form.
NormalizedPage(its, p) == [items |-> its, page |-> p, total |-> arrived]
PageOf(p) == NormalizedPage(AskedPage(p), p)
\* hasNextReceivedLibraryPage
HasNext(pg) == pg.total > 0 /\ pg.page * FilesPerPage < pg.total

FileArrives == /\ arrived < Cardinality(ReceivedFiles) /\ arrived' = arrived + 1
           /\ UNCHANGED <<hasHost, onTop, visit, libraryVars, downloadingId, viewed, recordVars,
                          showVars>>
HostLost == /\ hasHost /\ hasHost' = FALSE
            /\ UNCHANGED <<arrived, onTop, visit, libraryVars, downloadingId, viewed, recordVars,
                           showVars>>

-----------------------------------------------------------------------------
(* PhoneSyncSpaceScreen *)

Opened == [kind |-> "first", visit |-> visit', page |-> 1, step |-> "binding"]

\* The screen is mounted and gets the focus, once: nothing is opened on top of it.
OpenLibrary ==
  /\ onTop # "library" /\ visit < MaxVisits
  /\ onTop' = "library" /\ visit' = visit + 1
  /\ items' = <<>> /\ page' = 1 /\ more' = FALSE /\ host' = FALSE
  /\ listLoading' = TRUE /\ once' = FALSE /\ failed' = FALSE /\ nextLoading' = FALSE
  /\ pageRequests' = pageRequests \cup {Opened}
  /\ downloadingId' = None /\ viewed' = None /\ sortSheet' = FALSE
  /\ UNCHANGED <<arrived, hasHost, recordVars, recordsShown, reading>>

OfScreen(r) == r.visit = visit /\ onTop = "library"

\* loadData, until it knows the binding.
FirstBinding(r) ==
  /\ r \in pageRequests /\ r.step = "binding"
  /\ IF hasHost THEN pageRequests' = (pageRequests \ {r}) \cup {[r EXCEPT !.step = "list"]}
              ELSE pageRequests' = pageRequests \ {r}
  /\ IF OfScreen(r)
     THEN /\ host' = hasHost
          /\ IF hasHost THEN UNCHANGED <<listLoading, once>>
                        ELSE listLoading' = FALSE /\ once' = TRUE
     ELSE UNCHANGED <<host, listLoading, once>>
  /\ UNCHANGED <<arrived, hasHost, onTop, visit, items, page, more, failed, nextLoading,
                 downloadingId, viewed, recordVars, showVars>>

\* mergeReceivedLibraryItems: the library has grown since the page before.
Merged(old, new) == old \o SelectSeq(new, LAMBDA f : ~\E i \in 1 .. Len(old) : old[i] = f)

\* A page for the visit that asked for it: from the computer over HTTP, or the slice of the
\* files that native lists.
Answers(r) ==
  /\ r \in pageRequests /\ r.step \in {"list", "native"} /\ pageRequests' = pageRequests \ {r}
  /\ IF ~OfScreen(r)
     THEN UNCHANGED <<items, page, more, listLoading, once, failed, nextLoading>>
     ELSE /\ items' = IF r.kind = "first" THEN PageOf(r.page).items
                      ELSE Merged(items, PageOf(r.page).items)
          /\ page' = PageOf(r.page).page /\ more' = HasNext(PageOf(r.page)) /\ failed' = FALSE
          /\ IF r.kind = "first" THEN listLoading' = FALSE /\ once' = TRUE /\ UNCHANGED nextLoading
                                 ELSE nextLoading' = FALSE /\ UNCHANGED <<listLoading, once>>
  /\ UNCHANGED <<arrived, hasHost, onTop, visit, host, downloadingId, viewed, recordVars,
                 showVars>>

\* listGlobalReceivedLibraryPage: no answer over HTTP within the timeout, or a refusal;
\* native lists all the files.
Fallback(r) ==
  /\ r \in pageRequests /\ r.step = "list"
  /\ pageRequests' = (pageRequests \ {r}) \cup {[r EXCEPT !.step = "native"]}
  /\ UNCHANGED <<arrived, hasHost, onTop, visit, items, page, more, host, listLoading, once,
                 failed, nextLoading, downloadingId, viewed, recordVars, showVars>>

PageFails(r) ==
  /\ r \in pageRequests /\ r.step \in {"binding", "native"} /\ pageRequests' = pageRequests \ {r}
  /\ IF ~OfScreen(r)
     THEN UNCHANGED <<items, page, more, listLoading, once, failed, nextLoading>>
     ELSE IF r.kind = "first"
     THEN /\ items' = <<>> /\ page' = 1 /\ more' = FALSE /\ failed' = TRUE
          /\ listLoading' = FALSE /\ once' = TRUE /\ UNCHANGED nextLoading
     ELSE /\ nextLoading' = FALSE /\ UNCHANGED <<items, page, more, listLoading, once, failed>>
  /\ UNCHANGED <<arrived, hasHost, onTop, visit, host, downloadingId, viewed, recordVars,
                 showVars>>

\* What the list says: the list is there to be scrolled only when it has rows.
Blocking == listLoading /\ ~once
ListState == CASE Blocking -> "loading"
               [] ~Blocking /\ failed /\ items = <<>> -> "error"
               [] ~Blocking /\ ~failed /\ items = <<>> -> "empty"
               [] OTHER -> "list"

LoadNextPage ==
  /\ onTop = "library" /\ ListState = "list"
  /\ ~listLoading /\ ~nextLoading /\ more /\ host
  /\ nextLoading' = TRUE
  /\ pageRequests' = pageRequests \cup
       {[kind |-> "next", visit |-> visit, page |-> page + 1, step |-> "list"]}
  /\ UNCHANGED <<arrived, hasHost, onTop, visit, items, page, more, host, listLoading, once,
                 failed, downloadingId, viewed, recordVars, showVars>>

\* What can be pressed: rows that are listed and not marked deleted, their buttons while
\* nothing is downloaded, and nothing under a sheet or a preview.
Free == viewed = None /\ ~sortSheet
Rows == IF onTop = "library" /\ ListState = "list" /\ Free
        THEN {items[i] : i \in 1 .. Len(items)} \ Gone ELSE {}
NoneDownloading == downloadingId = None

\* The sheet opens and closes, with another order or none.
SortSheet ==
  /\ onTop = "library" /\ viewed = None /\ sortSheet' = ~sortSheet
  /\ UNCHANGED <<arrived, hasHost, onTop, visit, libraryVars, downloadingId, viewed, recordVars,
                 recordsShown, reading>>

\* Leaving: to the screen before it.
LeaveList ==
  /\ onTop # "other" /\ Free /\ onTop' = "other" /\ downloadingId' = None
  /\ UNCHANGED <<arrived, hasHost, visit, libraryVars, viewed, recordVars, showVars>>

-----------------------------------------------------------------------------
(* Downloads, their records, and previews. *)

BeginDownload(job) == /\ downloadCount < MaxDownloads /\ downloadCount' = downloadCount + 1
                      /\ downloads' = downloads \cup {job}
NewDownload(kind, f, step) ==
  [id |-> downloadCount + 1, kind |-> kind, file |-> f, visit |-> visit, step |-> step,
   seen |-> <<>>]
DownloadGoes(j, step) == downloads' = (downloads \ {j}) \cup {[j EXCEPT !.step = step]}
DownloadEnds(j) == downloads' = downloads \ {j}
\* setDownloadingId(null) reaches the screen that set it.
Freed(j) == downloadingId' = IF j.kind = "library" /\ j.visit = visit /\ onTop = "library"
                           THEN None ELSE downloadingId

\* handleDownload
DownloadItem(f) ==
  /\ f \in Rows /\ NoneDownloading
  /\ downloadingId' = f /\ BeginDownload(NewDownload("library", f, "binding"))
  /\ UNCHANGED <<arrived, hasHost, onTop, visit, libraryVars, viewed, recordStore, kept,
                 recordsCross, showVars>>

\* LocalComputerScreen's handleDownload (module LocalComputer).
OtherDownload ==
  /\ onTop = "other" /\ ~\E j \in downloads : j.kind = "other"
  /\ BeginDownload(NewDownload("other", Other, "native"))
  /\ UNCHANGED <<arrived, hasHost, onTop, visit, libraryVars, downloadingId, viewed, recordStore,
                 kept, recordsCross, showVars>>

\* handleOpenReceivedItem
OpenItem(f) ==
  /\ f \in Rows /\ BeginDownload(NewDownload("preview", f, "binding"))
  /\ UNCHANGED <<arrived, hasHost, onTop, visit, libraryVars, downloadingId, viewed, recordStore,
                 kept, recordsCross, showVars>>

DownloadBinding(j) ==
  /\ j \in downloads /\ j.step = "binding"
  /\ IF hasHost THEN DownloadGoes(j, "native") /\ UNCHANGED downloadingId
              ELSE DownloadEnds(j) /\ Freed(j)
  /\ UNCHANGED <<arrived, hasHost, onTop, visit, libraryVars, viewed, downloadCount, recordStore,
                 kept, recordsCross, showVars>>

\* What native says of a file it fetched, and what is made of it.
Results == [photos : BOOLEAN, path : {"none", "ph", "file"},
            location : {"none", "photos", "other"}]
SavedToPhotos(res) == res.photos \/ res.path = "ph" \/ res.location = "photos"
NormalizedResult(res) == [res EXCEPT !.photos = SavedToPhotos(res)]
SavedLocally(res) == res.photos \/ res.path # "none" \/ res.location # "none"

\* The file is fetched, and saved on the phone or not.
JobFetched(j) ==
  /\ j \in downloads /\ j.step = "native" /\ j.kind \in {"library", "other"}
  /\ \E res \in Results :
       IF SavedLocally(NormalizedResult(res))
       THEN DownloadGoes(j, "read") /\ UNCHANGED downloadingId
       ELSE DownloadEnds(j) /\ Freed(j)
  /\ UNCHANGED <<arrived, hasHost, onTop, visit, libraryVars, viewed, downloadCount, recordStore,
                 kept, recordsCross, showVars>>

\* The preview's address is known: a picture or video is shown by the screen that asked,
\* a document by another program.
Previewed(j) ==
  /\ j \in downloads /\ j.step = "native" /\ j.kind \in {"preview", "view"} /\ DownloadEnds(j)
  /\ viewed' \in IF j.visit = visit /\ onTop = (IF j.kind = "view" THEN "records" ELSE "library")
                   THEN {viewed, j.file} ELSE {viewed}
  /\ UNCHANGED <<arrived, hasHost, onTop, visit, libraryVars, downloadingId, downloadCount,
                 recordStore, kept, recordsCross, showVars>>
JobFails(j) ==
  /\ j \in downloads /\ j.step = "native" /\ DownloadEnds(j) /\ Freed(j)
  /\ UNCHANGED <<arrived, hasHost, onTop, visit, libraryVars, viewed, downloadCount, recordStore,
                 kept, recordsCross, showVars>>

\* recordDownloadedFile reads the records (listDownloadRecords: none when that fails)...
RecordReads(j) ==
  /\ j \in downloads /\ j.step = "read"
  /\ \E ok \in BOOLEAN :
       /\ downloads' = (downloads \ {j}) \cup
            {[j EXCEPT !.step = "write", !.seen = IF ok THEN recordStore ELSE <<>>]}
       /\ recordsCross' = (recordsCross \/ ~ok \/ \E k \in downloads : k.step = "write")
  /\ UNCHANGED <<arrived, hasHost, onTop, visit, libraryVars, downloadingId, viewed,
                 downloadCount, recordStore, kept, showVars>>

\* ... and writes them with the new one first.  No list holds a file twice, so that the
\* filter takes one record away at most.
\* Mutant: the record of an earlier download of the file stays.
Without(s, f) == RemoveFirst(s, f)
WithoutNone(s, f) == s
Cut(s) == SubSeq(s, 1, IF Len(s) < MaxRecords THEN Len(s) ELSE MaxRecords)
RecordedTwice(j) == Cut(<<j.file>> \o WithoutNone(j.seen, j.file))
Recorded(j) == Cut(<<j.file>> \o Without(j.seen, j.file))
RecordWrites(j) ==
  /\ j \in downloads /\ j.step = "write" /\ DownloadEnds(j) /\ Freed(j)
  /\ recordStore' = Recorded(j) /\ kept' = <<j.file>> \o Without(kept, j.file)
  /\ UNCHANGED <<arrived, hasHost, onTop, visit, libraryVars, viewed, downloadCount, recordsCross,
                 showVars>>

CloseViewed ==
  /\ viewed # None /\ viewed' = None
  /\ UNCHANGED <<arrived, hasHost, onTop, visit, libraryVars, downloadingId, recordVars,
                 showVars>>

-----------------------------------------------------------------------------
(* DownloadRecordsScreen *)

OpenRecords ==
  /\ onTop = "other" /\ visit < MaxVisits /\ onTop' = "records" /\ visit' = visit + 1
  /\ recordsShown' = <<>> /\ reading' = TRUE
  /\ UNCHANGED <<arrived, hasHost, libraryVars, downloadingId, viewed, recordVars, sortSheet>>
ShowRecords ==
  /\ onTop = "records" /\ reading /\ reading' = FALSE /\ recordsShown' \in {recordStore, <<>>}
  /\ UNCHANGED <<arrived, hasHost, onTop, visit, libraryVars, downloadingId, viewed, recordVars,
                 sortSheet>>

Records == IF onTop = "records" /\ ~reading /\ Free
           THEN {recordsShown[i] : i \in 1 .. Len(recordsShown)} ELSE {}

\* handleOpenRecord: from the phone or from the address in the record; for a directory's
\* file without one the computer is asked.
OpenRecord(f) ==
  /\ f \in Records
  /\ \/ viewed' = f /\ UNCHANGED <<downloads, downloadCount>>
     \/ f = Other /\ BeginDownload(NewDownload("view", f, "native")) /\ UNCHANGED viewed
  /\ UNCHANGED <<arrived, hasHost, onTop, visit, libraryVars, downloadingId, recordStore, kept,
                 recordsCross, showVars>>

\* handleDownloadPress, of a record without a path: by the file key or by the directory's
\* own call; nothing is recorded.
DownloadAgain(f) ==
  /\ f \in Records /\ BeginDownload(NewDownload("again", f, "binding"))
  /\ UNCHANGED <<arrived, hasHost, onTop, visit, libraryVars, downloadingId, viewed, recordStore,
                 kept, recordsCross, showVars>>
AgainEnds(j) ==
  /\ j \in downloads /\ j.kind = "again" /\ j.step = "native" /\ DownloadEnds(j)
  /\ UNCHANGED <<arrived, hasHost, onTop, visit, libraryVars, downloadingId, viewed,
                 downloadCount, recordStore, kept, recordsCross, showVars>>

-----------------------------------------------------------------------------
\* An earlier run of the application has recorded a download.
DownloadsInit ==
  /\ arrived = First /\ hasHost = TRUE
  /\ onTop = "other" /\ visit = 0
  /\ items = <<>> /\ page = 1 /\ more = FALSE /\ host = FALSE
  /\ listLoading = TRUE /\ once = FALSE /\ failed = FALSE /\ nextLoading = FALSE
  /\ pageRequests = {}
  /\ downloadingId = None /\ viewed = None /\ downloads = {} /\ downloadCount = 0
  /\ sortSheet = FALSE /\ recordStore = <<Other>> /\ recordsShown = <<>> /\ reading = FALSE
  /\ kept = recordStore /\ recordsCross = FALSE

DownloadsNext ==
  \/ FileArrives \/ HostLost \/ OpenLibrary \/ LoadNextPage \/ LeaveList \/ OtherDownload
  \/ CloseViewed \/ SortSheet \/ OpenRecords \/ ShowRecords
  \/ \E r \in pageRequests : FirstBinding(r) \/ Answers(r) \/ Fallback(r) \/ PageFails(r)
  \/ \E f \in ReceivedFiles : DownloadItem(f) \/ OpenItem(f)
  \/ \E f \in ReceivedFiles \cup {Other} : OpenRecord(f) \/ DownloadAgain(f)
  \/ \E j \in downloads : \/ DownloadBinding(j) \/ JobFetched(j) \/ Previewed(j) \/ JobFails(j)
                         \/ RecordReads(j) \/ RecordWrites(j) \/ AgainEnds(j)

DownloadsSpec == DownloadsInit /\ [][DownloadsNext]_downloadVars

-----------------------------------------------------------------------------
DownloadsTypeOK ==
  /\ arrived \in 0 .. Cardinality(ReceivedFiles) /\ items \in Seq(ReceivedFiles)
  /\ downloadingId \in ReceivedFiles \cup {None} /\ recordStore \in Seq(ReceivedFiles \cup {Other})

\* The last MaxRecords different files whose download was recorded are the ones kept,
\* the newest first, unless ("recordsCross") two recordings overlapped or the store could
\* not be read: then records are lost, and the property says nothing.
RecordsKept == ~recordsCross => recordStore = Cut(kept)

=============================================================================
