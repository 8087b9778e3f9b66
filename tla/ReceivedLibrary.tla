--------------------------- MODULE ReceivedLibrary ---------------------------
(***************************************************************************)
(* The desktop's "received files" page: the list read page by page from    *)
(* the sidecar (resources-store.ts) and the dialog with the folders of a   *)
(* phone (ReceivedLibraryPage.tsx, DeviceReceiveLocationDialog.tsx).       *)
(*                                                                         *)
(* The list lives in a store that outlasts the page; every request may be  *)
(* answered after the next one was made, after new files arrived, or after *)
(* the page was left.                                                      *)
(***************************************************************************)
EXTENDS Naturals, Sequences, FiniteSets, SequencesExt

CONSTANTS
  PageSize,
  MaxItems,      \* files the sidecar ever lists
  Phones, Managed, Owner,   \* phones, those the registry knows, the phone of a file
  Paths,         \* receive folders
  NoSession,
  MaxVisits,     \* how often the page is opened
  MaxClicks      \* clicks on "open folder" and on a folder of the dialog

LibraryAssumption ==
  /\ PageSize \in Nat \ {0} /\ MaxItems \in Nat /\ MaxVisits \in Nat /\ MaxClicks \in Nat
  /\ Managed \subseteq Phones /\ Owner \in [1..MaxItems -> Phones]
  /\ NoSession \notin Nat

VARIABLES
  library,     \* the sidecar lists the files library, library - 1, ..., 1
  received,    \* receivedItems
  page, hasMore, loading, loadingMore, failed, stats,  \* the rest of the store
  loads,       \* getReceivedLibrary on its way: [page, append, id]
  mounted, visits, managedLoaded,
  queryRef,    \* locationQueryRequestRef
  nextSession, activeSession, openingSession,   \* the page's refs
  dialog,      \* locationDialogState and locationDialogOpen
  queries,     \* getDeviceReceiveLocations on its way: [id, device]
  opens,       \* openFolder on its way: [session, path]
  clicked      \* history: the phone of the latest click

receivedVars   == <<library, received, page, hasMore, loading, loadingMore, failed, stats, loads>>
visitVars  == <<mounted, visits, managedLoaded>>
dialogVars == <<queryRef, nextSession, activeSession, openingSession, dialog, queries,
                opens, clicked>>
libraryVars == <<receivedVars, visitVars, dialogVars>>

-----------------------------------------------------------------------------
(* The list. *)

\* What the sidecar answers for a page: the newest file first.
PageOf(p) == [i \in 1..(IF p * PageSize <= library THEN PageSize
                        ELSE IF (p - 1) * PageSize >= library THEN 0
                        ELSE library - (p - 1) * PageSize)
                |-> library + 1 - ((p - 1) * PageSize + i)]

\* mergeReceivedItems: an item that is there is replaced in its place.
Merged(existing, incoming) ==
  existing \o SelectSeq(incoming, LAMBDA i : i \notin ToSet(existing))

\* loadReceivedLibrary up to its await.
LoadReceivedLibrary(p, append) ==
  /\ loads' = loads \cup {[page |-> p, append |-> append, visit |-> visits]}
  /\ loading' = (loading \/ ~append) /\ loadingMore' = (loadingMore \/ append)
  /\ failed' = FALSE

\* ... and after it.  The sidecar reads its table when it answers.
ReceivedLibraryLoaded(r) ==
  /\ r \in loads /\ loads' = loads \ {r}
  /\ received' = IF r.append THEN Merged(received, PageOf(r.page)) ELSE PageOf(r.page)
  /\ page' = r.page /\ hasMore' = (r.page * PageSize < library)
  /\ stats' = {Owner[i] : i \in 1..library}
  /\ loading' = FALSE /\ loadingMore' = FALSE /\ failed' = FALSE
  /\ UNCHANGED <<library, visitVars, dialogVars>>

ReceivedLibraryFails(r) ==
  /\ r \in loads /\ loads' = loads \ {r}
  /\ loading' = FALSE /\ loadingMore' = FALSE /\ failed' = TRUE
  /\ UNCHANGED <<library, received, page, hasMore, stats, visitVars, dialogVars>>

\* The sentinel below the list comes into sight; loadMoreReceivedLibrary.
ListOnPage == ~loading /\ ~failed /\ received # <<>>
\* A row per file, with the phone it came from.
FileRows == IF ListOnPage THEN [i \in DOMAIN received |-> Owner[received[i]]] ELSE <<>>
SentinelShown == mounted /\ ListOnPage /\ hasMore /\ ~loadingMore
LoadMore ==
  /\ SentinelShown
  /\ LoadReceivedLibrary(page + 1, TRUE)
  /\ UNCHANGED <<library, received, page, hasMore, stats, visitVars, dialogVars>>

FileReceived ==
  /\ library < MaxItems /\ library' = library + 1
  /\ UNCHANGED <<received, page, hasMore, loading, loadingMore, failed, stats, loads,
                 visitVars, dialogVars>>

-----------------------------------------------------------------------------
(* The page and the dialog. *)

NoDialog == [session |-> NoSession, device |-> NoSession, locations |-> {}, failed |-> {},
             open |-> FALSE]

\* The page is mounted: its state is new, the refs too; the first load.
MountLibrary ==
  /\ ~mounted /\ visits < MaxVisits /\ visits' = visits + 1
  /\ mounted' = TRUE /\ managedLoaded' = TRUE
  /\ LoadReceivedLibrary(1, FALSE)
  /\ nextSession' = 0 /\ activeSession' = NoSession /\ openingSession' = NoSession
  /\ dialog' = NoDialog
  /\ UNCHANGED <<library, received, page, hasMore, stats, queryRef, queries, opens, clicked>>

\* The clean-up of the effect: answers that still come are for nobody.
UnmountLibrary ==
  /\ mounted /\ mounted' = FALSE /\ queryRef' = queryRef + 1
  /\ activeSession' = NoSession /\ openingSession' = NoSession /\ dialog' = NoDialog
  /\ queries' = {} /\ opens' = {}
  /\ UNCHANGED <<receivedVars, visits, managedLoaded, nextSession, clicked>>

\* deviceList: the phones of the registry, then those only the files know.
RowsOnPage == ~failed
DeviceList == (IF managedLoaded THEN Managed ELSE {}) \cup stats

\* handleOpenFolder up to its await.
ClickOpenFolder(d) ==
  /\ mounted /\ ~dialog.open /\ RowsOnPage /\ d \in DeviceList
  /\ queryRef < MaxClicks /\ queryRef' = queryRef + 1
  /\ queries' = queries \cup {[id |-> queryRef + 1, device |-> d]} /\ clicked' = d
  /\ UNCHANGED <<receivedVars, visitVars, nextSession, activeSession, openingSession, dialog,
                 opens>>

\* ... and after it: one folder that is there is opened at once, none is a toast,
\* otherwise the dialog asks.  "available" is the set of the folders that exist.
Current(q) == mounted /\ q.id = queryRef
Answered(q, isCurrent) ==
  /\ q \in queries /\ queries' = queries \ {q}
  /\ \E locations \in SUBSET Paths, missing \in SUBSET Paths :
       /\ missing \subseteq locations
       /\ IF isCurrent /\ locations # {} /\ (Cardinality(locations) > 1 \/ missing # {})
          THEN /\ nextSession' = nextSession + 1 /\ activeSession' = nextSession + 1
               /\ openingSession' = NoSession
               /\ dialog' = [session |-> nextSession + 1, device |-> q.device,
                             locations |-> locations \ missing, failed |-> {}, open |-> TRUE]
          ELSE UNCHANGED <<nextSession, activeSession, openingSession, dialog>>
  /\ UNCHANGED <<receivedVars, visitVars, queryRef, opens, clicked>>
\* Mutant: the answer is not compared with the latest request.
LocationsAnsweredLate(q) == Answered(q, mounted)
LocationsAnswered(q) == Answered(q, Current(q))

\* A toast, or nothing when the request is an old one.
LocationsFail(q) ==
  /\ q \in queries /\ queries' = queries \ {q}
  /\ UNCHANGED <<receivedVars, visitVars, queryRef, nextSession, activeSession, openingSession,
                 dialog, opens, clicked>>

\* The buttons of a folder: disabled={!location.available || opening}.
CanOpen(p) == dialog.open /\ p \in dialog.locations \ dialog.failed
              /\ openingSession # dialog.session

\* handleOpenLocation up to its promise.
OpenLocation(p) ==
  /\ CanOpen(p) /\ activeSession = dialog.session /\ openingSession = NoSession
  /\ openingSession' = dialog.session
  /\ opens' = opens \cup {[session |-> dialog.session, path |-> p]}
  /\ UNCHANGED <<receivedVars, visitVars, queryRef, nextSession, activeSession, dialog, queries,
                 clicked>>

\* The folder was opened: the dialog closes, if it is still the one.
Opened(o) ==
  /\ o \in opens /\ opens' = opens \ {o}
  /\ IF activeSession = o.session
     THEN openingSession' = NoSession /\ activeSession' = NoSession
          /\ dialog' = [dialog EXCEPT !.open = FALSE]
     ELSE UNCHANGED <<openingSession, activeSession, dialog>>
  /\ UNCHANGED <<receivedVars, visitVars, queryRef, nextSession, queries, clicked>>

\* It could not: the folder is marked (markLocationUnavailable).
OpenFails(o) ==
  /\ o \in opens /\ opens' = opens \ {o}
  /\ IF activeSession = o.session
     THEN openingSession' = NoSession
          /\ dialog' = [dialog EXCEPT !.failed = @ \cup {o.path}]
     ELSE UNCHANGED <<openingSession, dialog>>
  /\ UNCHANGED <<receivedVars, visitVars, queryRef, nextSession, activeSession, queries, clicked>>

\* handleLocationDialogOpenChange(false)
CloseDialog ==
  /\ dialog.open /\ dialog' = [dialog EXCEPT !.open = FALSE]
  /\ activeSession' = NoSession /\ openingSession' = NoSession
  /\ UNCHANGED <<receivedVars, visitVars, queryRef, nextSession, queries, opens, clicked>>

-----------------------------------------------------------------------------
LibraryInit ==
  /\ library \in 0..MaxItems /\ received = <<>> /\ page = 1 /\ hasMore = FALSE
  /\ loading = FALSE /\ loadingMore = FALSE /\ failed = FALSE /\ stats = {} /\ loads = {}
  /\ mounted = FALSE /\ visits = 0 /\ managedLoaded = FALSE
  /\ queryRef = 0 /\ nextSession = 0 /\ activeSession = NoSession
  /\ openingSession = NoSession /\ dialog = NoDialog /\ queries = {} /\ opens = {}
  /\ clicked = NoSession

LibraryNext ==
  \/ \E r \in loads : ReceivedLibraryLoaded(r) \/ ReceivedLibraryFails(r)
  \/ LoadMore \/ FileReceived \/ MountLibrary \/ UnmountLibrary \/ CloseDialog
  \/ \E d \in Phones : ClickOpenFolder(d)
  \/ \E q \in queries : LocationsAnswered(q) \/ LocationsFail(q)
  \/ \E p \in Paths : OpenLocation(p)
  \/ \E o \in opens : Opened(o) \/ OpenFails(o)

LibrarySpec == LibraryInit /\ [][LibraryNext]_libraryVars

-----------------------------------------------------------------------------
LibraryTypeOK ==
  /\ library \in 0..MaxItems /\ received \in Seq(1..MaxItems) /\ page \in Nat
  /\ hasMore \in BOOLEAN /\ loading \in BOOLEAN /\ loadingMore \in BOOLEAN /\ failed \in BOOLEAN
  /\ stats \subseteq Phones /\ mounted \in BOOLEAN /\ activeSession \in Nat \cup {NoSession}
  /\ Range(FileRows) \subseteq DeviceList

\* The folders on the screen are those of the phone that was clicked last
\* (locationQueryRequestRef).
DialogOfLastClick == dialog.open => dialog.device = clicked

=============================================================================
