---------------------------- MODULE AlbumBrowser ----------------------------
(***************************************************************************)
(* The list of AlbumWorkbenchScreen.tsx: pages of the phone's album for    *)
(* the chosen tab and collection, reloads when the library or the tab      *)
(* changes, refreshes when the upload queue changes, and the permission    *)
(* dialog that the loads of an Android phone share.                        *)
(*                                                                         *)
(* The photo library and the native calls are external: a call is answered *)
(* in its own time, in any order, or fails.  Display order, previews and   *)
(* the animation are left out.                                             *)
(***************************************************************************)
EXTENDS Naturals, Sequences, FiniteSets

CONSTANTS
  Order,       \* every asset there may be, newest first: how native pages them
  Views,       \* what can be asked for: a tab, in a collection
  Start,       \* the tab "all" of the whole album
  Videos,      \* the assets that are videos
  Within,      \* collection -> its assets
  PageSize,    \* PAGE_SIZE
  MaxRequests, \* loads and refreshes that are ever started
  MaxCalls    \* calls in flight at a time

Assets == {Order[i] : i \in DOMAIN Order}
AccessStatus == {"authorized", "limited", "denied", "notDetermined"}
Readable == {"authorized", "limited"}

AlbumAssumption ==
  /\ Start \in Views /\ Videos \subseteq Assets
  /\ \A v \in Views : v.collection \in DOMAIN Within
  /\ PageSize \in Nat \ {0} /\ MaxRequests \in Nat /\ MaxCalls \in Nat

VARIABLES
  library, sent,   \* the phone: assets in the album, those transferred
  access,          \* the phone: the app's permission
  android,         \* Platform.OS
  view,            \* mediaFilter, transferFilter and collectionId
  list,            \* assets
  offset, hasMore, \* offsetRef, hasMore
  assetsLoading, loadingMore, hasLoaded,  \* hasLoadedInitialAssetsRef
  request,         \* assetListRequestRef
  flying,          \* calls not answered yet
  prompt,          \* photoLibraryAccessRequestRef: a permission dialog is up
  prompts,         \* dialogs that are up
  photoAuthStatus,           \* photoAuthStatus
  active,          \* auto upload runs: the list is not shown
  collectionSheet,           \* the collection sheet is open
  origin,          \* history: the views whose answers make up the list
  crossed          \* history: a page was asked for behind another view's list,
                   \* or a refresh failed

phoneVars == <<library, sent, access, android>>
listVars  == <<list, offset, hasMore, assetsLoading, loadingMore, hasLoaded, origin>>
permVars  == <<prompt, prompts, photoAuthStatus>>
albumVars == <<phoneVars, listVars, permVars, view, request, flying, active, collectionSheet,
               crossed>>

-----------------------------------------------------------------------------
(* The album as native pages it. *)

Passes(a, v) ==
  /\ a \in Within[v.collection]
  /\ CASE v.tab = "photos" -> a \notin Videos
       [] v.tab = "videos" -> a \in Videos
       [] v.tab = "transferred" -> a \in sent
       [] v.tab = "untransferred" -> a \notin sent
       [] OTHER -> TRUE
Matching(v) == SelectSeq(Order, LAMBDA a : a \in library /\ Passes(a, v))
Page(v, from, count) ==
  LET all  == IF access \in Readable THEN Matching(v) ELSE <<>>
      last == IF from + count < Len(all) THEN from + count ELSE Len(all)
  IN  {all[i] : i \in (from + 1)..last}

-----------------------------------------------------------------------------
(* Calls. *)

Call(kind, id, v, from, count) ==
  [kind |-> kind, id |-> id, view |-> v, from |-> from, count |-> count,
   stage |-> IF android /\ kind # "refresh" THEN "status" ELSE "browse"]
Fly(calls) == /\ Cardinality(flying \cup calls) <= MaxCalls
              /\ flying' = flying \cup calls

\* loadStats matters where it asks for the permission.
Stats(v) == IF android THEN {Call("stats", 0, v, 0, 0)} ELSE {}

\* loadAssets with reset, and loadStats beside it.  Only the first load shows the spinner.
Reload(v) ==
  /\ request < MaxRequests /\ request' = request + 1
  /\ Fly({Call("reset", request + 1, v, 0, PageSize)} \cup Stats(v))
  /\ assetsLoading' = (assetsLoading \/ ~hasLoaded)
  /\ UNCHANGED <<list, offset, hasMore, loadingMore, hasLoaded, origin>>

\* What the list has on display; its header holds the tabs, whose place is taken by the
\* spinner and, while auto upload runs, by nothing.
ShownAssets == IF assetsLoading \/ active THEN {} ELSE list
TabsShown == ~assetsLoading /\ ~active

\* handleUnifiedFilterPress; the effect that loads on a change of the filters.
ChangeTab(v) ==
  /\ TabsShown /\ ~collectionSheet /\ v # view /\ v.collection = view.collection
  /\ view' = v /\ Reload(v)
  /\ UNCHANGED <<phoneVars, permVars, active, collectionSheet, crossed>>

\* handleSelectCollection, on the sheet; the same effect.
SelectCollection(v) ==
  /\ collectionSheet /\ collectionSheet' = FALSE /\ v # view /\ v.tab = view.tab
  /\ view' = v /\ Reload(v)
  /\ UNCHANGED <<phoneVars, permVars, active, crossed>>

\* onPhotoLibraryChanged, or the app is active again: permission dialogs of iOS and
\* changes of the library end with one of them.
LibraryChanged ==
  /\ library' \in {library \cup {a} : a \in Assets} \cup {library \ {a} : a \in Assets}
  /\ IF android THEN UNCHANGED access ELSE access' \in {access, "limited", "authorized"}
  /\ photoAuthStatus' = access'
  /\ Reload(view)
  /\ UNCHANGED <<sent, android, prompt, prompts, view, active, collectionSheet, crossed>>

\* onEndReached of the list: the next page, behind what is on display.
EndReached ==
  /\ ShownAssets # {} /\ ~loadingMore /\ hasMore
  /\ request < MaxRequests /\ request' = request + 1
  /\ Fly({Call("more", request + 1, view, offset, PageSize)})
  /\ loadingMore' = TRUE
  /\ crossed' = (crossed \/ origin # {view})
  /\ UNCHANGED <<phoneVars, permVars, view, list, offset, hasMore, assetsLoading, hasLoaded,
                 origin, active, collectionSheet>>

\* onQueueUpdated: refreshVisibleAssets, and loadStats.
Refreshes == offset > 0
QueueUpdated ==
  /\ sent' \in {sent \cup {a} : a \in library}
  /\ IF Refreshes
     THEN /\ request < MaxRequests /\ request' = request + 1
          /\ Fly({Call("refresh", request + 1, view, 0, offset)})
     ELSE UNCHANGED <<request, flying>>
  /\ UNCHANGED <<library, access, android, listVars, permVars, view, active, collectionSheet,
                 crossed>>

\* The album's sheet of collections: getAlbumCollections only fills it.
OpenSheet ==
  /\ ~collectionSheet /\ collectionSheet' = TRUE
  /\ UNCHANGED <<phoneVars, listVars, permVars, view, request, flying, active, crossed>>
CloseSheet ==
  /\ collectionSheet /\ collectionSheet' = FALSE
  /\ UNCHANGED <<phoneVars, listVars, permVars, view, request, flying, active, crossed>>

\* The configuration says that auto upload runs, or that it does not.
AutoUploadChanges ==
  /\ active' = ~active
  /\ UNCHANGED <<phoneVars, listVars, permVars, view, request, flying, collectionSheet, crossed>>

\* renderListEmptyComponent: the limited picker, and what the user adds with it.
PickerShown == ~assetsLoading /\ ShownAssets = {} /\ photoAuthStatus = "limited" /\ view.tab = "all"
PickLimited ==
  /\ PickerShown
  /\ \E a \in Assets \ library : library' = library \cup {a}
  /\ Reload(view)
  /\ UNCHANGED <<sent, access, android, permVars, view, active, collectionSheet, crossed>>

-----------------------------------------------------------------------------
(* ensurePhotoLibraryAccess. *)

Move(c, stage) == flying' = (flying \ {c}) \cup {[c EXCEPT !.stage = stage]}

JoinPrompt == prompt
StatusAnswered(c) ==
  /\ c \in flying /\ c.stage = "status"
  /\ IF access \in Readable
     THEN Move(c, "browse") /\ photoAuthStatus' = access /\ UNCHANGED <<prompt, prompts>>
     ELSE /\ Move(c, "prompt") /\ prompt' = TRUE /\ UNCHANGED photoAuthStatus
          /\ prompts' = IF JoinPrompt THEN prompts ELSE prompts + 1
  /\ UNCHANGED <<phoneVars, listVars, view, request, active, collectionSheet, crossed>>

\* The user answers; who waits for the answer goes on.
PromptAnswered ==
  /\ prompts > 0 /\ prompts' = 0 /\ prompt' = FALSE
  /\ access' \in {"authorized", "limited", "denied"} /\ photoAuthStatus' = access'
  /\ flying' = {IF c.stage = "prompt"
                THEN [c EXCEPT !.stage = IF access' \in Readable THEN "browse" ELSE "refused"]
                ELSE c : c \in flying}
  /\ UNCHANGED <<library, sent, android, listVars, view, request, active, collectionSheet,
                 crossed>>

\* Asking for the status fails: as if the library may not be read.
StatusFails(c) ==
  /\ c \in flying /\ c.stage = "status" /\ Move(c, "refused")
  /\ UNCHANGED <<phoneVars, listVars, permVars, view, request, active, collectionSheet, crossed>>

\* The dialog fails: so does every load that waits for it.
PromptFails ==
  /\ prompts > 0 /\ prompts' = 0 /\ prompt' = FALSE
  /\ flying' = {IF c.stage = "prompt" THEN [c EXCEPT !.stage = "broken"] ELSE c : c \in flying}
  /\ UNCHANGED <<phoneVars, listVars, photoAuthStatus, view, request, active, collectionSheet,
                 crossed>>

-----------------------------------------------------------------------------
(* Answers. *)

\* Mutant: an answer counts whichever request it is for.
CurrentAlways(c) == TRUE
Current(c) == c.id = request

\* The "finally" of loadAssets.
LoadSettled(c) ==
  IF c.kind \in {"reset", "more"} /\ c.id = request
  THEN assetsLoading' = FALSE /\ loadingMore' = FALSE /\ hasLoaded' = TRUE
  ELSE UNCHANGED <<assetsLoading, loadingMore, hasLoaded>>

\* The library may not be read; also an overtaken load empties the list.
LoadRefused(c) ==
  /\ c \in flying /\ c.stage = "refused" /\ flying' = flying \ {c}
  /\ IF c.kind = "reset" THEN list' = {} /\ origin' = {} /\ offset' = 0
     ELSE UNCHANGED <<list, origin, offset>>
  /\ hasMore' = (hasMore /\ c.kind = "stats")
  /\ LoadSettled(c)
  /\ UNCHANGED <<phoneVars, permVars, view, request, active, collectionSheet, crossed>>

\* sortAlbumAssetsForDisplay drops what is there already; the order is left out.
Joined(shown, page) == shown \cup page

Answered(c) ==
  /\ c \in flying /\ c.stage = "browse" /\ flying' = flying \ {c}
  /\ LET page == Page(c.view, c.from, c.count)
     IN  IF c.kind = "stats" \/ ~Current(c)
         THEN UNCHANGED <<list, origin, offset, hasMore>>
         ELSE IF c.kind = "refresh"
         THEN list' = Joined({}, page) /\ origin' = {c.view} /\ UNCHANGED <<offset, hasMore>>
         ELSE /\ hasMore' = (Cardinality(page) >= PageSize)
              /\ IF c.kind = "reset"
                 THEN /\ list' = Joined({}, page) /\ origin' = {c.view}
                      /\ offset' = Cardinality(page)
                 ELSE /\ list' = Joined(list, page) /\ origin' = origin \cup {c.view}
                      /\ offset' = offset + Cardinality(page)
  /\ LoadSettled(c)
  /\ UNCHANGED <<phoneVars, permVars, view, request, active, collectionSheet, crossed>>

\* A call fails: a reload empties the list, what else failed leaves it.
Failed(c) ==
  /\ c \in flying /\ c.stage \in {"browse", "broken"} /\ flying' = flying \ {c}
  /\ IF c.kind = "reset" /\ Current(c) THEN list' = {} /\ origin' = {}
     ELSE UNCHANGED <<list, origin>>
  /\ UNCHANGED <<offset, hasMore>>
  /\ LoadSettled(c)
  /\ crossed' = (crossed \/ c.kind = "refresh")
  /\ UNCHANGED <<phoneVars, permVars, view, request, active, collectionSheet>>

-----------------------------------------------------------------------------
\* The screen is mounted and its first load is on its way.
AlbumInit ==
  /\ library = Assets /\ sent = {} /\ android \in BOOLEAN
  /\ access \in {"notDetermined", "authorized", "denied"} /\ (access = "denied" => android)
  /\ view = Start /\ list = {} /\ offset = 0 /\ hasMore = TRUE
  /\ assetsLoading = TRUE /\ loadingMore = FALSE /\ hasLoaded = FALSE
  /\ request = 1
  /\ flying = {Call("reset", 1, Start, 0, PageSize)} \cup Stats(Start)
  /\ prompt = FALSE /\ prompts = 0 /\ photoAuthStatus = "unknown"
  /\ active = FALSE /\ collectionSheet = FALSE /\ origin = {} /\ crossed = FALSE

AlbumNext ==
  \/ \E v \in Views : ChangeTab(v) \/ SelectCollection(v)
  \/ LibraryChanged \/ EndReached \/ QueueUpdated \/ OpenSheet \/ CloseSheet
  \/ AutoUploadChanges \/ PickLimited \/ PromptAnswered \/ PromptFails
  \/ \E c \in flying :
       StatusAnswered(c) \/ StatusFails(c) \/ LoadRefused(c) \/ Answered(c) \/ Failed(c)

AlbumSpec == AlbumInit /\ [][AlbumNext]_albumVars

-----------------------------------------------------------------------------
AlbumTypeOK ==
  /\ library \subseteq Assets /\ sent \subseteq Assets /\ access \in AccessStatus
  /\ view \in Views /\ list \subseteq Assets /\ offset \in Nat /\ request \in 1..MaxRequests
  /\ \A c \in flying : c.stage \in {"status", "prompt", "browse", "refused", "broken"}

\* With nothing under way the list holds what was asked for the chosen tab and
\* collection, however the answers of reloads, pages and refreshes overtook each
\* other, except ("crossed") when a page was asked for behind another view's list or a
\* refresh failed: then the list may hold another view's.
ListOfView == flying = {} /\ ~crossed => origin \subseteq {view}

=============================================================================
