SPECIFICATION MobileSpec
CONSTANTS
 Parts = {"pairing", "scanning", "album", "upload", "browse", "files", "downloads", "activity", "settings",
          "thumbnails", "navigation"}
 Desktops = {a}
 None = None
 ManualHosts = {h1}
 QrId = q
 Endpoint <- MCEndpoint
 Cameras = {"denied"}
 Outcomes = {"ok", "CODE_INVALID_BLOCKED", "APP_VERSION_INCOMPATIBLE"}
 MaxMounts = 2
 MaxSent = 2
 MaxNews = 2
 MaxTimers = 1
 Order <- MCOrder
 Views <- MCViews
 Start <- MCStart
 Videos = {v}
 Within <- MCWithin
 PageSize = 1
 MaxRequests = 3
 MaxCalls = 2
 Unread = unread
 MaxTasks = 3
 MaxTransferred = 1
 Folders = {f1, g1}
 Files = {x, v}
 Root = root
 FolderOf <- MCFolderOf
 MaxLoads = 4
 MaxFlying = 2
 MaxJobs = 0
 MaxReports = 0
 Reports = {None}
 Attempts = 2
 File = file
 Overviews <- MCOverviews
 Kinds = {"overview", "queue"}
 MaxChanges = 2
 MaxFocuses = 2
 Names = {n1, n2}
 Languages = {"zh", "en"}
 MaxOps = 4
 Resources = {x, v}
 PersonalDir = {x}
 VideoResources = {v}
 Android = TRUE
 ReceivedFiles = {1, 2}
 First = 1
 Gone = {1}
 Other = other
 FilesPerPage = 1
 MaxRecords = 2
 MaxVisits = 2
 MaxDownloads = 2
 x = x
 v = v
 root = root
 f1 = f1
 g1 = g1
 file = file
CHECK_DEADLOCK FALSE
INVARIANTS
 TypesOK
 HomeIsBound
 ListOfView
 SessionIsFresh
 ItemsAreOfFolder
 RecordsKept
 ShownIsTrue
 NoStaleSignature
 ShownIsInForce
PROPERTIES
 BrowsingEnds
 FirstScanTrue
