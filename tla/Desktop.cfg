SPECIFICATION DesktopSpec
CONSTANTS
 Children = {p1, p2}
 External = outside1
 NoProcess = noProcess
 Timed = {t1}
 MaxRestarts = 1
 MaxInFlight = 2
 Budgets <- MCBudgets
 ReuseByDefault = TRUE
 Sockets = {w1, w2, w3}
 NoSocket = noSocket
 MaxStates = 3
 MaxChanges = 1
 MaxQueued = 2
 Requests = {r1}
 Exports = {e1, e2}
 Seconds = {0, 1}
 Parts = {part1}
 SnapshotFile = snapshot
 PowerLog = powerLog
 Mac = TRUE
 MaxSwaps = 2
 PageSize = 1
 MaxItems = 3
 Phones = {d1, d2}
 Managed = {d1}
 Owner <- MCOwner
 Paths = {path1, path2}
 NoSession = noSession
 MaxVisits = 2
 MaxClicks = 2
 Devices = {d1}
 Codes = {1, 2}
 Roots = {3, 4}
 Online = {d1}
 Records <- MCRecords
 PerPage = 1
 None = nothing
 MaxOps = 2
 Platforms = {"mac", "windows"}
 Views = {"dashboard", "devices"}
 Sections = {"intro", "faq"}
 Nothing = nothing
 MaxShellOps = 2
 d1 = d1
 d2 = d2
 english = english
 text1 = text1
CHECK_DEADLOCK FALSE
INVARIANTS
 TypesOK
 NoOrphan
 HealthyIsWatched
 StreamKept
 ActiveOnlyWhileHealthy
 FilesInPlace
 DialogOfLastClick
 ButtonComesBack
 ShellIsCurrent
PROPERTIES
 StartupEnds
 ShutdownEnds
 OfflineShown
