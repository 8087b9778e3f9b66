---------------------------- MODULE MainServices ----------------------------
(***************************************************************************)
(* Two services of the Electron main process that keep files: thumbnails   *)
(* of received videos (apps/desktop/src/main/video-thumbnail-generator.ts) *)
(* and the export of diagnostics (diagnostics.ts).                         *)
(*                                                                         *)
(* Both look at the file system, await something and write.  In between    *)
(* the user, a log rotation or another call of the same service may have   *)
(* changed what was looked at.                                             *)
(***************************************************************************)
EXTENDS Naturals, FiniteSets

CONSTANTS
  Requests,  \* video.thumbnail.request events
  Exports,   \* calls of exportDiagnostics
  Seconds,   \* values of diagnosticsTimestamp
  Parts,     \* files a bundle may have: logs, the database
  SnapshotFile,  \* diagnostics.json, with the environment and the sidecar's answers
  PowerLog,  \* macos-power.log
  Mac,       \* process.platform === 'darwin'
  MaxSwaps   \* changes of the cache directory and of the logs made from outside

ServicesAssumption ==
  /\ MaxSwaps \in Nat /\ Seconds \subseteq Nat /\ 0 \in Seconds /\ Mac \in BOOLEAN
  /\ SnapshotFile \notin Parts /\ PowerLog \notin Parts /\ PowerLog # SnapshotFile

VARIABLES
  thumb,     \* where each request stands
  dir,       \* the directory of the cache: "absent", "real" or "link"
  cached,    \* requests whose picture was put into a real directory
  outside,   \* requests whose picture went through a symbolic link
  leftover,  \* temporary files nobody removes
  swaps,
  export,    \* where each export stands
  stamp,     \* the second its temporary directory is named after
  temp,      \* what the temporary directory of each second holds
  exists,    \* the seconds whose temporary directory is there
  files,     \* the files that are there, no older than DIAGNOSTICS_LOG_MAX_AGE_MS
  chosen,    \* ... when an export listed them
  zip        \* what each export packed

thumbVars  == <<thumb, dir, cached, outside, leftover, swaps>>
exportVars == <<export, stamp, temp, exists, files, chosen, zip>>
servicesVars == <<thumbVars, exportVars>>

-----------------------------------------------------------------------------
(* generateVideoThumbnail. *)

\* prepareCacheDirectory; validateCacheDirectoryRealPath.
Preparable == dir # "link"
InPlace    == dir = "real"

\* The synchronous part: source and cache path (validateSourcePath,
\* validateCachePath), the directory, then the native decoder is awaited.
ThumbStart(r) ==
  /\ thumb[r] = "idle"
  /\ \/ /\ Preparable
        /\ dir' = "real" /\ thumb' = [thumb EXCEPT ![r] = "decoding"]
     \/ thumb' = [thumb EXCEPT ![r] = "failed"] /\ UNCHANGED dir
  /\ UNCHANGED <<cached, outside, leftover, swaps, exportVars>>

\* The decoder's picture is written beside its place and moved there.
\* Mutant: without the second look at the directory.
ThumbDecodedTrusting(r) ==
  /\ thumb[r] = "decoding" /\ dir # "absent"
  /\ thumb' = [thumb EXCEPT ![r] = "done"]
  /\ IF dir = "real" THEN cached' = cached \cup {r} /\ UNCHANGED outside
     ELSE outside' = outside \cup {r} /\ UNCHANGED cached
  /\ UNCHANGED <<dir, leftover, swaps, exportVars>>
ThumbDecoded(r) ==
  /\ thumb[r] = "decoding" /\ InPlace
  /\ thumb' = [thumb EXCEPT ![r] = "done"]
  /\ cached' = cached \cup {r}
  /\ UNCHANGED <<dir, outside, leftover, swaps, exportVars>>

\* No picture, a directory that is no longer what it was, or a failed write or
\* rename; the temporary file is removed if that is possible.
ThumbFails(r) ==
  /\ thumb[r] = "decoding"
  /\ thumb' = [thumb EXCEPT ![r] = "failed"]
  /\ leftover' \in {leftover} \cup (IF dir = "real" THEN {leftover \cup {r}} ELSE {})
  /\ UNCHANGED <<dir, cached, outside, swaps, exportVars>>

\* Somebody clears the cache or puts a link in its place.
CacheSwapped ==
  /\ swaps < MaxSwaps /\ swaps' = swaps + 1
  /\ dir' \in {"absent", "link"} \ {dir}
  /\ cached' = {}
  /\ UNCHANGED <<thumb, outside, leftover, exportVars>>

-----------------------------------------------------------------------------
(* exportDiagnostics. *)

Content == Parts \cup {SnapshotFile, PowerLog}

ExportAt(e, where) == export[e] = where
ExportTo(e, where) == export' = [export EXCEPT ![e] = where]

\* The name is taken, then the user is asked for a place, or cancels.
ExportAsk(e, s) ==
  /\ ExportAt(e, "idle")
  /\ \A f \in Exports : export[f] # "idle" => stamp[f] <= s
  /\ \/ ExportTo(e, "asked") \/ ExportTo(e, "cancelled")
  /\ stamp' = [stamp EXCEPT ![e] = s]
  /\ UNCHANGED <<temp, exists, files, chosen, zip, thumbVars>>

\* createDiagnosticsBundle: rm and mkdir.
ExportPrepare(e) ==
  /\ ExportAt(e, "asked") /\ ExportTo(e, "listing")
  /\ exists' = exists \cup {stamp[e]} /\ temp' = [temp EXCEPT ![stamp[e]] = {}]
  /\ UNCHANGED <<stamp, files, chosen, zip, thumbVars>>

\* listDesktopLogFiles, listSidecarLogFiles: what is recent enough.
ExportList(e) ==
  /\ ExportAt(e, "listing") /\ ExportTo(e, "listed")
  /\ chosen' = [chosen EXCEPT ![e] = files]
  /\ UNCHANGED <<stamp, temp, exists, files, zip, thumbVars>>

\* writePowerDiagnostics: a file on a Mac, which says so when pmset has failed.
ExportPowerLog(e) ==
  /\ ExportAt(e, "listed") /\ (Mac => stamp[e] \in exists)
  /\ ExportTo(e, "powered")
  /\ temp' = [temp EXCEPT ![stamp[e]] = IF Mac THEN @ \cup {PowerLog} ELSE @]
  /\ UNCHANGED <<stamp, exists, files, chosen, zip, thumbVars>>

\* captureEnvironmentSnapshot: what cannot be found out is left empty.
ExportEnvironment(e) ==
  /\ ExportAt(e, "powered") /\ ExportTo(e, "gathering")
  /\ UNCHANGED <<stamp, temp, exists, files, chosen, zip, thumbVars>>

\* Answers of the sidecar that do not come are errors in the snapshot.
ExportSnapshot(e) ==
  /\ ExportAt(e, "gathering") /\ stamp[e] \in exists /\ ExportTo(e, "copying")
  /\ temp' = [temp EXCEPT ![stamp[e]] = @ \cup {SnapshotFile}]
  /\ UNCHANGED <<stamp, exists, files, chosen, zip, thumbVars>>

\* One file after the other.  The sidecar's database goes along when it is there and is
\* skipped when it is not (copyDiagnosticDatabase); it is never listed, so it is left out.
ToCopy(e) == chosen[e] \ temp[stamp[e]]
ExportCopy(e, p) ==
  /\ ExportAt(e, "copying") /\ p \in ToCopy(e)
  /\ stamp[e] \in exists /\ p \in files
  /\ temp' = [temp EXCEPT ![stamp[e]] = @ \cup {p}]
  /\ UNCHANGED <<export, stamp, exists, files, chosen, zip, thumbVars>>

\* A file that was listed is gone (a log rotated), or the directory is, or the disk is full:
\* the call rejects, and nobody removes the temporary directory.
ExportCopyFails(e) ==
  /\ export[e] \in {"listed", "gathering", "copying"} /\ ExportTo(e, "failed")
  /\ UNCHANGED <<stamp, temp, exists, files, chosen, zip, thumbVars>>

ExportCopied(e) ==
  /\ ExportAt(e, "copying") /\ ToCopy(e) = {} /\ ExportTo(e, "packing")
  /\ UNCHANGED <<stamp, temp, exists, files, chosen, zip, thumbVars>>

\* A log rotates, or grows too old.
LogsChange ==
  /\ swaps < MaxSwaps /\ swaps' = swaps + 1
  /\ files' \in SUBSET Parts \ {files}
  /\ UNCHANGED <<thumb, dir, cached, outside, leftover, export, stamp, temp, exists, chosen, zip>>

\* compressBundle, and the removal whatever came of it.
ExportPack(e) ==
  /\ ExportAt(e, "packing")
  /\ \/ /\ stamp[e] \in exists /\ ExportTo(e, "done")
        /\ zip' = [zip EXCEPT ![e] = temp[stamp[e]]]
     \/ ExportTo(e, "failed") /\ UNCHANGED zip
  /\ exists' = exists \ {stamp[e]} /\ temp' = [temp EXCEPT ![stamp[e]] = {}]
  /\ UNCHANGED <<stamp, files, chosen, thumbVars>>

-----------------------------------------------------------------------------
ServicesInit ==
  /\ thumb = [r \in Requests |-> "idle"]
  /\ dir \in {"absent", "real", "link"}
  /\ cached = {} /\ outside = {} /\ leftover = {} /\ swaps = 0
  /\ export = [e \in Exports |-> "idle"] /\ stamp = [e \in Exports |-> 0]
  /\ temp = [s \in Seconds |-> {}] /\ exists = {} /\ zip = [e \in Exports |-> {}]
  /\ files = Parts /\ chosen = [e \in Exports |-> {}]

ThumbnailsNext ==
  CacheSwapped \/ \E r \in Requests : ThumbStart(r) \/ ThumbDecoded(r) \/ ThumbFails(r)

DiagnosticsNext ==
  \/ LogsChange
  \/ \E e \in Exports :
       \/ \E s \in Seconds : ExportAsk(e, s)
       \/ \E p \in Parts : ExportCopy(e, p)
       \/ ExportPrepare(e) \/ ExportList(e) \/ ExportPowerLog(e) \/ ExportEnvironment(e)
       \/ ExportSnapshot(e) \/ ExportCopyFails(e) \/ ExportCopied(e) \/ ExportPack(e)

ServicesNext == ThumbnailsNext \/ DiagnosticsNext

ServicesSpec == ServicesInit /\ [][ServicesNext]_servicesVars

-----------------------------------------------------------------------------
ServicesTypeOK ==
  /\ thumb \in [Requests -> {"idle", "decoding", "done", "failed"}]
  /\ dir \in {"absent", "real", "link"} /\ swaps \in 0..MaxSwaps
  /\ cached \subseteq Requests /\ outside \subseteq Requests /\ leftover \subseteq Requests
  /\ export \in [Exports -> {"idle", "asked", "cancelled", "listing", "listed", "powered",
                         "gathering", "copying", "packing", "done", "failed"}]
  /\ stamp \in [Exports -> Seconds] /\ exists \subseteq Seconds
  /\ temp \in [Seconds -> SUBSET Content]
  /\ zip \in [Exports -> SUBSET Content] /\ chosen \in [Exports -> SUBSET Parts]

\* A thumbnail is never written through a link that took the place of the cache
\* while the decoder was at work (validateCacheDirectoryRealPath after the await).
ThumbnailsInPlace == outside = {}

\* An export that reports success packed the snapshot, the power log of a Mac and every
\* file it had listed, though logs rotate meanwhile, unless another export began in the
\* same second and shares its temporary directory.
ExportsAreWhole ==
  \A e \in Exports :
    /\ export[e] = "done"
    /\ \A f \in Exports \ {e} : export[f] = "idle" \/ stamp[f] # stamp[e]
    => zip[e] = chosen[e] \cup {SnapshotFile} \cup (IF Mac THEN {PowerLog} ELSE {})

\* What the two services write is whole, and where it should be.
FilesInPlace == ThumbnailsInPlace /\ ExportsAreWhole

=============================================================================
