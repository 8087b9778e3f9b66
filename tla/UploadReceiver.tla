--------------------------- MODULE UploadReceiver ---------------------------
(***************************************************************************)
(* The receiving half of the sidecar (services/sidecar-go/internal/server) *)
(* for one phone: FILE_INIT, FILE_DATA and FILE_END as they act on the     *)
(* .part files, the received files, the `uploads` rows and the daily       *)
(* statistics, together with the phone's upload loop that drives them.     *)
(*                                                                         *)
(* Every connection is a goroutine of its own and the phone may open a     *)
(* second one while the sidecar still works through what the first one     *)
(* left in its socket buffer, so a handler that touches the store or the   *)
(* file system more than once is cut at those points.  The sidecar may     *)
(* crash between any two steps; rows and files survive, goroutines do not. *)
(*                                                                         *)
(* A file is Size units of data.  Unit u of a file belongs at position u,  *)
(* so a stored file is intact when it reads <<1, ..., Size>>; Hole is a    *)
(* position nothing was written to.  A file is an inode, because an open   *)
(* descriptor follows the inode through os.Rename and not the path.        *)
(*                                                                         *)
(* FILE_ACK is kept as the highest committed offset sent for the current   *)
(* file: when it is sent is the subject of module AckCoalescer.  The       *)
(* session row is the subject of module ClientRegistry.                    *)
(***************************************************************************)
EXTENDS Integers, Sequences, FiniteSets

CONSTANTS
  Conns,        \* connections (goroutines) of this phone the sidecar may run
  Keys,         \* fileKeys in the phone's queue
  Names,        \* original file names
  NameOf,       \* the original file name of each key
  Inodes,       \* file contents on the desktop's disk, 1 .. n
  Size,         \* units in a file
  ChunkSizes,   \* units the phone may put in one FILE_DATA
  Hashing,      \* whether FILE_END may carry a SHA-256: a subset of BOOLEAN
  Window,       \* units the phone keeps in flight
  MaxFaults,    \* disk-low, storage and I/O errors
  MaxDeletions, \* received files the user deletes on the desktop
  MaxPurges,    \* .part files that vanish from the staging directory
  MaxCrashes,   \* crashes of the sidecar
  MaxDrops,     \* connections the phone loses
  MaxReoffers,  \* times a file is queued again after it was completed
  NoConn, NoKey

ASSUME ConstantsAssumption ==
  /\ Size \in Nat \ {0}
  /\ Window \in Nat \ {0}
  /\ ChunkSizes \subseteq 1 .. Size
  /\ ChunkSizes # {}
  /\ Hashing \subseteq BOOLEAN
  /\ NameOf \in [Keys -> Names]
  /\ Inodes \subseteq Nat \ {0}
  /\ NoConn \notin Conns
  /\ NoKey \notin Keys
  /\ {MaxFaults, MaxDeletions, MaxPurges, MaxCrashes, MaxDrops, MaxReoffers} \subseteq Nat

VARIABLES
  item,      \* phone: queue state of each file
  cur,       \* phone: the connection it uses, or NoConn
  task,      \* phone: the file it is uploading
  inbox,     \* frames sent on a connection and not yet read by its goroutine
  reply,     \* the answer the phone waits for
  ack,       \* highest FILE_ACK of the connection's current file
  pc,        \* where the goroutine of a connection stands
  job,       \* local variables of the handler that is running
  writer,    \* connection.fileWriter
  part,      \* inode under <staging>/<client>/<key>.part, 0 if there is none
  finals,    \* inode under each path of the receive directory, 0 if none
  data,      \* contents of each inode
  row,       \* the uploads table
  counted,   \* times each file was added to device_daily_stats.file_count
  budget,    \* how much of each bound is left
  userLost   \* history: files of which the user deleted a received copy

phoneVars   == <<item, cur, task>>
wireVars    == <<inbox, reply, ack>>
sidecarVars == <<pc, job, writer>>
diskVars    == <<part, finals, data>>
storeVars   == <<row, counted>>
vars == <<phoneVars, wireVars, sidecarVars, diskVars, storeVars, budget, userLost>>

-----------------------------------------------------------------------------
(* Values. *)

Hole     == 0
Units    == 1 .. Size
Offsets  == 0 .. Size
Source   == [u \in Units |-> u]
MinOf(a, b) == IF a < b THEN a ELSE b
MaxOf(a, b) == IF a < b THEN b ELSE a

\* The two places Finalize may put a file: under its own name, or with the
\* first eight characters of the key appended when that name is taken.
Plain(k)    == <<NameOf[k], NoKey>>
Suffixed(k) == <<NameOf[k], k>>
Paths       == Names \X (Keys \cup {NoKey})
NoPath      == <<>>

Statuses == {"none", "receiving", "paused_resumable", "failed", "completed"}
NoRow    == [status |-> "none", committed |-> 0, path |-> NoPath, sha |-> FALSE]
Fresh    == [status |-> "receiving", committed |-> 0, path |-> NoPath, sha |-> FALSE]
Failed   == [status |-> "failed", committed |-> 0, path |-> NoPath, sha |-> FALSE]

NoWriter == [key |-> NoKey, inode |-> 0, offset |-> 0, pos |-> 0]
NoJob    == [key |-> NoKey, existing |-> NoRow, sha |-> FALSE, path |-> NoPath]
NoTask   == [phase |-> "idle", key |-> NoKey, next |-> 0, chunk |-> 1]
NoReply  == [kind |-> "none", offset |-> 0]
Empty    == [key |-> NoKey, units |-> <<>>]

InitFrame(k)       == [type |-> "FILE_INIT", key |-> k, offset |-> 0, len |-> 0, sha |-> FALSE]
DataFrame(k, o, n) == [type |-> "FILE_DATA", key |-> k, offset |-> o, len |-> n, sha |-> FALSE]
EndFrame(k, h)     == [type |-> "FILE_END", key |-> k, offset |-> 0, len |-> 0, sha |-> h]

Answer(kind, o) == [kind |-> kind, offset |-> o]

-----------------------------------------------------------------------------
(* Files.  Overlay is what a write of the units in d at position p leaves. *)

Overlay(s, p, d) ==
  [i \in 1 .. MaxOf(Len(s), p + Len(d)) |->
     IF i > p /\ i <= p + Len(d) THEN d[i - p]
     ELSE IF i <= Len(s) THEN s[i] ELSE Hole]

Payload(o, n) == [i \in 1 .. n |-> o + i]

InUse == {part[k] : k \in Keys} \cup {finals[p] : p \in Paths}
           \cup {writer[c].inode : c \in Conns}
Free  == Inodes \ InUse
\* The inode the next new file gets; which of the free ones does not matter.
NewInode == CHOOSE i \in Free : TRUE

PartLen(k) == IF part[k] = 0 THEN 0 ELSE Len(data[part[k]].units)
Intact(i)  == data[i].units = Source

-----------------------------------------------------------------------------
(* Shared by the handlers. *)

Spend(what) == /\ budget[what] > 0
               /\ budget' = [budget EXCEPT ![what] = @ - 1]

TakeFrame(c) == inbox' = [inbox EXCEPT ![c] = Tail(@)]

\* The answer reaches the phone only if it still uses the connection.
Respond(c, kind, o) ==
  reply' = IF cur = c THEN Answer(kind, o) ELSE reply

\* handle()'s deferred cleanup: the goroutine is gone, the phone sees the end
\* of its connection.
Teardown(c) ==
  /\ pc' = [pc EXCEPT ![c] = "closed"]
  /\ job' = [job EXCEPT ![c] = NoJob]
  /\ writer' = [writer EXCEPT ![c] = NoWriter]
  /\ inbox' = [inbox EXCEPT ![c] = <<>>]
  /\ ack' = [ack EXCEPT ![c] = 0]
  /\ IF cur = c
       THEN cur' = NoConn /\ task' = NoTask /\ reply' = NoReply
       ELSE UNCHANGED <<cur, task, reply>>

\* PauseUploadResumable: one UPDATE, whatever the status of the row was.
\* Mutant: a status the rest of the sidecar does not know.
PausedLowDiskRow(r, o) == [r EXCEPT !.status = IF r.status = "none" THEN "none" ELSE "low_disk_paused",
                                    !.committed = IF r.status = "none" THEN 0 ELSE o]
PausedRow(r, o) == [r EXCEPT !.status = IF r.status = "none" THEN "none" ELSE "paused_resumable",
                             !.committed = IF r.status = "none" THEN 0 ELSE o]

\* UpdateUploadProgress: likewise.
ProgressRow(r, o) == [r EXCEPT !.committed = IF r.status = "none" THEN 0 ELSE o]

-----------------------------------------------------------------------------
(* FILE_INIT. *)

\* Storage unavailable or the disk low: the file is refused, nothing changes.
FileInitReject(c) ==
  /\ pc[c] = "ready" /\ inbox[c] # <<>> /\ Head(inbox[c]).type = "FILE_INIT"
  /\ Spend("faults")
  /\ TakeFrame(c)
  /\ Respond(c, "REJECT", 0)
  /\ UNCHANGED <<phoneVars, ack, sidecarVars, diskVars, storeVars, userLost>>

\* GetUpload and, for a completed row, FinalFileExists.
FileInitRead(c) ==
  /\ pc[c] = "ready" /\ inbox[c] # <<>> /\ Head(inbox[c]).type = "FILE_INIT"
  /\ TakeFrame(c)
  /\ LET k == Head(inbox[c]).key
         r == row[k]
     IN IF r.status = "completed" /\ finals[r.path] # 0
          THEN /\ Respond(c, "SKIP", 0)
               /\ UNCHANGED <<pc, job>>
          ELSE /\ pc' = [pc EXCEPT ![c] = "init.open"]
               /\ job' = [job EXCEPT ![c] = [NoJob EXCEPT !.key = k,
                            !.existing = IF r.status = "completed" THEN NoRow ELSE r]]
               /\ UNCHANGED reply
  /\ UNCHANGED <<phoneVars, ack, writer, diskVars, storeVars, budget, userLost>>

\* NewFileWriter: opens the .part file without truncating it and seeks to its
\* end; both offset and the descriptor's position start there.
OpenPart(c, k) ==
  /\ part[k] # 0 \/ Free # {}
  /\ LET i == IF part[k] = 0 THEN NewInode ELSE part[k]
     IN /\ part' = [part EXCEPT ![k] = i]
        /\ data' = IF part[k] = 0 THEN [data EXCEPT ![i] = [key |-> k, units |-> <<>>]]
                                  ELSE data
        /\ writer' = [writer EXCEPT ![c] =
                        [key |-> k, inode |-> i, offset |-> PartLen(k), pos |-> PartLen(k)]]
  /\ UNCHANGED finals

\* Where a resumed upload goes on: the size of the .part file.
\* Mutant: the offset the row remembers.
ResumeFromRow(c, k) == job[c].existing.committed
ResumeOffset(c, k)  == MinOf(PartLen(k), Size)

\* A row with committed bytes is resumed.
FileInitResume(c) ==
  /\ pc[c] = "init.open" /\ job[c].existing.committed > 0
  /\ LET k == job[c].key
         resumeOffset == ResumeOffset(c, k)
     IN /\ OpenPart(c, k)
        /\ row' = IF resumeOffset = job[c].existing.committed THEN row
                  ELSE [row EXCEPT ![k] = ProgressRow(@, resumeOffset)]
        /\ ack' = [ack EXCEPT ![c] = resumeOffset]
        /\ Respond(c, "RESUME", resumeOffset)
  /\ pc' = [pc EXCEPT ![c] = "ready"]
  /\ job' = [job EXCEPT ![c] = NoJob]
  /\ UNCHANGED <<phoneVars, inbox, counted, budget, userLost>>

\* Any other row is started over; a .part file that is already there stays.
FileInitUpload(c) ==
  /\ pc[c] = "init.open" /\ job[c].existing.committed = 0
  /\ LET k == job[c].key
     IN OpenPart(c, k) /\ row' = [row EXCEPT ![k] = Fresh]
  /\ ack' = [ack EXCEPT ![c] = 0]
  /\ Respond(c, "UPLOAD", 0)
  /\ pc' = [pc EXCEPT ![c] = "ready"]
  /\ job' = [job EXCEPT ![c] = NoJob]
  /\ UNCHANGED <<phoneVars, inbox, counted, budget, userLost>>

\* The staging directory or the .part file cannot be opened: the handler
\* returns an error, and of a new upload the row is already written.
FileInitError(c) ==
  /\ pc[c] = "init.open"
  /\ Spend("faults")
  /\ Teardown(c)
  /\ row' = IF job[c].existing.committed > 0 THEN row
            ELSE [row EXCEPT ![job[c].key] = Fresh]
  /\ UNCHANGED <<item, diskVars, counted, userLost>>

-----------------------------------------------------------------------------
(* FILE_DATA. *)

\* The frame at the head of c is a FILE_DATA and there is a writer for it.
DataFor(c) ==
  /\ pc[c] = "ready" /\ inbox[c] # <<>> /\ Head(inbox[c]).type = "FILE_DATA"
  /\ writer[c] # NoWriter

\* FILE_DATA or FILE_END with no writer: PROTOCOL_ERROR and the end.
ProtocolError(c) ==
  /\ pc[c] = "ready" /\ inbox[c] # <<>> /\ Head(inbox[c]).type \in {"FILE_DATA", "FILE_END"}
  /\ writer[c] = NoWriter
  /\ Teardown(c)
  /\ UNCHANGED <<item, diskVars, storeVars, budget, userLost>>

\* FileWriter.WriteAt: at the writer's offset it is a sequential Write, which
\* goes to the descriptor's own position; elsewhere a pwrite, which leaves
\* that position alone.
\* Mutant: every write is sequential.
WriteAtEnd(c, f) == writer[c].pos
WritePos(c, f)   == IF f.offset = writer[c].offset THEN writer[c].pos ELSE f.offset
Written(c, f, n) ==
  [data EXCEPT ![writer[c].inode].units = Overlay(@, WritePos(c, f), Payload(f.offset, n))]

\* The normal case, with or without the throttled maybeFlushProgress.
FileDataWrite(c) ==
  /\ DataFor(c)
  /\ LET f == Head(inbox[c])
         committed == MaxOf(writer[c].offset, f.offset + f.len)
     IN /\ part[writer[c].key] # 0
        /\ data' = Written(c, f, f.len)
        /\ writer' = [writer EXCEPT ![c].offset = committed,
                        ![c].pos = IF f.offset = writer[c].offset THEN @ + f.len ELSE @]
        /\ ack' = [ack EXCEPT ![c] = committed]
        /\ \/ UNCHANGED row
           \/ row' = [row EXCEPT ![f.key] = ProgressRow(@, committed)]
  /\ TakeFrame(c)
  /\ UNCHANGED <<phoneVars, reply, pc, job, part, finals, counted, budget, userLost>>

\* pauseTransferForLowDisk and pauseTransferForStorageUnavailable: progress and
\* status go to the row, the writer is closed, the phone gets an ERROR and the
\* connection stays.
Pause(c, k) ==
  /\ row' = [row EXCEPT ![k] = PausedRow(@, writer[c].offset)]
  /\ writer' = [writer EXCEPT ![c] = NoWriter]
  /\ ack' = [ack EXCEPT ![c] = 0]

\* What the phone is told of a pause during FILE_DATA.
\* Mutant: nothing.
PauseUnanswered(c) == UNCHANGED reply
PauseAnswer(c)     == Respond(c, "ERROR", 0)

FileDataPause(c) ==
  /\ DataFor(c)
  /\ \/ part[writer[c].key] = 0 /\ UNCHANGED budget
     \/ Spend("faults")
  /\ Pause(c, Head(inbox[c]).key)
  /\ TakeFrame(c)
  /\ PauseAnswer(c)
  /\ UNCHANGED <<phoneVars, pc, job, diskVars, counted, userLost>>

\* The disk fills up during the write: a part of the chunk may be on disk, the
\* writer's offset does not move.
FileDataDiskFull(c) ==
  /\ DataFor(c) /\ part[writer[c].key] # 0
  /\ Spend("faults")
  /\ LET f == Head(inbox[c])
     IN /\ \E n \in 1 .. f.len - 1 : data' = Written(c, f, n)
        /\ Pause(c, f.key)
  /\ TakeFrame(c)
  /\ PauseAnswer(c)
  /\ UNCHANGED <<phoneVars, pc, job, part, finals, counted, userLost>>

\* Any other write error ends the connection.
FileDataError(c) ==
  /\ DataFor(c)
  /\ Spend("faults")
  /\ Teardown(c)
  /\ UNCHANGED <<item, diskVars, storeVars, userLost>>

-----------------------------------------------------------------------------
(* FILE_END. *)

\* The frame at the head of c is a FILE_END and there is a writer for it.
EndFor(c) ==
  /\ pc[c] = "ready" /\ inbox[c] # <<>> /\ Head(inbox[c]).type = "FILE_END"
  /\ writer[c] # NoWriter

\* What the SHA-256 of FILE_END is compared with.
\* Mutant: the size alone is compared.
SizeMatches(f) == f.sha => PartLen(f.key) = Size
HashMatches(f) == f.sha => Intact(part[f.key])

\* flushProgress, then the storage check and, when the phone sent one, the
\* hash of whatever is now under the part path.  A size that differs from the
\* announced one is logged and nothing else.
FileEndVerify(c) ==
  /\ EndFor(c)
  /\ LET f == Head(inbox[c])
     IN /\ part[f.key] # 0
        /\ HashMatches(f)
        /\ row' = [row EXCEPT ![f.key] = ProgressRow(@, writer[c].offset)]
        /\ pc' = [pc EXCEPT ![c] = "end.place"]
        /\ job' = [job EXCEPT ![c] = [NoJob EXCEPT !.key = f.key, !.sha = f.sha]]
  /\ TakeFrame(c)
  /\ UNCHANGED <<phoneVars, reply, ack, writer, diskVars, counted, budget, userLost>>

\* The hash differs: the .part file is removed and the row starts over.
FileEndMismatch(c) ==
  /\ EndFor(c)
  /\ LET f == Head(inbox[c])
     IN /\ f.sha /\ part[f.key] # 0 /\ ~HashMatches(f)
        /\ part' = [part EXCEPT ![f.key] = 0]
        /\ row' = [row EXCEPT ![f.key] = Failed]
  /\ writer' = [writer EXCEPT ![c] = NoWriter]
  /\ ack' = [ack EXCEPT ![c] = 0]
  /\ TakeFrame(c)
  /\ Respond(c, "END_FAIL", 0)
  /\ UNCHANGED <<phoneVars, pc, job, finals, data, counted, budget, userLost>>

\* The .part file cannot be read for the hash: it is removed, and the row
\* keeps the progress that was just flushed.
FileEndHashError(c) ==
  /\ EndFor(c)
  /\ Spend("faults")
  /\ LET f == Head(inbox[c])
     IN /\ f.sha /\ part[f.key] # 0
        /\ part' = [part EXCEPT ![f.key] = 0]
        /\ row' = [row EXCEPT ![f.key] = ProgressRow(@, writer[c].offset)]
  /\ writer' = [writer EXCEPT ![c] = NoWriter]
  /\ ack' = [ack EXCEPT ![c] = 0]
  /\ TakeFrame(c)
  /\ Respond(c, "END_FAIL", 0)
  /\ UNCHANGED <<phoneVars, pc, job, finals, data, counted, userLost>>

\* Storage unavailable, or the .part file gone, before the hash.
FileEndUnavailable(c) ==
  /\ EndFor(c)
  /\ \/ part[writer[c].key] = 0 /\ UNCHANGED budget
     \/ Spend("faults")
  /\ Pause(c, Head(inbox[c]).key)
  /\ TakeFrame(c)
  /\ Respond(c, "END_FAIL", 0)
  /\ UNCHANGED <<phoneVars, pc, job, diskVars, counted, userLost>>

\* Finalize's choice of a name: the file's own if nothing has it, else the
\* suffixed one, which is not looked up.
FinalPath(k) == IF finals[Plain(k)] = 0 THEN Plain(k) ELSE Suffixed(k)

\* The second storage check and the choice of the name.
FileEndPlace(c) ==
  /\ pc[c] = "end.place" /\ part[job[c].key] # 0
  /\ LET k == job[c].key
     IN job' = [job EXCEPT ![c].path = FinalPath(k)]
  /\ pc' = [pc EXCEPT ![c] = "end.move"]
  /\ UNCHANGED <<phoneVars, wireVars, writer, diskVars, storeVars, budget, userLost>>

\* os.Rename: whatever is under the part path takes the chosen name, and
\* replaces what has that name by now.
FileEndMove(c) ==
  /\ pc[c] = "end.move"
  /\ LET k == job[c].key
     IN /\ part[k] # 0
        /\ finals' = [finals EXCEPT ![job[c].path] = part[k]]
        /\ part' = [part EXCEPT ![k] = 0]
  /\ pc' = [pc EXCEPT ![c] = "end.complete"]
  /\ UNCHANGED <<phoneVars, wireVars, job, writer, data, storeVars, budget, userLost>>

\* What FILE_END answers when the file could not be placed.
\* Mutant: the failure is logged and the file reported as received.
UnplacedAnswered(c) == Respond(c, "END_OK", 0)
UnplacedAnswer(c)   == Respond(c, "END_FAIL", 0)

\* The storage check or Finalize fails: the upload is paused.
FileEndUnplaced(c) ==
  /\ pc[c] \in {"end.place", "end.move"}
  /\ \/ part[job[c].key] = 0 /\ UNCHANGED budget
     \/ Spend("faults")
  /\ Pause(c, job[c].key)
  /\ pc' = [pc EXCEPT ![c] = "ready"]
  /\ job' = [job EXCEPT ![c] = NoJob]
  /\ UnplacedAnswer(c)
  /\ UNCHANGED <<phoneVars, inbox, diskVars, counted, userLost>>

\* EnsureReceiveDirName fails: the handler returns an error.
FileEndNoDirName(c) ==
  /\ pc[c] = "end.place"
  /\ Spend("faults")
  /\ Teardown(c)
  /\ UNCHANGED <<item, diskVars, storeVars, userLost>>

\* CompleteUpload; when it fails the handler logs a warning and goes on.
FileEndComplete(c) ==
  /\ pc[c] = "end.complete"
  /\ \/ /\ row' = [row EXCEPT ![job[c].key] =
                     IF @.status = "none" THEN @
                     ELSE [@ EXCEPT !.status = "completed", !.path = job[c].path,
                                    !.sha = job[c].sha]]
        /\ UNCHANGED budget
     \/ Spend("faults") /\ UNCHANGED row
  /\ pc' = [pc EXCEPT ![c] = "end.stats"]
  /\ UNCHANGED <<phoneVars, wireVars, job, writer, diskVars, counted, userLost>>

\* UpsertDailyStats adds one file, and the phone is told.
FileEndStats(c) ==
  /\ pc[c] = "end.stats"
  /\ counted' = [counted EXCEPT ![job[c].key] = @ + 1]
  /\ Respond(c, "END_OK", 0)
  /\ pc' = [pc EXCEPT ![c] = "ready"]
  /\ job' = [job EXCEPT ![c] = NoJob]
  /\ writer' = [writer EXCEPT ![c] = NoWriter]
  /\ ack' = [ack EXCEPT ![c] = 0]
  /\ UNCHANGED <<phoneVars, inbox, diskVars, row, budget, userLost>>

-----------------------------------------------------------------------------
(* The connection and the process. *)

\* The peer is gone and every frame it sent has been read.
ReadEOF(c) ==
  /\ pc[c] = "ready" /\ inbox[c] = <<>> /\ cur # c
  /\ Teardown(c)
  /\ UNCHANGED <<item, diskVars, storeVars, budget, userLost>>

\* The sidecar dies; nothing at startup looks at uploads or .part files.
Crash ==
  /\ Spend("crashes")
  /\ pc' = [c \in Conns |-> "closed"]
  /\ job' = [c \in Conns |-> NoJob]
  /\ writer' = [c \in Conns |-> NoWriter]
  /\ inbox' = [c \in Conns |-> <<>>]
  /\ ack' = [c \in Conns |-> 0]
  /\ cur' = NoConn /\ task' = NoTask /\ reply' = NoReply
  /\ UNCHANGED <<item, diskVars, storeVars, userLost>>

\* The user deletes a received file.
UserDeletesFinal(p) ==
  /\ finals[p] # 0
  /\ Spend("deletions")
  /\ finals' = [finals EXCEPT ![p] = 0]
  /\ userLost' = userLost \cup {data[finals[p]].key}
  /\ UNCHANGED <<phoneVars, wireVars, sidecarVars, part, data, storeVars>>

\* The staging directory is emptied behind the sidecar's back.
PartVanishes(k) ==
  /\ part[k] # 0
  /\ Spend("purges")
  /\ part' = [part EXCEPT ![k] = 0]
  /\ UNCHANGED <<phoneVars, wireVars, sidecarVars, finals, data, storeVars, userLost>>

-----------------------------------------------------------------------------
(* The phone: one file at a time, FILE_INIT, a window of FILE_DATA, and      *)
(* FILE_END once everything is acknowledged.                                 *)

PhoneConnect(c) ==
  /\ cur = NoConn /\ pc[c] = "closed" /\ \E k \in Keys : item[k] = "queued"
  /\ cur' = c
  /\ pc' = [pc EXCEPT ![c] = "ready"]
  /\ UNCHANGED <<item, task, wireVars, job, writer, diskVars, storeVars, budget, userLost>>

Send(frame) == inbox' = [inbox EXCEPT ![cur] = Append(@, frame)]

PhoneInit(k) ==
  /\ cur # NoConn /\ task = NoTask /\ item[k] = "queued"
  /\ Send(InitFrame(k))
  /\ task' = [NoTask EXCEPT !.phase = "init", !.key = k]
  /\ UNCHANGED <<item, cur, reply, ack, sidecarVars, diskVars, storeVars, budget, userLost>>

\* After a refusal Android goes on with its next file, iOS closes the connection.
Refused == cur' \in {cur, NoConn}

\* FILE_INIT_RES: SKIP is as good as a completed upload, a rejected file stays
\* queued, an accepted one is streamed from the offset with some chunk size.
PhoneInitRes ==
  /\ task.phase = "init" /\ reply.kind \in {"SKIP", "REJECT", "UPLOAD", "RESUME"}
  /\ reply' = NoReply
  /\ item' = IF reply.kind = "SKIP" THEN [item EXCEPT ![task.key] = "completed"] ELSE item
  /\ IF reply.kind \in {"SKIP", "REJECT"}
       THEN task' = NoTask
       ELSE \E n \in ChunkSizes :
              task' = [task EXCEPT !.phase = "data", !.next = reply.offset, !.chunk = n]
  /\ IF reply.kind = "REJECT" THEN Refused ELSE UNCHANGED cur
  /\ UNCHANGED <<inbox, ack, sidecarVars, diskVars, storeVars, budget, userLost>>

\* The window is filled while less than Window is in flight.
PhoneData ==
  /\ task.phase = "data" /\ reply = NoReply /\ task.next < Size
  /\ task.next - MinOf(task.next, ack[cur]) < Window
  /\ LET n == MinOf(task.chunk, Size - task.next)
     IN /\ Send(DataFrame(task.key, task.next, n))
        /\ task' = [task EXCEPT !.next = @ + n]
  /\ UNCHANGED <<item, cur, reply, ack, sidecarVars, diskVars, storeVars, budget, userLost>>

PhoneEnd ==
  /\ task.phase = "data" /\ reply = NoReply /\ task.next = Size /\ ack[cur] >= Size
  /\ \E h \in Hashing : Send(EndFrame(task.key, h))
  /\ task' = [task EXCEPT !.phase = "end"]
  /\ UNCHANGED <<item, cur, reply, ack, sidecarVars, diskVars, storeVars, budget, userLost>>

\* FILE_END_RES: a failed item is offered again by the next scan.
PhoneEndRes ==
  /\ task.phase = "end" /\ reply.kind \in {"END_OK", "END_FAIL"}
  /\ item' = IF reply.kind = "END_OK" THEN [item EXCEPT ![task.key] = "completed"] ELSE item
  /\ task' = NoTask /\ reply' = NoReply
  /\ IF reply.kind = "END_FAIL" THEN Refused ELSE UNCHANGED cur
  /\ UNCHANGED <<inbox, ack, sidecarVars, diskVars, storeVars, budget, userLost>>

\* ERROR: the upload loop gives the connection up.
PhoneError ==
  /\ reply.kind = "ERROR"
  /\ cur' = NoConn /\ task' = NoTask /\ reply' = NoReply
  /\ UNCHANGED <<item, inbox, ack, sidecarVars, diskVars, storeVars, budget, userLost>>

\* The connection is lost or times out on the phone's side; some suffix of
\* what it sent never arrives.
PhoneDrop ==
  /\ cur # NoConn
  /\ Spend("drops")
  /\ \E n \in 0 .. Len(inbox[cur]) : inbox' = [inbox EXCEPT ![cur] = SubSeq(@, 1, n)]
  /\ cur' = NoConn /\ task' = NoTask /\ reply' = NoReply
  /\ UNCHANGED <<item, ack, sidecarVars, diskVars, storeVars, userLost>>

\* The phone forgets that a file was completed (a reinstalled app, a cleared
\* record) and queues it again.
PhoneReoffer(k) ==
  /\ item[k] = "completed"
  /\ Spend("reoffers")
  /\ item' = [item EXCEPT ![k] = "queued"]
  /\ UNCHANGED <<cur, task, wireVars, sidecarVars, diskVars, storeVars, userLost>>

-----------------------------------------------------------------------------
Init ==
  /\ item = [k \in Keys |-> "queued"] /\ cur = NoConn /\ task = NoTask
  /\ inbox = [c \in Conns |-> <<>>] /\ reply = NoReply /\ ack = [c \in Conns |-> 0]
  /\ pc = [c \in Conns |-> "closed"] /\ job = [c \in Conns |-> NoJob]
  /\ writer = [c \in Conns |-> NoWriter]
  /\ part = [k \in Keys |-> 0] /\ finals = [p \in Paths |-> 0]
  /\ data = [i \in Inodes |-> Empty]
  /\ row = [k \in Keys |-> NoRow] /\ counted = [k \in Keys |-> 0]
  /\ budget = [faults |-> MaxFaults, crashes |-> MaxCrashes, drops |-> MaxDrops,
               reoffers |-> MaxReoffers, deletions |-> MaxDeletions, purges |-> MaxPurges]
  /\ userLost = {}

FileInit(c) == FileInitReject(c) \/ FileInitRead(c) \/ FileInitResume(c)
                 \/ FileInitUpload(c) \/ FileInitError(c)
FileData(c) == FileDataWrite(c) \/ FileDataPause(c) \/ FileDataDiskFull(c) \/ FileDataError(c)
FileEnd(c)  == FileEndVerify(c) \/ FileEndMismatch(c) \/ FileEndHashError(c)
                 \/ FileEndUnavailable(c) \/ FileEndPlace(c) \/ FileEndMove(c)
                 \/ FileEndUnplaced(c) \/ FileEndNoDirName(c) \/ FileEndComplete(c)
                 \/ FileEndStats(c)

Sidecar(c) == FileInit(c) \/ FileData(c) \/ FileEnd(c) \/ ProtocolError(c) \/ ReadEOF(c)

PhoneLoop == \/ \E c \in Conns : PhoneConnect(c)
             \/ \E k \in Keys : PhoneInit(k)
             \/ PhoneInitRes \/ PhoneData \/ PhoneEnd \/ PhoneEndRes \/ PhoneError

Environment == \/ Crash \/ PhoneDrop
               \/ \E k \in Keys : PhoneReoffer(k) \/ PartVanishes(k)
               \/ \E p \in Paths : UserDeletesFinal(p)

Next == (\E c \in Conns : Sidecar(c)) \/ PhoneLoop \/ Environment

Spec == Init /\ [][Next]_vars

\* Every goroutine runs, and so does the phone's loop; nothing makes a fault,
\* a crash or a loss happen.
FairSpec == Spec /\ (\A c \in Conns : WF_vars(Sidecar(c))) /\ WF_vars(PhoneLoop)

-----------------------------------------------------------------------------
(* Properties. *)

Frames == {InitFrame(k) : k \in Keys}
            \cup {f \in {DataFrame(k, o, n) : k \in Keys, o \in Offsets, n \in Units} :
                    f.offset + f.len <= Size}
            \cup {EndFrame(k, h) : k \in Keys, h \in BOOLEAN}
Rows   == [status : Statuses, committed : Offsets, path : Paths \cup {NoPath}, sha : BOOLEAN]
Contents == [key : Keys \cup {NoKey}, units : {s \in Seq({Hole} \cup Units) : Len(s) <= Size}]
Writers  == {w \in [key : Keys \cup {NoKey}, inode : Inodes \cup {0},
                     offset : Offsets, pos : Offsets] : w.pos <= w.offset}
PCs == {"closed", "ready", "init.open", "end.place", "end.move", "end.complete", "end.stats"}
Kinds == {"none", "SKIP", "REJECT", "UPLOAD", "RESUME", "ERROR", "END_OK", "END_FAIL"}

\* Every variable has the shape its declaration says.
TypeOK ==
  /\ item \in [Keys -> {"queued", "completed"}]
  /\ cur \in Conns \cup {NoConn}
  /\ task \in [phase : {"idle", "init", "data", "end"}, key : Keys \cup {NoKey},
               next : Offsets, chunk : Units]
  /\ inbox \in [Conns -> Seq(Frames)]
  /\ reply \in [kind : Kinds, offset : Offsets]
  /\ ack \in [Conns -> Offsets]
  /\ pc \in [Conns -> PCs]
  /\ job \in [Conns -> [key : Keys \cup {NoKey}, existing : Rows, sha : BOOLEAN,
                        path : Paths \cup {NoPath}]]
  /\ writer \in [Conns -> Writers]
  /\ part \in [Keys -> Inodes \cup {0}]
  /\ finals \in [Paths -> Inodes \cup {0}]
  /\ data \in [Inodes -> Contents]
  /\ row \in [Keys -> Rows]
  /\ counted \in [Keys -> Nat]
  /\ budget \in [{"faults", "crashes", "drops", "reoffers", "deletions", "purges"} -> Nat]
  /\ userLost \subseteq Keys

\* What the phone has recorded as uploaded is on the desktop's disk, whole,
\* under the file's own or its suffixed name, whatever crashes, lost
\* connections and handlers of an earlier connection came in between.
PhoneDoneIsStored ==
  \A k \in Keys : item[k] = "completed" /\ k \notin userLost =>
    \E p \in {Plain(k), Suffixed(k)} :
      finals[p] # 0 /\ data[finals[p]].key = k /\ Intact(finals[p])

\* A resumed or restarted upload never leaves a gap and never puts a unit at
\* the wrong place: every file the sidecar holds is a prefix of its source.
StoredIsPrefix ==
  \A i \in InUse \ {0} : data[i].units = [u \in 1 .. Len(data[i].units) |-> u]

\* FILE_ACK never runs ahead of the file: a phone that frees what was
\* acknowledged does not need it again while the connection lasts.
AckedIsWritten ==
  \A c \in Conns : writer[c] # NoWriter => ack[c] <= Len(data[writer[c].inode].units)

\* A row that says completed with a verified hash has a path at which, if the
\* user left it there, the whole file is found.
VerifiedIsIntact ==
  \A k \in Keys : row[k].status = "completed" /\ row[k].sha =>
    \/ finals[row[k].path] = 0
    \/ data[finals[row[k].path]].key = k /\ Intact(finals[row[k].path])

\* Delivery with the receive directory and the phone's queue for its variables.
Promised == INSTANCE Delivery WITH
  copies <- {k \in Keys : \E p \in {Plain(k), Suffixed(k)} :
               finals[p] # 0 /\ data[finals[p]].key = k /\ Intact(finals[p])},
  told   <- {k \in Keys : item[k] = "completed"},
  lost   <- userLost

\* The receiver and the phone's loop implement Delivery: a file appears whole in one
\* step, is crossed off only when it is there and stays until the user removes it,
\* through crashes, lost connections and two connections working on one file.
DeliveryKept == Promised!Spec

\* Once errors, crashes and losses stop, every queued file is delivered.
AllDelivered == <>[](\A k \in Keys : item[k] = "completed")

\* What the repository's documents say of the same code and the code does not
\* keep; each is checked by a run that ends in a counterexample.

\* "server validates file size instead" (of the hash the phones leave out): a
\* file the phone has recorded as uploaded has its size.
DoneHasDeclaredSize ==
  \A k \in Keys : item[k] = "completed" /\ k \notin userLost =>
    \E p \in {Plain(k), Suffixed(k)} : finals[p] # 0 /\ Len(data[finals[p]].units) = Size

\* "It does not retransmit from 0": after a lost connection the sidecar never
\* starts a file over of which it holds a part.
NoRetransmitFromZero ==
  [][\A k \in Keys : reply'.kind = "UPLOAD" /\ task.phase = "init" /\ task.key = k
                       /\ reply = NoReply => PartLen(k) = 0]_vars

\* "File exists - add fileKey suffix to avoid overwrite": Finalize never puts a
\* file of one upload where a received one of another stands.
NeverOverwritten ==
  [][\A p \in Paths : finals[p] # 0 /\ finals'[p] \notin {0, finals[p]} =>
       data[finals[p]].key = data[finals'[p]].key]_vars

=============================================================================
