------------------------ MODULE UploadReceiver_proofs -------------------------
(***************************************************************************)
(* Theorems about UploadReceiver, for any number of connections, files,    *)
(* units, faults, losses and crashes.                                      *)
(*                                                                         *)
(* Type correctness says more than that the code keeps its variables in    *)
(* order, because two of the types are bounds: no write ever goes beyond   *)
(* the file's size, and a descriptor never stands beyond its writer's      *)
(* offset.                                                                 *)
(*                                                                         *)
(* Every file is a prefix of its source, and no FILE_ACK is ahead of its   *)
(* file.  Both need that chunks line up with a leftover .part file         *)
(* (Aligned: the unit of the model is the chunk); the run receiver_size    *)
(* shows why.                                                              *)
(***************************************************************************)
EXTENDS UploadReceiver, SequenceTheorems, TLAPS

-----------------------------------------------------------------------------
(* The invariant, in groups of variables that change together. *)

TaskType == [phase : {"idle", "init", "data", "end"}, key : Keys \cup {NoKey},
             next : Offsets, chunk : Units]
PhoneType ==
  /\ item \in [Keys -> {"queued", "completed"}]
  /\ cur \in Conns \cup {NoConn}
  /\ task \in TaskType
WireType ==
  /\ inbox \in [Conns -> Seq(Frames)]
  /\ reply \in [kind : Kinds, offset : Offsets]
  /\ ack \in [Conns -> Offsets]
Jobs == [key : Keys \cup {NoKey}, existing : Rows, sha : BOOLEAN, path : Paths \cup {NoPath}]
SidecarType ==
  /\ pc \in [Conns -> PCs]
  /\ job \in [Conns -> Jobs]
  /\ writer \in [Conns -> Writers]
DiskType ==
  /\ part \in [Keys -> Inodes \cup {0}]
  /\ finals \in [Paths -> Inodes \cup {0}]
  /\ data \in [Inodes -> Contents]
StoreType == row \in [Keys -> Rows] /\ counted \in [Keys -> Nat]
BudgetType ==
  budget \in [{"faults", "crashes", "drops", "reoffers", "deletions", "purges"} -> Nat]

\* The phone's loop and a handler that is under way know their file, and the
\* loop has a connection.
TaskKeyed == task.phase # "idle" => task.key \in Keys /\ cur # NoConn
JobKeyed  == \A c \in Conns : pc[c] \notin {"closed", "ready"} => job[c].key \in Keys

\* Whatever has a name in staging or in the receive directory was created for
\* a file of the phone.
FilesKeyed ==
  /\ \A k \in Keys : part[k] # 0 => data[part[k]].key \in Keys
  /\ \A p \in Paths : finals[p] # 0 => data[finals[p]].key \in Keys

TypeInv ==
  /\ PhoneType /\ WireType /\ SidecarType /\ DiskType /\ StoreType /\ BudgetType
  /\ userLost \subseteq Keys
  /\ TaskKeyed /\ JobKeyed /\ FilesKeyed

LEMMA TypeInvType == TypeInv => TypeOK
BY DEF TypeInv, TypeOK, PhoneType, WireType, SidecarType, DiskType, StoreType, BudgetType, Jobs,
     TaskType

-----------------------------------------------------------------------------
(* Frames, rows and answers. *)

LEMMA FrameFields ==
  ASSUME NEW f \in Frames
  PROVE  /\ f.type \in {"FILE_INIT", "FILE_DATA", "FILE_END"} /\ f.key \in Keys
         /\ f.offset \in Offsets /\ f.len \in Offsets /\ f.offset + f.len <= Size
         /\ f.sha \in BOOLEAN
<1> USE ConstantsAssumption DEF Offsets, Units
<1>1. CASE \E k \in Keys : f = InitFrame(k)
  BY <1>1 DEF InitFrame
<1>2. CASE \E k \in Keys, h \in BOOLEAN : f = EndFrame(k, h)
  BY <1>2 DEF EndFrame
<1>3. CASE /\ \E k \in Keys, o \in Offsets, n \in Units : f = DataFrame(k, o, n)
           /\ f.offset + f.len <= Size
  BY <1>3 DEF DataFrame
<1> QED
  BY <1>1, <1>2, <1>3 DEF Frames

LEMMA FrameKinds ==
  ASSUME NEW k \in Keys
  PROVE  /\ InitFrame(k) \in Frames
         /\ \A h \in BOOLEAN : EndFrame(k, h) \in Frames
         /\ \A o \in Offsets, n \in Units : o + n <= Size => DataFrame(k, o, n) \in Frames
<1>1. \A o \in Offsets, n \in Units :
        DataFrame(k, o, n).offset = o /\ DataFrame(k, o, n).len = n
  BY DEF DataFrame
<1> QED
  BY <1>1 DEF Frames

\* What a handler reads is a frame, and what it leaves are frames.
LEMMA HeadOfInbox ==
  ASSUME WireType, NEW c \in Conns, inbox[c] # <<>>
  PROVE  Head(inbox[c]) \in Frames /\ Tail(inbox[c]) \in Seq(Frames)
BY DEF WireType

LEMMA TakeFrameType ==
  ASSUME WireType, NEW c \in Conns, inbox[c] # <<>>, TakeFrame(c)
  PROVE  inbox' \in [Conns -> Seq(Frames)]
BY HeadOfInbox DEF WireType, TakeFrame

LEMMA RespondType ==
  ASSUME WireType, NEW c, NEW kind \in Kinds, NEW o \in Offsets, Respond(c, kind, o)
  PROVE  reply' \in [kind : Kinds, offset : Offsets]
BY DEF WireType, Respond, Answer

LEMMA SpendType ==
  ASSUME BudgetType, NEW what \in {"faults", "crashes", "drops", "reoffers", "deletions", "purges"},
         Spend(what)
  PROVE  BudgetType'
BY DEF BudgetType, Spend

LEMMA RowTypes ==
  ASSUME NEW r \in Rows, NEW o \in Offsets
  PROVE  PausedRow(r, o) \in Rows /\ ProgressRow(r, o) \in Rows
<1>1. /\ (IF r.status = "none" THEN "none" ELSE "paused_resumable") \in Statuses
      /\ (IF r.status = "none" THEN 0 ELSE o) \in Offsets
  BY ConstantsAssumption DEF Statuses, Offsets
<1>2. \A t \in Statuses, n \in Offsets :
        /\ [r EXCEPT !.status = t, !.committed = n] \in Rows
        /\ [r EXCEPT !.committed = n] \in Rows
  BY DEF Rows
<1> QED
  BY <1>1, <1>2 DEF PausedRow, ProgressRow

LEMMA Values ==
  /\ 0 \in Offsets /\ 1 \in Units
  /\ NoRow \in Rows /\ Fresh \in Rows /\ Failed \in Rows
  /\ NoWriter \in Writers /\ NoJob \in Jobs
  /\ NoTask \in TaskType
  /\ NoReply \in [kind : Kinds, offset : Offsets]
BY ConstantsAssumption DEF Offsets, Units, NoRow, Fresh, Failed, NoWriter, NoJob, NoTask, NoReply,
     Rows, Statuses, Writers, Jobs, Kinds, TaskType

-----------------------------------------------------------------------------
(* Files. *)

LEMMA PayloadType ==
  ASSUME NEW o \in Offsets, NEW n \in Nat, o + n <= Size
  PROVE  Payload(o, n) \in Seq(Units) /\ Len(Payload(o, n)) = n
<1>1. \A i \in 1 .. n : o + i \in Units
  BY ConstantsAssumption DEF Offsets, Units
<1>2. Payload(o, n) \in [1 .. n -> Units]
  BY <1>1 DEF Payload
<1> QED
  BY <1>2

\* A write that ends within the file's size leaves a file within it.
LEMMA OverlayType ==
  ASSUME NEW s \in Seq({Hole} \cup Units), Len(s) <= Size,
         NEW p \in Nat, NEW d \in Seq(Units), p + Len(d) <= Size
  PROVE  Overlay(s, p, d) \in Seq({Hole} \cup Units) /\ Len(Overlay(s, p, d)) <= Size
<1> DEFINE n == MaxOf(Len(s), p + Len(d))
<1>1. n \in Nat /\ n <= Size
  BY DEF MaxOf
<1>2. \A i \in 1 .. n : (IF i > p /\ i <= p + Len(d) THEN d[i - p]
                         ELSE IF i <= Len(s) THEN s[i] ELSE Hole) \in {Hole} \cup Units
  <2> TAKE i \in 1 .. n
  <2>1. CASE i > p /\ i <= p + Len(d)
    <3>1. i - p \in 1 .. Len(d)
      BY <1>1, <2>1
    <3> QED
      BY <2>1, <3>1
  <2>2. CASE ~(i > p /\ i <= p + Len(d)) /\ i <= Len(s)
    BY <1>1, <2>2
  <2>3. CASE ~(i > p /\ i <= p + Len(d)) /\ ~(i <= Len(s))
    BY <2>3
  <2> QED
    BY <2>1, <2>2, <2>3
<1>3. Overlay(s, p, d) \in [1 .. n -> {Hole} \cup Units]
  BY <1>2 DEF Overlay
<1> HIDE DEF n
<1> QED
  BY <1>1, <1>3

\* A write through a connection's descriptor keeps every file within its size,
\* because a descriptor never stands beyond its writer's offset.
LEMMA WrittenType ==
  ASSUME DiskType, SidecarType, NEW c \in Conns, NEW f \in Frames,
         NEW n \in Nat, n <= f.len
  PROVE  /\ Written(c, f, n) \in [Inodes -> Contents]
         /\ \A i \in Inodes : Written(c, f, n)[i].key = data[i].key
<1> DEFINE w == writer[c]
<1>1. w.offset \in Offsets /\ w.pos \in Offsets /\ w.pos <= w.offset
  BY DEF SidecarType, Writers
<1>2. /\ f.offset \in Offsets /\ f.len \in Offsets /\ f.offset + f.len <= Size
      /\ Size \in Nat
  BY FrameFields, ConstantsAssumption
<1>3. Payload(f.offset, n) \in Seq(Units) /\ Len(Payload(f.offset, n)) = n
  BY <1>2, PayloadType DEF Offsets
<1>4. WritePos(c, f) \in Nat /\ WritePos(c, f) + n <= Size
  BY <1>1, <1>2 DEF WritePos, Offsets
<1>5. \A i \in Inodes :
        [data[i] EXCEPT !.units = Overlay(@, WritePos(c, f), Payload(f.offset, n))] \in Contents
  <2> TAKE i \in Inodes
  <2>1. /\ data[i].units \in Seq({Hole} \cup Units) /\ Len(data[i].units) <= Size
        /\ data[i] \in Contents
    BY DEF DiskType, Contents
  <2>2. LET o == Overlay(data[i].units, WritePos(c, f), Payload(f.offset, n))
        IN o \in Seq({Hole} \cup Units) /\ Len(o) <= Size
    BY <2>1, <1>3, <1>4, OverlayType
  <2> QED
    BY <2>1, <2>2 DEF Contents
<1> QED
  BY <1>5 DEF Written, DiskType, Contents

\* Where the writer of a file that is opened stands.
LEMMA PartLenType ==
  ASSUME DiskType, NEW k \in Keys
  PROVE  PartLen(k) \in Offsets
<1>1. CASE part[k] = 0
  BY <1>1, ConstantsAssumption DEF PartLen, Offsets
<1>2. CASE part[k] # 0
  <2>1. data[part[k]] \in Contents
    BY <1>2 DEF DiskType
  <2>2. Len(data[part[k]].units) \in Nat /\ Len(data[part[k]].units) <= Size
    BY <2>1 DEF Contents
  <2> QED
    BY <1>2, <2>2, ConstantsAssumption DEF PartLen, Offsets
<1> QED
  BY <1>1, <1>2

\* A new file gets an inode nothing else has.
LEMMA NewInodeFree ==
  ASSUME Free # {}
  PROVE  /\ NewInode \in Inodes
         /\ \A k \in Keys : part[k] # NewInode
         /\ \A p \in Paths : finals[p] # NewInode
<1>1. NewInode \in Free
  BY DEF NewInode
<1> QED
  BY <1>1 DEF Free, InUse

LEMMA OpenPartType ==
  ASSUME DiskType, SidecarType, FilesKeyed, NEW c \in Conns, NEW k \in Keys, OpenPart(c, k)
  PROVE  DiskType' /\ FilesKeyed' /\ writer' \in [Conns -> Writers]
<1> DEFINE i == IF part[k] = 0 THEN NewInode ELSE part[k]
<1>1. /\ part' = [part EXCEPT ![k] = i]
      /\ data' = IF part[k] = 0 THEN [data EXCEPT ![i] = [key |-> k, units |-> <<>>]] ELSE data
      /\ writer' = [writer EXCEPT ![c] =
                      [key |-> k, inode |-> i, offset |-> PartLen(k), pos |-> PartLen(k)]]
      /\ finals' = finals
  BY DEF OpenPart
<1>2. i \in Inodes
  BY NewInodeFree DEF OpenPart, DiskType
<1>3. [key |-> k, units |-> <<>>] \in Contents
  BY ConstantsAssumption DEF Contents
<1>4. DiskType'
  BY <1>1, <1>2, <1>3 DEF DiskType
<1>5. writer' \in [Conns -> Writers]
  <2>1. [key |-> k, inode |-> i, offset |-> PartLen(k), pos |-> PartLen(k)] \in Writers
    BY <1>2, PartLenType DEF Writers, Offsets
  <2> QED
    BY <1>1, <2>1 DEF SidecarType
<1>6. FilesKeyed'
  <2>1. CASE part[k] = 0
    <3>1. Free # {}
      BY <2>1 DEF OpenPart
    <3>2. /\ data'[i].key = k
          /\ \A j \in Inodes \ {i} : data'[j] = data[j]
      BY <1>1, <1>2, <2>1 DEF DiskType
    <3>3. /\ \A l \in Keys \ {k} : part'[l] # 0 => part'[l] \in Inodes \ {i} /\ part'[l] = part[l]
          /\ part'[k] = i
          /\ \A p \in Paths : finals'[p] # 0 => finals'[p] \in Inodes \ {i} /\ finals'[p] = finals[p]
      BY <1>1, <2>1, <3>1, NewInodeFree DEF DiskType
    <3> QED
      BY <3>2, <3>3 DEF FilesKeyed
  <2>2. CASE part[k] # 0
    BY <1>1, <2>2 DEF FilesKeyed, DiskType
  <2> QED
    BY <2>1, <2>2
<1> QED
  BY <1>4, <1>5, <1>6

-----------------------------------------------------------------------------
(* What several actions do. *)

LEMMA TeardownType ==
  ASSUME TypeInv, NEW c \in Conns, Teardown(c)
  PROVE  /\ SidecarType' /\ JobKeyed'
         /\ inbox' \in [Conns -> Seq(Frames)]
         /\ ack' \in [Conns -> Offsets]
         /\ reply' \in [kind : Kinds, offset : Offsets]
         /\ cur' \in Conns \cup {NoConn}
         /\ task' \in TaskType
         /\ TaskKeyed'
<1> USE Values DEF TypeInv, Teardown
<1>1. SidecarType'
  BY DEF SidecarType, PCs
<1>2. JobKeyed'
  BY DEF JobKeyed, SidecarType
<1>3. inbox' \in [Conns -> Seq(Frames)]
  BY DEF WireType
<1>4. ack' \in [Conns -> Offsets]
  BY DEF WireType
<1>5. reply' \in [kind : Kinds, offset : Offsets]
  BY DEF WireType
<1>6. /\ cur' \in Conns \cup {NoConn}
      /\ task' \in TaskType
  BY DEF PhoneType
<1>7. TaskKeyed'
  BY DEF TaskKeyed, NoTask
<1> QED
  BY <1>1, <1>2, <1>3, <1>4, <1>5, <1>6, <1>7

LEMMA PauseType ==
  ASSUME StoreType, SidecarType, WireType, NEW c \in Conns, NEW k \in Keys, Pause(c, k)
  PROVE  /\ row' \in [Keys -> Rows]
         /\ writer' \in [Conns -> Writers]
         /\ ack' \in [Conns -> Offsets]
<1>1. writer[c].offset \in Offsets
  BY DEF SidecarType, Writers
<1>2. PausedRow(row[k], writer[c].offset) \in Rows
  BY <1>1, RowTypes DEF StoreType
<1> QED
  BY <1>2, Values DEF Pause, StoreType, SidecarType, WireType

-----------------------------------------------------------------------------
(* The steps.  A step that leaves a group of variables alone keeps its part. *)

LEMMA InitType == Init => TypeInv
<1> SUFFICES ASSUME Init PROVE TypeInv
  OBVIOUS
<1> USE Values DEF Init
<1>1. PhoneType /\ TaskKeyed
  BY DEF PhoneType, TaskKeyed, NoTask
<1>2. WireType
  BY DEF WireType
<1>3. SidecarType /\ JobKeyed
  BY DEF SidecarType, JobKeyed, PCs
<1>4. Empty \in Contents
  BY ConstantsAssumption DEF Empty, Contents
<1>5. DiskType /\ FilesKeyed
  BY <1>4 DEF DiskType, FilesKeyed
<1>6. StoreType /\ BudgetType
  BY ConstantsAssumption DEF StoreType, BudgetType
<1> QED
  BY <1>1, <1>2, <1>3, <1>5, <1>6 DEF TypeInv

LEMMA FileInitType ==
  ASSUME TypeInv, NEW c \in Conns, FileInit(c)
  PROVE  TypeInv'
<1>1. ASSUME FileInitReject(c) PROVE TypeInv'
  <2>1. WireType'
    BY <1>1, TakeFrameType, RespondType, Values
       DEF FileInitReject, TypeInv, WireType, Kinds
  <2>2. BudgetType'
    BY <1>1, SpendType DEF FileInitReject, TypeInv
  <2> QED
    BY <1>1, <2>1, <2>2
       DEF FileInitReject, TypeInv, PhoneType, SidecarType, DiskType, StoreType, TaskKeyed,
           JobKeyed, FilesKeyed, phoneVars, sidecarVars, diskVars, storeVars
<1>2. ASSUME FileInitRead(c) PROVE TypeInv'
  <2> DEFINE k == Head(inbox[c]).key
             j == [NoJob EXCEPT !.key = k,
                     !.existing = IF row[k].status = "completed" THEN NoRow ELSE row[k]]
  <2>1. k \in Keys
    BY <1>2, HeadOfInbox, FrameFields DEF FileInitRead, TypeInv
  <2>2. j \in Jobs /\ j.key \in Keys
    BY <2>1, Values DEF TypeInv, StoreType, Jobs, NoJob
  <2>3. WireType'
    <3>1. reply' \in [kind : Kinds, offset : Offsets]
      BY <1>2, RespondType, Values DEF FileInitRead, TypeInv, WireType, Kinds
    <3> QED
      BY <1>2, <3>1, TakeFrameType DEF FileInitRead, TypeInv, WireType
  <2>4. \/ UNCHANGED <<pc, job>>
        \/ pc' = [pc EXCEPT ![c] = "init.open"] /\ job' = [job EXCEPT ![c] = j]
    BY <1>2 DEF FileInitRead
  <2>5. SidecarType' /\ JobKeyed'
    <3> HIDE DEF j
    <3> QED
      BY <1>2, <2>2, <2>4 DEF FileInitRead, TypeInv, SidecarType, JobKeyed, PCs
  <2> QED
    BY <1>2, <2>3, <2>5
       DEF FileInitRead, TypeInv, PhoneType, DiskType, StoreType, BudgetType, TaskKeyed,
           FilesKeyed, phoneVars, diskVars, storeVars
<1>3. ASSUME FileInitResume(c) PROVE TypeInv'
  <2> DEFINE k == job[c].key
             o == ResumeOffset(c, k)
  <2>1. k \in Keys
    BY <1>3 DEF FileInitResume, TypeInv, JobKeyed
  <2>2. o \in Offsets
    BY <2>1, PartLenType, ConstantsAssumption DEF TypeInv, ResumeOffset, MinOf, Offsets
  <2>3. /\ OpenPart(c, k) /\ Respond(c, "RESUME", o)
        /\ row' = IF o = job[c].existing.committed THEN row
                  ELSE [row EXCEPT ![k] = ProgressRow(@, o)]
        /\ ack' = [ack EXCEPT ![c] = o]
        /\ pc' = [pc EXCEPT ![c] = "ready"] /\ job' = [job EXCEPT ![c] = NoJob]
        /\ UNCHANGED <<phoneVars, inbox, counted, budget, userLost>>
    BY <1>3 DEF FileInitResume
  <2> HIDE DEF o
  <2>4. DiskType' /\ FilesKeyed' /\ writer' \in [Conns -> Writers]
    BY <2>1, <2>3, OpenPartType DEF TypeInv
  <2>5. SidecarType' /\ JobKeyed'
    BY <2>3, <2>4, Values DEF TypeInv, SidecarType, JobKeyed, PCs
  <2>6. WireType'
    BY <2>2, <2>3, RespondType DEF TypeInv, WireType, Kinds
  <2>7. StoreType'
    <3>1. ProgressRow(row[k], o) \in Rows
      BY <2>1, <2>2, RowTypes DEF TypeInv, StoreType
    <3> QED
      BY <2>3, <3>1 DEF TypeInv, StoreType
  <2> QED
    BY <2>3, <2>4, <2>5, <2>6, <2>7 DEF TypeInv, PhoneType, BudgetType, TaskKeyed, phoneVars
<1>4. ASSUME FileInitUpload(c) PROVE TypeInv'
  <2> DEFINE k == job[c].key
  <2>1. k \in Keys
    BY <1>4 DEF FileInitUpload, TypeInv, JobKeyed
  <2>2. /\ OpenPart(c, k) /\ Respond(c, "UPLOAD", 0)
        /\ row' = [row EXCEPT ![k] = Fresh]
        /\ ack' = [ack EXCEPT ![c] = 0]
        /\ pc' = [pc EXCEPT ![c] = "ready"] /\ job' = [job EXCEPT ![c] = NoJob]
        /\ UNCHANGED <<phoneVars, inbox, counted, budget, userLost>>
    BY <1>4 DEF FileInitUpload
  <2>3. DiskType' /\ FilesKeyed' /\ writer' \in [Conns -> Writers]
    BY <2>1, <2>2, OpenPartType DEF TypeInv
  <2>4. SidecarType' /\ JobKeyed'
    BY <2>2, <2>3, Values DEF TypeInv, SidecarType, JobKeyed, PCs
  <2>5. WireType'
    BY <2>2, RespondType, Values DEF TypeInv, WireType, Kinds
  <2>6. StoreType'
    BY <2>2, Values DEF TypeInv, StoreType
  <2> QED
    BY <2>2, <2>3, <2>4, <2>5, <2>6 DEF TypeInv, PhoneType, BudgetType, TaskKeyed, phoneVars
<1>5. ASSUME FileInitError(c) PROVE TypeInv'
  <2>1. /\ SidecarType' /\ JobKeyed' /\ WireType' /\ PhoneType' /\ TaskKeyed'
    BY <1>5, TeardownType DEF FileInitError, TypeInv, WireType, PhoneType
  <2>2. BudgetType'
    BY <1>5, SpendType DEF FileInitError, TypeInv
  <2>3. StoreType'
    BY <1>5, Values DEF FileInitError, TypeInv, StoreType
  <2> QED
    BY <1>5, <2>1, <2>2, <2>3 DEF FileInitError, TypeInv, DiskType, FilesKeyed, diskVars
<1> QED
  BY <1>1, <1>2, <1>3, <1>4, <1>5 DEF FileInit

LEMMA FileDataType ==
  ASSUME TypeInv, NEW c \in Conns, FileData(c)
  PROVE  TypeInv'
<1> DEFINE f == Head(inbox[c])
<1>1. inbox[c] # <<>> /\ f \in Frames
  BY HeadOfInbox
     DEF FileData, FileDataWrite, FileDataPause, FileDataDiskFull, FileDataError, DataFor, TypeInv
<1>2. /\ f.key \in Keys /\ f.offset \in Offsets /\ f.len \in Offsets /\ f.offset + f.len <= Size
      /\ Size \in Nat
  BY <1>1, FrameFields, ConstantsAssumption
<1>3. /\ writer[c] \in Writers /\ writer[c].offset \in Offsets /\ writer[c].pos \in Offsets
      /\ writer[c].pos <= writer[c].offset
  BY DEF TypeInv, SidecarType, Writers
<1>4. ASSUME FileDataWrite(c) PROVE TypeInv'
  <2> DEFINE o == MaxOf(writer[c].offset, f.offset + f.len)
             p == IF f.offset = writer[c].offset THEN writer[c].pos + f.len ELSE writer[c].pos
  <2>1. o \in Offsets /\ p \in Offsets /\ p <= o
    BY <1>2, <1>3 DEF MaxOf, Offsets
  <2>2. /\ data' = Written(c, f, f.len)
        /\ writer' = [writer EXCEPT ![c].offset = o, ![c].pos = p]
        /\ ack' = [ack EXCEPT ![c] = o]
        /\ row' = row \/ row' = [row EXCEPT ![f.key] = ProgressRow(@, o)]
        /\ TakeFrame(c)
        /\ UNCHANGED <<phoneVars, reply, pc, job, part, finals, counted, budget, userLost>>
    BY <1>4 DEF FileDataWrite
  <2>3. DiskType' /\ FilesKeyed'
    <3>1. /\ data' \in [Inodes -> Contents]
          /\ \A i \in Inodes : data'[i].key = data[i].key
      BY <1>1, <1>2, <2>2, WrittenType DEF TypeInv, Offsets
    <3> QED
      BY <2>2, <3>1 DEF TypeInv, DiskType, FilesKeyed
  <2>4. SidecarType'
    <3>1. [writer[c] EXCEPT !.offset = o, !.pos = p] \in Writers
      BY <1>3, <2>1 DEF Writers
    <3> HIDE DEF o, p
    <3>2. writer' = [writer EXCEPT ![c] = [writer[c] EXCEPT !.offset = o, !.pos = p]]
      BY <2>2 DEF TypeInv, SidecarType
    <3> QED
      BY <2>2, <3>1, <3>2 DEF TypeInv, SidecarType
  <2> HIDE DEF o, p
  <2>5. WireType'
    BY <1>1, <2>1, <2>2, TakeFrameType DEF TypeInv, WireType
  <2>6. StoreType'
    BY <1>2, <2>1, <2>2, RowTypes DEF TypeInv, StoreType
  <2> QED
    BY <2>2, <2>3, <2>4, <2>5, <2>6 DEF TypeInv, PhoneType, BudgetType, TaskKeyed, JobKeyed, phoneVars
<1>5. ASSUME FileDataPause(c) \/ FileDataDiskFull(c) PROVE TypeInv'
  <2>1. /\ Pause(c, f.key) /\ TakeFrame(c) /\ Respond(c, "ERROR", 0)
        /\ UNCHANGED <<phoneVars, pc, job, part, finals, counted, userLost>>
        /\ UNCHANGED budget \/ Spend("faults")
        /\ UNCHANGED data \/ \E n \in 1 .. f.len - 1 : data' = Written(c, f, n)
    BY <1>5 DEF FileDataPause, FileDataDiskFull, PauseAnswer, diskVars
  <2>2. DiskType' /\ FilesKeyed'
    <3>1. CASE UNCHANGED data
      BY <2>1, <3>1 DEF TypeInv, DiskType, FilesKeyed
    <3>2. CASE \E n \in 1 .. f.len - 1 : data' = Written(c, f, n)
      <4>1. PICK n \in 1 .. f.len - 1 : data' = Written(c, f, n)
        BY <3>2
      <4>2. n \in Nat /\ n <= f.len
        BY <1>2 DEF Offsets
      <4>3. /\ data' \in [Inodes -> Contents]
            /\ \A i \in Inodes : data'[i].key = data[i].key
        BY <1>1, <4>1, <4>2, WrittenType DEF TypeInv
      <4> QED
        BY <2>1, <4>3 DEF TypeInv, DiskType, FilesKeyed
    <3> QED
      BY <2>1, <3>1, <3>2
  <2>3. /\ row' \in [Keys -> Rows] /\ writer' \in [Conns -> Writers]
        /\ ack' \in [Conns -> Offsets]
    BY <1>2, <2>1, PauseType DEF TypeInv
  <2>4. WireType'
    BY <1>1, <2>1, <2>3, TakeFrameType, RespondType, Values DEF TypeInv, WireType, Kinds
  <2>5. BudgetType'
    BY <2>1, SpendType DEF TypeInv, BudgetType
  <2> QED
    BY <2>1, <2>2, <2>3, <2>4, <2>5
       DEF TypeInv, PhoneType, SidecarType, StoreType, TaskKeyed, JobKeyed, phoneVars
<1>6. ASSUME FileDataError(c) PROVE TypeInv'
  <2>1. /\ SidecarType' /\ JobKeyed' /\ WireType' /\ PhoneType' /\ TaskKeyed'
    BY <1>6, TeardownType DEF FileDataError, TypeInv, WireType, PhoneType
  <2>2. BudgetType'
    BY <1>6, SpendType DEF FileDataError, TypeInv
  <2> QED
    BY <1>6, <2>1, <2>2 DEF FileDataError, TypeInv, DiskType, StoreType, FilesKeyed, diskVars, storeVars
<1> QED
  BY <1>4, <1>5, <1>6 DEF FileData

\* The end of a file up to the hash: what is read from the inbox.
LEMMA FileEndReadType ==
  ASSUME TypeInv, NEW c \in Conns,
         FileEndVerify(c) \/ FileEndMismatch(c) \/ FileEndHashError(c) \/ FileEndUnavailable(c)
  PROVE  TypeInv'
<1> DEFINE f == Head(inbox[c])
<1>1. /\ pc[c] = "ready" /\ inbox[c] # <<>> /\ TakeFrame(c)
  BY DEF FileEndVerify, FileEndMismatch, FileEndHashError, FileEndUnavailable, EndFor
<1>2. f.key \in Keys /\ f.sha \in BOOLEAN
  BY <1>1, HeadOfInbox, FrameFields DEF TypeInv
<1>3. writer[c].offset \in Offsets
  BY DEF TypeInv, SidecarType, Writers
<1>4. ProgressRow(row[f.key], writer[c].offset) \in Rows
  BY <1>2, <1>3, RowTypes DEF TypeInv, StoreType
<1>5. ASSUME FileEndVerify(c) PROVE TypeInv'
  <2> DEFINE j == [NoJob EXCEPT !.key = f.key, !.sha = f.sha]
  <2>1. /\ row' = [row EXCEPT ![f.key] = ProgressRow(@, writer[c].offset)]
        /\ pc' = [pc EXCEPT ![c] = "end.place"] /\ job' = [job EXCEPT ![c] = j]
        /\ UNCHANGED <<phoneVars, reply, ack, writer, diskVars, counted, budget, userLost>>
    BY <1>5 DEF FileEndVerify
  <2>2. j \in Jobs /\ j.key \in Keys
    BY <1>2, Values DEF Jobs, NoJob
  <2> HIDE DEF j
  <2>3. SidecarType' /\ JobKeyed'
    BY <2>1, <2>2 DEF TypeInv, SidecarType, JobKeyed, PCs
  <2>4. WireType' /\ StoreType'
    BY <1>1, <1>4, <2>1, TakeFrameType DEF TypeInv, WireType, StoreType
  <2> QED
    BY <2>1, <2>3, <2>4
       DEF TypeInv, PhoneType, DiskType, BudgetType, TaskKeyed, FilesKeyed, phoneVars, diskVars
<1>6. ASSUME FileEndMismatch(c) \/ FileEndHashError(c) PROVE TypeInv'
  <2>1. /\ part' = [part EXCEPT ![f.key] = 0]
        /\ \/ row' = [row EXCEPT ![f.key] = Failed]
           \/ row' = [row EXCEPT ![f.key] = ProgressRow(@, writer[c].offset)]
        /\ writer' = [writer EXCEPT ![c] = NoWriter] /\ ack' = [ack EXCEPT ![c] = 0]
        /\ Respond(c, "END_FAIL", 0)
        /\ UNCHANGED <<phoneVars, pc, job, finals, data, counted, userLost>>
        /\ UNCHANGED budget \/ Spend("faults")
    BY <1>6 DEF FileEndMismatch, FileEndHashError
  <2>2. WireType' /\ StoreType'
    <3>1. StoreType'
      BY <1>4, <2>1, Values DEF TypeInv, StoreType
    <3>2. inbox' \in [Conns -> Seq(Frames)]
      BY <1>1, TakeFrameType DEF TypeInv
    <3>3. reply' \in [kind : Kinds, offset : Offsets]
      BY <2>1, RespondType, Values DEF TypeInv, Kinds
    <3>4. ack' \in [Conns -> Offsets]
      BY <2>1, Values DEF TypeInv, WireType
    <3> QED
      BY <3>1, <3>2, <3>3, <3>4 DEF WireType
  <2>3. SidecarType' /\ JobKeyed'
    BY <2>1, Values DEF TypeInv, SidecarType, JobKeyed
  <2>4. DiskType' /\ FilesKeyed'
    BY <1>2, <2>1 DEF TypeInv, DiskType, FilesKeyed
  <2>5. BudgetType'
    BY <2>1, SpendType DEF TypeInv, BudgetType
  <2> QED
    BY <2>1, <2>2, <2>3, <2>4, <2>5 DEF TypeInv, PhoneType, TaskKeyed, phoneVars
<1>7. ASSUME FileEndUnavailable(c) PROVE TypeInv'
  <2>1. /\ Pause(c, f.key) /\ Respond(c, "END_FAIL", 0)
        /\ UNCHANGED <<phoneVars, pc, job, diskVars, counted, userLost>>
        /\ UNCHANGED budget \/ Spend("faults")
    BY <1>7 DEF FileEndUnavailable
  <2>2. /\ row' \in [Keys -> Rows] /\ writer' \in [Conns -> Writers]
        /\ ack' \in [Conns -> Offsets]
    BY <1>2, <2>1, PauseType DEF TypeInv
  <2>3. WireType'
    BY <1>1, <2>1, <2>2, TakeFrameType, RespondType, Values DEF TypeInv, WireType, Kinds
  <2>4. BudgetType'
    BY <2>1, SpendType DEF TypeInv, BudgetType
  <2> QED
    BY <2>1, <2>2, <2>3, <2>4
       DEF TypeInv, PhoneType, SidecarType, DiskType, StoreType, TaskKeyed, JobKeyed, FilesKeyed,
           phoneVars, diskVars
<1> QED
  BY <1>5, <1>6, <1>7

\* The end of a file from the choice of its name on: what the job remembers.
LEMMA FileEndPlaceType ==
  ASSUME TypeInv, NEW c \in Conns,
         \/ FileEndPlace(c) \/ FileEndMove(c) \/ FileEndUnplaced(c)
         \/ FileEndNoDirName(c) \/ FileEndComplete(c) \/ FileEndStats(c)
  PROVE  TypeInv'
<1> DEFINE k == job[c].key
<1>1. pc[c] \in {"end.place", "end.move", "end.complete", "end.stats"}
  BY DEF FileEndPlace, FileEndMove, FileEndUnplaced, FileEndNoDirName, FileEndComplete, FileEndStats
<1>2. k \in Keys /\ job[c] \in Jobs
  BY <1>1 DEF TypeInv, JobKeyed, SidecarType
<1>3. ASSUME FileEndPlace(c) PROVE TypeInv'
  <2>1. FinalPath(k) \in Paths
    BY <1>2, ConstantsAssumption DEF FinalPath, Plain, Suffixed, Paths
  <2>2. [job[c] EXCEPT !.path = FinalPath(k)] \in Jobs
    BY <1>2, <2>1 DEF Jobs
  <2>3. /\ job' = [job EXCEPT ![c] = [job[c] EXCEPT !.path = FinalPath(k)]]
        /\ pc' = [pc EXCEPT ![c] = "end.move"]
        /\ UNCHANGED <<phoneVars, wireVars, writer, diskVars, storeVars, budget, userLost>>
    BY <1>3 DEF FileEndPlace, TypeInv, SidecarType
  <2>4. SidecarType'
    BY <2>2, <2>3 DEF TypeInv, SidecarType, PCs
  <2>5. JobKeyed'
    <3>1. \A d \in Conns : job'[d].key = job[d].key
      BY <2>3 DEF TypeInv, SidecarType, Jobs
    <3> QED
      BY <1>1, <2>3, <3>1 DEF TypeInv, JobKeyed, SidecarType
  <2> QED
    BY <2>3, <2>4, <2>5
       DEF TypeInv, PhoneType, WireType, DiskType, StoreType, BudgetType, TaskKeyed, FilesKeyed,
           phoneVars, wireVars, diskVars, storeVars
<1>4. ASSUME FileEndMove(c) PROVE TypeInv'
  <2>1. /\ part[k] # 0
        /\ finals' = [finals EXCEPT ![job[c].path] = part[k]]
        /\ part' = [part EXCEPT ![k] = 0]
        /\ pc' = [pc EXCEPT ![c] = "end.complete"] /\ pc[c] = "end.move"
        /\ UNCHANGED <<phoneVars, wireVars, job, writer, data, storeVars, budget, userLost>>
    BY <1>4 DEF FileEndMove
  <2>2. DiskType' /\ FilesKeyed'
    BY <1>2, <2>1 DEF TypeInv, DiskType, FilesKeyed
  <2>3. SidecarType' /\ JobKeyed'
    BY <2>1 DEF TypeInv, SidecarType, JobKeyed, PCs
  <2> QED
    BY <2>1, <2>2, <2>3
       DEF TypeInv, PhoneType, WireType, StoreType, BudgetType, TaskKeyed,
           phoneVars, wireVars, storeVars
<1>5. ASSUME FileEndUnplaced(c) PROVE TypeInv'
  <2>1. /\ Pause(c, k) /\ Respond(c, "END_FAIL", 0)
        /\ pc' = [pc EXCEPT ![c] = "ready"] /\ job' = [job EXCEPT ![c] = NoJob]
        /\ UNCHANGED <<phoneVars, inbox, diskVars, counted, userLost>>
        /\ UNCHANGED budget \/ Spend("faults")
    BY <1>5 DEF FileEndUnplaced, UnplacedAnswer
  <2>2. /\ row' \in [Keys -> Rows] /\ writer' \in [Conns -> Writers]
        /\ ack' \in [Conns -> Offsets]
    BY <1>2, <2>1, PauseType DEF TypeInv
  <2>3. WireType'
    BY <2>1, <2>2, RespondType, Values DEF TypeInv, WireType, Kinds
  <2>4. SidecarType' /\ JobKeyed'
    BY <2>1, <2>2, Values DEF TypeInv, SidecarType, JobKeyed, PCs
  <2>5. BudgetType'
    BY <2>1, SpendType DEF TypeInv, BudgetType
  <2> QED
    BY <2>1, <2>2, <2>3, <2>4, <2>5
       DEF TypeInv, PhoneType, DiskType, StoreType, TaskKeyed, FilesKeyed, phoneVars, diskVars
<1>6. ASSUME FileEndNoDirName(c) PROVE TypeInv'
  <2>1. /\ SidecarType' /\ JobKeyed' /\ WireType' /\ PhoneType' /\ TaskKeyed'
    BY <1>6, TeardownType DEF FileEndNoDirName, TypeInv, WireType, PhoneType
  <2>2. BudgetType'
    BY <1>6, SpendType DEF FileEndNoDirName, TypeInv
  <2> QED
    BY <1>6, <2>1, <2>2 DEF FileEndNoDirName, TypeInv, DiskType, StoreType, FilesKeyed, diskVars, storeVars
<1>7. ASSUME FileEndComplete(c) PROVE TypeInv'
  <2> DEFINE r == IF row[k].status = "none" THEN row[k]
                  ELSE [row[k] EXCEPT !.status = "completed", !.path = job[c].path,
                                      !.sha = job[c].sha]
  <2>1. r \in Rows
    BY <1>2 DEF TypeInv, StoreType, Rows, Statuses, Jobs
  <2>2. /\ UNCHANGED row \/ row' = [row EXCEPT ![k] = r]
        /\ UNCHANGED budget \/ Spend("faults")
        /\ pc' = [pc EXCEPT ![c] = "end.stats"] /\ pc[c] = "end.complete"
        /\ UNCHANGED <<phoneVars, wireVars, job, writer, diskVars, counted, userLost>>
    BY <1>2, <1>7 DEF FileEndComplete, TypeInv, StoreType
  <2> HIDE DEF r
  <2>3. StoreType'
    BY <2>1, <2>2 DEF TypeInv, StoreType
  <2>4. BudgetType'
    BY <2>2, SpendType DEF TypeInv, BudgetType
  <2>5. SidecarType' /\ JobKeyed'
    BY <2>2 DEF TypeInv, SidecarType, JobKeyed, PCs
  <2> QED
    BY <2>2, <2>3, <2>4, <2>5
       DEF TypeInv, PhoneType, WireType, DiskType, TaskKeyed, FilesKeyed,
           phoneVars, wireVars, diskVars
<1>8. ASSUME FileEndStats(c) PROVE TypeInv'
  <2>1. /\ counted' = [counted EXCEPT ![k] = @ + 1] /\ Respond(c, "END_OK", 0)
        /\ pc' = [pc EXCEPT ![c] = "ready"] /\ job' = [job EXCEPT ![c] = NoJob]
        /\ writer' = [writer EXCEPT ![c] = NoWriter] /\ ack' = [ack EXCEPT ![c] = 0]
        /\ UNCHANGED <<phoneVars, inbox, diskVars, row, budget, userLost>>
    BY <1>8 DEF FileEndStats
  <2>2. WireType'
    BY <2>1, RespondType, Values DEF TypeInv, WireType, Kinds
  <2>3. SidecarType' /\ JobKeyed'
    BY <2>1, Values DEF TypeInv, SidecarType, JobKeyed, PCs
  <2>4. StoreType'
    BY <1>2, <2>1 DEF TypeInv, StoreType
  <2> QED
    BY <2>1, <2>2, <2>3, <2>4
       DEF TypeInv, PhoneType, DiskType, BudgetType, TaskKeyed, FilesKeyed, phoneVars, diskVars
<1> QED
  BY <1>3, <1>4, <1>5, <1>6, <1>7, <1>8

-----------------------------------------------------------------------------
(* The phone and the environment. *)

\* A frame is only ever added to the inbox of a connection.
LEMMA SendType ==
  ASSUME WireType, cur \in Conns, NEW f \in Frames, Send(f)
  PROVE  inbox' \in [Conns -> Seq(Frames)]
<1>1. Append(inbox[cur], f) \in Seq(Frames)
  BY AppendProperties DEF WireType
<1> QED
  BY <1>1 DEF WireType, Send

LEMMA PhoneSendType ==
  ASSUME TypeInv, (\E k \in Keys : PhoneInit(k)) \/ PhoneData \/ PhoneEnd
  PROVE  TypeInv'
<1>1. cur \in Conns /\ cur # NoConn /\ task \in TaskType
  <2>1. cur # NoConn
    BY DEF TypeInv, TaskKeyed, PhoneInit, PhoneData, PhoneEnd
  <2> QED
    BY <2>1 DEF TypeInv, PhoneType, TaskType
<1>2. UNCHANGED <<item, cur, reply, ack, sidecarVars, diskVars, storeVars, budget, userLost>>
  BY DEF PhoneInit, PhoneData, PhoneEnd
<1>3. /\ inbox' \in [Conns -> Seq(Frames)]
      /\ task' \in TaskType /\ TaskKeyed'
  <2>1. CASE \E k \in Keys : PhoneInit(k)
    <3>1. PICK k \in Keys : PhoneInit(k)
      BY <2>1
    <3>2. InitFrame(k) \in Frames
      BY FrameKinds
    <3>3. inbox' \in [Conns -> Seq(Frames)]
      BY <1>1, <3>1, <3>2, SendType DEF PhoneInit, TypeInv
    <3>4. task' \in TaskType /\ TaskKeyed'
      BY <3>1, Values DEF PhoneInit, NoTask, TaskType, TaskKeyed
    <3> QED
      BY <3>3, <3>4
  <2>2. CASE PhoneData
    <3> DEFINE n == MinOf(task.chunk, Size - task.next)
    <3>1. task.key \in Keys
      BY <2>2 DEF PhoneData, TypeInv, TaskKeyed
    <3>2. /\ n \in Units /\ task.next + n <= Size /\ task.next \in Offsets
          /\ task.next + n \in Offsets
      BY <1>1, <2>2, ConstantsAssumption DEF PhoneData, TaskType, MinOf, Units, Offsets
    <3>3. /\ Send(DataFrame(task.key, task.next, n))
          /\ task' = [task EXCEPT !.next = task.next + n]
      BY <2>2 DEF PhoneData
    <3> HIDE DEF n
    <3>4. DataFrame(task.key, task.next, n) \in Frames
      BY <3>1, <3>2, FrameKinds
    <3>5. inbox' \in [Conns -> Seq(Frames)]
      BY <1>1, <3>3, <3>4, SendType DEF TypeInv
    <3>6. task' \in TaskType /\ TaskKeyed'
      BY <1>1, <1>2, <3>1, <3>2, <3>3 DEF TaskType, TaskKeyed
    <3> QED
      BY <3>5, <3>6
  <2>3. CASE PhoneEnd
    <3>1. task.key \in Keys
      BY <2>3 DEF PhoneEnd, TypeInv, TaskKeyed
    <3>2. PICK h \in Hashing : Send(EndFrame(task.key, h))
      BY <2>3 DEF PhoneEnd
    <3>3. EndFrame(task.key, h) \in Frames
      BY <3>1, FrameKinds, ConstantsAssumption
    <3>4. inbox' \in [Conns -> Seq(Frames)]
      BY <1>1, <3>2, <3>3, SendType DEF TypeInv
    <3>5. task' \in TaskType /\ TaskKeyed'
      BY <1>1, <1>2, <2>3, <3>1 DEF PhoneEnd, TaskType, TaskKeyed
    <3> QED
      BY <3>4, <3>5
  <2> QED
    BY <2>1, <2>2, <2>3
<1> QED
  BY <1>2, <1>3
     DEF TypeInv, PhoneType, TaskType, WireType, SidecarType, DiskType, StoreType, BudgetType,
         JobKeyed, FilesKeyed, sidecarVars, diskVars, storeVars

\* The phone takes an answer, or gives its connection up.
LEMMA PhoneAnswerType ==
  ASSUME TypeInv, PhoneInitRes \/ PhoneEndRes \/ PhoneError \/ PhoneDrop
  PROVE  TypeInv'
<1>1. task \in TaskType /\ NoTask \in TaskType /\ reply.offset \in Offsets
  BY Values DEF TypeInv, PhoneType, WireType, TaskType
<1>2. /\ reply' = NoReply
      /\ UNCHANGED <<ack, sidecarVars, diskVars, storeVars, userLost>>
  BY DEF PhoneInitRes, PhoneEndRes, PhoneError, PhoneDrop
<1>3. cur' \in Conns \cup {NoConn}
  BY DEF PhoneInitRes, PhoneEndRes, PhoneError, PhoneDrop, Refused, TypeInv, PhoneType
<1>4. item' \in [Keys -> {"queued", "completed"}]
  BY DEF PhoneInitRes, PhoneEndRes, PhoneError, PhoneDrop, TypeInv, PhoneType
<1>5. task' \in TaskType /\ TaskKeyed'
  <2>1. CASE task' = NoTask
    BY <1>1, <2>1 DEF TaskKeyed, NoTask
  <2>2. CASE PhoneInitRes /\ task' # NoTask
    <3>1. PICK n \in ChunkSizes :
            task' = [task EXCEPT !.phase = "data", !.next = reply.offset, !.chunk = n]
      BY <2>2 DEF PhoneInitRes
    <3>2. n \in Units
      BY ConstantsAssumption DEF Units
    <3>3. task.key \in Keys /\ cur # NoConn
      BY <2>2 DEF PhoneInitRes, TypeInv, TaskKeyed
    <3>4. cur' = cur
      BY <2>2 DEF PhoneInitRes
    <3> QED
      BY <1>1, <3>1, <3>4, <3>2, <3>3 DEF TaskType, TaskKeyed
  <2> QED
    BY <2>1, <2>2 DEF PhoneInitRes, PhoneEndRes, PhoneError, PhoneDrop
<1>6. inbox' \in [Conns -> Seq(Frames)] /\ BudgetType'
  <2>1. CASE PhoneDrop
    <3>1. PICK n \in 0 .. Len(inbox[cur]) :
            inbox' = [inbox EXCEPT ![cur] = SubSeq(inbox[cur], 1, n)]
      BY <2>1 DEF PhoneDrop
    <3>2. inbox[cur] \in Seq(Frames)
      BY <2>1 DEF PhoneDrop, TypeInv, PhoneType, WireType
    <3>3. SubSeq(inbox[cur], 1, n) \in Seq(Frames)
      BY <3>2, SubSeqProperties
    <3>4. BudgetType'
      BY <2>1, SpendType DEF PhoneDrop, TypeInv
    <3> QED
      BY <3>1, <3>3, <3>4 DEF TypeInv, WireType
  <2>2. CASE ~PhoneDrop
    BY <2>2 DEF PhoneInitRes, PhoneEndRes, PhoneError, TypeInv, WireType, BudgetType
  <2> QED
    BY <2>1, <2>2
<1> QED
  BY <1>2, <1>3, <1>4, <1>5, <1>6, Values
     DEF TypeInv, PhoneType, TaskType, WireType, SidecarType, DiskType, StoreType,
         JobKeyed, FilesKeyed, sidecarVars, diskVars, storeVars

LEMMA PhoneConnectType ==
  ASSUME TypeInv, NEW c \in Conns, PhoneConnect(c)
  PROVE  TypeInv'
<1>1. PhoneType' /\ TaskKeyed'
  BY DEF PhoneConnect, TypeInv, PhoneType, TaskKeyed
<1>2. SidecarType' /\ JobKeyed'
  BY DEF PhoneConnect, TypeInv, SidecarType, JobKeyed, PCs
<1> QED
  BY <1>1, <1>2 DEF PhoneConnect, TypeInv, WireType, DiskType, StoreType, BudgetType, FilesKeyed,
     wireVars, diskVars, storeVars

LEMMA EnvironmentType ==
  ASSUME TypeInv, Environment
  PROVE  TypeInv'
<1>1. ASSUME Crash PROVE TypeInv'
  <2>1. PhoneType' /\ TaskKeyed'
    BY <1>1, Values DEF Crash, TypeInv, PhoneType, TaskKeyed, NoTask
  <2>2. WireType'
    BY <1>1, Values DEF Crash, WireType
  <2>3. SidecarType' /\ JobKeyed'
    BY <1>1, Values DEF Crash, SidecarType, JobKeyed, PCs
  <2>4. BudgetType'
    BY <1>1, SpendType DEF Crash, TypeInv
  <2> QED
    BY <1>1, <2>1, <2>2, <2>3, <2>4
       DEF Crash, TypeInv, DiskType, StoreType, FilesKeyed, diskVars, storeVars
<1>2. ASSUME NEW k \in Keys, PhoneReoffer(k) PROVE TypeInv'
  <2>1. BudgetType'
    BY <1>2, SpendType DEF PhoneReoffer, TypeInv
  <2> QED
    BY <1>2, <2>1
       DEF PhoneReoffer, TypeInv, PhoneType, WireType, SidecarType, DiskType, StoreType, TaskKeyed,
           JobKeyed, FilesKeyed, wireVars, sidecarVars, diskVars, storeVars
<1>3. ASSUME NEW k \in Keys, PartVanishes(k) PROVE TypeInv'
  <2>1. BudgetType'
    BY <1>3, SpendType DEF PartVanishes, TypeInv
  <2>2. DiskType' /\ FilesKeyed'
    BY <1>3 DEF PartVanishes, TypeInv, DiskType, FilesKeyed
  <2> QED
    BY <1>3, <2>1, <2>2
       DEF PartVanishes, TypeInv, PhoneType, WireType, SidecarType, StoreType, TaskKeyed,
           JobKeyed, phoneVars, wireVars, sidecarVars, storeVars
<1>4. ASSUME NEW p \in Paths, UserDeletesFinal(p) PROVE TypeInv'
  <2>1. BudgetType'
    BY <1>4, SpendType DEF UserDeletesFinal, TypeInv
  <2>2. DiskType' /\ FilesKeyed'
    BY <1>4 DEF UserDeletesFinal, TypeInv, DiskType, FilesKeyed
  <2>3. userLost' \subseteq Keys
    BY <1>4 DEF UserDeletesFinal, TypeInv, FilesKeyed
  <2> QED
    BY <1>4, <2>1, <2>2, <2>3
       DEF UserDeletesFinal, TypeInv, PhoneType, WireType, SidecarType, StoreType, TaskKeyed,
           JobKeyed, phoneVars, wireVars, sidecarVars, storeVars
<1> QED
  BY <1>1, <1>2, <1>3, <1>4, PhoneAnswerType DEF Environment

-----------------------------------------------------------------------------
(* The theorem. *)

LEMMA ConnectionEndType ==
  ASSUME TypeInv, NEW c \in Conns, ProtocolError(c) \/ ReadEOF(c)
  PROVE  TypeInv'
<1>1. Teardown(c) /\ UNCHANGED <<item, diskVars, storeVars, budget, userLost>>
  BY DEF ProtocolError, ReadEOF
<1>2. SidecarType' /\ JobKeyed' /\ WireType' /\ PhoneType' /\ TaskKeyed'
  BY <1>1, TeardownType DEF TypeInv, WireType, PhoneType
<1> QED
  BY <1>1, <1>2 DEF TypeInv, DiskType, StoreType, BudgetType, FilesKeyed, diskVars, storeVars

LEMMA NextType == TypeInv /\ [Next]_vars => TypeInv'
<1> SUFFICES ASSUME TypeInv, [Next]_vars PROVE TypeInv'
  OBVIOUS
<1>1. ASSUME NEW c \in Conns, Sidecar(c) PROVE TypeInv'
  <2>1. CASE FileEnd(c)
    BY <2>1, FileEndReadType, FileEndPlaceType DEF FileEnd
  <2> QED
    BY <1>1, <2>1, FileInitType, FileDataType, ConnectionEndType DEF Sidecar
<1>2. CASE PhoneLoop
  BY <1>2, PhoneConnectType, PhoneSendType, PhoneAnswerType DEF PhoneLoop
<1>3. CASE Environment
  BY <1>3, EnvironmentType
<1>4. CASE UNCHANGED vars
  BY <1>4 DEF TypeInv, PhoneType, WireType, SidecarType, DiskType, StoreType, BudgetType, TaskKeyed,
     JobKeyed, FilesKeyed, vars, phoneVars, wireVars, sidecarVars, diskVars, storeVars
<1> QED
  BY <1>1, <1>2, <1>3, <1>4 DEF Next

LEMMA TypeInvariance == Spec => []TypeInv
<1> QED
  BY InitType, NextType, PTL DEF Spec

\* Whatever is lost, crashes or overlaps, no write of handleFileData goes beyond
\* the size FILE_INIT announced, no descriptor stands beyond its FileWriter's
\* offset, every FILE_ACK is an offset of the file, and every handler that has
\* read its frame knows a file of the phone: UploadReceiver keeps its types.
THEOREM ReceiverTypeCorrect == Spec => []TypeOK
<1> QED
  BY TypeInvariance, TypeInvType, PTL

-----------------------------------------------------------------------------
(* Prefixes. *)

\* One chunk is one unit: a restart from 0 meets a leftover file on a boundary.
Aligned == ChunkSizes = {1}

-----------------------------------------------------------------------------
(* The invariant.                                                            *)

\* What one connection has in its inbox is a piece of one upload: FILE_INIT
\* alone, or FILE_DATA without a gap and then at most one FILE_END.
Ordered(s) ==
  \A i \in 1 .. Len(s) :
    /\ s[i].type = "FILE_INIT" => Len(s) = 1
    /\ s[i].type = "FILE_END" => i = Len(s)
    /\ s[i].type = "FILE_DATA" => s[i].len = 1
    /\ s[i].type = "FILE_DATA" /\ i > 1 =>
         s[i - 1].type = "FILE_DATA" /\ s[i].offset = s[i - 1].offset + 1

\* It goes on where the writer stands, or before that, and it is about the
\* writer's file.
Fits(s, w) ==
  w # NoWriter =>
    /\ \A i \in 1 .. Len(s) : /\ s[i].type # "FILE_INIT" /\ s[i].key = w.key
                              /\ s[i].type = "FILE_END" => w.offset = Size
    /\ Len(s) > 0 /\ s[1].type = "FILE_DATA" => s[1].offset <= w.offset

\* A writer's offset and its descriptor agree and are within the file, and so
\* is what was acknowledged.
Placed(w, a) ==
  w # NoWriter =>
    /\ w.inode \in Inodes /\ w.pos = w.offset
    /\ a <= w.offset /\ w.offset <= Len(data[w.inode].units)

Ending == {"end.place", "end.move", "end.complete", "end.stats"}

\* A handler that is in the middle of something has taken the last frame.
Standing(c) ==
  /\ pc[c] # "ready" => inbox[c] = <<>>
  /\ pc[c] \in {"closed", "init.open"} => writer[c] = NoWriter
  /\ pc[c] \in Ending => /\ writer[c] # NoWriter
                         /\ writer[c].key = job[c].key /\ writer[c].offset = Size

ConnInv(c) ==
  /\ Ordered(inbox[c]) /\ Fits(inbox[c], writer[c])
  /\ Placed(writer[c], ack[c]) /\ Standing(c)

\* A file is the beginning of its source.
Prefix(s) == \A u \in 1 .. Len(s) : s[u] = u
FilesInv  == \A i \in Inodes : Prefix(data[i].units)

-----------------------------------------------------------------------------
(* The inbox. *)

\* A sequence with one element has a tail without positions.
LEMMA NoPosition == \A m, n : m = 1 /\ n = m - 1 => ~ \E i : i \in 1 .. n
OBVIOUS

LEMMA TailOrdered ==
  ASSUME NEW s \in Seq(Frames), s # <<>>, Ordered(s)
  PROVE  /\ Ordered(Tail(s)) /\ Head(s) = s[1] /\ Len(s) > 0 /\ Len(Tail(s)) = Len(s) - 1
         /\ Head(s).type \in {"FILE_INIT", "FILE_END"} => Tail(s) = <<>>
         /\ \A i \in 1 .. Len(Tail(s)) : Tail(s)[i] = s[i + 1] /\ i + 1 \in 1 .. Len(s)
         /\ \A i \in 1 .. Len(Tail(s)) : Tail(s)[i].type # "FILE_INIT"
         /\ Head(s).type = "FILE_DATA" /\ Len(Tail(s)) > 0 /\ Tail(s)[1].type = "FILE_DATA" =>
              Tail(s)[1].offset = Head(s).offset + 1
<1>1. /\ Len(Tail(s)) = Len(s) - 1 /\ Len(s) \in Nat /\ Len(s) > 0
      /\ \A i \in 1 .. Len(Tail(s)) : Tail(s)[i] = s[i + 1]
      /\ Tail(s) \in Seq(Frames)
  BY HeadTailProperties, LenProperties, EmptySeq
<1>2. Head(s) = s[1]
  OBVIOUS
<1>3. \A i \in 1 .. Len(Tail(s)) : Tail(s)[i] = s[i + 1] /\ i + 1 \in 1 .. Len(s)
  BY <1>1
<1>4. Ordered(Tail(s))
  <2> DEFINE t == Tail(s)
  <2>1. /\ Len(t) = Len(s) - 1 /\ Len(s) \in Nat
        /\ \A i \in 1 .. Len(t) : t[i] = s[i + 1] /\ i + 1 \in 1 .. Len(s)
    BY <1>1, <1>3
  <2> HIDE DEF t
  <2>2. ASSUME NEW i \in 1 .. Len(t)
        PROVE  /\ t[i].type = "FILE_INIT" => Len(t) = 1
               /\ t[i].type = "FILE_END" => i = Len(t)
               /\ t[i].type = "FILE_DATA" => t[i].len = 1
               /\ t[i].type = "FILE_DATA" /\ i > 1 =>
                    t[i - 1].type = "FILE_DATA" /\ t[i].offset = t[i - 1].offset + 1
    <3>1. /\ t[i].type = "FILE_INIT" => Len(s) = 1
          /\ t[i].type = "FILE_END" => i + 1 = Len(s)
          /\ t[i].type = "FILE_DATA" => t[i].len = 1
          /\ t[i].type = "FILE_DATA" =>
               s[i].type = "FILE_DATA" /\ t[i].offset = s[i].offset + 1
      <4>1. t[i] = s[i + 1] /\ i + 1 \in 1 .. Len(s) /\ (i + 1) - 1 = i /\ i + 1 > 1
        BY <2>1
      <4> QED
        BY <4>1 DEF Ordered
    <3>2. i > 1 => t[i - 1] = s[i]
      <4>1. i > 1 => i - 1 \in 1 .. Len(t) /\ (i - 1) + 1 = i
        BY <2>1
      <4> QED
        BY <2>1, <4>1
    <3> QED
      BY <2>1, <3>1, <3>2
  <2> QED
    BY <2>2 DEF t, Ordered
<1>5. Head(s).type \in {"FILE_INIT", "FILE_END"} => Len(s) = 1
  <2>1. 1 \in 1 .. Len(s)
    BY <1>1
  <2>2. (s[1].type = "FILE_INIT" => Len(s) = 1) /\ (s[1].type = "FILE_END" => 1 = Len(s))
    BY <2>1 DEF Ordered
  <2> QED
    BY <1>2, <2>2
<1>6. Len(s) = 1 => Tail(s) = <<>>
  <2>1. ASSUME Tail(s) # <<>> PROVE Len(Tail(s)) \in Nat \ {0}
    BY <1>1, <2>1, EmptySeq
  <2> QED
    BY <1>1, <2>1
<1>7. \A i \in 1 .. Len(Tail(s)) : Tail(s)[i].type # "FILE_INIT"
  <2> SUFFICES ASSUME NEW i \in 1 .. Len(Tail(s)), Tail(s)[i].type = "FILE_INIT"
               PROVE  FALSE
    OBVIOUS
  <2>1. i + 1 \in 1 .. Len(s) /\ s[i + 1].type = "FILE_INIT"
    BY <1>3
  <2>2. Len(s) = 1
    BY <2>1, Zenon DEF Ordered
  <2> QED
    BY <1>1, <2>2, NoPosition, Zenon
<1>8. Head(s).type = "FILE_DATA" /\ Len(Tail(s)) > 0 /\ Tail(s)[1].type = "FILE_DATA" =>
        Tail(s)[1].offset = Head(s).offset + 1
  <2> SUFFICES ASSUME Len(Tail(s)) > 0, Tail(s)[1].type = "FILE_DATA"
               PROVE  Tail(s)[1].offset = Head(s).offset + 1
    OBVIOUS
  <2>1. Tail(s)[1] = s[2] /\ 2 \in 1 .. Len(s) /\ 2 - 1 = 1
    <3>1. 1 \in 1 .. Len(Tail(s)) /\ 1 + 1 = 2 /\ 2 - 1 = 1
      BY <1>1
    <3> QED
      BY <1>3, <3>1
  <2> QED
    BY <1>2, <2>1 DEF Ordered
<1> QED
  BY <1>1, <1>2, <1>3, <1>4, <1>5, <1>6, <1>7, <1>8

\* What is left after a FILE_DATA fits the writer that wrote it.
LEMMA TailFits ==
  ASSUME NEW s \in Seq(Frames), s # <<>>, Ordered(s), NEW w, w # NoWriter, Fits(s, w),
         Head(s).type = "FILE_DATA",
         NEW v, v.key = w.key, v.offset \in Nat, v.offset <= Size,
         w.offset \in Nat, w.offset <= v.offset, Head(s).offset + 1 <= v.offset
  PROVE  Fits(Tail(s), v)
<1> SUFFICES ASSUME v # NoWriter
             PROVE  /\ \A i \in 1 .. Len(Tail(s)) :
                         /\ Tail(s)[i].type # "FILE_INIT" /\ Tail(s)[i].key = v.key
                         /\ Tail(s)[i].type = "FILE_END" => v.offset = Size
                    /\ Len(Tail(s)) > 0 /\ Tail(s)[1].type = "FILE_DATA" => Tail(s)[1].offset <= v.offset
  BY DEF Fits
<1>1. \A i \in 1 .. Len(Tail(s)) : Tail(s)[i] = s[i + 1] /\ i + 1 \in 1 .. Len(s)
  BY TailOrdered
<1>2. w.offset = Size => v.offset = Size
  BY ConstantsAssumption
<1> QED
  BY <1>1, <1>2, TailOrdered DEF Fits

LEMMA PrefixOrdered ==
  ASSUME NEW s \in Seq(Frames), Ordered(s), NEW w, Fits(s, w), NEW n \in 0 .. Len(s)
  PROVE  Ordered(SubSeq(s, 1, n)) /\ Fits(SubSeq(s, 1, n), w)
<1> DEFINE t == SubSeq(s, 1, n)
<1>1. Len(s) \in Nat /\ \A i \in 1 .. n : s[i] \in Frames
  BY ElementOfSeq, LenProperties
<1>2. Len(t) = n /\ \A i \in 1 .. n : t[i] = s[i]
  BY <1>1, SubSeqProperties
<1> HIDE DEF t
<1>3. Ordered(t)
  BY <1>1, <1>2 DEF Ordered
<1>4. Fits(t, w)
  BY <1>1, <1>2 DEF Fits
<1> QED
  BY <1>3, <1>4 DEF t

\* A frame that may follow is added at the end.
LEMMA AppendOrdered ==
  ASSUME NEW s \in Seq(Frames), Ordered(s), NEW f \in Frames,
         Len(s) > 0 => s[Len(s)].type = "FILE_DATA" /\ f.type # "FILE_INIT",
         f.type = "FILE_DATA" => f.len = 1 /\ (Len(s) > 0 => f.offset = s[Len(s)].offset + 1)
  PROVE  Ordered(Append(s, f))
<1> DEFINE t == Append(s, f)
<1>1. /\ Len(t) = Len(s) + 1 /\ Len(s) \in Nat /\ t[Len(s) + 1] = f
      /\ \A i \in 1 .. Len(s) : t[i] = s[i]
  BY AppendProperties, LenProperties
<1> HIDE DEF t
<1>2. \A i \in 1 .. Len(s) : s[i].type = "FILE_INIT" => FALSE
  BY <1>1 DEF Ordered
<1>3. \A i \in 1 .. Len(s) : s[i].type = "FILE_END" => FALSE
  BY <1>1 DEF Ordered
<1> SUFFICES ASSUME NEW i \in 1 .. Len(t)
             PROVE  /\ t[i].type = "FILE_INIT" => Len(t) = 1
                    /\ t[i].type = "FILE_END" => i = Len(t)
                    /\ t[i].type = "FILE_DATA" => t[i].len = 1
                    /\ t[i].type = "FILE_DATA" /\ i > 1 =>
                         t[i - 1].type = "FILE_DATA" /\ t[i].offset = t[i - 1].offset + 1
  BY DEF t, Ordered
<1>4. CASE i \in 1 .. Len(s)
  <2>1. i > 1 => t[i - 1] = s[i - 1]
    BY <1>1, <1>4
  <2> QED
    BY <1>1, <1>2, <1>3, <1>4, <2>1 DEF Ordered
<1>5. CASE i = Len(s) + 1
  <2>1. i > 1 => t[i - 1] = s[Len(s)] /\ Len(s) > 0
    BY <1>1, <1>5
  <2> QED
    BY <1>1, <1>5, <2>1
<1> QED
  BY <1>1, <1>4, <1>5

LEMMA AppendFits ==
  ASSUME NEW s \in Seq(Frames), NEW w, Fits(s, w), NEW f \in Frames,
         w # NoWriter => /\ f.type # "FILE_INIT" /\ f.key = w.key
                         /\ f.type = "FILE_END" => w.offset = Size
                         /\ s = <<>> /\ f.type = "FILE_DATA" => f.offset <= w.offset
  PROVE  Fits(Append(s, f), w)
<1> DEFINE t == Append(s, f)
<1>1. /\ Len(t) = Len(s) + 1 /\ Len(s) \in Nat /\ t[Len(s) + 1] = f
      /\ \A i \in 1 .. Len(s) : t[i] = s[i]
  BY AppendProperties, LenProperties
<1>2. s # <<>> => Len(s) > 0
  BY EmptySeq, <1>1
<1> HIDE DEF t
<1> SUFFICES ASSUME w # NoWriter
             PROVE  /\ \A i \in 1 .. Len(t) : /\ t[i].type # "FILE_INIT" /\ t[i].key = w.key
                                              /\ t[i].type = "FILE_END" => w.offset = Size
                    /\ Len(t) > 0 /\ t[1].type = "FILE_DATA" => t[1].offset <= w.offset
  BY DEF t, Fits
<1>3. \A i \in 1 .. Len(t) : i \in 1 .. Len(s) \/ i = Len(s) + 1
  BY <1>1
<1>4. CASE s = <<>>
  <2>1. Len(s) = 0
    BY <1>4
  <2> QED
    BY <1>1, <1>3, <1>4, <2>1
<1>5. CASE s # <<>>
  <2>1. t[1] = s[1]
    BY <1>1, <1>2, <1>5
  <2> QED
    BY <1>1, <1>2, <1>3, <1>5, <2>1 DEF Fits
<1> QED
  BY <1>4, <1>5

LEMMA EmptyInbox ==
  ASSUME NEW w
  PROVE  Ordered(<<>>) /\ Fits(<<>>, w)
BY DEF Ordered, Fits

-----------------------------------------------------------------------------
(* The files. *)

\* A write that begins within a prefix, of the units that belong there, leaves
\* a prefix, and no shorter file.
LEMMA OverlayPrefix ==
  ASSUME NEW s \in Seq({Hole} \cup Units), Prefix(s), NEW o \in Nat, o + 1 <= Size, o <= Len(s)
  PROVE  LET t == Overlay(s, o, Payload(o, 1))
         IN Prefix(t) /\ Len(t) \in Nat /\ Len(t) >= Len(s) /\ Len(t) >= o + 1
<1> DEFINE d == Payload(o, 1)
           n == MaxOf(Len(s), o + Len(d))
           t == Overlay(s, o, d)
<1>1. Len(d) = 1 /\ d[1] = o + 1
  <2>1. o \in Offsets /\ 1 \in Nat /\ o + 1 <= Size
    BY ConstantsAssumption DEF Offsets
  <2> QED
    BY <2>1, PayloadType DEF Payload
<1> HIDE DEF d
<1>2. n \in Nat /\ n >= Len(s) /\ n >= o + 1 /\ (n = Len(s) \/ n = o + 1) /\ Len(s) \in Nat
  <2>1. Len(s) \in Nat
    OBVIOUS
  <2> QED
    BY <1>1, <2>1 DEF MaxOf
<1>3. t = [i \in 1 .. n |-> IF i > o /\ i <= o + Len(d) THEN d[i - o]
                            ELSE IF i <= Len(s) THEN s[i] ELSE Hole]
  BY DEF Overlay
<1> HIDE DEF n, t
<1>4. \A i \in 1 .. n : t[i] = i
  <2> TAKE i \in 1 .. n
  <2>1. CASE i > o /\ i <= o + Len(d)
    <3>1. i = o + 1 /\ i - o = 1
      BY <1>1, <1>2, <2>1
    <3>2. t[i] = d[i - o]
      BY <1>3, <2>1
    <3> QED
      BY <1>1, <3>1, <3>2
  <2>2. CASE ~(i > o /\ i <= o + Len(d))
    <3>1. i \in 1 .. Len(s)
      BY <1>1, <1>2, <2>2
    <3>2. t[i] = s[i]
      BY <1>3, <2>2, <3>1, <1>2
    <3> QED
      BY <3>1, <3>2 DEF Prefix
  <2> QED
    BY <2>1, <2>2
<1>5. Len(t) = n
  <2>1. t \in [1 .. n -> Nat]
    BY <1>3, <1>4
  <2> QED
    BY <1>2, <2>1
<1>6. Prefix(t)
  BY <1>4, <1>5 DEF Prefix
<1> QED
  BY <1>2, <1>5, <1>6 DEF t, d

\* What a FILE_DATA that fits its writer leaves on disk.
LEMMA WrittenPrefix ==
  ASSUME TypeInv, FilesInv, NEW c \in Conns, writer[c] # NoWriter, Placed(writer[c], ack[c]),
         NEW f \in Frames, f.len = 1, f.offset <= writer[c].offset
  PROVE  LET D == Written(c, f, f.len)
         IN /\ \A i \in Inodes : /\ Prefix(D[i].units)
                                 /\ Len(D[i].units) >= Len(data[i].units)
            /\ Len(D[writer[c].inode].units) >= f.offset + 1
<1> DEFINE j == writer[c].inode
           u == Overlay(data[j].units, f.offset, Payload(f.offset, 1))
           D == Written(c, f, f.len)
<1>1. /\ j \in Inodes /\ writer[c].pos = writer[c].offset
      /\ writer[c].offset <= Len(data[j].units)
  BY DEF Placed
<1>2. /\ f.offset \in Nat /\ f.offset + 1 <= Size
      /\ writer[c].offset \in Nat
  BY FrameFields DEF TypeInv, SidecarType, Writers, Offsets
<1>3. \A i \in Inodes : /\ data[i] \in Contents
                       /\ data[i].units \in Seq({Hole} \cup Units)
                       /\ Len(data[i].units) \in Nat /\ Prefix(data[i].units)
  BY LenProperties DEF TypeInv, DiskType, Contents, FilesInv
<1>4. f.offset <= Len(data[j].units)
  BY <1>1, <1>2, <1>3
<1>5. /\ Prefix(u) /\ Len(u) \in Nat /\ Len(u) >= Len(data[j].units) /\ Len(u) >= f.offset + 1
  BY <1>1, <1>2, <1>3, <1>4, OverlayPrefix
<1>6. WritePos(c, f) = f.offset
  BY <1>1 DEF WritePos
<1> HIDE DEF u
<1>7. D = [data EXCEPT ![j].units = u]
  BY <1>6 DEF Written, u
<1>8. /\ D[j].units = u
      /\ \A i \in Inodes \ {j} : D[i] = data[i]
  BY <1>1, <1>3, <1>7 DEF TypeInv, DiskType, Contents
<1> HIDE DEF D, j
<1>9. \A i \in Inodes : Prefix(D[i].units) /\ Len(D[i].units) >= Len(data[i].units)
  <2> TAKE i \in Inodes
  <2>1. CASE i = j
    BY <1>5, <1>8, <2>1
  <2>2. CASE i # j
    BY <1>3, <1>8, <2>2
  <2> QED
    BY <2>1, <2>2
<1> QED
  BY <1>5, <1>8, <1>9 DEF D, j

\* A new file gets an inode no writer has open.
LEMMA NewInodeUnwritten ==
  ASSUME Free # {}, NEW c \in Conns
  PROVE  writer[c].inode # NewInode
<1>1. NewInode \in Free
  BY DEF NewInode
<1> QED
  BY <1>1 DEF Free, InUse

\* Opening a .part file leaves every other writer's file alone, and the new
\* writer at the end of its file.
LEMMA OpenPartPrefix ==
  ASSUME TypeInv, FilesInv, NEW c \in Conns, NEW k \in Keys, OpenPart(c, k),
         NEW a \in Nat, a <= PartLen(k)
  PROVE  /\ FilesInv' /\ writer'[c].key = k /\ writer'[c].offset = PartLen(k)
         /\ Placed(writer[c], a)'
         /\ \A d \in Conns : writer[d] # NoWriter /\ writer[d].inode \in Inodes =>
              data'[writer[d].inode] = data[writer[d].inode]
         /\ \A d \in Conns \ {c} : writer'[d] = writer[d]
<1> DEFINE i == IF part[k] = 0 THEN NewInode ELSE part[k]
           w == [key |-> k, inode |-> i, offset |-> PartLen(k), pos |-> PartLen(k)]
<1>1. /\ data' = IF part[k] = 0 THEN [data EXCEPT ![i] = [key |-> k, units |-> <<>>]] ELSE data
      /\ writer' = [writer EXCEPT ![c] = w]
      /\ part[k] # 0 \/ Free # {}
  BY DEF OpenPart
<1>2. i \in Inodes
  BY <1>1, NewInodeFree DEF TypeInv, DiskType
<1>3. writer'[c] = w /\ \A d \in Conns \ {c} : writer'[d] = writer[d]
  BY <1>1 DEF TypeInv, SidecarType
<1>4. CASE part[k] = 0
  <2>1. /\ data'[i] = [key |-> k, units |-> <<>>]
        /\ \A j \in Inodes \ {i} : data'[j] = data[j]
    BY <1>1, <1>2, <1>4 DEF TypeInv, DiskType
  <2>2. \A d \in Conns : writer[d].inode # i
    BY <1>1, <1>4, NewInodeUnwritten
  <2>3. FilesInv'
    BY <2>1 DEF FilesInv, Prefix
  <2>4. Len(data'[i].units) = 0 /\ PartLen(k) = 0
    BY <1>4, <2>1 DEF PartLen
  <2>5. Placed(writer[c], a)'
    BY <1>2, <1>3, <2>4 DEF Placed
  <2> HIDE DEF i
  <2> QED
    BY <1>3, <2>1, <2>2, <2>3, <2>5
<1>5. CASE part[k] # 0
  <2>1. data' = data
    BY <1>1, <1>5
  <2>2. PartLen(k) = Len(data[i].units) /\ PartLen(k) \in Nat
    BY <1>5, PartLenType DEF PartLen, TypeInv, Offsets
  <2>3. Placed(writer[c], a)'
    BY <1>2, <1>3, <2>1, <2>2 DEF Placed
  <2> QED
    BY <1>3, <2>1, <2>3 DEF FilesInv, Prefix
<1> QED
  BY <1>4, <1>5

-----------------------------------------------------------------------------
(* A connection's step. *)

\* A step of connection c leaves the others' variables alone.
Beside(c) ==
  \A d \in Conns \ {c} : /\ inbox'[d] = inbox[d] /\ pc'[d] = pc[d] /\ job'[d] = job[d]
                         /\ writer'[d] = writer[d] /\ ack'[d] = ack[d]

\* It never shortens a file another connection writes.
Grows ==
  \A d \in Conns : writer[d] # NoWriter =>
    Len(data'[writer[d].inode].units) >= Len(data[writer[d].inode].units)

\* An offset within a file is within the file after it has grown.
LEMMA AtMostTrans ==
  \A x, y, z \in Nat : x <= y /\ z >= y => x <= z
OBVIOUS

LEMMA OthersKeep ==
  ASSUME TypeInv, TypeInv', \A d \in Conns : ConnInv(d), NEW c \in Conns,
         Beside(c), Grows, ConnInv(c)'
  PROVE  \A d \in Conns : ConnInv(d)'
<1> SUFFICES ASSUME NEW d \in Conns \ {c} PROVE ConnInv(d)'
  BY DEF ConnInv
<1>1. ConnInv(d)
  OBVIOUS
<1>2. /\ inbox'[d] = inbox[d] /\ pc'[d] = pc[d] /\ job'[d] = job[d]
      /\ writer'[d] = writer[d] /\ ack'[d] = ack[d]
  BY DEF Beside
<1>3. Placed(writer[d], ack[d])'
  <2> SUFFICES ASSUME writer[d] # NoWriter
               PROVE  /\ writer[d].inode \in Inodes /\ writer[d].pos = writer[d].offset
                      /\ ack[d] <= writer[d].offset
                      /\ writer[d].offset <= Len(data'[writer[d].inode].units)
    BY <1>2 DEF Placed
  <2>1. /\ writer[d].inode \in Inodes /\ writer[d].pos = writer[d].offset
        /\ ack[d] <= writer[d].offset /\ writer[d].offset <= Len(data[writer[d].inode].units)
    BY <1>1 DEF ConnInv, Placed
  <2>2. /\ data[writer[d].inode].units \in Seq({Hole} \cup Units)
        /\ data'[writer[d].inode].units \in Seq({Hole} \cup Units)
        /\ writer[d].offset \in Nat
    BY <2>1 DEF TypeInv, DiskType, Contents, SidecarType, Writers, Offsets
  <2>3. /\ Len(data[writer[d].inode].units) \in Nat
        /\ Len(data'[writer[d].inode].units) \in Nat
    BY <2>2, LenProperties
  <2>4. Len(data'[writer[d].inode].units) >= Len(data[writer[d].inode].units)
    BY DEF Grows
  <2>5. writer[d].offset <= Len(data'[writer[d].inode].units)
    BY <2>1, <2>2, <2>3, <2>4, AtMostTrans, Zenon
  <2> QED
    BY <2>1, <2>5, Zenon
<1> QED
  BY <1>1, <1>2, <1>3 DEF ConnInv, Ordered, Fits, Standing

\* Where no file changes, none is shortened.
LEMMA SameData ==
  ASSUME TypeInv, FilesInv, \A d \in Conns : ConnInv(d), UNCHANGED data
  PROVE  Grows /\ FilesInv'
<1>1. \A d \in Conns : writer[d] # NoWriter => Len(data[writer[d].inode].units) \in Nat
  <2> TAKE d \in Conns
  <2> HAVE writer[d] # NoWriter
  <2>1. writer[d].inode \in Inodes
    BY DEF ConnInv, Placed
  <2>2. data[writer[d].inode].units \in Seq({Hole} \cup Units)
    BY <2>1 DEF TypeInv, DiskType, Contents
  <2> QED
    BY <2>2, LenProperties
<1> QED
  BY <1>1 DEF Grows, FilesInv, Prefix

\* A connection that is gone.
LEMMA TeardownPrefix ==
  ASSUME TypeInv, NEW c \in Conns, Teardown(c)
  PROVE  ConnInv(c)' /\ Beside(c)
<1>1. /\ pc'[c] = "closed" /\ writer'[c] = NoWriter /\ inbox'[c] = <<>> /\ ack'[c] = 0
      /\ Beside(c)
  BY DEF Teardown, TypeInv, WireType, SidecarType, Beside
<1> QED
  BY <1>1, EmptyInbox DEF ConnInv, Placed, Standing, Ending, Ordered, Fits

\* A frame is taken; what is left is still in order.
LEMMA TakeFramePrefix ==
  ASSUME TypeInv, NEW c \in Conns, ConnInv(c), inbox[c] # <<>>, TakeFrame(c)
  PROVE  /\ inbox'[c] = Tail(inbox[c]) /\ Ordered(inbox'[c])
         /\ \A d \in Conns \ {c} : inbox'[d] = inbox[d]
         /\ Head(inbox[c]).type \in {"FILE_INIT", "FILE_END"} => inbox'[c] = <<>>
         /\ Head(inbox[c]).type = "FILE_INIT" => writer[c] = NoWriter
         /\ \A i \in 1 .. Len(inbox'[c]) : inbox'[c][i].type # "FILE_INIT"
<1>1. inbox[c] \in Seq(Frames) /\ Ordered(inbox[c]) /\ Fits(inbox[c], writer[c])
  BY DEF TypeInv, WireType, ConnInv
<1>2. inbox'[c] = Tail(inbox[c]) /\ \A d \in Conns \ {c} : inbox'[d] = inbox[d]
  BY DEF TakeFrame, TypeInv, WireType
<1>3. Head(inbox[c]).type = "FILE_INIT" => writer[c] = NoWriter
  <2>1. Head(inbox[c]) = inbox[c][1] /\ 1 \in 1 .. Len(inbox[c])
    BY <1>1, TailOrdered, LenProperties
  <2> QED
    BY <1>1, <2>1 DEF Fits
<1> QED
  BY <1>1, <1>2, <1>3, TailOrdered

\* What a step of connection c has to show for the invariant.
Kept(c) == FilesInv' /\ Grows /\ Beside(c) /\ ConnInv(c)'

\* A connection without a writer that is ready for a frame.
LEMMA NoWriterReady ==
  ASSUME NEW c \in Conns, pc'[c] = "ready", writer'[c] = NoWriter, Ordered(inbox'[c])
  PROVE  ConnInv(c)'
BY DEF ConnInv, Fits, Placed, Standing, Ending, Ordered

LEMMA FileInitPrefix ==
  ASSUME TypeInv, FilesInv, \A d \in Conns : ConnInv(d), NEW c \in Conns, FileInit(c)
  PROVE  Kept(c)
<1>1. ConnInv(c)
  OBVIOUS
<1>2. CASE FileInitReject(c)
  <2>1. /\ pc[c] = "ready" /\ inbox[c] # <<>> /\ Head(inbox[c]).type = "FILE_INIT" /\ TakeFrame(c)
        /\ UNCHANGED <<ack, pc, job, writer, data>>
    BY <1>2 DEF FileInitReject, sidecarVars, diskVars
  <2>2. ConnInv(c)'
    BY <1>1, <2>1, TakeFramePrefix, NoWriterReady
  <2>3. Beside(c)
    BY <1>1, <2>1, TakeFramePrefix DEF Beside
  <2> QED
    BY <2>1, <2>2, <2>3, SameData DEF Kept
<1>3. CASE FileInitRead(c)
  <2>1. /\ pc[c] = "ready" /\ inbox[c] # <<>> /\ Head(inbox[c]).type = "FILE_INIT" /\ TakeFrame(c)
        /\ UNCHANGED <<ack, writer, data>>
        /\ \/ UNCHANGED <<pc, job>>
           \/ \E j : pc' = [pc EXCEPT ![c] = "init.open"] /\ job' = [job EXCEPT ![c] = j]
    BY <1>3 DEF FileInitRead, diskVars
  <2>2. inbox'[c] = <<>> /\ writer'[c] = NoWriter /\ \A d \in Conns \ {c} : inbox'[d] = inbox[d]
    BY <1>1, <2>1, TakeFramePrefix
  <2>3. pc'[c] \in {"ready", "init.open"}
    BY <2>1 DEF TypeInv, SidecarType
  <2>4. ConnInv(c)'
    BY <2>2, <2>3, EmptyInbox DEF ConnInv, Fits, Placed, Standing, Ending, Ordered
  <2>5. Beside(c)
    BY <2>1, <2>2 DEF Beside, TypeInv, SidecarType
  <2> QED
    BY <2>1, <2>4, <2>5, SameData DEF Kept
<1>4. CASE FileInitResume(c) \/ FileInitUpload(c)
  <2> DEFINE k == job[c].key
  <2>1. PICK a \in {0, ResumeOffset(c, k)} :
          /\ OpenPart(c, k) /\ ack' = [ack EXCEPT ![c] = a]
          /\ pc[c] = "init.open" /\ pc' = [pc EXCEPT ![c] = "ready"]
          /\ job' = [job EXCEPT ![c] = NoJob] /\ inbox' = inbox
    BY <1>4 DEF FileInitResume, FileInitUpload
  <2>2. k \in Keys
    BY <2>1 DEF TypeInv, JobKeyed
  <2>3. a \in Nat /\ a <= PartLen(k)
    BY <2>2, PartLenType, ConstantsAssumption DEF ResumeOffset, MinOf, TypeInv, Offsets
  <2>4. /\ FilesInv' /\ Placed(writer[c], a)'
        /\ \A d \in Conns : writer[d] # NoWriter /\ writer[d].inode \in Inodes =>
             data'[writer[d].inode] = data[writer[d].inode]
        /\ \A d \in Conns \ {c} : writer'[d] = writer[d]
    BY <2>1, <2>2, <2>3, OpenPartPrefix
  <2>5. Grows
    <3>1. \A d \in Conns : writer[d] # NoWriter =>
            /\ writer[d].inode \in Inodes
            /\ data[writer[d].inode].units \in Seq({Hole} \cup Units)
      BY DEF ConnInv, Placed, TypeInv, DiskType, Contents
    <3>2. \A d \in Conns : writer[d] # NoWriter => Len(data[writer[d].inode].units) \in Nat
      BY <3>1, LenProperties
    <3> QED
      BY <2>4, <3>1, <3>2 DEF Grows
  <2>6. pc'[c] = "ready" /\ ack'[c] = a /\ inbox'[c] = <<>>
    BY <1>1, <2>1 DEF ConnInv, Standing, TypeInv, SidecarType, WireType
  <2>7. ConnInv(c)'
    <3>1. Placed(writer[c], ack[c])'
      BY <2>4, <2>6 DEF Placed
    <3> QED
      BY <2>6, <3>1, EmptyInbox DEF ConnInv, Fits, Standing, Ending, Ordered
  <2>8. Beside(c)
    BY <2>1, <2>4 DEF Beside, TypeInv, SidecarType, WireType
  <2> QED
    BY <2>4, <2>5, <2>7, <2>8 DEF Kept
<1>5. CASE FileInitError(c)
  <2>1. Teardown(c) /\ UNCHANGED data
    BY <1>5 DEF FileInitError, diskVars
  <2> QED
    BY <2>1, TeardownPrefix, SameData DEF Kept
<1> QED
  BY <1>2, <1>3, <1>4, <1>5 DEF FileInit

LEMMA FileDataPrefix ==
  ASSUME TypeInv, FilesInv, \A d \in Conns : ConnInv(d), NEW c \in Conns, FileData(c)
  PROVE  Kept(c)
<1> DEFINE f == Head(inbox[c])
           w == writer[c]
<1>1. /\ ConnInv(c) /\ pc[c] = "ready" /\ inbox[c] # <<>> /\ f.type = "FILE_DATA" /\ w # NoWriter
  BY DEF FileData, FileDataWrite, FileDataPause, FileDataDiskFull, FileDataError, DataFor
<1>2. /\ inbox[c] \in Seq(Frames) /\ f \in Frames /\ Ordered(inbox[c]) /\ Fits(inbox[c], w)
      /\ f = inbox[c][1] /\ 1 \in 1 .. Len(inbox[c])
  BY <1>1, HeadOfInbox, TailOrdered, LenProperties DEF ConnInv, TypeInv, WireType
<1>3. f.len = 1 /\ f.offset <= w.offset /\ f.key = w.key
  BY <1>1, <1>2 DEF Ordered, Fits
<1>4. /\ f.offset \in Nat /\ f.offset + 1 <= Size
      /\ w.offset \in Nat /\ w.offset <= Size /\ w.inode \in Inodes
      /\ w.pos = w.offset /\ w.offset <= Len(data[w.inode].units)
  BY <1>1, <1>2, <1>3, FrameFields DEF ConnInv, Placed, TypeInv, SidecarType, Writers, Offsets
<1>5. CASE FileDataWrite(c)
  <2> DEFINE o == MaxOf(w.offset, f.offset + 1)
             p == IF f.offset = w.offset THEN w.pos + 1 ELSE w.pos
             v == [w EXCEPT !.offset = o, !.pos = p]
  <2>1. /\ data' = Written(c, f, f.len)
        /\ writer' = [writer EXCEPT ![c].offset = o, ![c].pos = p]
        /\ ack' = [ack EXCEPT ![c] = o]
        /\ TakeFrame(c) /\ UNCHANGED <<pc, job>>
    BY <1>3, <1>5 DEF FileDataWrite
  <2>2. o = p /\ o \in Nat /\ o >= w.offset /\ o >= f.offset + 1 /\ o <= Size
        /\ (o = w.offset \/ o = f.offset + 1)
    BY <1>3, <1>4 DEF MaxOf
  <2> HIDE DEF o, p
  <2>3. /\ writer'[c] = v /\ ack'[c] = o /\ pc'[c] = "ready"
        /\ \A d \in Conns \ {c} : writer'[d] = writer[d] /\ ack'[d] = ack[d]
    BY <1>1, <2>1 DEF TypeInv, SidecarType, WireType
  <2>4. /\ v.key = w.key /\ v.inode = w.inode /\ v.offset = o /\ v.pos = o
    BY <2>2 DEF TypeInv, SidecarType, Writers
  <2> HIDE DEF v
  <2>5. /\ \A i \in Inodes : /\ Prefix(data'[i].units)
                             /\ Len(data'[i].units) >= Len(data[i].units)
        /\ Len(data'[w.inode].units) >= f.offset + 1
    BY <1>1, <1>2, <1>3, <2>1, WrittenPrefix DEF ConnInv
  <2>6. Grows
    BY <2>5 DEF Grows, ConnInv, Placed
  <2>7. Fits(Tail(inbox[c]), v)
    BY <1>1, <1>2, <1>4, <2>2, <2>4, TailFits
  <2>8. o <= Len(data'[w.inode].units)
    <3>1. data[w.inode].units \in Seq({Hole} \cup Units)
      BY <1>4 DEF TypeInv, DiskType, Contents
    <3>2. /\ f \in Frames /\ f.len \in Nat /\ f.len <= f.len
          /\ DiskType /\ SidecarType
      BY <1>2, <1>3 DEF TypeInv
    <3>3. data' \in [Inodes -> Contents]
      BY <2>1, <3>2, WrittenType
    <3>4. data'[w.inode].units \in Seq({Hole} \cup Units)
      BY <1>4, <3>3 DEF Contents
    <3>5. Len(data[w.inode].units) \in Nat /\ Len(data'[w.inode].units) \in Nat
      BY <3>1, <3>4, LenProperties
    <3>6. Len(data'[w.inode].units) >= Len(data[w.inode].units)
      BY <1>4, <2>5
    <3>7. CASE o = w.offset
      <4>1. o <= Len(data[w.inode].units)
        BY <1>4, <3>7
      <4> QED
        BY <2>2, <3>5, <3>6, <4>1
    <3>8. CASE o = f.offset + 1
      BY <2>5, <2>2, <3>5, <3>8
    <3> QED
      BY <2>2, <3>7, <3>8
  <2>9. Placed(writer[c], ack[c])'
    BY <1>4, <2>2, <2>3, <2>4, <2>8 DEF Placed
  <2>10. inbox'[c] = Tail(inbox[c]) /\ Ordered(inbox'[c]) /\ \A d \in Conns \ {c} : inbox'[d] = inbox[d]
    BY <1>1, <2>1, TakeFramePrefix
  <2>11. ConnInv(c)'
    BY <2>3, <2>7, <2>9, <2>10 DEF ConnInv, Standing, Ending, Ordered, Fits
  <2>12. Beside(c)
    BY <2>1, <2>3, <2>10 DEF Beside
  <2>13. FilesInv'
    BY <2>5 DEF FilesInv, Prefix
  <2> QED
    BY <2>6, <2>11, <2>12, <2>13 DEF Kept
<1>6. CASE FileDataPause(c) \/ FileDataDiskFull(c)
  <2>1. \A n \in 1 .. f.len - 1 : FALSE
    BY <1>3
  <2>2. /\ Pause(c, f.key) /\ TakeFrame(c) /\ UNCHANGED <<pc, job, data>>
    BY <1>6, <2>1 DEF FileDataPause, FileDataDiskFull, diskVars
  <2>3. /\ writer'[c] = NoWriter /\ pc'[c] = "ready"
        /\ \A d \in Conns \ {c} : writer'[d] = writer[d] /\ ack'[d] = ack[d]
    BY <1>1, <2>2 DEF Pause, TypeInv, SidecarType, WireType
  <2>4. Ordered(inbox'[c]) /\ \A d \in Conns \ {c} : inbox'[d] = inbox[d]
    BY <1>1, <2>2, TakeFramePrefix
  <2>5. ConnInv(c)'
    BY <2>3, <2>4, NoWriterReady
  <2>6. Beside(c)
    BY <2>2, <2>3, <2>4 DEF Beside
  <2> QED
    BY <2>2, <2>5, <2>6, SameData DEF Kept
<1>7. CASE FileDataError(c)
  <2>1. Teardown(c) /\ UNCHANGED data
    BY <1>7 DEF FileDataError, diskVars
  <2> QED
    BY <2>1, TeardownPrefix, SameData DEF Kept
<1> QED
  BY <1>5, <1>6, <1>7 DEF FileData

LEMMA FileEndPrefix ==
  ASSUME TypeInv, FilesInv, \A d \in Conns : ConnInv(d), NEW c \in Conns, FileEnd(c)
  PROVE  Kept(c)
<1> DEFINE f == Head(inbox[c])
           w == writer[c]
<1>1. ConnInv(c)
  OBVIOUS
<1>2. CASE FileEndVerify(c)
  <2>1. /\ pc[c] = "ready" /\ inbox[c] # <<>> /\ f.type = "FILE_END" /\ w # NoWriter
        /\ pc' = [pc EXCEPT ![c] = "end.place"]
        /\ job' = [job EXCEPT ![c] = [NoJob EXCEPT !.key = f.key, !.sha = f.sha]]
        /\ TakeFrame(c) /\ UNCHANGED <<ack, writer, data>>
    BY <1>2 DEF FileEndVerify, EndFor, diskVars
  <2>2. inbox'[c] = <<>> /\ \A d \in Conns \ {c} : inbox'[d] = inbox[d]
    BY <1>1, <2>1, TakeFramePrefix
  <2>3. f = inbox[c][1] /\ 1 \in 1 .. Len(inbox[c]) /\ f.key = w.key /\ w.offset = Size
    <3>1. inbox[c] \in Seq(Frames) /\ Ordered(inbox[c])
      BY <1>1 DEF TypeInv, WireType, ConnInv
    <3>2. f = inbox[c][1] /\ 1 \in 1 .. Len(inbox[c])
      BY <2>1, <3>1, TailOrdered, LenProperties
    <3> QED
      BY <1>1, <2>1, <3>2 DEF ConnInv, Fits
  <2>4. pc'[c] = "end.place" /\ job'[c].key = f.key
    BY <2>1 DEF TypeInv, SidecarType, NoJob
  <2>5. ConnInv(c)'
    BY <1>1, <2>1, <2>2, <2>3, <2>4, EmptyInbox
       DEF ConnInv, Fits, Placed, Standing, Ending, Ordered
  <2>6. Beside(c)
    BY <2>1, <2>2 DEF Beside, TypeInv, SidecarType
  <2> QED
    BY <2>1, <2>5, <2>6, SameData DEF Kept
<1>3. CASE FileEndMismatch(c) \/ FileEndHashError(c) \/ FileEndUnavailable(c)
  <2>1. /\ pc[c] = "ready" /\ inbox[c] # <<>> /\ TakeFrame(c) /\ UNCHANGED <<pc, job, data>>
        /\ writer' = [writer EXCEPT ![c] = NoWriter] /\ ack' = [ack EXCEPT ![c] = 0]
    BY <1>3 DEF FileEndMismatch, FileEndHashError, FileEndUnavailable, EndFor, Pause, diskVars
  <2>2. Ordered(inbox'[c]) /\ \A d \in Conns \ {c} : inbox'[d] = inbox[d]
    BY <1>1, <2>1, TakeFramePrefix
  <2>3. writer'[c] = NoWriter /\ pc'[c] = "ready" /\ Beside(c)
    BY <2>1, <2>2 DEF Beside, TypeInv, SidecarType, WireType
  <2>4. ConnInv(c)'
    BY <2>2, <2>3, NoWriterReady
  <2> QED
    BY <2>1, <2>3, <2>4, SameData DEF Kept
<1>4. CASE FileEndPlace(c) \/ FileEndMove(c) \/ FileEndComplete(c)
  <2>1. /\ pc[c] \in Ending /\ UNCHANGED <<inbox, ack, writer, data>>
        /\ \E e \in Ending : pc' = [pc EXCEPT ![c] = e]
        /\ \/ job' = job
           \/ \E q : job' = [job EXCEPT ![c].path = q]
    BY <1>4 DEF FileEndPlace, FileEndMove, FileEndComplete, Ending, wireVars, diskVars
  <2>2. pc'[c] \in Ending /\ \A d \in Conns \ {c} : pc'[d] = pc[d] /\ job'[d] = job[d]
    BY <2>1 DEF TypeInv, SidecarType
  <2>3. job'[c].key = job[c].key
    BY <2>1 DEF TypeInv, SidecarType, Jobs
  <2>4. ConnInv(c)'
    BY <1>1, <2>1, <2>2, <2>3 DEF ConnInv, Fits, Placed, Standing, Ending, Ordered
  <2> QED
    BY <2>1, <2>2, <2>4, SameData DEF Kept, Beside
<1>5. CASE FileEndUnplaced(c) \/ FileEndStats(c)
  <2>1. /\ pc' = [pc EXCEPT ![c] = "ready"] /\ job' = [job EXCEPT ![c] = NoJob]
        /\ writer' = [writer EXCEPT ![c] = NoWriter] /\ ack' = [ack EXCEPT ![c] = 0]
        /\ UNCHANGED <<inbox, data>>
    BY <1>5 DEF FileEndUnplaced, FileEndStats, Pause, diskVars
  <2>2. writer'[c] = NoWriter /\ pc'[c] = "ready" /\ Beside(c)
    BY <2>1 DEF Beside, TypeInv, SidecarType, WireType
  <2>3. Ordered(inbox'[c])
    BY <1>1, <2>1 DEF ConnInv, Ordered
  <2>4. ConnInv(c)'
    BY <2>2, <2>3, NoWriterReady
  <2> QED
    BY <2>1, <2>2, <2>4, SameData DEF Kept
<1>6. CASE FileEndNoDirName(c)
  <2>1. Teardown(c) /\ UNCHANGED data
    BY <1>6 DEF FileEndNoDirName, diskVars
  <2> QED
    BY <2>1, TeardownPrefix, SameData DEF Kept
<1> QED
  BY <1>2, <1>3, <1>4, <1>5, <1>6 DEF FileEnd

\* Every step of a connection's goroutine.
LEMMA SidecarPrefix ==
  ASSUME TypeInv, TypeInv', FilesInv, \A d \in Conns : ConnInv(d), NEW c \in Conns, Sidecar(c)
  PROVE  FilesInv' /\ (\A d \in Conns : ConnInv(d)') /\ Beside(c)
<1>1. Kept(c)
  <2>1. CASE ProtocolError(c) \/ ReadEOF(c)
    <3>1. Teardown(c) /\ UNCHANGED data
      BY <2>1 DEF ProtocolError, ReadEOF, diskVars
    <3> QED
      BY <3>1, TeardownPrefix, SameData DEF Kept
  <2> QED
    BY <2>1, FileInitPrefix, FileDataPrefix, FileEndPrefix DEF Sidecar
<1> QED
  BY <1>1, OthersKeep DEF Kept

\* A step that leaves the connections alone.
LEMMA StillPrefix ==
  ASSUME FilesInv, \A d \in Conns : ConnInv(d), UNCHANGED <<inbox, pc, job, writer, ack, data>>
  PROVE  FilesInv' /\ \A d \in Conns : ConnInv(d)'
BY DEF FilesInv, Prefix, ConnInv, Ordered, Fits, Placed, Standing

-----------------------------------------------------------------------------
(* The phone's conversation on the connection it uses. *)

Quiet(c)  == pc[c] = "ready" /\ inbox[c] = <<>>
Serves(c) == writer[c] # NoWriter /\ writer[c].key = task.key
LastFrame(c) == inbox[c][Len(inbox[c])]

\* The receiver has given the upload up and said so.
Broken(c) ==
  /\ pc[c] = "ready" /\ reply.kind = "ERROR" /\ writer[c] = NoWriter
  /\ \A i \in 1 .. Len(inbox[c]) : inbox[c][i].type # "FILE_INIT"

IdleTalk(c) == Quiet(c) /\ reply = NoReply /\ writer[c] = NoWriter

\* FILE_INIT is on its way, being worked on, refused or accepted.
InitTalk(c) ==
  \/ pc[c] = "ready" /\ inbox[c] = <<InitFrame(task.key)>> /\ reply = NoReply
  \/ pc[c] = "init.open" /\ job[c].key = task.key /\ reply = NoReply
  \/ Quiet(c) /\ reply.kind \in {"SKIP", "REJECT"} /\ writer[c] = NoWriter
  \/ /\ Quiet(c) /\ reply.kind \in {"UPLOAD", "RESUME"}
     /\ Serves(c) /\ reply.offset <= writer[c].offset

\* What is sent next follows what was sent last, or the writer.
DataTalk(c) ==
  \/ Broken(c)
  \/ /\ pc[c] = "ready" /\ reply = NoReply /\ Serves(c)
     /\ inbox[c] = <<>> => task.next <= writer[c].offset
     /\ inbox[c] # <<>> => /\ LastFrame(c).type = "FILE_DATA"
                           /\ LastFrame(c).offset + 1 = task.next

EndTalk(c) ==
  \/ Broken(c)
  \/ /\ pc[c] = "ready" /\ reply = NoReply /\ Serves(c)
     /\ inbox[c] # <<>> /\ LastFrame(c).type = "FILE_END"
  \/ pc[c] \in Ending /\ job[c].key = task.key /\ reply = NoReply
  \/ Quiet(c) /\ reply.kind \in {"END_OK", "END_FAIL"} /\ writer[c] = NoWriter

Talk(c) ==
  /\ task.phase = "idle" => IdleTalk(c)
  /\ task.phase = "init" => InitTalk(c)
  /\ task.phase = "data" => DataTalk(c)
  /\ task.phase = "end"  => EndTalk(c)

TalkInv ==
  /\ task.chunk = 1
  /\ cur = NoConn => task = NoTask /\ reply = NoReply
  /\ cur # NoConn => Talk(cur)

PrefixInv == TypeInv /\ FilesInv /\ (\A c \in Conns : ConnInv(c)) /\ TalkInv

\* A connection the phone no longer uses, or never did.
LEMMA TalkOver ==
  ASSUME cur' = NoConn, task' = NoTask, reply' = NoReply
  PROVE  TalkInv'
BY DEF TalkInv, NoTask

LEMMA TeardownTalk ==
  ASSUME TalkInv, NEW c \in Conns, Beside(c), cur \in Conns \cup {NoConn}, Teardown(c)
  PROVE  TalkInv'
<1>1. CASE cur = c
  BY <1>1, TalkOver DEF Teardown
<1>2. CASE cur # c
  <2>1. UNCHANGED <<cur, task, reply>>
    BY <1>2 DEF Teardown
  <2>2. cur # NoConn => /\ inbox'[cur] = inbox[cur] /\ pc'[cur] = pc[cur] /\ job'[cur] = job[cur]
                        /\ writer'[cur] = writer[cur]
    BY <1>2 DEF Beside
  <2> QED
    BY <2>1, <2>2
       DEF TalkInv, Talk, IdleTalk, InitTalk, DataTalk, EndTalk, Quiet, Serves, LastFrame, Broken
<1> QED
  BY <1>1, <1>2

\* A step of another connection.
LEMMA OtherTalk ==
  ASSUME TalkInv, NEW c \in Conns, Beside(c), cur \in Conns \cup {NoConn}, cur # c,
         UNCHANGED <<cur, task, reply>>
  PROVE  TalkInv'
<1>1. cur # NoConn => /\ inbox'[cur] = inbox[cur] /\ pc'[cur] = pc[cur] /\ job'[cur] = job[cur]
                      /\ writer'[cur] = writer[cur]
  BY DEF Beside
<1> QED
  BY <1>1
     DEF TalkInv, Talk, IdleTalk, InitTalk, DataTalk, EndTalk, Quiet, Serves, LastFrame, Broken

\* What a FILE_INIT, a FILE_DATA or a FILE_END at the head of the inbox says of
\* the conversation.
LEMMA HeadTalk ==
  ASSUME PrefixInv, cur \in Conns, pc[cur] = "ready", inbox[cur] # <<>>
  PROVE  LET f == Head(inbox[cur])
         IN /\ f.type = "FILE_INIT" =>
                 task.phase = "init" /\ f.key = task.key /\ reply = NoReply /\ Tail(inbox[cur]) = <<>>
            /\ f.type \in {"FILE_DATA", "FILE_END"} => task.phase \in {"data", "end"}
            /\ f.type = "FILE_END" => task.phase = "end" \/ Broken(cur)
<1> DEFINE s == inbox[cur]
           f == Head(s)
<1>1. s \in Seq(Frames) /\ Ordered(s) /\ cur # NoConn /\ Talk(cur) /\ task \in TaskType
  BY ConstantsAssumption
     DEF PrefixInv, TypeInv, WireType, PhoneType, TaskType, ConnInv, TalkInv
<1>2. f = s[1] /\ 1 \in 1 .. Len(s) /\ Len(s) \in 1 .. Len(s)
  BY <1>1, TailOrdered, LenProperties
<1>3. task.phase # "idle"
  BY <1>1 DEF Talk, IdleTalk, Quiet
<1>4. task.phase = "init" => s = <<InitFrame(task.key)>> /\ reply = NoReply
  BY <1>1 DEF Talk, InitTalk, Quiet
<1>5. f.type \in {"FILE_INIT", "FILE_END"} => Len(s) = 1
  BY <1>1, <1>2 DEF Ordered
<1>6. f.type = "FILE_INIT" => task.phase \notin {"data", "end"}
  <2> SUFFICES ASSUME f.type = "FILE_INIT", task.phase \in {"data", "end"} PROVE FALSE
    OBVIOUS
  <2>1. ~Broken(cur)
    BY <1>2 DEF Broken
  <2>2. LastFrame(cur).type \in {"FILE_DATA", "FILE_END"}
    BY <1>1, <2>1 DEF Talk, DataTalk, EndTalk, Ending, Quiet
  <2>3. LastFrame(cur) = f
    BY <1>2, <1>5 DEF LastFrame
  <2> QED
    BY <2>2, <2>3
<1>7. f.type = "FILE_END" => task.phase # "data" \/ Broken(cur)
  <2> SUFFICES ASSUME f.type = "FILE_END", task.phase = "data", ~Broken(cur) PROVE FALSE
    OBVIOUS
  <2>1. LastFrame(cur).type = "FILE_DATA"
    BY <1>1 DEF Talk, DataTalk
  <2>2. LastFrame(cur) = f
    BY <1>2, <1>5 DEF LastFrame
  <2> QED
    BY <2>1, <2>2
<1>8. task.phase = "init" => f.type = "FILE_INIT" /\ f.key = task.key
  BY <1>4 DEF InitFrame
<1>9. task.phase \in {"idle", "init", "data", "end"}
  BY <1>1 DEF TaskType
<1>10. f.type = "FILE_INIT" => Tail(s) = <<>>
  BY <1>1, TailOrdered
<1> QED
  BY <1>3, <1>4, <1>6, <1>7, <1>8, <1>9, <1>10

\* What a connection's step does to the phone.
LEMMA SidecarReply ==
  ASSUME NEW c \in Conns, Sidecar(c)
  PROVE  Teardown(c) \/ (UNCHANGED <<cur, task>> /\ (cur # c => UNCHANGED reply))
<1>1. CASE FileInit(c)
  BY <1>1 DEF FileInit, FileInitReject, FileInitRead, FileInitResume, FileInitUpload, FileInitError,
     Respond, phoneVars
<1>2. CASE FileData(c)
  BY <1>2 DEF FileData, FileDataWrite, FileDataPause, FileDataDiskFull, FileDataError, PauseAnswer,
     Respond, phoneVars
<1>3. CASE FileEnd(c)
  <2>1. CASE FileEndVerify(c) \/ FileEndMismatch(c) \/ FileEndHashError(c) \/ FileEndUnavailable(c)
    BY <2>1 DEF FileEndVerify, FileEndMismatch, FileEndHashError, FileEndUnavailable, Respond, phoneVars
  <2>2. CASE FileEndPlace(c) \/ FileEndMove(c) \/ FileEndComplete(c)
    BY <2>2 DEF FileEndPlace, FileEndMove, FileEndComplete, phoneVars, wireVars
  <2>3. CASE FileEndUnplaced(c) \/ FileEndStats(c) \/ FileEndNoDirName(c)
    BY <2>3 DEF FileEndUnplaced, FileEndStats, FileEndNoDirName, UnplacedAnswer, Respond, phoneVars
  <2> QED
    BY <1>3, <2>1, <2>2, <2>3 DEF FileEnd
<1>4. CASE ProtocolError(c) \/ ReadEOF(c)
  BY <1>4 DEF ProtocolError, ReadEOF
<1> QED
  BY <1>1, <1>2, <1>3, <1>4 DEF Sidecar

LEMMA FileInitTalk ==
  ASSUME PrefixInv, cur \in Conns, FileInit(cur), ~Teardown(cur)
  PROVE  TalkInv'
<1>1. /\ ConnInv(cur) /\ cur # NoConn /\ Talk(cur) /\ task.chunk = 1
      /\ task \in TaskType
  BY ConstantsAssumption DEF PrefixInv, TalkInv, TypeInv, PhoneType
<1>2. UNCHANGED <<cur, task>>
  BY SidecarReply DEF Sidecar
<1>3. CASE FileInitReject(cur) \/ FileInitRead(cur)
  <2> DEFINE f == Head(inbox[cur])
             r == IF row[f.key].status = "completed" THEN NoRow ELSE row[f.key]
             j == [NoJob EXCEPT !.key = f.key, !.existing = r]
  <2>1. /\ pc[cur] = "ready" /\ inbox[cur] # <<>> /\ f.type = "FILE_INIT" /\ TakeFrame(cur)
        /\ UNCHANGED writer
        /\ \/ UNCHANGED <<pc, job>> /\ reply'.kind \in {"SKIP", "REJECT"}
           \/ /\ pc' = [pc EXCEPT ![cur] = "init.open"] /\ UNCHANGED reply
              /\ job' = [job EXCEPT ![cur] = j]
    <3>1. CASE FileInitReject(cur)
      BY <3>1 DEF FileInitReject, Respond, Answer, sidecarVars
    <3>2. CASE FileInitRead(cur)
      <4>1. /\ pc[cur] = "ready" /\ inbox[cur] # <<>> /\ f.type = "FILE_INIT" /\ TakeFrame(cur)
            /\ UNCHANGED writer
            /\ \/ UNCHANGED <<pc, job>> /\ Respond(cur, "SKIP", 0)
               \/ /\ pc' = [pc EXCEPT ![cur] = "init.open"] /\ UNCHANGED reply
                  /\ job' = [job EXCEPT ![cur] = j]
        BY <3>2, Zenon DEF FileInitRead
      <4>2. Respond(cur, "SKIP", 0) => reply'.kind \in {"SKIP", "REJECT"}
        BY DEF Respond, Answer
      <4> QED
        BY <4>1, <4>2
    <3> QED
      BY <1>3, <3>1, <3>2
  <2>6. j.key = f.key
    BY DEF NoJob
  <2> HIDE DEF j
  <2>2. task.phase = "init" /\ f.key = task.key /\ reply = NoReply
    BY <2>1, HeadTalk
  <2>3. inbox'[cur] = <<>> /\ writer'[cur] = NoWriter
    BY <1>1, <2>1, TakeFramePrefix DEF PrefixInv
  <2>4. \/ pc'[cur] = "ready" /\ reply'.kind \in {"SKIP", "REJECT"}
        \/ pc'[cur] = "init.open" /\ reply' = NoReply /\ job'[cur].key = task.key
    BY <2>1, <2>2, <2>6 DEF PrefixInv, TypeInv, SidecarType
  <2>5. InitTalk(cur)'
    BY <1>2, <2>3, <2>4 DEF InitTalk, Quiet
  <2> QED
    BY <1>1, <1>2, <2>2, <2>5 DEF TalkInv, Talk
<1>4. CASE FileInitResume(cur) \/ FileInitUpload(cur)
  <2> DEFINE k == job[cur].key
  <2>1. PICK a \in {0, ResumeOffset(cur, k)} :
          /\ OpenPart(cur, k) /\ pc[cur] = "init.open" /\ pc' = [pc EXCEPT ![cur] = "ready"]
          /\ inbox' = inbox
          /\ \E kind \in {"UPLOAD", "RESUME"} : reply' = Answer(kind, a)
    BY <1>4 DEF FileInitResume, FileInitUpload, Respond
  <2>2. task.phase = "init" /\ k = task.key
    BY <1>1, <2>1 DEF Talk, IdleTalk, InitTalk, DataTalk, EndTalk, Ending, Quiet, Broken, TaskType
  <2>3. k \in Keys
    BY <2>1 DEF PrefixInv, TypeInv, JobKeyed
  <2>4. a \in Nat /\ a <= PartLen(k)
    BY <2>3, PartLenType, ConstantsAssumption DEF PrefixInv, ResumeOffset, MinOf, TypeInv, Offsets
  <2>5. writer'[cur].key = k /\ writer'[cur].offset = PartLen(k)
    BY <2>1, <2>3, <2>4, OpenPartPrefix DEF PrefixInv
  <2>6. writer'[cur] # NoWriter
    BY <2>3, <2>5, ConstantsAssumption DEF NoWriter
  <2>7. Quiet(cur)' /\ reply'.kind \in {"UPLOAD", "RESUME"} /\ reply'.offset = a
    BY <1>1, <1>2, <2>1 DEF Quiet, ConnInv, Standing, Answer, PrefixInv, TypeInv, SidecarType
  <2>8. InitTalk(cur)'
    BY <1>2, <2>2, <2>4, <2>5, <2>6, <2>7 DEF InitTalk, Serves
  <2> QED
    BY <1>1, <1>2, <2>2, <2>8 DEF TalkInv, Talk
<1>5. CASE FileInitError(cur)
  BY <1>5 DEF FileInitError
<1> QED
  BY <1>3, <1>4, <1>5 DEF FileInit

LEMMA FileDataTalk ==
  ASSUME PrefixInv, cur \in Conns, FileData(cur), ~Teardown(cur)
  PROVE  TalkInv'
<1> DEFINE s == inbox[cur]
           f == Head(s)
           t == Tail(s)
<1>1. /\ ConnInv(cur) /\ cur # NoConn /\ Talk(cur) /\ task.chunk = 1
      /\ task \in TaskType
  BY ConstantsAssumption DEF PrefixInv, TalkInv, TypeInv, PhoneType
<1>2. UNCHANGED <<cur, task>>
  BY SidecarReply DEF Sidecar
<1>3. /\ pc[cur] = "ready" /\ s # <<>> /\ f.type = "FILE_DATA" /\ writer[cur] # NoWriter
      /\ TakeFrame(cur) /\ UNCHANGED pc
  BY DEF FileData, FileDataWrite, FileDataPause, FileDataDiskFull, FileDataError, DataFor
<1>4. /\ s \in Seq(Frames) /\ f \in Frames /\ Ordered(s) /\ f = s[1] /\ 1 \in 1 .. Len(s)
      /\ Len(s) \in Nat /\ Len(t) = Len(s) - 1 /\ t \in Seq(Frames)
      /\ \A i \in 1 .. Len(t) : t[i] = s[i + 1]
      /\ inbox'[cur] = t
  BY <1>1, <1>3, HeadOfInbox, TailOrdered, TakeFramePrefix, LenProperties
     DEF PrefixInv, TypeInv, WireType, ConnInv
<1>5. f.len = 1 /\ f.offset \in Nat
  BY <1>3, <1>4, FrameFields DEF Ordered, Offsets
<1>6. task.phase \in {"data", "end"}
  BY <1>3, HeadTalk
<1>7. reply = NoReply /\ Serves(cur)
  BY <1>1, <1>3, <1>6 DEF Talk, DataTalk, EndTalk, Broken, Quiet, Ending
<1>8. (t = <<>> => LastFrame(cur) = f) /\ (t # <<>> => t[Len(t)] = LastFrame(cur))
  <2>1. CASE t = <<>>
    <3>1. Len(t) = 0
      BY <2>1, EmptySeq
    <3>2. Len(s) = 1
      BY <1>4, <3>1
    <3> QED
      BY <1>4, <2>1, <3>2 DEF LastFrame
  <2>2. CASE t # <<>>
    <3>1. Len(t) \in 1 .. Len(t) /\ Len(t) + 1 = Len(s)
      BY <1>4, <2>2, EmptySeq
    <3> QED
      BY <1>4, <2>2, <3>1 DEF LastFrame
  <2> QED
    BY <2>1, <2>2
<1> HIDE DEF t
<1>9. CASE FileDataWrite(cur)
  <2> DEFINE o == MaxOf(writer[cur].offset, f.offset + 1)
  <2>1. PICK p : writer' = [writer EXCEPT ![cur].offset = o, ![cur].pos = p]
    BY <1>5, <1>9 DEF FileDataWrite
  <2>2. reply' = reply
    BY <1>9 DEF FileDataWrite
  <2>3. f.offset + 1 <= o /\ o \in Nat
    BY <1>5 DEF MaxOf, PrefixInv, TypeInv, SidecarType, Writers, Offsets
  <2> HIDE DEF o
  <2>4. writer'[cur].offset = o /\ writer'[cur].key = writer[cur].key
    BY <2>1 DEF PrefixInv, TypeInv, SidecarType, Writers
  <2>5. Serves(cur)'
    <3>1. task.key # NoKey
      BY <1>6, ConstantsAssumption DEF PrefixInv, TypeInv, TaskKeyed
    <3> QED
      BY <1>2, <1>7, <2>4, <3>1 DEF Serves, NoWriter
  <2>6. CASE task.phase = "data"
    <3>1. LastFrame(cur).type = "FILE_DATA" /\ LastFrame(cur).offset + 1 = task.next
      BY <1>1, <1>3, <2>6 DEF Talk, DataTalk, Broken
    <3>2. DataTalk(cur)'
      BY <1>2, <1>3, <1>4, <1>7, <1>8, <2>2, <2>3, <2>4, <2>5, <3>1 DEF DataTalk, LastFrame
    <3> QED
      BY <1>1, <1>2, <2>6, <3>2 DEF TalkInv, Talk
  <2>7. CASE task.phase = "end"
    <3>1. LastFrame(cur).type = "FILE_END"
      BY <1>1, <1>3, <2>7 DEF Talk, EndTalk, Broken, Ending, Quiet
    <3>2. EndTalk(cur)'
      BY <1>2, <1>3, <1>4, <1>7, <1>8, <2>2, <2>5, <3>1 DEF EndTalk, LastFrame
    <3> QED
      BY <1>1, <1>2, <2>7, <3>2 DEF TalkInv, Talk
  <2> QED
    BY <1>6, <2>6, <2>7
<1>10. CASE FileDataPause(cur) \/ FileDataDiskFull(cur)
  <2>1. writer'[cur] = NoWriter /\ reply'.kind = "ERROR"
    BY <1>10 DEF FileDataPause, FileDataDiskFull, Pause, PauseAnswer, Respond, Answer, PrefixInv,
       TypeInv, SidecarType
  <2>2. \A i \in 1 .. Len(t) : t[i].type # "FILE_INIT"
    BY <1>1, <1>3, <1>4, TakeFramePrefix DEF PrefixInv
  <2>3. Broken(cur)'
    BY <1>2, <1>3, <1>4, <2>1, <2>2 DEF Broken
  <2> QED
    BY <1>1, <1>2, <1>6, <2>3 DEF TalkInv, Talk, DataTalk, EndTalk
<1>11. CASE FileDataError(cur)
  BY <1>11 DEF FileDataError
<1> QED
  BY <1>9, <1>10, <1>11 DEF FileData

LEMMA FileEndTalk ==
  ASSUME PrefixInv, cur \in Conns, FileEnd(cur), ~Teardown(cur)
  PROVE  TalkInv'
<1>1. /\ ConnInv(cur) /\ cur # NoConn /\ Talk(cur) /\ task.chunk = 1
      /\ task \in TaskType
  BY ConstantsAssumption DEF PrefixInv, TalkInv, TypeInv, PhoneType
<1>2. UNCHANGED <<cur, task>>
  BY SidecarReply DEF Sidecar
<1>3. CASE \/ FileEndVerify(cur) \/ FileEndMismatch(cur) \/ FileEndHashError(cur)
           \/ FileEndUnavailable(cur)
  <2> DEFINE f == Head(inbox[cur])
  <2>1. /\ pc[cur] = "ready" /\ inbox[cur] # <<>> /\ f.type = "FILE_END" /\ writer[cur] # NoWriter
        /\ TakeFrame(cur)
    BY <1>3 DEF FileEndVerify, FileEndMismatch, FileEndHashError, FileEndUnavailable, EndFor
  <2>2. task.phase = "end" /\ ~Broken(cur)
    BY <2>1, HeadTalk DEF Broken
  <2>3. reply = NoReply /\ Serves(cur)
    BY <1>1, <2>1, <2>2 DEF Talk, EndTalk, Ending, Quiet
  <2>4. inbox'[cur] = <<>>
    BY <1>1, <2>1, TakeFramePrefix DEF PrefixInv
  <2>5. CASE FileEndVerify(cur)
    <3>1. f.key = writer[cur].key
      <4>1. inbox[cur] \in Seq(Frames) /\ Ordered(inbox[cur])
        BY <1>1 DEF PrefixInv, TypeInv, WireType, ConnInv
      <4>2. f = inbox[cur][1] /\ 1 \in 1 .. Len(inbox[cur])
        BY <2>1, <4>1, TailOrdered, LenProperties
      <4> QED
        BY <1>1, <2>1, <4>2 DEF ConnInv, Fits
    <3>2. /\ pc' = [pc EXCEPT ![cur] = "end.place"] /\ reply' = reply
          /\ job' = [job EXCEPT ![cur] = [NoJob EXCEPT !.key = f.key, !.sha = f.sha]]
      BY <2>5 DEF FileEndVerify
    <3>3. pc'[cur] = "end.place" /\ job'[cur].key = task.key /\ reply' = NoReply
      BY <2>3, <3>1, <3>2 DEF Serves, PrefixInv, TypeInv, SidecarType, NoJob
    <3>4. EndTalk(cur)'
      BY <1>2, <3>3 DEF EndTalk, Ending
    <3> QED
      BY <1>1, <1>2, <2>2, <3>4 DEF TalkInv, Talk
  <2>6. CASE FileEndMismatch(cur) \/ FileEndHashError(cur) \/ FileEndUnavailable(cur)
    <3>1. writer'[cur] = NoWriter /\ reply'.kind = "END_FAIL" /\ pc' = pc
      BY <2>6 DEF FileEndMismatch, FileEndHashError, FileEndUnavailable, Pause, Respond, Answer,
         PrefixInv, TypeInv, SidecarType
    <3>2. EndTalk(cur)'
      BY <1>2, <2>1, <2>4, <3>1 DEF EndTalk, Quiet
    <3> QED
      BY <1>1, <1>2, <2>2, <3>2 DEF TalkInv, Talk
  <2> QED
    BY <1>3, <2>5, <2>6
<1>4. CASE \/ FileEndPlace(cur) \/ FileEndMove(cur) \/ FileEndComplete(cur)
           \/ FileEndUnplaced(cur) \/ FileEndStats(cur)
  <2>1. pc[cur] \in Ending
    BY <1>4 DEF FileEndPlace, FileEndMove, FileEndComplete, FileEndUnplaced, FileEndStats, Ending
  <2>2. task.phase = "end" /\ job[cur].key = task.key /\ reply = NoReply
    BY <1>1, <2>1 DEF Talk, IdleTalk, InitTalk, DataTalk, EndTalk, Ending, Quiet, Broken, TaskType
  <2>3. CASE FileEndPlace(cur) \/ FileEndMove(cur) \/ FileEndComplete(cur)
    <3>1. /\ \E e \in Ending : pc' = [pc EXCEPT ![cur] = e]
          /\ job' = job \/ \E q : job' = [job EXCEPT ![cur].path = q]
          /\ reply' = reply
      BY <2>3 DEF FileEndPlace, FileEndMove, FileEndComplete, Ending, wireVars
    <3>2. pc'[cur] \in Ending /\ job'[cur].key = job[cur].key
      BY <3>1 DEF PrefixInv, TypeInv, SidecarType, Jobs
    <3>3. EndTalk(cur)'
      BY <1>2, <2>2, <3>1, <3>2 DEF EndTalk, Ending
    <3> QED
      BY <1>1, <1>2, <2>2, <3>3 DEF TalkInv, Talk
  <2>4. CASE FileEndUnplaced(cur) \/ FileEndStats(cur)
    <3>1. /\ pc' = [pc EXCEPT ![cur] = "ready"] /\ writer' = [writer EXCEPT ![cur] = NoWriter]
          /\ inbox' = inbox /\ reply'.kind \in {"END_OK", "END_FAIL"}
      BY <2>4 DEF FileEndUnplaced, FileEndStats, Pause, UnplacedAnswer, Respond, Answer
    <3>2. pc'[cur] = "ready" /\ writer'[cur] = NoWriter /\ inbox'[cur] = <<>>
      BY <1>1, <2>1, <3>1 DEF PrefixInv, TypeInv, SidecarType, ConnInv, Standing, Ending
    <3>3. EndTalk(cur)'
      BY <1>2, <3>1, <3>2 DEF EndTalk, Quiet
    <3> QED
      BY <1>1, <1>2, <2>2, <3>3 DEF TalkInv, Talk
  <2> QED
    BY <1>4, <2>3, <2>4
<1>5. CASE FileEndNoDirName(cur)
  BY <1>5 DEF FileEndNoDirName
<1> QED
  BY <1>3, <1>4, <1>5 DEF FileEnd

LEMMA SidecarTalk ==
  ASSUME PrefixInv, NEW c \in Conns, Beside(c), Sidecar(c)
  PROVE  TalkInv'
<1>1. cur \in Conns \cup {NoConn} /\ TalkInv
  BY DEF PrefixInv, TypeInv, PhoneType
<1>2. CASE Teardown(c)
  BY <1>1, <1>2, TeardownTalk
<1>3. CASE ~Teardown(c) /\ cur # c
  BY <1>1, <1>3, SidecarReply, OtherTalk
<1>4. CASE ~Teardown(c) /\ cur = c
  BY <1>4, FileInitTalk, FileDataTalk, FileEndTalk DEF Sidecar, ProtocolError, ReadEOF
<1> QED
  BY <1>2, <1>3, <1>4

-----------------------------------------------------------------------------
(* The phone and the environment. *)

\* The phone sends frame f: it may follow what is already in the inbox.
Sends(f) ==
  LET s == inbox[cur]
  IN /\ inbox' = [inbox EXCEPT ![cur] = Append(@, f)]
     /\ pc[cur] = "ready" /\ task'.chunk = 1
     /\ Ordered(Append(s, f)) /\ Fits(Append(s, f), writer[cur])
     /\ \/ task'.phase = "init" /\ s = <<>> /\ f = InitFrame(task'.key) /\ reply = NoReply
        \/ /\ task'.phase = "data" /\ task'.key = task.key /\ f.type = "FILE_DATA"
           /\ reply = NoReply /\ Serves(cur) /\ f.offset + 1 = task'.next
        \/ /\ task'.phase = "end" /\ task'.key = task.key /\ f.type = "FILE_END"
           /\ reply = NoReply /\ Serves(cur)

\* What the phone adds to its connection's inbox.
LEMMA PhoneSendPrefix ==
  ASSUME Aligned, PrefixInv, (\E k \in Keys : PhoneInit(k)) \/ PhoneData \/ PhoneEnd
  PROVE  FilesInv' /\ (\A c \in Conns : ConnInv(c)') /\ TalkInv'
<1> DEFINE s == inbox[cur]
<1>1. cur \in Conns /\ cur # NoConn
  <2>1. cur # NoConn
    BY DEF PrefixInv, TypeInv, TaskKeyed, PhoneInit, PhoneData, PhoneEnd
  <2> QED
    BY <2>1 DEF PrefixInv, TypeInv, PhoneType
<1>2. /\ UNCHANGED <<cur, reply, ack, pc, job, writer, data>>
  BY DEF PhoneInit, PhoneData, PhoneEnd, sidecarVars, diskVars
<1>3. /\ ConnInv(cur) /\ Talk(cur) /\ task.chunk = 1 /\ task \in TaskType
      /\ s \in Seq(Frames) /\ Ordered(s) /\ Fits(s, writer[cur]) /\ Len(s) \in Nat
  BY <1>1, LenProperties DEF PrefixInv, TalkInv, TypeInv, PhoneType, WireType, ConnInv
<1>4. \E f \in Frames : Sends(f)
  <2>1. ASSUME NEW k \in Keys, PhoneInit(k) PROVE \E f \in Frames : Sends(f)
    <3> DEFINE f == InitFrame(k)
    <3>1. /\ inbox' = [inbox EXCEPT ![cur] = Append(@, f)]
          /\ task' = [NoTask EXCEPT !.phase = "init", !.key = k] /\ task = NoTask
      BY <2>1 DEF PhoneInit, Send
    <3>2. IdleTalk(cur)
      BY <1>3, <3>1 DEF Talk, NoTask
    <3>3. f \in Frames /\ f.type = "FILE_INIT"
      BY FrameKinds DEF InitFrame
    <3>4. s = <<>> /\ writer[cur] = NoWriter /\ pc[cur] = "ready" /\ reply = NoReply /\ Len(s) = 0
      BY <3>2 DEF IdleTalk, Quiet
    <3> HIDE DEF f
    <3>5. Ordered(Append(s, f))
      <4>1. /\ Len(s) > 0 => s[Len(s)].type = "FILE_DATA" /\ f.type # "FILE_INIT"
            /\ f.type = "FILE_DATA" => f.len = 1 /\ (Len(s) > 0 => f.offset = s[Len(s)].offset + 1)
        BY <3>3, <3>4
      <4> QED
        BY <1>3, <3>3, <4>1, AppendOrdered
    <3>6. Fits(Append(s, f), writer[cur])
      BY <1>3, <3>3, <3>4, AppendFits
    <3>7. task'.phase = "init" /\ task'.key = k /\ task'.chunk = 1
      BY <3>1 DEF NoTask
    <3> QED
      BY <3>1, <3>3, <3>4, <3>5, <3>6, <3>7 DEF f, Sends
  <2>2. ASSUME PhoneData PROVE \E f \in Frames : Sends(f)
    <3> DEFINE f == DataFrame(task.key, task.next, 1)
    <3>1. /\ task.phase = "data" /\ reply = NoReply /\ task.next < Size
      BY <2>2 DEF PhoneData
    <3>2. MinOf(task.chunk, Size - task.next) = 1 /\ task.next \in Offsets /\ task.next + 1 <= Size
      BY <1>3, <3>1, ConstantsAssumption DEF MinOf, TaskType, Offsets
    <3>3. /\ inbox' = [inbox EXCEPT ![cur] = Append(@, f)]
          /\ task' = [task EXCEPT !.next = task.next + 1]
      BY <2>2, <3>2 DEF PhoneData, Send
    <3>4. /\ f \in Frames /\ f.type = "FILE_DATA" /\ f.key = task.key /\ f.offset = task.next
          /\ f.len = 1
      <4>1. task.key \in Keys /\ 1 \in Units
        BY <3>1, ConstantsAssumption DEF PrefixInv, TypeInv, TaskKeyed, Units
      <4> QED
        BY <3>2, <4>1, FrameKinds DEF DataFrame
    <3>5. /\ pc[cur] = "ready" /\ Serves(cur)
          /\ s = <<>> => task.next <= writer[cur].offset
          /\ s # <<>> => s[Len(s)].type = "FILE_DATA" /\ s[Len(s)].offset + 1 = task.next
      BY <1>3, <3>1 DEF Talk, DataTalk, Broken, LastFrame, NoReply
    <3>6. Len(s) > 0 => s # <<>>
      BY EmptySeq
    <3> HIDE DEF f
    <3>7. Ordered(Append(s, f))
      BY <1>3, <3>4, <3>5, <3>6, AppendOrdered
    <3>8. Fits(Append(s, f), writer[cur])
      BY <1>3, <3>4, <3>5, AppendFits DEF Serves
    <3>9. /\ task'.phase = "data" /\ task'.key = task.key /\ task'.chunk = 1
          /\ task'.next = task.next + 1
      BY <1>3, <3>1, <3>3 DEF TaskType
    <3> QED
      BY <3>1, <3>3, <3>4, <3>5, <3>7, <3>8, <3>9 DEF Sends
  <2>3. ASSUME PhoneEnd PROVE \E f \in Frames : Sends(f)
    <3>1. PICK h \in Hashing : inbox' = [inbox EXCEPT ![cur] = Append(@, EndFrame(task.key, h))]
      BY <2>3 DEF PhoneEnd, Send
    <3> DEFINE f == EndFrame(task.key, h)
    <3>2. /\ task.phase = "data" /\ reply = NoReply /\ ack[cur] >= Size /\ task.next = Size
          /\ task' = [task EXCEPT !.phase = "end"]
      BY <2>3 DEF PhoneEnd
    <3>3. f \in Frames /\ f.type = "FILE_END" /\ f.key = task.key
      <4>1. task.key \in Keys /\ h \in BOOLEAN
        BY <3>2, ConstantsAssumption DEF PrefixInv, TypeInv, TaskKeyed
      <4> QED
        BY <4>1, FrameKinds DEF EndFrame
    <3>4. /\ pc[cur] = "ready" /\ Serves(cur)
          /\ s # <<>> => s[Len(s)].type = "FILE_DATA"
      BY <1>3, <3>2 DEF Talk, DataTalk, Broken, LastFrame, NoReply
    <3>5. writer[cur].offset = Size
      BY <1>1, <1>3, <3>2, <3>4, ConstantsAssumption
         DEF ConnInv, Placed, Serves, PrefixInv, TypeInv, SidecarType, WireType, Writers, Offsets
    <3>6. Len(s) > 0 => s # <<>>
      BY EmptySeq
    <3> HIDE DEF f
    <3>7. Ordered(Append(s, f))
      BY <1>3, <3>3, <3>4, <3>6, AppendOrdered
    <3>8. Fits(Append(s, f), writer[cur])
      BY <1>3, <3>3, <3>4, <3>5, AppendFits DEF Serves
    <3>9. task'.phase = "end" /\ task'.key = task.key /\ task'.chunk = 1
      BY <1>3, <3>2 DEF TaskType
    <3> QED
      BY <3>1, <3>2, <3>3, <3>4, <3>7, <3>8, <3>9 DEF f, Sends
  <2> QED
    BY <2>1, <2>2, <2>3
<1>5. PICK f \in Frames : Sends(f)
  BY <1>4
<1> USE DEF Sends
<1>6. inbox'[cur] = Append(s, f) /\ \A d \in Conns \ {cur} : inbox'[d] = inbox[d]
  BY <1>1, <1>5 DEF PrefixInv, TypeInv, WireType
<1>7. \A c \in Conns : ConnInv(c)'
  <2>1. ASSUME NEW c \in Conns \ {cur} PROVE ConnInv(c)'
    BY <1>2, <1>6 DEF PrefixInv, ConnInv, Ordered, Fits, Placed, Standing
  <2>2. ASSUME NEW c \in Conns, c = cur PROVE ConnInv(c)'
    <3>1. Ordered(inbox'[c]) /\ Fits(inbox'[c], writer[c])
      BY <1>5, <1>6, <2>2
    <3> QED
      BY <1>2, <1>3, <1>5, <2>2, <3>1 DEF ConnInv, Ordered, Fits, Placed, Standing, Ending
  <2> QED
    BY <2>1, <2>2
<1>8. Append(s, f) # <<>> /\ Append(s, f)[Len(Append(s, f))] = f
  <2> DEFINE t == Append(s, f)
  <2>1. f \in Frames /\ s \in Seq(Frames)
    BY <1>3, <1>5
  <2>2. t # <<>> /\ Len(t) = Len(s) + 1 /\ t[Len(s) + 1] = f
    BY <2>1, AppendProperties
  <2> HIDE DEF t
  <2>3. t # <<>> /\ t[Len(t)] = f
    BY <2>2
  <2> QED
    BY <2>3 DEF t
<1>9. TalkInv'
  <2>1. CASE task'.phase = "init"
    <3>1. s = <<>> /\ f = InitFrame(task'.key)
      BY <1>5, <2>1
    <3>4. Append(<<>>, f) = <<f>>
      OBVIOUS
    <3>2. InitTalk(cur)'
      BY <1>2, <1>5, <1>6, <2>1, <3>1, <3>4 DEF InitTalk
    <3> QED
      BY <1>1, <1>2, <1>5, <2>1, <3>2 DEF TalkInv, Talk
  <2>2. CASE task'.phase = "data"
    <3>1. DataTalk(cur)'
      BY <1>2, <1>5, <1>6, <1>8, <2>2 DEF DataTalk, LastFrame, Serves
    <3> QED
      BY <1>1, <1>2, <1>5, <2>2, <3>1 DEF TalkInv, Talk
  <2>3. CASE task'.phase = "end"
    <3>1. EndTalk(cur)'
      BY <1>2, <1>5, <1>6, <1>8, <2>3 DEF EndTalk, LastFrame, Serves
    <3> QED
      BY <1>1, <1>2, <1>5, <2>3, <3>1 DEF TalkInv, Talk
  <2> QED
    BY <1>5, <2>1, <2>2, <2>3
<1>10. FilesInv'
  BY <1>2 DEF PrefixInv, FilesInv, Prefix
<1> QED
  BY <1>7, <1>9, <1>10

\* The phone connects, takes an answer or gives up.
LEMMA PhoneOtherPrefix ==
  ASSUME Aligned, PrefixInv,
         (\E c \in Conns : PhoneConnect(c)) \/ PhoneInitRes \/ PhoneEndRes \/ PhoneError
  PROVE  FilesInv' /\ (\A c \in Conns : ConnInv(c)') /\ TalkInv'
<1>1. CASE \E c \in Conns : PhoneConnect(c)
  <2>1. PICK c \in Conns : PhoneConnect(c)
    BY <1>1
  <2>2. /\ cur = NoConn /\ pc[c] = "closed" /\ cur' = c /\ pc' = [pc EXCEPT ![c] = "ready"]
        /\ UNCHANGED <<task, inbox, reply, ack, job, writer, data>>
    BY <2>1 DEF PhoneConnect, wireVars, diskVars
  <2>3. inbox[c] = <<>> /\ writer[c] = NoWriter /\ task = NoTask /\ reply = NoReply
    BY <2>2 DEF PrefixInv, ConnInv, Standing, TalkInv
  <2>4. pc'[c] = "ready" /\ \A d \in Conns \ {c} : pc'[d] = pc[d]
    BY <2>2 DEF PrefixInv, TypeInv, SidecarType
  <2>5. ASSUME NEW d \in Conns PROVE ConnInv(d)'
    BY <2>2, <2>3, <2>4, EmptyInbox
       DEF PrefixInv, ConnInv, Ordered, Fits, Placed, Standing, Ending
  <2>6. TalkInv'
    BY <2>2, <2>3, <2>4, ConstantsAssumption DEF TalkInv, Talk, IdleTalk, Quiet, NoTask
  <2>7. FilesInv'
    BY <2>2 DEF PrefixInv, FilesInv, Prefix
  <2> QED
    BY <2>5, <2>6, <2>7
<1>2. CASE PhoneInitRes \/ PhoneEndRes \/ PhoneError
  <2>1. UNCHANGED <<inbox, ack, pc, job, writer, data>> /\ reply' = NoReply
    BY <1>2 DEF PhoneInitRes, PhoneEndRes, PhoneError, sidecarVars, diskVars
  <2>2. FilesInv' /\ \A c \in Conns : ConnInv(c)'
    BY <2>1, StillPrefix DEF PrefixInv
  <2>7. cur \in Conns \cup {NoConn} /\ task \in TaskType /\ NoConn \notin Conns
    BY ConstantsAssumption DEF PrefixInv, TypeInv, PhoneType
  <2>3. CASE PhoneError
    <3>1. task' = NoTask /\ cur' = NoConn
      BY <2>3 DEF PhoneError
    <3> QED
      BY <2>1, <2>2, <3>1, TalkOver
  <2>4. CASE PhoneInitRes
    <3>1. task.phase = "init" /\ reply.kind \in {"SKIP", "REJECT", "UPLOAD", "RESUME"}
      BY <2>4 DEF PhoneInitRes
    <3>2. cur \in Conns /\ Talk(cur)
      BY <2>7, <3>1 DEF PrefixInv, TypeInv, TaskKeyed, TalkInv
    <3>3. InitTalk(cur) /\ reply # NoReply
      BY <3>1, <3>2 DEF Talk, NoReply
    <3>4. Quiet(cur)
      BY <3>3 DEF InitTalk
    <3>5. CASE reply.kind \in {"SKIP", "REJECT"}
      <4>1. task' = NoTask /\ cur' \in {cur, NoConn}
        BY <2>4, <3>5 DEF PhoneInitRes, Refused
      <4>2. writer[cur] = NoWriter
        BY <3>3, <3>5 DEF InitTalk
      <4>3. CASE cur' = NoConn
        BY <2>1, <2>2, <4>1, <4>3, TalkOver
      <4>4. CASE cur' = cur
        BY <2>1, <2>2, <3>2, <3>4, <4>1, <4>2, <4>4 DEF TalkInv, Talk, IdleTalk, Quiet, NoTask
      <4> QED
        BY <4>1, <4>3, <4>4
    <3>6. CASE reply.kind \in {"UPLOAD", "RESUME"}
      <4>1. (\E n \in ChunkSizes :
               task' = [task EXCEPT !.phase = "data", !.next = reply.offset, !.chunk = n])
            /\ cur' = cur
        BY <2>4, <3>6 DEF PhoneInitRes
      <4>2. PICK n \in ChunkSizes :
              task' = [task EXCEPT !.phase = "data", !.next = reply.offset, !.chunk = n]
        BY <4>1
      <4>3. /\ task'.phase = "data" /\ task'.next = reply.offset /\ task'.chunk = 1
            /\ task'.key = task.key
        BY <2>7, <4>2 DEF Aligned, TaskType
      <4>4. Serves(cur) /\ reply.offset <= writer[cur].offset
        BY <3>3, <3>6 DEF InitTalk
      <4>5. DataTalk(cur)'
        BY <2>1, <3>4, <4>1, <4>3, <4>4 DEF DataTalk, Serves, Quiet
      <4> QED
        BY <2>2, <2>7, <3>2, <4>1, <4>3, <4>5 DEF TalkInv, Talk
    <3> QED
      BY <3>1, <3>5, <3>6
  <2>5. CASE PhoneEndRes
    <3>1. /\ task.phase = "end" /\ reply.kind \in {"END_OK", "END_FAIL"} /\ task' = NoTask
          /\ cur' \in {cur, NoConn}
      BY <2>5 DEF PhoneEndRes, Refused
    <3>2. cur \in Conns /\ Talk(cur)
      BY <2>7, <3>1 DEF PrefixInv, TypeInv, TaskKeyed, TalkInv
    <3>3. EndTalk(cur) /\ reply.kind \in {"END_OK", "END_FAIL"}
      BY <3>1, <3>2 DEF Talk
    <3>4. Quiet(cur) /\ writer[cur] = NoWriter
      BY <3>3 DEF EndTalk, Broken, NoReply
    <3>5. CASE cur' = NoConn
      BY <2>1, <2>2, <3>1, <3>5, TalkOver
    <3>6. CASE cur' = cur
      BY <2>1, <2>2, <3>1, <3>2, <3>4, <3>6 DEF TalkInv, Talk, IdleTalk, Quiet, NoTask
    <3> QED
      BY <3>1, <3>5, <3>6
  <2> QED
    BY <1>2, <2>2, <2>3, <2>4, <2>5
<1> QED
  BY <1>1, <1>2

\* Crashes, lost connections, and what the user and others do to the disk.
LEMMA EnvironmentPrefix ==
  ASSUME PrefixInv, Environment
  PROVE  FilesInv' /\ (\A c \in Conns : ConnInv(c)') /\ TalkInv'
<1>1. CASE Crash
  <2>1. /\ \A c \in Conns : /\ pc'[c] = "closed" /\ writer'[c] = NoWriter
                            /\ inbox'[c] = <<>> /\ ack'[c] = 0
        /\ data' = data /\ cur' = NoConn /\ task' = NoTask /\ reply' = NoReply
    BY <1>1 DEF Crash, diskVars
  <2>2. ASSUME NEW c \in Conns PROVE ConnInv(c)'
    BY <2>1, EmptyInbox DEF ConnInv, Placed, Standing, Ending, Ordered, Fits
  <2>3. FilesInv'
    BY <2>1 DEF PrefixInv, FilesInv, Prefix
  <2> QED
    BY <2>1, <2>2, <2>3, TalkOver
<1>2. CASE PhoneDrop
  <2>1. PICK n \in 0 .. Len(inbox[cur]) : inbox' = [inbox EXCEPT ![cur] = SubSeq(@, 1, n)]
    BY <1>2 DEF PhoneDrop
  <2>2. /\ cur \in Conns /\ cur' = NoConn /\ task' = NoTask /\ reply' = NoReply
        /\ UNCHANGED <<ack, pc, job, writer, data>>
    BY <1>2 DEF PhoneDrop, PrefixInv, TypeInv, PhoneType, sidecarVars, diskVars
  <2>3. ASSUME NEW c \in Conns PROVE ConnInv(c)'
    <3>1. CASE c # cur
      <4>1. inbox'[c] = inbox[c]
        BY <2>1, <3>1 DEF PrefixInv, TypeInv, WireType
      <4> QED
        BY <2>2, <4>1 DEF PrefixInv, ConnInv, Ordered, Fits, Placed, Standing
    <3>2. CASE c = cur
      <4>1. inbox'[c] = SubSeq(inbox[c], 1, n) /\ inbox[c] \in Seq(Frames)
        BY <2>1, <2>2, <3>2 DEF PrefixInv, TypeInv, WireType
      <4>2. ConnInv(c)
        BY DEF PrefixInv
      <4>3. Ordered(SubSeq(inbox[c], 1, n)) /\ Fits(SubSeq(inbox[c], 1, n), writer[c])
        BY <3>2, <4>1, <4>2, PrefixOrdered DEF ConnInv
      <4>4. inbox[c] = <<>> => inbox'[c] = <<>>
        BY <2>1, <3>2, <4>1, SubSeqEmpty, EmptySeq
      <4> QED
        BY <2>2, <4>1, <4>2, <4>3, <4>4 DEF ConnInv, Ordered, Fits, Placed, Standing
    <3> QED
      BY <3>1, <3>2
  <2>4. FilesInv'
    BY <2>2 DEF PrefixInv, FilesInv, Prefix
  <2> QED
    BY <2>2, <2>3, <2>4, TalkOver
<1>3. CASE \/ \E k \in Keys : PhoneReoffer(k) \/ PartVanishes(k)
           \/ \E p \in Paths : UserDeletesFinal(p)
  <2>1. UNCHANGED <<inbox, pc, job, writer, ack, data, cur, task, reply>>
    BY <1>3 DEF PhoneReoffer, PartVanishes, UserDeletesFinal, phoneVars, wireVars, sidecarVars, diskVars
  <2>2. TalkInv'
    BY <2>1 DEF PrefixInv, TalkInv, Talk, IdleTalk, InitTalk, DataTalk, EndTalk, Quiet, Serves,
       LastFrame, Broken
  <2> QED
    BY <2>1, <2>2, StillPrefix DEF PrefixInv
<1> QED
  BY <1>1, <1>2, <1>3 DEF Environment

-----------------------------------------------------------------------------
(* The theorems. *)

LEMMA InitPrefix == Init => PrefixInv
<1> SUFFICES ASSUME Init PROVE PrefixInv
  OBVIOUS
<1>1. TypeInv
  BY InitType
<1>2. FilesInv
  BY DEF Init, FilesInv, Prefix, Empty
<1>3. \A c \in Conns : ConnInv(c)
  BY EmptyInbox DEF Init, ConnInv, Placed, Standing, Ending
<1>4. TalkInv
  BY DEF Init, TalkInv, NoTask
<1> QED
  BY <1>1, <1>2, <1>3, <1>4 DEF PrefixInv

LEMMA NextPrefix ==
  ASSUME Aligned, PrefixInv, [Next]_vars
  PROVE  PrefixInv'
<1>1. TypeInv'
  BY NextType DEF PrefixInv
<1>2. ASSUME NEW c \in Conns, Sidecar(c) PROVE PrefixInv'
  <2>1. FilesInv' /\ (\A d \in Conns : ConnInv(d)') /\ Beside(c)
    BY <1>1, <1>2, SidecarPrefix DEF PrefixInv
  <2>2. TalkInv'
    BY <1>2, <2>1, SidecarTalk
  <2> QED
    BY <1>1, <2>1, <2>2 DEF PrefixInv
<1>3. CASE PhoneLoop
  BY <1>1, <1>3, PhoneSendPrefix, PhoneOtherPrefix DEF PhoneLoop, PrefixInv
<1>4. CASE Environment
  BY <1>1, <1>4, EnvironmentPrefix DEF PrefixInv
<1>5. CASE UNCHANGED vars
  <2>1. UNCHANGED <<inbox, pc, job, writer, ack, data, cur, task, reply>>
    BY <1>5 DEF vars, phoneVars, wireVars, sidecarVars, diskVars
  <2>2. TalkInv'
    BY <2>1 DEF PrefixInv, TalkInv, Talk, IdleTalk, InitTalk, DataTalk, EndTalk, Quiet, Serves,
       LastFrame, Broken
  <2> QED
    BY <1>1, <2>1, <2>2, StillPrefix DEF PrefixInv
<1> QED
  BY <1>2, <1>3, <1>4, <1>5 DEF Next

LEMMA PrefixInvariance == ASSUME Aligned PROVE Spec => []PrefixInv
<1>1. PrefixInv /\ [Next]_vars => PrefixInv'
  BY NextPrefix
<1> QED
  BY <1>1, InitPrefix, PTL DEF Spec

LEMMA PrefixInvStored == PrefixInv => StoredIsPrefix
<1> SUFFICES ASSUME PrefixInv, NEW i \in InUse \ {0}
             PROVE  data[i].units = [u \in 1 .. Len(data[i].units) |-> u]
  BY DEF StoredIsPrefix
<1>1. i \in Inodes
  BY DEF PrefixInv, TypeInv, DiskType, SidecarType, Writers, InUse
<1>2. data[i].units \in Seq({Hole} \cup Units) /\ Prefix(data[i].units)
  BY <1>1 DEF PrefixInv, FilesInv, TypeInv, DiskType, Contents
<1> QED
  BY <1>2 DEF Prefix

LEMMA PrefixInvAcked == PrefixInv => AckedIsWritten
<1> SUFFICES ASSUME PrefixInv, NEW c \in Conns, writer[c] # NoWriter
             PROVE  ack[c] <= Len(data[writer[c].inode].units)
  BY DEF AckedIsWritten
<1>1. /\ writer[c].inode \in Inodes /\ ack[c] <= writer[c].offset
      /\ writer[c].offset <= Len(data[writer[c].inode].units)
  BY DEF PrefixInv, ConnInv, Placed
<1>2. /\ ack[c] \in Nat /\ writer[c].offset \in Nat
      /\ data[writer[c].inode].units \in Seq({Hole} \cup Units)
  BY <1>1 DEF PrefixInv, TypeInv, WireType, SidecarType, Writers, DiskType, Contents, Offsets
<1> QED
  BY <1>1, <1>2, LenProperties

\* However many connections work on one file, and whatever is lost or crashes in
\* between, FileWriter never leaves a gap in a .part file and never puts a unit
\* at the wrong place, and what Finalize moves is the beginning of its source:
\* where chunks line up with leftover files, UploadReceiver keeps StoredIsPrefix.
THEOREM ReceiverStoresPrefixes == ASSUME Aligned PROVE Spec => []StoredIsPrefix
<1> QED
  BY PrefixInvariance, PrefixInvStored, PTL

\* No FILE_ACK of handleFileData, and no offset a FILE_INIT is answered with, is
\* beyond the file the connection writes, also when another connection writes
\* it too or its .part file has vanished: AckedIsWritten.
THEOREM ReceiverAcksWritten == ASSUME Aligned PROVE Spec => []AckedIsWritten
<1> QED
  BY PrefixInvariance, PrefixInvAcked, PTL

=============================================================================
