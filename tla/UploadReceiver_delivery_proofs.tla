------------------- MODULE UploadReceiver_delivery_proofs -------------------
(***************************************************************************)
(* What the phone is promised, for any number of files, units, faults,     *)
(* losses, crashes, deletions and purges, as long as the phone comes back  *)
(* only when the sidecar is through with what an earlier connection left   *)
(* (OneAtATime): a file that is crossed off is stored whole, and           *)
(* UploadReceiver implements Delivery, when chunks line up (Aligned).  The *)
(* last section does without that: with a hash in every FILE_END, a row    *)
(* that says completed has the whole file at its path (VerifiedIsIntact).  *)
(*                                                                         *)
(* With two goroutines at work on one file this is false: README.md has    *)
(* the behaviour.                                                          *)
(***************************************************************************)
EXTENDS UploadReceiver_proofs

\* No two goroutines of the phone at once.
OneAtATime == \A c, d \in Conns : pc[c] # "closed" /\ pc[d] # "closed" => c = d

-----------------------------------------------------------------------------
(* The invariant.                                                            *)

\* Where Finalize may put a file, and whether it is there.
Wants(k) == {Plain(k), Suffixed(k)}
Held(k)  == \E p \in Wants(k) : finals[p] # 0 /\ data[finals[p]].key = k
Safe(k)  == k \in userLost \/ Held(k)

\* What has a name in the receive directory is whole and under a name of its own.
FinalsInv ==
  \A p \in Paths : finals[p] # 0 =>
    p \in Wants(data[finals[p]].key) /\ Len(data[finals[p]].units) = Size

\* What is in staging is the file it is named for, and is not received yet.
PartsInv ==
  \A k \in Keys : part[k] # 0 =>
    data[part[k]].key = k /\ \A p \in Paths : finals[p] # part[k]

\* A writer has the file under its part path open, or one that has lost its
\* name, until it is moved; never a received one.
Moved  == {"end.complete", "end.stats"}
Use(c) ==
  writer[c] # NoWriter =>
    /\ writer[c].key \in Keys /\ data[writer[c].inode].key = writer[c].key
    /\ pc[c] \notin Moved =>
         /\ part[writer[c].key] \in {0, writer[c].inode}
         /\ \A p \in Paths : finals[p] # writer[c].inode

\* A chosen name is a name of the file, and the plain one is still free.
Name(c) ==
  pc[c] = "end.move" =>
    /\ job[c].path \in Wants(job[c].key)
    /\ job[c].path = Plain(job[c].key) => finals[job[c].path] = 0

DiskInv == FinalsInv /\ PartsInv /\ \A c \in Conns : Use(c) /\ Name(c)

\* Whoever says of a file that it is there is right, or the user deleted it.
SafeInv ==
  /\ \A k \in Keys : item[k] = "completed" \/ row[k].status = "completed" => Safe(k)
  /\ \A c \in Conns : pc[c] \in Moved => Safe(job[c].key)
  /\ reply.kind \in {"SKIP", "END_OK"} => Safe(task.key)

DeliveryInv == PrefixInv /\ DiskInv /\ SafeInv

-----------------------------------------------------------------------------
(* Names. *)

LEMMA WantsPaths ==
  ASSUME NEW k \in Keys
  PROVE  /\ Plain(k) \in Paths /\ Suffixed(k) \in Paths /\ Wants(k) \subseteq Paths
         /\ \A j \in Keys : Suffixed(k) \in Wants(j) => j = k
BY ConstantsAssumption DEF Wants, Plain, Suffixed, Paths

\* A file in the receive directory is held by the key it was made for.
LEMMA FinalHeld ==
  ASSUME TypeInv, FinalsInv, NEW p \in Paths, finals[p] # 0
  PROVE  data[finals[p]].key \in Keys /\ Held(data[finals[p]].key)
BY DEF TypeInv, FilesKeyed, FinalsInv, Held

-----------------------------------------------------------------------------
(* What happens to the disk. *)

SameHeld == \A k \in Keys : Held(k)' <=> Held(k)

\* A writer writes a file, and its connection is open.
Sits(c) ==
  /\ pc[c] = "closed" => writer[c] = NoWriter
  /\ writer[c] # NoWriter => writer[c].inode \in Inodes

\* What is about to be moved is as long as its source.
Full(c) ==
  pc[c] = "end.move" /\ part[job[c].key] # 0 => Len(data[part[job[c].key]].units) = Size

\* No received file is written to.
Unwritten == \A p \in Paths : finals[p] # 0 => data'[finals[p]] = data[finals[p]]

\* Nothing in the receive directory changes and no .part file appears.
Settled == UNCHANGED <<finals, data>> /\ \A k \in Keys : part'[k] \in {0, part[k]}

LEMMA SettledDisk ==
  ASSUME FinalsInv, PartsInv, Settled
  PROVE  FinalsInv' /\ PartsInv' /\ SameHeld
BY DEF FinalsInv, PartsInv, Settled, SameHeld, Held, Wants, Plain, Suffixed

\* A connection that keeps its writer or closes it.
LEMMA SettledUse ==
  ASSUME TypeInv, Settled, NEW c \in Conns, Use(c),
         writer'[c] \in {writer[c], NoWriter}, pc[c] \in Moved => pc'[c] \in Moved \/ writer'[c] = NoWriter
  PROVE  Use(c)'
BY DEF Use, Settled

\* Every action of a connection is guarded by where its goroutine stands.
LEMMA SidecarAwake ==
  ASSUME NEW c \in Conns, Sidecar(c)
  PROVE  pc[c] # "closed"
BY DEF Sidecar, FileInit, FileInitReject, FileInitRead, FileInitResume, FileInitUpload,
   FileInitError, FileData, FileDataWrite, FileDataPause, FileDataDiskFull, FileDataError, DataFor,
   FileEnd, FileEndVerify, FileEndMismatch, FileEndHashError, FileEndUnavailable, EndFor,
   FileEndPlace, FileEndMove, FileEndUnplaced, FileEndNoDirName, FileEndComplete, FileEndStats,
   ProtocolError, ReadEOF

\* While one goroutine takes a step there is no other.
LEMMA OthersIdle ==
  ASSUME OneAtATime, \A d \in Conns : Sits(d), NEW c \in Conns, Sidecar(c), Beside(c)
  PROVE  \A d \in Conns \ {c} : /\ pc[d] = "closed" /\ writer[d] = NoWriter
                                /\ pc'[d] = "closed" /\ writer'[d] = NoWriter
                                /\ Use(d)' /\ Name(d)'
<1> TAKE d \in Conns \ {c}
<1>1. pc[d] = "closed"
  BY SidecarAwake DEF OneAtATime
<1>2. writer[d] = NoWriter
  BY <1>1 DEF Sits
<1>3. pc'[d] = "closed" /\ writer'[d] = NoWriter
  BY <1>1, <1>2 DEF Beside
<1> QED
  BY <1>1, <1>2, <1>3 DEF Use, Name

\* A write into the file of a connection that has not moved it.
LEMMA WrittenDisk ==
  ASSUME TypeInv, FinalsInv, PartsInv, NEW c \in Conns, Sits(c), Use(c),
         writer[c] # NoWriter, pc[c] = "ready", pc' = pc,
         NEW f \in Frames, NEW n \in Nat, n <= f.len,
         data' = Written(c, f, n), UNCHANGED <<part, finals>>,
         writer'[c] = NoWriter \/ (/\ writer'[c].key = writer[c].key
                                   /\ writer'[c].inode = writer[c].inode)
  PROVE  FinalsInv' /\ PartsInv' /\ SameHeld /\ Unwritten /\ Use(c)'
<1> DEFINE j == writer[c].inode
<1>1. \A p \in Paths : finals[p] # j
  BY DEF Use, Moved
<1>2. j \in Inodes /\ \A i \in Inodes : data'[i].key = data[i].key
  BY WrittenType DEF Sits, TypeInv
<1>3. \A i \in Inodes \ {j} : data'[i] = data[i]
  BY DEF Written, TypeInv, DiskType
<1>4. \A p \in Paths : finals[p] # 0 => finals[p] \in Inodes /\ data'[finals[p]] = data[finals[p]]
  BY <1>1, <1>3 DEF TypeInv, DiskType
<1>5. \A k \in Keys : part[k] # 0 => part[k] \in Inodes /\ data'[part[k]].key = data[part[k]].key
  BY <1>2 DEF TypeInv, DiskType
<1>6. FinalsInv'
  BY <1>4 DEF FinalsInv, Wants, Plain, Suffixed
<1>7. PartsInv'
  BY <1>5 DEF PartsInv
<1>8. SameHeld
  BY <1>4, WantsPaths DEF SameHeld, Held, Wants, Plain, Suffixed
<1>9. Use(c)'
  BY <1>1, <1>2 DEF Use, Moved
<1> QED
  BY <1>4, <1>6, <1>7, <1>8, <1>9 DEF Unwritten

\* The .part file of an upload is opened, and made if there is none.
LEMMA OpenPartDisk ==
  ASSUME TypeInv, FinalsInv, PartsInv, NEW c \in Conns, NEW k \in Keys, OpenPart(c, k),
         pc'[c] = "ready"
  PROVE  /\ FinalsInv' /\ PartsInv' /\ SameHeld /\ Unwritten /\ Use(c)'
         /\ writer'[c].inode \in Inodes
<1> DEFINE i == IF part[k] = 0 THEN NewInode ELSE part[k]
           w == [key |-> k, inode |-> i, offset |-> PartLen(k), pos |-> PartLen(k)]
<1>1. /\ part' = [part EXCEPT ![k] = i] /\ finals' = finals
      /\ data' = IF part[k] = 0 THEN [data EXCEPT ![i] = [key |-> k, units |-> <<>>]] ELSE data
      /\ writer' = [writer EXCEPT ![c] = w] /\ (part[k] # 0 \/ Free # {})
  BY DEF OpenPart
<1>2. i \in Inodes /\ part'[k] = i /\ \A l \in Keys \ {k} : part'[l] = part[l]
  BY <1>1, NewInodeFree DEF TypeInv, DiskType
<1>3. \A p \in Paths : finals[p] # i
  BY <1>1, NewInodeFree DEF PartsInv
<1>4. /\ data'[i].key = k
      /\ \A l \in Inodes \ {i} : data'[l] = data[l]
  BY <1>1, <1>2 DEF TypeInv, DiskType, PartsInv
<1>5. \A l \in Keys \ {k} : part[l] # 0 => part[l] # i
  BY <1>1, NewInodeFree DEF PartsInv
<1>6. writer'[c].key = k /\ writer'[c].inode = i
  BY <1>1 DEF TypeInv, SidecarType
<1>7. \A p \in Paths : finals[p] # 0 => data'[finals[p]] = data[finals[p]]
  BY <1>3, <1>4 DEF TypeInv, DiskType
<1> HIDE DEF i
<1>8. FinalsInv'
  BY <1>1, <1>7 DEF FinalsInv, Wants, Plain, Suffixed
<1>9. PartsInv'
  <2>1. \A l \in Keys \ {k} : part[l] # 0 => data'[part[l]].key = l
    BY <1>4, <1>5 DEF PartsInv, TypeInv, DiskType
  <2> QED
    BY <1>1, <1>2, <1>3, <1>4, <2>1 DEF PartsInv
<1>10. SameHeld
  BY <1>1, <1>7, WantsPaths DEF SameHeld, Held, Wants, Plain, Suffixed
<1>11. Use(c)'
  BY <1>1, <1>2, <1>3, <1>4, <1>6 DEF Use
<1> QED
  BY <1>2, <1>6, <1>7, <1>8, <1>9, <1>10, <1>11 DEF Unwritten

\* The .part file of key k takes path p: the key has a copy from then on, and
\* no other loses one.
LEMMA MoveDisk ==
  ASSUME TypeInv, FinalsInv, PartsInv, NEW k \in Keys, part[k] # 0,
         Len(data[part[k]].units) = Size,
         NEW p \in Wants(k), p = Plain(k) => finals[p] = 0,
         finals' = [finals EXCEPT ![p] = part[k]], part' = [part EXCEPT ![k] = 0], data' = data
  PROVE  /\ FinalsInv' /\ PartsInv' /\ Held(k)'
         /\ \A j \in Keys \ {k} : Held(j)' <=> Held(j)
         /\ \A q \in Paths : finals[q] # 0 /\ finals'[q] \notin {0, finals[q]} =>
              data[finals[q]].key = data[finals'[q]].key
<1>1. p \in Paths /\ data[part[k]].key = k
  BY WantsPaths DEF PartsInv
<1>2. finals'[p] = part[k] /\ \A q \in Paths \ {p} : finals'[q] = finals[q]
  BY <1>1 DEF TypeInv, DiskType
<1>3. part'[k] = 0 /\ \A l \in Keys \ {k} : part'[l] = part[l]
  BY DEF TypeInv, DiskType
<1>4. finals[p] # 0 => data[finals[p]].key = k
  <2> SUFFICES ASSUME finals[p] # 0 PROVE data[finals[p]].key = k
    OBVIOUS
  <2>1. p = Suffixed(k)
    BY DEF Wants
  <2>2. data[finals[p]].key \in Keys /\ p \in Wants(data[finals[p]].key)
    BY <1>1 DEF FinalsInv, TypeInv, FilesKeyed
  <2> QED
    BY <2>1, <2>2, WantsPaths
<1>5. FinalsInv'
  BY <1>1, <1>2 DEF FinalsInv, Wants, Plain, Suffixed
<1>6. PartsInv'
  BY <1>1, <1>2, <1>3 DEF PartsInv
<1>7. Held(k)'
  BY <1>1, <1>2 DEF Held, Wants, Plain, Suffixed
<1>8. \A j \in Keys \ {k} : Held(j)' <=> Held(j)
  BY <1>1, <1>2, <1>4, WantsPaths DEF Held, Wants, Plain, Suffixed
<1> QED
  BY <1>1, <1>2, <1>4, <1>5, <1>6, <1>7, <1>8

-----------------------------------------------------------------------------
(* A connection's step. *)

\* What a step of connection c may do to the disk: nothing the phone could
\* notice, or it moves the file it works on into the receive directory.
Moving(c) == pc[c] = "end.move" /\ pc'[c] = "end.complete"
Moves(c) ==
  \E k \in Keys : /\ job[c].key = k /\ job'[c].key = k
                  /\ Held(k)' /\ \A j \in Keys \ {k} : Held(j)' <=> Held(j)
Lands(c) ==
  /\ FinalsInv' /\ PartsInv' /\ Use(c)' /\ Name(c)' /\ Unwritten
  /\ IF Moving(c) THEN Moves(c) ELSE SameHeld
  /\ \A q \in Paths : finals[q] # 0 /\ finals'[q] \notin {0, finals[q]} =>
       data[finals[q]].key = data[finals'[q]].key

\* A step that leaves the receive directory alone and the connection no worse.
LEMMA SettledLands ==
  ASSUME TypeInv, DiskInv, Settled, NEW c \in Conns,
         writer'[c] \in {writer[c], NoWriter}, writer'[c] = NoWriter \/ (pc[c] \in Moved => pc'[c] \in Moved),
         pc'[c] # "end.move", ~Moving(c)
  PROVE  Lands(c)
<1>1. FinalsInv' /\ PartsInv' /\ SameHeld
  BY SettledDisk DEF DiskInv
<1>2. Use(c)'
  BY SettledUse DEF DiskInv
<1>3. \A q \in Paths : finals'[q] = finals[q]
  BY DEF Settled
<1>4. Unwritten
  BY DEF Settled, Unwritten
<1> QED
  BY <1>1, <1>2, <1>3, <1>4 DEF Lands, Name

\* Likewise for a connection that ends.
LEMMA TeardownLands ==
  ASSUME TypeInv, DiskInv, UNCHANGED <<part, finals, data>>, NEW c \in Conns, Teardown(c)
  PROVE  Lands(c)
<1>1. pc'[c] = "closed" /\ writer'[c] = NoWriter
  BY DEF Teardown, TypeInv, SidecarType
<1>2. Settled
  BY DEF Settled
<1> QED
  BY <1>1, <1>2, SettledLands DEF Moving

LEMMA FileInitLands ==
  ASSUME TypeInv, DiskInv, NEW c \in Conns, FileInit(c)
  PROVE  Lands(c)
<1>1. TypeInv
  OBVIOUS
<1>2. CASE FileInitReject(c) \/ FileInitRead(c)
  <2>1. /\ pc[c] = "ready" /\ UNCHANGED <<writer, part, finals, data>>
        /\ pc' = pc \/ pc' = [pc EXCEPT ![c] = "init.open"]
    BY <1>2 DEF FileInitReject, FileInitRead, sidecarVars, diskVars
  <2>2. pc'[c] \in {"ready", "init.open"}
    BY <1>1, <2>1 DEF TypeInv, SidecarType
  <2>3. Settled
    BY <2>1 DEF Settled
  <2> QED
    BY <1>1, <2>1, <2>2, <2>3, SettledLands DEF Moved, Moving
<1>3. CASE FileInitResume(c) \/ FileInitUpload(c)
  <2>1. OpenPart(c, job[c].key) /\ pc[c] = "init.open" /\ pc' = [pc EXCEPT ![c] = "ready"]
    BY <1>3 DEF FileInitResume, FileInitUpload
  <2>2. job[c].key \in Keys /\ pc'[c] = "ready"
    BY <1>1, <2>1 DEF TypeInv, JobKeyed, SidecarType
  <2>3. FinalsInv' /\ PartsInv' /\ SameHeld /\ Unwritten /\ Use(c)'
    BY <1>1, <2>1, <2>2, OpenPartDisk DEF DiskInv
  <2>4. finals' = finals
    BY <2>1 DEF OpenPart
  <2> QED
    BY <2>2, <2>3, <2>4 DEF Lands, Name, Moving
<1>4. CASE FileInitError(c)
  <2>1. Teardown(c) /\ UNCHANGED <<part, finals, data>>
    BY <1>4 DEF FileInitError, diskVars
  <2> QED
    BY <1>1, <2>1, TeardownLands
<1> QED
  BY <1>2, <1>3, <1>4 DEF FileInit

LEMMA FileDataLands ==
  ASSUME TypeInv, DiskInv, NEW c \in Conns, Sits(c), FileData(c)
  PROVE  Lands(c)
<1> DEFINE f == Head(inbox[c])
           w == writer[c]
<1>1. Use(c) /\ pc[c] = "ready" /\ inbox[c] # <<>> /\ w # NoWriter
  BY DEF FileData, FileDataWrite, FileDataPause, FileDataDiskFull, FileDataError, DataFor, DiskInv
<1>2. f \in Frames /\ f.len \in Nat
  BY <1>1, HeadOfInbox, FrameFields, ConstantsAssumption DEF TypeInv, Offsets
<1>3. ASSUME NEW n \in Nat, n <= f.len, data' = Written(c, f, n), UNCHANGED <<pc, part, finals>>,
             writer'[c] = NoWriter \/ (writer'[c].key = w.key /\ writer'[c].inode = w.inode)
      PROVE  Lands(c)
  <2>1. FinalsInv' /\ PartsInv' /\ SameHeld /\ Unwritten /\ Use(c)'
    BY <1>1, <1>2, <1>3, WrittenDisk DEF DiskInv
  <2> QED
    BY <1>1, <1>3, <2>1 DEF Lands, Name, Moving
<1>4. CASE FileDataWrite(c)
  <2> DEFINE o == MaxOf(w.offset, f.offset + f.len)
             p == IF f.offset = w.offset THEN w.pos + f.len ELSE w.pos
  <2>1. /\ data' = Written(c, f, f.len)
        /\ writer' = [writer EXCEPT ![c].offset = o, ![c].pos = p]
        /\ UNCHANGED <<pc, part, finals>>
    BY <1>4 DEF FileDataWrite
  <2> HIDE DEF o, p
  <2>2. writer'[c].key = w.key /\ writer'[c].inode = w.inode
    BY <2>1 DEF TypeInv, SidecarType, Writers
  <2> HIDE DEF f, w
  <2> QED
    BY <1>2, <1>3, <2>1, <2>2
<1>5. CASE FileDataPause(c)
  <2>1. Pause(c, f.key) /\ UNCHANGED <<pc, part, finals, data>>
    BY <1>5 DEF FileDataPause, diskVars
  <2>2. writer'[c] = NoWriter /\ pc'[c] = "ready" /\ Settled
    BY <1>1, <2>1 DEF Pause, TypeInv, SidecarType, Settled
  <2> QED
    BY <1>1, <2>2, SettledLands DEF Moving
<1>6. CASE FileDataDiskFull(c)
  <2>1. PICK n \in 1 .. f.len - 1 : data' = Written(c, f, n)
    BY <1>6 DEF FileDataDiskFull
  <2>2. Pause(c, f.key) /\ UNCHANGED <<pc, part, finals>>
    BY <1>6 DEF FileDataDiskFull
  <2>3. writer'[c] = NoWriter
    BY <2>2 DEF Pause, TypeInv, SidecarType
  <2>4. n \in Nat /\ n <= f.len
    BY <1>2, <2>1
  <2> HIDE DEF f, w
  <2> QED
    BY <1>3, <2>1, <2>2, <2>3, <2>4
<1>7. CASE FileDataError(c)
  <2>1. Teardown(c) /\ UNCHANGED <<part, finals, data>>
    BY <1>7 DEF FileDataError, diskVars
  <2> QED
    BY <2>1, TeardownLands
<1> QED
  BY <1>4, <1>5, <1>6, <1>7 DEF FileData

LEMMA FileEndLands ==
  ASSUME TypeInv, DiskInv, NEW c \in Conns, Full(c), FileEnd(c)
  PROVE  Lands(c)
<1>1. TypeInv /\ Use(c) /\ Name(c)
  BY DEF DiskInv
<1>2. CASE FileEndVerify(c)
  <2>1. /\ pc' = [pc EXCEPT ![c] = "end.place"] /\ pc[c] = "ready"
        /\ UNCHANGED <<writer, part, finals, data>>
    BY <1>2 DEF FileEndVerify, EndFor, diskVars
  <2>2. pc'[c] = "end.place" /\ Settled
    BY <1>1, <2>1 DEF TypeInv, SidecarType, Settled
  <2> QED
    BY <1>1, <2>1, <2>2, SettledLands DEF Moved, Moving
<1>3. CASE FileEndMismatch(c) \/ FileEndHashError(c) \/ FileEndUnavailable(c)
  <2>1. /\ pc[c] = "ready" /\ UNCHANGED <<pc, finals, data>>
        /\ writer' = [writer EXCEPT ![c] = NoWriter]
        /\ part' = part \/ part' = [part EXCEPT ![Head(inbox[c]).key] = 0]
    BY <1>3 DEF FileEndMismatch, FileEndHashError, FileEndUnavailable, EndFor, Pause, diskVars
  <2>2. Settled
    BY <1>1, <2>1 DEF TypeInv, DiskType, Settled
  <2>3. writer'[c] = NoWriter
    BY <1>1, <2>1 DEF TypeInv, SidecarType
  <2> QED
    BY <1>1, <2>1, <2>2, <2>3, SettledLands DEF Moving
<1>4. CASE FileEndPlace(c)
  <2> DEFINE k == job[c].key
  <2>1. /\ pc[c] = "end.place" /\ pc' = [pc EXCEPT ![c] = "end.move"]
        /\ job' = [job EXCEPT ![c].path = FinalPath(k)]
        /\ UNCHANGED <<writer, part, finals, data>>
    BY <1>4 DEF FileEndPlace, diskVars
  <2>2. Settled
    BY <2>1 DEF Settled
  <2>3. FinalsInv' /\ PartsInv' /\ SameHeld /\ Use(c)'
    BY <1>1, <2>1, <2>2, SettledDisk, SettledUse DEF DiskInv, Moved
  <2>4. job'[c].path = FinalPath(k) /\ job'[c].key = k /\ k \in Keys
    BY <1>1, <2>1 DEF TypeInv, SidecarType, Jobs, JobKeyed
  <2> HIDE DEF k
  <2>5. FinalPath(k) \in Wants(k) /\ (FinalPath(k) = Plain(k) => finals[Plain(k)] = 0)
    <3>1. Plain(k) # Suffixed(k)
      BY <2>4, ConstantsAssumption DEF Plain, Suffixed
    <3> QED
      BY <3>1 DEF FinalPath, Wants
  <2>6. Name(c)'
    BY <2>1, <2>4, <2>5 DEF Name, Wants, Plain, Suffixed
  <2> QED
    BY <2>1, <2>3, <2>6 DEF Lands, Moving, Unwritten
<1>5. CASE FileEndMove(c)
  <2>1. PICK k, p : k = job[c].key /\ p = job[c].path
    OBVIOUS
  <2>2. /\ pc[c] = "end.move" /\ pc' = [pc EXCEPT ![c] = "end.complete"]
        /\ part[k] # 0 /\ finals' = [finals EXCEPT ![p] = part[k]]
        /\ part' = [part EXCEPT ![k] = 0] /\ UNCHANGED <<writer, data, job>>
    BY <1>5, <2>1 DEF FileEndMove
  <2>3. k \in Keys /\ pc'[c] = "end.complete" /\ job'[c].key = k
    BY <1>1, <2>1, <2>2 DEF TypeInv, SidecarType, JobKeyed
  <2>4. p \in Wants(k) /\ (p = Plain(k) => finals[p] = 0)
    BY <1>1, <2>1, <2>2 DEF Name
  <2>5. Unwritten
    BY <2>2 DEF Unwritten
  <2>6. Len(data[part[k]].units) = Size
    BY <2>1, <2>2 DEF Full
  <2>7. /\ FinalsInv' /\ PartsInv' /\ Held(k)'
        /\ \A j \in Keys \ {k} : Held(j)' <=> Held(j)
        /\ \A q \in Paths : finals[q] # 0 /\ finals'[q] \notin {0, finals[q]} =>
             data[finals[q]].key = data[finals'[q]].key
    BY <1>1, <2>2, <2>3, <2>4, <2>6, MoveDisk DEF DiskInv
  <2>8. Moves(c)
    BY <2>1, <2>2, <2>3, <2>7 DEF Moves
  <2>9. Use(c)' /\ Name(c)'
    BY <1>1, <2>1, <2>2, <2>3 DEF Use, Name, Moved
  <2> QED
    BY <2>2, <2>3, <2>5, <2>7, <2>8, <2>9 DEF Lands, Moving
<1>6. CASE FileEndComplete(c)
  <2>1. /\ pc[c] = "end.complete" /\ pc' = [pc EXCEPT ![c] = "end.stats"]
        /\ UNCHANGED <<writer, part, finals, data>>
    BY <1>6 DEF FileEndComplete, diskVars
  <2>2. pc'[c] = "end.stats" /\ Settled
    BY <1>1, <2>1 DEF TypeInv, SidecarType, Settled
  <2> QED
    BY <1>1, <2>1, <2>2, SettledLands DEF Moved, Moving
<1>7. CASE FileEndUnplaced(c) \/ FileEndStats(c)
  <2>1. /\ pc' = [pc EXCEPT ![c] = "ready"] /\ writer' = [writer EXCEPT ![c] = NoWriter]
        /\ UNCHANGED <<part, finals, data>>
    BY <1>7 DEF FileEndUnplaced, FileEndStats, Pause, diskVars
  <2>2. writer'[c] = NoWriter /\ pc'[c] = "ready" /\ Settled
    BY <1>1, <2>1 DEF TypeInv, SidecarType, Settled
  <2> QED
    BY <1>1, <2>2, SettledLands DEF Moving
<1>8. CASE FileEndNoDirName(c)
  <2>1. Teardown(c) /\ UNCHANGED <<part, finals, data>>
    BY <1>8 DEF FileEndNoDirName, diskVars
  <2> QED
    BY <1>1, <2>1, TeardownLands
<1> QED
  BY <1>2, <1>3, <1>4, <1>5, <1>6, <1>7, <1>8 DEF FileEnd

LEMMA SidecarLands ==
  ASSUME TypeInv, DiskInv, NEW c \in Conns, Sits(c), Full(c), Sidecar(c)
  PROVE  Lands(c)
<1>1. CASE ProtocolError(c) \/ ReadEOF(c)
  <2>1. Teardown(c) /\ UNCHANGED <<part, finals, data>>
    BY <1>1 DEF ProtocolError, ReadEOF, diskVars
  <2> QED
    BY <2>1, TeardownLands
<1> QED
  BY <1>1, FileInitLands, FileDataLands, FileEndLands DEF Sidecar

\* Where every chunk is one unit, a file that was streamed to its end is full.
LEMMA PrefixSits ==
  ASSUME PrefixInv, DiskInv, NEW c \in Conns
  PROVE  TypeInv /\ Sits(c) /\ Full(c)
<1>1. TypeInv /\ ConnInv(c) /\ Use(c)
  BY DEF PrefixInv, DiskInv
<1>2. Sits(c)
  BY <1>1 DEF ConnInv, Placed, Standing, Sits
<1>3. Full(c)
  <2> SUFFICES ASSUME pc[c] = "end.move", NEW k, k = job[c].key, part[k] # 0
               PROVE  Len(data[part[k]].units) = Size
    BY DEF Full
  <2>1. writer[c] # NoWriter /\ writer[c].key = k /\ writer[c].offset = Size
    BY <1>1 DEF ConnInv, Standing, Ending
  <2>2. part[k] = writer[c].inode
    BY <1>1, <2>1 DEF Use, Moved
  <2>3. part[k] \in Inodes /\ Size <= Len(data[part[k]].units)
    BY <1>1, <2>1, <2>2 DEF ConnInv, Placed
  <2>4. data[part[k]].units \in Seq({Hole} \cup Units) /\ Len(data[part[k]].units) <= Size
    BY <1>1, <2>3 DEF TypeInv, DiskType, Contents
  <2> QED
    BY <2>3, <2>4, LenProperties, ConstantsAssumption
<1> QED
  BY <1>1, <1>2, <1>3

LEMMA PrefixLands ==
  ASSUME PrefixInv, DiskInv, NEW c \in Conns, Sidecar(c)
  PROVE  Lands(c)
BY PrefixSits, SidecarLands

-----------------------------------------------------------------------------
(* What is said of a file stays true.                                        *)

\* No key loses its copy.
Lasting == \A k \in Keys : Safe(k) => Safe(k)'

LEMMA LandsLasting ==
  ASSUME NEW c \in Conns, Lands(c), UNCHANGED userLost
  PROVE  Lasting
<1>1. \A k \in Keys : Held(k) => Held(k)'
  BY DEF Lands, SameHeld, Moves
<1> QED
  BY <1>1 DEF Lasting, Safe

\* What a connection's step does to the phone's queue and the rows.
LEMMA SidecarRows ==
  ASSUME TypeInv, NEW c \in Conns, Sidecar(c)
  PROVE  /\ item' = item /\ userLost' = userLost
         /\ \A k \in Keys : row'[k].status = "completed" =>
              \/ row[k].status = "completed" /\ row'[k].path = row[k].path
              \/ pc[c] = "end.complete" /\ k = job[c].key /\ row'[k].path = job[c].path
<1>1. row \in [Keys -> Rows] /\ writer[c] \in Writers
  BY DEF TypeInv, StoreType, SidecarType
<1>2. \A r, o : PausedRow(r, o).status # "completed"
  BY DEF PausedRow
<1>3. \A r \in Rows : \A o : ProgressRow(r, o).status = r.status /\ ProgressRow(r, o).path = r.path
  BY DEF ProgressRow, Rows
<1>4. Fresh.status # "completed" /\ Failed.status # "completed"
  BY DEF Fresh, Failed
<1>5. CASE FileInit(c)
  <2>1. /\ item' = item /\ userLost' = userLost
        /\ \/ row' = row
           \/ \E k, o : row' = [row EXCEPT ![k] = ProgressRow(@, o)]
           \/ \E k : row' = [row EXCEPT ![k] = Fresh]
    BY <1>5 DEF FileInit, FileInitReject, FileInitRead, FileInitResume, FileInitUpload, FileInitError,
       phoneVars, storeVars
  <2> QED
    BY <1>1, <1>3, <1>4, <2>1
<1>6. CASE FileData(c)
  <2>1. /\ item' = item /\ userLost' = userLost
        /\ \/ row' = row
           \/ \E k, o : row' = [row EXCEPT ![k] = ProgressRow(@, o)]
           \/ \E k, o : row' = [row EXCEPT ![k] = PausedRow(@, o)]
    BY <1>6 DEF FileData, FileDataWrite, FileDataPause, FileDataDiskFull, FileDataError, Pause,
       phoneVars, storeVars
  <2> QED
    BY <1>1, <1>2, <1>3, <2>1
<1>7. CASE FileEnd(c) /\ ~FileEndComplete(c)
  <2>1. /\ item' = item /\ userLost' = userLost
        /\ \/ row' = row
           \/ \E k, o : row' = [row EXCEPT ![k] = ProgressRow(@, o)]
           \/ \E k, o : row' = [row EXCEPT ![k] = PausedRow(@, o)]
           \/ \E k : row' = [row EXCEPT ![k] = Failed]
    <3>1. CASE FileEndVerify(c) \/ FileEndMismatch(c) \/ FileEndHashError(c) \/ FileEndUnavailable(c)
      BY <3>1 DEF FileEndVerify, FileEndMismatch, FileEndHashError, FileEndUnavailable, Pause, phoneVars
    <3>2. CASE FileEndPlace(c) \/ FileEndMove(c) \/ FileEndStats(c)
      BY <3>2 DEF FileEndPlace, FileEndMove, FileEndStats, phoneVars, storeVars
    <3>3. CASE FileEndUnplaced(c) \/ FileEndNoDirName(c)
      BY <3>3 DEF FileEndUnplaced, FileEndNoDirName, Pause, phoneVars, storeVars
    <3> QED
      BY <1>7, <3>1, <3>2, <3>3 DEF FileEnd
  <2> QED
    BY <1>1, <1>2, <1>3, <1>4, <2>1
<1>8. CASE FileEndComplete(c)
  <2> DEFINE done(r) == IF r.status = "none" THEN r
                        ELSE [r EXCEPT !.status = "completed", !.path = job[c].path,
                                       !.sha = job[c].sha]
  <2>1. /\ item' = item /\ userLost' = userLost /\ pc[c] = "end.complete"
        /\ \/ row' = row
           \/ row' = [row EXCEPT ![job[c].key] = done(@)]
    BY <1>8 DEF FileEndComplete, phoneVars
  <2>2. \A r \in Rows : done(r).status = "completed" => done(r).path = job[c].path
    BY DEF Rows
  <2> HIDE DEF done
  <2> QED
    BY <1>1, <2>1, <2>2
<1>9. CASE ProtocolError(c) \/ ReadEOF(c)
  BY <1>9 DEF ProtocolError, ReadEOF, storeVars
<1> QED
  BY <1>5, <1>6, <1>7, <1>8, <1>9 DEF Sidecar

\* A handler that has moved its file came from the move, and keeps its key.
LEMMA SidecarMoved ==
  ASSUME TypeInv, NEW c \in Conns, Sidecar(c), pc'[c] \in Moved
  PROVE  /\ job'[c].key = job[c].key
         /\ (pc[c] = "end.move" /\ pc'[c] = "end.complete") \/ pc[c] \in Moved
<1>1. CASE FileEndMove(c) \/ FileEndComplete(c)
  BY <1>1 DEF FileEndMove, FileEndComplete, Moved, TypeInv, SidecarType
<1>2. CASE Teardown(c)
  BY <1>2 DEF Teardown, Moved, TypeInv, SidecarType
<1>3. CASE FileInit(c) /\ ~Teardown(c)
  <2>1. /\ pc[c] \in {"ready", "init.open"}
        /\ \/ pc' = pc
           \/ pc' = [pc EXCEPT ![c] = "init.open"]
           \/ pc' = [pc EXCEPT ![c] = "ready"]
    BY <1>3 DEF FileInit, FileInitReject, FileInitRead, FileInitResume, FileInitUpload, FileInitError,
       sidecarVars
  <2> QED
    BY <2>1 DEF Moved, TypeInv, SidecarType
<1>4. CASE FileData(c) /\ ~Teardown(c)
  <2>1. pc[c] = "ready" /\ pc' = pc
    BY <1>4 DEF FileData, FileDataWrite, FileDataPause, FileDataDiskFull, FileDataError, DataFor
  <2> QED
    BY <2>1 DEF Moved
<1>5. CASE FileEnd(c) /\ ~Teardown(c) /\ ~FileEndMove(c) /\ ~FileEndComplete(c)
  <2>1. \/ pc[c] = "ready" /\ pc' = pc
        \/ pc' = [pc EXCEPT ![c] = "ready"]
        \/ pc' = [pc EXCEPT ![c] = "end.place"]
        \/ pc' = [pc EXCEPT ![c] = "end.move"]
    BY <1>5 DEF FileEnd, FileEndVerify, FileEndMismatch, FileEndHashError, FileEndUnavailable, EndFor,
       FileEndPlace, FileEndStats, FileEndUnplaced, FileEndNoDirName
  <2> QED
    BY <2>1 DEF Moved, TypeInv, SidecarType
<1> QED
  BY <1>1, <1>2, <1>3, <1>4, <1>5 DEF Sidecar, ProtocolError, ReadEOF

\* Which answers say that a file is stored, and when they are given.
LEMMA SidecarSays ==
  ASSUME PrefixInv, NEW c \in Conns, Sidecar(c), reply'.kind \in {"SKIP", "END_OK"}
  PROVE  \/ reply' = reply /\ task' = task
         \/ /\ cur = c /\ task' = task /\ pc[c] = "ready" /\ inbox[c] # <<>>
            /\ Head(inbox[c]).type = "FILE_INIT"
            /\ row[Head(inbox[c]).key].status = "completed"
         \/ cur = c /\ task' = task /\ pc[c] = "end.stats"
<1>1. CASE Teardown(c)
  BY <1>1 DEF Teardown, NoReply
<1>2. CASE ~Teardown(c) /\ cur # c
  BY <1>2, SidecarReply
<1>3. CASE ~Teardown(c) /\ cur = c
  <2>1. UNCHANGED <<cur, task>>
    BY <1>3, SidecarReply
  <2>2. CASE FileInit(c)
    BY <1>3, <2>1, <2>2 DEF FileInit, FileInitReject, FileInitRead, FileInitResume, FileInitUpload,
       FileInitError, Respond, Answer
  <2>3. CASE FileData(c)
    BY <1>3, <2>1, <2>3 DEF FileData, FileDataWrite, FileDataPause, FileDataDiskFull, FileDataError,
       PauseAnswer, Respond, Answer
  <2>4. CASE FileEnd(c)
    <3>1. CASE FileEndVerify(c) \/ FileEndMismatch(c) \/ FileEndHashError(c) \/ FileEndUnavailable(c)
      BY <2>1, <3>1, <1>3 DEF FileEndVerify, FileEndMismatch, FileEndHashError, FileEndUnavailable,
         Respond, Answer
    <3>2. CASE FileEndPlace(c) \/ FileEndMove(c) \/ FileEndComplete(c) \/ FileEndNoDirName(c)
      BY <1>3, <2>1, <3>2 DEF FileEndPlace, FileEndMove, FileEndComplete, FileEndNoDirName, wireVars
    <3>3. CASE FileEndUnplaced(c) \/ FileEndStats(c)
      BY <1>3, <2>1, <3>3 DEF FileEndUnplaced, FileEndStats, UnplacedAnswer, Respond, Answer
    <3> QED
      BY <2>4, <3>1, <3>2, <3>3 DEF FileEnd
  <2> QED
    BY <1>3, <2>2, <2>3, <2>4 DEF Sidecar, ProtocolError, ReadEOF
<1> QED
  BY <1>1, <1>2, <1>3

-----------------------------------------------------------------------------
(* The invariant holds. *)

LEMMA SidecarSafe ==
  ASSUME DeliveryInv, NEW c \in Conns, Sidecar(c), Beside(c), Lands(c),
         \A d \in Conns \ {c} : pc'[d] = "closed"
  PROVE  SafeInv'
<1>1. PrefixInv /\ TypeInv /\ SafeInv
  BY DEF DeliveryInv, PrefixInv
<1>2. Lasting
  BY <1>1, LandsLasting, SidecarRows
<1>3. \A k \in Keys : item'[k] = "completed" \/ row'[k].status = "completed" => Safe(k)'
  <2> TAKE k \in Keys
  <2>1. pc[c] = "end.complete" /\ k = job[c].key => Safe(k)
    BY <1>1 DEF SafeInv, Moved
  <2> QED
    BY <1>1, <1>2, <2>1, SidecarRows DEF Lasting, SafeInv
<1>4. \A d \in Conns : pc'[d] \in Moved => \A k : k = job'[d].key => Safe(k)'
  <2> SUFFICES ASSUME pc'[c] \in Moved, NEW k, k = job'[c].key PROVE Safe(k)'
    BY DEF Moved
  <2>1. k = job[c].key /\ ((pc[c] = "end.move" /\ pc'[c] = "end.complete") \/ pc[c] \in Moved)
    BY <1>1, SidecarMoved
  <2>2. k \in Keys
    BY <1>1, <2>1 DEF TypeInv, JobKeyed, Moved
  <2>3. CASE pc[c] \in Moved
    <3>1. Safe(k)
      BY <1>1, <2>1, <2>3 DEF SafeInv
    <3> QED
      BY <1>2, <2>2, <3>1 DEF Lasting
  <2>4. CASE pc[c] = "end.move" /\ pc'[c] = "end.complete"
    <3>1. Moves(c)
      BY <2>4 DEF Lands, Moving
    <3> QED
      BY <2>1, <3>1 DEF Moves, Safe
  <2> QED
    BY <2>1, <2>3, <2>4
<1>5. reply'.kind \in {"SKIP", "END_OK"} => \A k : k = task'.key => Safe(k)'
  <2> SUFFICES ASSUME reply'.kind \in {"SKIP", "END_OK"}, NEW k, k = task'.key PROVE Safe(k)'
    OBVIOUS
  <2>1. CASE reply' = reply /\ task' = task
    <3>1. Safe(k)
      BY <1>1, <2>1 DEF SafeInv
    <3>2. task.phase # "idle"
      BY <1>1, <2>1, ConstantsAssumption
         DEF PrefixInv, TypeInv, PhoneType, TaskType, TalkInv, Talk, IdleTalk, NoReply
    <3> QED
      BY <1>1, <1>2, <2>1, <3>1, <3>2 DEF Lasting, TypeInv, TaskKeyed
  <2>2. CASE /\ cur = c /\ task' = task /\ pc[c] = "ready" /\ inbox[c] # <<>>
             /\ Head(inbox[c]).type = "FILE_INIT" /\ row[Head(inbox[c]).key].status = "completed"
    <3>1. k = Head(inbox[c]).key /\ task.phase = "init"
      BY <1>1, <2>2, HeadTalk
    <3>2. k \in Keys
      BY <1>1, <2>2, <3>1 DEF TypeInv, TaskKeyed
    <3>3. Safe(k)
      BY <1>1, <2>2, <3>1, <3>2 DEF SafeInv
    <3> QED
      BY <1>2, <3>2, <3>3 DEF Lasting
  <2>3. CASE cur = c /\ task' = task /\ pc[c] = "end.stats"
    <3>1. Talk(c) /\ pc[c] \in Ending /\ pc[c] \in Moved /\ task \in TaskType
      BY <1>1, <2>3, ConstantsAssumption DEF PrefixInv, TypeInv, PhoneType, TalkInv, Ending, Moved
    <3>2. job[c].key = task.key
      BY <2>3, <3>1
         DEF Talk, IdleTalk, InitTalk, DataTalk, EndTalk, Ending, Quiet, Broken, TaskType
    <3>3. k \in Keys /\ Safe(k)
      BY <1>1, <2>3, <3>1, <3>2 DEF SafeInv, TypeInv, JobKeyed
    <3> QED
      BY <1>2, <3>3 DEF Lasting
  <2> QED
    BY <1>1, <2>1, <2>2, <2>3, SidecarSays
<1> QED
  BY <1>3, <1>4, <1>5 DEF SafeInv

\* A step of the phone's loop: the disk stays as it is, and an item is crossed
\* off only when the receiver said that it is stored.
LEMMA PhoneItem ==
  ASSUME PrefixInv, SafeInv, PhoneLoop
  PROVE  /\ UNCHANGED <<part, finals, data, userLost, row, writer, job>>
         /\ item' = item \/ \E k \in Keys : /\ Safe(k) /\ k = task.key
                                            /\ item' = [item EXCEPT ![k] = "completed"]
         /\ \A c \in Conns : pc'[c] = pc[c] \/ (pc[c] = "closed" /\ pc'[c] = "ready")
         /\ reply' = NoReply \/ (reply' = reply /\ reply.kind \notin {"SKIP", "END_OK"})
<1>1. CASE \E c \in Conns : PhoneConnect(c)
  <2>1. cur = NoConn /\ reply' = reply
    BY <1>1 DEF PhoneConnect, wireVars
  <2>2. reply' = NoReply
    BY <2>1 DEF PrefixInv, TalkInv
  <2> QED
    BY <1>1, <2>2 DEF PhoneConnect, diskVars, storeVars, PrefixInv, TypeInv, SidecarType
<1>2. CASE (\E k \in Keys : PhoneInit(k)) \/ PhoneData \/ PhoneEnd
  <2>1. reply = NoReply
    <3>1. ASSUME NEW k \in Keys, PhoneInit(k) PROVE reply = NoReply
      BY <3>1 DEF PhoneInit, PrefixInv, TalkInv, Talk, IdleTalk, NoTask
    <3> QED
      BY <1>2, <3>1 DEF PhoneData, PhoneEnd
  <2> QED
    BY <1>2, <2>1 DEF PhoneInit, PhoneData, PhoneEnd, diskVars, storeVars, sidecarVars
<1>3. CASE PhoneInitRes
  <2>1. task.phase = "init" /\ task.key \in Keys
    BY <1>3 DEF PhoneInitRes, PrefixInv, TypeInv, TaskKeyed
  <2> QED
    BY <1>3, <2>1 DEF PhoneInitRes, diskVars, storeVars, sidecarVars, SafeInv
<1>4. CASE PhoneEndRes
  <2>1. task.phase = "end" /\ task.key \in Keys
    BY <1>4 DEF PhoneEndRes, PrefixInv, TypeInv, TaskKeyed
  <2> QED
    BY <1>4, <2>1 DEF PhoneEndRes, diskVars, storeVars, sidecarVars, SafeInv
<1>5. CASE PhoneError
  BY <1>5 DEF PhoneError, diskVars, storeVars, sidecarVars
<1> QED
  BY <1>1, <1>2, <1>3, <1>4, <1>5 DEF PhoneLoop

LEMMA StillDisk ==
  ASSUME DiskInv, UNCHANGED <<part, finals, data, writer, job>>,
         \A c \in Conns : pc'[c] = pc[c] \/ (pc[c] = "closed" /\ pc'[c] = "ready"),
         \A c \in Conns : Sits(c)
  PROVE  DiskInv' /\ SameHeld
<1>1. FinalsInv' /\ PartsInv' /\ SameHeld
  BY SettledDisk DEF DiskInv, Settled
<1>2. ASSUME NEW c \in Conns PROVE Use(c)' /\ Name(c)'
  BY DEF DiskInv, Use, Name, Sits, Moved
<1> QED
  BY <1>1, <1>2 DEF DiskInv

LEMMA PhoneDelivers ==
  ASSUME DeliveryInv, PhoneLoop
  PROVE  DiskInv' /\ SafeInv' /\ SameHeld
<1>1. DiskInv' /\ SameHeld
  BY PhoneItem, StillDisk, PrefixSits DEF DeliveryInv
<1>2. \A k \in Keys : Safe(k)' <=> Safe(k)
  BY <1>1, PhoneItem DEF SameHeld, Safe, DeliveryInv
<1>3. \A k \in Keys : item'[k] = "completed" \/ row'[k].status = "completed" => Safe(k)'
  BY <1>2, PhoneItem DEF DeliveryInv, SafeInv, PrefixInv, TypeInv, PhoneType
<1>4. \A c \in Conns : pc'[c] \in Moved => \A k : k = job'[c].key => Safe(k)'
  BY <1>2, PhoneItem DEF DeliveryInv, SafeInv, PrefixInv, TypeInv, JobKeyed, Moved
<1>5. reply'.kind \notin {"SKIP", "END_OK"}
  BY PhoneItem DEF DeliveryInv, NoReply
<1> QED
  BY <1>1, <1>3, <1>4, <1>5 DEF SafeInv

\* The user deletes a received file: its key is remembered, the others stay.
LEMMA UserDeletesKeeps ==
  ASSUME TypeInv, DiskInv, \A c \in Conns : ConnInv(c), NEW p \in Paths, UserDeletesFinal(p)
  PROVE  /\ DiskInv' /\ Lasting
         /\ \A k \in Keys : Held(k)' => Held(k)
         /\ data[finals[p]].key \in Keys /\ Held(data[finals[p]].key)
         /\ \A k \in Keys \ {data[finals[p]].key} : Held(k)' <=> Held(k)
<1> DEFINE l == data[finals[p]].key
<1>1. /\ finals' = [finals EXCEPT ![p] = 0] /\ finals[p] # 0 /\ userLost' = userLost \cup {l}
      /\ UNCHANGED <<part, data, writer, pc, job>>
  BY DEF UserDeletesFinal, sidecarVars
<1>2. finals'[p] = 0 /\ \A q \in Paths \ {p} : finals'[q] = finals[q]
  BY <1>1 DEF TypeInv, DiskType
<1>3. l \in Keys /\ Held(l)
  BY <1>1, FinalHeld DEF DiskInv
<1>4. FinalsInv' /\ PartsInv'
  BY <1>1, <1>2 DEF DiskInv, FinalsInv, PartsInv, Wants, Plain, Suffixed
<1>5. ASSUME NEW c \in Conns PROVE Use(c)' /\ Name(c)'
  <2>1. Use(c)'
    <3> SUFFICES ASSUME writer[c] # NoWriter PROVE Use(c)'
      BY <1>1 DEF Use
    <3>1. writer[c].inode # 0 /\ \A q \in Paths : finals'[q] \in {0, finals[q]}
      BY <1>2, ConstantsAssumption DEF ConnInv, Placed
    <3> QED
      BY <1>1, <3>1 DEF DiskInv, Use
  <2>2. Name(c)'
    <3> SUFFICES ASSUME pc[c] = "end.move" PROVE Name(c)'
      BY <1>1 DEF Name
    <3>1. job[c].key \in Keys /\ job[c].path \in Paths
      BY WantsPaths DEF TypeInv, JobKeyed, DiskInv, Name
    <3> QED
      BY <1>1, <1>2, <3>1 DEF DiskInv, Name, Wants, Plain, Suffixed
  <2> QED
    BY <2>1, <2>2
<1>6. \A k \in Keys \ {l} : Held(k)' <=> Held(k)
  BY <1>1, <1>2, WantsPaths DEF Held, Wants, Plain, Suffixed
<1>7. \A k \in Keys : Held(k)' => Held(k)
  BY <1>3, <1>6
<1>8. Lasting
  BY <1>1, <1>6 DEF Lasting, Safe
<1> HIDE DEF l
<1>9. DiskInv'
  BY <1>4, <1>5 DEF DiskInv
<1> QED
  BY <1>3, <1>6, <1>7, <1>8, <1>9 DEF l

LEMMA EnvironmentDelivers ==
  ASSUME DeliveryInv, Environment
  PROVE  DiskInv' /\ SafeInv'
<1>1. /\ TypeInv /\ DiskInv /\ SafeInv /\ \A c \in Conns : ConnInv(c)
  BY DEF DeliveryInv, PrefixInv
<1>2. CASE \E p \in Paths : UserDeletesFinal(p)
  <2>1. PICK p \in Paths : UserDeletesFinal(p)
    BY <1>2
  <2>2. DiskInv' /\ Lasting
    BY <1>1, <2>1, UserDeletesKeeps
  <2>3. UNCHANGED <<item, row, pc, job, reply, task>>
    BY <2>1 DEF UserDeletesFinal, phoneVars, wireVars, sidecarVars, storeVars
  <2>4. /\ \A c \in Conns : pc[c] \in Moved => job[c].key \in Keys
        /\ reply.kind \in {"SKIP", "END_OK"} => task.key \in Keys
    <3>1. reply.kind \in {"SKIP", "END_OK"} => task.phase # "idle"
      BY ConstantsAssumption
         DEF DeliveryInv, PrefixInv, TypeInv, PhoneType, TalkInv, Talk, IdleTalk, NoReply
    <3> QED
      BY <1>1, <3>1 DEF TypeInv, JobKeyed, TaskKeyed, Moved
  <2>5. SafeInv'
    <3>1. \A k \in Keys : item'[k] = "completed" \/ row'[k].status = "completed" => Safe(k)'
      BY <1>1, <2>2, <2>3 DEF SafeInv, Lasting
    <3>2. \A c \in Conns : pc'[c] \in Moved => \A k : k = job'[c].key => Safe(k)'
      BY <1>1, <2>2, <2>3, <2>4 DEF SafeInv, Lasting
    <3>3. reply'.kind \in {"SKIP", "END_OK"} => \A k : k = task'.key => Safe(k)'
      BY <1>1, <2>2, <2>3, <2>4 DEF SafeInv, Lasting
    <3> QED
      BY <3>1, <3>2, <3>3 DEF SafeInv
  <2> QED
    BY <2>2, <2>5
<1>3. CASE Crash \/ PhoneDrop \/ \E k \in Keys : PhoneReoffer(k) \/ PartVanishes(k)
  <2>1. /\ Settled /\ UNCHANGED <<row, userLost>>
        /\ item' = item \/ \E k \in Keys : item' = [item EXCEPT ![k] = "queued"]
        /\ \/ reply' = reply /\ task' = task
           \/ reply' = NoReply
        /\ \/ UNCHANGED <<pc, job, writer>>
           \/ \A c \in Conns : pc'[c] = "closed" /\ writer'[c] = NoWriter
    BY <1>1, <1>3 DEF Crash, PhoneDrop, PhoneReoffer, PartVanishes, Settled, phoneVars, wireVars,
       sidecarVars, diskVars, storeVars, TypeInv, DiskType
  <2>2. FinalsInv' /\ PartsInv' /\ SameHeld
    BY <1>1, <2>1, SettledDisk DEF DiskInv
  <2>3. ASSUME NEW c \in Conns PROVE Use(c)' /\ Name(c)'
    BY <1>1, <2>1 DEF DiskInv, Use, Name, Settled
  <2>4. \A k \in Keys : item'[k] = "completed" => item[k] = "completed"
    BY <1>1, <2>1 DEF TypeInv, PhoneType
  <2>5. \A k : Safe(k) => (k \in Keys => Safe(k)')
    BY <2>1, <2>2 DEF SameHeld, Safe
  <2>6. /\ \A c \in Conns : pc[c] \in Moved => job[c].key \in Keys
        /\ reply.kind \in {"SKIP", "END_OK"} => task.key \in Keys
    <3>1. reply.kind \in {"SKIP", "END_OK"} => task.phase # "idle"
      BY ConstantsAssumption
         DEF DeliveryInv, PrefixInv, TypeInv, PhoneType, TalkInv, Talk, IdleTalk, NoReply
    <3> QED
      BY <1>1, <3>1 DEF TypeInv, JobKeyed, TaskKeyed, Moved
  <2>7. SafeInv'
    <3>1. \A k \in Keys : item'[k] = "completed" \/ row'[k].status = "completed" => Safe(k)'
      BY <1>1, <2>1, <2>4, <2>5 DEF SafeInv
    <3>2. \A c \in Conns : pc'[c] \in Moved => \A k : k = job'[c].key => Safe(k)'
      BY <1>1, <2>1, <2>5, <2>6 DEF SafeInv, Moved
    <3>3. reply'.kind \in {"SKIP", "END_OK"} => \A k : k = task'.key => Safe(k)'
      BY <1>1, <2>1, <2>5, <2>6 DEF SafeInv, NoReply
    <3> QED
      BY <3>1, <3>2, <3>3 DEF SafeInv
  <2> QED
    BY <2>2, <2>3, <2>7 DEF DiskInv
<1> QED
  BY <1>2, <1>3 DEF Environment

LEMMA InitDelivers == Init => DeliveryInv
<1> SUFFICES ASSUME Init PROVE DeliveryInv
  OBVIOUS
<1>1. DiskInv
  <2>1. /\ \A p \in Paths : finals[p] = 0
        /\ \A k \in Keys : part[k] = 0
        /\ \A c \in Conns : writer[c] = NoWriter /\ pc[c] = "closed"
    BY DEF Init
  <2> QED
    BY <2>1 DEF DiskInv, FinalsInv, PartsInv, Use, Name
<1>2. SafeInv
  <2>1. /\ \A k \in Keys : item[k] = "queued" /\ row[k].status = "none"
        /\ \A c \in Conns : pc[c] = "closed"
        /\ reply.kind = "none"
    BY DEF Init, NoRow, NoReply
  <2> QED
    BY <2>1 DEF SafeInv, Moved
<1> QED
  BY <1>1, <1>2, InitPrefix DEF DeliveryInv

LEMMA NextDelivers ==
  ASSUME Aligned, DeliveryInv, OneAtATime, [Next]_vars
  PROVE  DeliveryInv'
<1>1. PrefixInv' /\ PrefixInv
  BY NextPrefix DEF DeliveryInv
<1>2. ASSUME NEW c \in Conns, Sidecar(c) PROVE DiskInv' /\ SafeInv'
  <2>1. Lands(c) /\ Beside(c)
    BY <1>1, <1>2, PrefixLands, SidecarPrefix DEF DeliveryInv, PrefixInv
  <2>2. \A d \in Conns \ {c} : pc'[d] = "closed" /\ Use(d)' /\ Name(d)'
    BY <1>1, <1>2, <2>1, PrefixSits, OthersIdle DEF DeliveryInv
  <2>3. DiskInv'
    BY <2>1, <2>2 DEF DiskInv, Lands
  <2> QED
    BY <1>2, <2>1, <2>2, <2>3, SidecarSafe
<1>3. CASE PhoneLoop
  BY <1>1, <1>3, PhoneDelivers DEF DeliveryInv
<1>4. CASE Environment
  BY <1>1, <1>4, EnvironmentDelivers DEF DeliveryInv
<1>5. CASE UNCHANGED vars
  <2>1. UNCHANGED <<part, finals, data, writer, pc, job, item, row, reply, task, userLost>>
    BY <1>5 DEF vars, phoneVars, wireVars, sidecarVars, diskVars, storeVars
  <2>2. DiskInv'
    BY <1>1, <2>1, StillDisk, PrefixSits DEF DeliveryInv
  <2>3. SafeInv'
    BY <2>1 DEF DeliveryInv, SafeInv, Safe, Held, Wants, Plain, Suffixed
  <2> QED
    BY <1>1, <2>2, <2>3 DEF DeliveryInv
<1> QED
  BY <1>1, <1>2, <1>3, <1>4, <1>5 DEF Next, DeliveryInv

LEMMA DeliveryInvariance == ASSUME Aligned PROVE Spec /\ []OneAtATime => []DeliveryInv
<1>1. DeliveryInv /\ OneAtATime /\ [Next]_vars => DeliveryInv'
  BY NextDelivers
<1> QED
  BY <1>1, InitDelivers, PTL DEF Spec

\* What is held is whole: the beginning of its source, and as long.
LEMMA HeldIntact ==
  ASSUME DeliveryInv, NEW p \in Paths, finals[p] # 0
  PROVE  Intact(finals[p])
<1>1. /\ finals[p] \in Inodes /\ Len(data[finals[p]].units) = Size
      /\ data[finals[p]].units \in Seq({Hole} \cup Units) /\ Prefix(data[finals[p]].units)
  BY DEF DeliveryInv, DiskInv, FinalsInv, PrefixInv, FilesInv, TypeInv, DiskType, Contents
<1> DEFINE s == data[finals[p]].units
<1>2. \A u \in 1 .. Size : s[u] = u
  BY <1>1 DEF Prefix
<1>3. s = [u \in 1 .. Size |-> s[u]]
  BY <1>1
<1> HIDE DEF s
<1>4. s = [u \in 1 .. Size |-> u]
  BY <1>2, <1>3
<1> QED
  BY <1>4 DEF s, Intact, Source, Units

LEMMA DeliveryInvDone == DeliveryInv => PhoneDoneIsStored
<1> SUFFICES ASSUME DeliveryInv, NEW k \in Keys, item[k] = "completed", k \notin userLost
             PROVE  \E p \in {Plain(k), Suffixed(k)} :
                      finals[p] # 0 /\ data[finals[p]].key = k /\ Intact(finals[p])
  BY DEF PhoneDoneIsStored
<1>1. PICK p \in Wants(k) : finals[p] # 0 /\ data[finals[p]].key = k
  BY DEF DeliveryInv, SafeInv, Safe, Held
<1> QED
  BY <1>1, WantsPaths, HeldIntact DEF Wants

\* A file the phone has recorded as uploaded is whole on the desktop's disk,
\* through every fault, crash, lost connection, purge and second offer, unless
\* its user deleted it: PhoneDoneIsStored, as long as handle() has ended for a lost
\* connection when the phone opens the next one.
THEOREM DoneIsStored == ASSUME Aligned PROVE Spec /\ []OneAtATime => []PhoneDoneIsStored
<1> QED
  BY DeliveryInvariance, DeliveryInvDone, PTL

-----------------------------------------------------------------------------
(* The refinement. *)

\* The three variables of Delivery.
Copies == {k \in Keys : \E p \in {Plain(k), Suffixed(k)} :
             finals[p] # 0 /\ data[finals[p]].key = k /\ Intact(finals[p])}
Told   == {k \in Keys : item[k] = "completed"}

LEMMA CopiesHeld == DeliveryInv => Copies = {k \in Keys : Held(k)}
<1> SUFFICES ASSUME DeliveryInv PROVE Copies = {k \in Keys : Held(k)}
  OBVIOUS
<1>1. \A k \in Keys : \A p \in Wants(k) : finals[p] # 0 => Intact(finals[p])
  BY WantsPaths, HeldIntact
<1> QED
  BY <1>1 DEF Copies, Held, Wants

LEMMA InitRefines == Init => Promised!Init
<1> SUFFICES ASSUME Init PROVE Promised!Init
  OBVIOUS
<1>1. \A k \in Keys : item[k] = "queued" /\ finals[Plain(k)] = 0 /\ finals[Suffixed(k)] = 0
  BY WantsPaths DEF Init
<1> QED
  BY <1>1 DEF Init, Promised!Init

\* A step of a goroutine is Arrive, or nothing that Delivery sees.
LEMMA SidecarRefines ==
  ASSUME DeliveryInv, DeliveryInv', NEW c \in Conns, Sidecar(c)
  PROVE  (\E k \in Keys : Promised!Arrive(k)) \/ UNCHANGED Promised!vars
<1>1. Lands(c) /\ Told' = Told /\ userLost' = userLost
  BY PrefixLands, SidecarRows DEF DeliveryInv, PrefixInv, Told
<1>2. Copies = {k \in Keys : Held(k)} /\ Copies' = {k \in Keys : Held(k)'}
  <2>1. (DeliveryInv => Copies = {k \in Keys : Held(k)})'
    BY CopiesHeld, PTL
  <2> QED
    BY <2>1, CopiesHeld
<1>3. CASE SameHeld
  <2>1. Copies' = Copies
    BY <1>2, <1>3 DEF SameHeld
  <2> QED
    BY <1>1, <2>1 DEF Promised!vars, Copies, Told
<1>4. CASE Moves(c)
  <2>1. PICK k \in Keys : Held(k)' /\ \A j \in Keys \ {k} : Held(j)' <=> Held(j)
    BY <1>4 DEF Moves
  <2>2. Copies' = Copies \cup {k}
    BY <1>2, <2>1
  <2>3. CASE k \in Copies
    <3>1. Copies' = Copies
      BY <2>2, <2>3
    <3> QED
      BY <1>1, <3>1 DEF Promised!vars, Copies, Told
  <2>4. CASE k \notin Copies
    <3>1. Promised!Arrive(k)
      BY <1>1, <2>2, <2>4 DEF Promised!Arrive, Copies, Told
    <3> QED
      BY <3>1
  <2> QED
    BY <2>3, <2>4
<1> QED
  BY <1>1, <1>3, <1>4 DEF Lands

LEMMA SameCopies ==
  ASSUME DeliveryInv, DeliveryInv', SameHeld
  PROVE  Copies' = Copies
<1>1. (DeliveryInv => Copies = {k \in Keys : Held(k)})'
  BY CopiesHeld, PTL
<1> QED
  BY <1>1, CopiesHeld DEF SameHeld

\* A step of the phone is Confirm, or nothing that Delivery sees.
LEMMA PhoneRefines ==
  ASSUME DeliveryInv, DeliveryInv', PhoneLoop
  PROVE  (\E k \in Keys : Promised!Confirm(k)) \/ UNCHANGED Promised!vars
<1>1. Copies' = Copies /\ userLost' = userLost
  BY PhoneDelivers, SameCopies, PhoneItem DEF DeliveryInv
<1>2. CASE item' = item
  BY <1>1, <1>2 DEF Promised!vars, Copies
<1>3. CASE \E k \in Keys : Safe(k) /\ item' = [item EXCEPT ![k] = "completed"]
  <2>1. PICK k \in Keys : Safe(k) /\ item' = [item EXCEPT ![k] = "completed"]
    BY <1>3
  <2>2. item \in [Keys -> {"queued", "completed"}] /\ k \in Copies \cup userLost
    BY <2>1, CopiesHeld DEF DeliveryInv, PrefixInv, TypeInv, PhoneType, Safe
  <2>3. Told' = Told \cup {k}
    BY <2>1, <2>2 DEF Told
  <2>4. CASE k \in Told
    <3>1. Told' = Told
      BY <2>3, <2>4
    <3> QED
      BY <1>1, <3>1 DEF Promised!vars, Copies, Told
  <2>5. CASE k \notin Told
    <3>1. Promised!Confirm(k)
      BY <1>1, <2>2, <2>3, <2>5 DEF Promised!Confirm, Copies, Told
    <3> QED
      BY <3>1
  <2> QED
    BY <2>4, <2>5
<1> QED
  BY <1>2, <1>3, PhoneItem DEF DeliveryInv

\* The user's deletions are Remove, a second offer is Offer, and the rest of
\* the environment does nothing that Delivery sees.
LEMMA EnvironmentRefines ==
  ASSUME DeliveryInv, DeliveryInv', Environment
  PROVE  (\E k \in Keys : Promised!Remove(k) \/ Promised!Offer(k)) \/ UNCHANGED Promised!vars
<1>1. TypeInv /\ DiskInv /\ \A c \in Conns : ConnInv(c)
  BY DEF DeliveryInv, PrefixInv
<1>2. CASE \E p \in Paths : UserDeletesFinal(p)
  <2>1. PICK p \in Paths : UserDeletesFinal(p)
    BY <1>2
  <2>2. PICK l \in Keys : l = data[finals[p]].key
    BY <1>1, <2>1, UserDeletesKeeps
  <2>3. /\ \A k \in Keys : Held(k)' => Held(k)
        /\ Held(l) /\ \A k \in Keys \ {l} : Held(k)' <=> Held(k)
    BY <1>1, <2>1, <2>2, UserDeletesKeeps
  <2>4. (DeliveryInv => Copies = {k \in Keys : Held(k)})'
    BY CopiesHeld, PTL
  <2>5. l \in Copies /\ Copies' \in {Copies, Copies \ {l}}
    BY <2>3, <2>4, CopiesHeld
  <2>6. userLost' = userLost \cup {l} /\ Told' = Told
    BY <2>1, <2>2 DEF UserDeletesFinal, phoneVars, Told
  <2>7. Promised!Remove(l)
    BY <2>5, <2>6 DEF Promised!Remove, Copies, Told
  <2> QED
    BY <2>7
<1>3. CASE \E k \in Keys : PhoneReoffer(k)
  <2>1. PICK k \in Keys : PhoneReoffer(k)
    BY <1>3
  <2>2. /\ item[k] = "completed" /\ item' = [item EXCEPT ![k] = "queued"]
        /\ UNCHANGED <<finals, data, userLost>> /\ item \in [Keys -> {"queued", "completed"}]
    BY <1>1, <2>1 DEF PhoneReoffer, diskVars, TypeInv, PhoneType
  <2>3. Copies' = Copies
    BY <2>2 DEF Copies, Plain, Suffixed, Intact
  <2>4. k \in Told /\ Told' = Told \ {k}
    BY <2>2 DEF Told
  <2>5. Promised!Offer(k)
    BY <2>2, <2>3, <2>4 DEF Promised!Offer, Copies, Told
  <2> QED
    BY <2>5
<1>4. CASE Crash \/ PhoneDrop \/ \E k \in Keys : PartVanishes(k)
  <2>1. UNCHANGED <<finals, data, userLost, item>>
    BY <1>4 DEF Crash, PhoneDrop, PartVanishes, diskVars, phoneVars
  <2>2. Copies' = Copies
    BY <2>1 DEF Copies, Plain, Suffixed, Intact
  <2> QED
    BY <2>1, <2>2 DEF Promised!vars, Copies
<1> QED
  BY <1>2, <1>3, <1>4 DEF Environment

LEMMA NextRefines ==
  ASSUME DeliveryInv, DeliveryInv', [Next]_vars
  PROVE  [Promised!Next]_(Promised!vars)
<1>1. CASE \E c \in Conns : Sidecar(c)
  BY <1>1, SidecarRefines DEF Promised!Next
<1>2. CASE PhoneLoop
  BY <1>2, PhoneRefines DEF Promised!Next
<1>3. CASE Environment
  BY <1>3, EnvironmentRefines DEF Promised!Next
<1>4. CASE UNCHANGED vars
  <2>1. UNCHANGED <<finals, data, userLost, item>>
    BY <1>4 DEF vars, diskVars, phoneVars
  <2>2. Copies' = Copies
    BY <2>1 DEF Copies, Plain, Suffixed, Intact
  <2> QED
    BY <2>1, <2>2 DEF Promised!vars, Copies
<1> QED
  BY <1>1, <1>2, <1>3, <1>4 DEF Next

\* UploadReceiver implements Delivery (DeliveryKept): whatever the handlers, the
\* phone, crashes, faults, purges and the user do, a file appears whole among
\* the received ones in one step, FILE_INIT's SKIP and FILE_END's OK cross off
\* only what is there or was until its user removed it, and no other step
\* takes a file away.
THEOREM ReceiverImplementsDelivery == ASSUME Aligned PROVE Spec /\ []OneAtATime => DeliveryKept
<1>1. DeliveryInv /\ DeliveryInv' /\ [Next]_vars => [Promised!Next]_(Promised!vars)
  BY NextRefines
<1> QED
  BY <1>1, InitRefines, DeliveryInvariance, PTL DEF Spec, DeliveryKept, Promised!Spec

-----------------------------------------------------------------------------
(* What a hash vouches for.  Here the chunks may have any length.            *)

\* Every FILE_END carries a SHA-256.
Hashed == Hashing = {TRUE}

\* The user has deleted no received file: the name of a deleted one may go to a
\* file of another upload, and then the row of the first names the second.
Untouched == userLost = {}

\* The whole file of key k has the name p.
Whole(p, k) == p \in Paths /\ finals[p] # 0 /\ data[finals[p]].key = k /\ Intact(finals[p])

\* No FILE_END comes without its hash.
Vouched(s) == \A i \in 1 .. Len(s) : s[i].type = "FILE_END" => s[i].sha

\* A handler that is past the hash has the whole file, unless it vanished.
Checked(c) ==
  /\ pc[c] \in {"end.place", "end.move"} => part[job[c].key] = 0 \/ Intact(part[job[c].key])
  /\ pc[c] \in Moved => Whole(job[c].path, job[c].key)

\* A completed row has the whole file at its path.
RowsWhole == \A k \in Keys : row[k].status = "completed" => Whole(row[k].path, k)

VerifiedInv ==
  /\ TypeInv /\ DiskInv /\ RowsWhole
  /\ \A c \in Conns : Sits(c) /\ Vouched(inbox[c]) /\ Checked(c)

LEMMA CheckedFull ==
  ASSUME VerifiedInv, NEW c \in Conns
  PROVE  Full(c)
<1> SUFFICES ASSUME pc[c] = "end.move", NEW k, k = job[c].key, part[k] # 0
             PROVE  Len(data[part[k]].units) = Size
  BY DEF Full
<1>1. data[part[k]].units = Source
  BY DEF VerifiedInv, Checked, Intact
<1>2. Len(Source) = Size
  BY ConstantsAssumption DEF Source, Units
<1> QED
  BY <1>1, <1>2

\* A step of a goroutine touches nothing of another one.
LEMMA SidecarBeside ==
  ASSUME TypeInv, NEW c \in Conns, Sidecar(c)
  PROVE  Beside(c)
<1> USE DEF TypeInv, WireType, SidecarType, Beside
<1>1. CASE Teardown(c)
  BY <1>1 DEF Teardown
<1>2. CASE FileInit(c) /\ ~Teardown(c)
  BY <1>2 DEF FileInit, FileInitReject, FileInitRead, FileInitResume, FileInitUpload, FileInitError,
     TakeFrame, OpenPart, sidecarVars
<1>3. CASE FileData(c) /\ ~Teardown(c)
  BY <1>3 DEF FileData, FileDataWrite, FileDataPause, FileDataDiskFull, FileDataError, TakeFrame, Pause
<1>4. CASE FileEnd(c) /\ ~Teardown(c)
  <2>1. CASE FileEndVerify(c) \/ FileEndMismatch(c) \/ FileEndHashError(c) \/ FileEndUnavailable(c)
    BY <2>1 DEF FileEndVerify, FileEndMismatch, FileEndHashError, FileEndUnavailable, TakeFrame, Pause
  <2>2. CASE FileEndPlace(c) \/ FileEndMove(c) \/ FileEndComplete(c)
    BY <2>2 DEF FileEndPlace, FileEndMove, FileEndComplete, wireVars
  <2>3. CASE FileEndUnplaced(c) \/ FileEndStats(c)
    BY <2>3 DEF FileEndUnplaced, FileEndStats, Pause
  <2> QED
    BY <1>4, <2>1, <2>2, <2>3 DEF FileEnd, FileEndNoDirName
<1> QED
  BY <1>1, <1>2, <1>3, <1>4 DEF Sidecar, ProtocolError, ReadEOF

\* Nor does it send frames.
LEMMA SidecarInbox ==
  ASSUME TypeInv, NEW c \in Conns, Sidecar(c)
  PROVE  \/ inbox'[c] \in {inbox[c], <<>>}
         \/ inbox[c] # <<>> /\ inbox'[c] = Tail(inbox[c])
<1> USE DEF TypeInv, WireType
<1>1. CASE Teardown(c)
  BY <1>1 DEF Teardown
<1>2. CASE FileInit(c) /\ ~Teardown(c)
  BY <1>2 DEF FileInit, FileInitReject, FileInitRead, FileInitResume, FileInitUpload, FileInitError,
     TakeFrame
<1>3. CASE FileData(c) /\ ~Teardown(c)
  BY <1>3 DEF FileData, FileDataWrite, FileDataPause, FileDataDiskFull, FileDataError, TakeFrame, DataFor
<1>4. CASE FileEnd(c) /\ ~Teardown(c)
  <2>1. CASE FileEndVerify(c) \/ FileEndMismatch(c) \/ FileEndHashError(c) \/ FileEndUnavailable(c)
    BY <2>1 DEF FileEndVerify, FileEndMismatch, FileEndHashError, FileEndUnavailable, TakeFrame, EndFor
  <2>2. CASE \/ FileEndPlace(c) \/ FileEndMove(c) \/ FileEndComplete(c) \/ FileEndUnplaced(c)
             \/ FileEndStats(c)
    BY <2>2 DEF FileEndPlace, FileEndMove, FileEndComplete, FileEndUnplaced, FileEndStats, wireVars
  <2> QED
    BY <1>4, <2>1, <2>2 DEF FileEnd, FileEndNoDirName
<1> QED
  BY <1>1, <1>2, <1>3, <1>4 DEF Sidecar, ProtocolError, ReadEOF

LEMMA VouchedTail ==
  ASSUME NEW s \in Seq(Frames), s # <<>>, Vouched(s)
  PROVE  /\ Vouched(Tail(s))
         /\ Head(s).type = "FILE_END" => Head(s).sha
<1>1. Len(Tail(s)) = Len(s) - 1 /\ \A i \in 1 .. Len(Tail(s)) : Tail(s)[i] = s[i + 1]
  BY HeadTailProperties
<1>2. Len(s) \in Nat /\ Len(s) > 0 /\ Head(s) = s[1]
  BY LenProperties
<1>3. \A i \in 1 .. Len(Tail(s)) : i + 1 \in 1 .. Len(s)
  BY <1>1, <1>2
<1> QED
  BY <1>1, <1>2, <1>3 DEF Vouched

LEMMA VouchedPrefix ==
  ASSUME NEW s \in Seq(Frames), Vouched(s), NEW n \in 0 .. Len(s)
  PROVE  Vouched(SubSeq(s, 1, n))
<1>1. Len(s) \in Nat
  BY LenProperties
<1>2. Len(SubSeq(s, 1, n)) = n /\ \A i \in 1 .. n : SubSeq(s, 1, n)[i] = s[i] /\ i \in 1 .. Len(s)
  BY <1>1
<1> QED
  BY <1>2 DEF Vouched

LEMMA VouchedAppend ==
  ASSUME NEW s \in Seq(Frames), Vouched(s), NEW f \in Frames, f.type = "FILE_END" => f.sha
  PROVE  Vouched(Append(s, f))
<1>1. Len(Append(s, f)) = Len(s) + 1 /\ Len(s) \in Nat
  BY AppendProperties, LenProperties
<1>2. \A i \in 1 .. Len(s) : Append(s, f)[i] = s[i]
  BY AppendProperties
<1>3. Append(s, f)[Len(s) + 1] = f
  BY AppendProperties
<1>4. \A i \in 1 .. Len(s) + 1 : i \in 1 .. Len(s) \/ i = Len(s) + 1
  BY <1>1
<1> QED
  BY <1>1, <1>2, <1>3, <1>4 DEF Vouched

\* A writer that is opened writes a file, and closes with its connection.
LEMMA SidecarSits ==
  ASSUME TypeInv, DiskInv, NEW c \in Conns, Sits(c), Sidecar(c)
  PROVE  Sits(c)'
<1> USE DEF TypeInv, SidecarType
<1>1. CASE Teardown(c)
  BY <1>1 DEF Teardown, Sits
<1>2. CASE FileInit(c) /\ ~Teardown(c)
  <2>1. CASE FileInitReject(c) \/ FileInitRead(c)
    BY <2>1 DEF FileInitReject, FileInitRead, sidecarVars, Sits
  <2>2. CASE FileInitResume(c) \/ FileInitUpload(c)
    <3>1. OpenPart(c, job[c].key) /\ pc[c] = "init.open" /\ pc' = [pc EXCEPT ![c] = "ready"]
      BY <2>2 DEF FileInitResume, FileInitUpload
    <3>2. job[c].key \in Keys /\ pc'[c] = "ready"
      BY <3>1 DEF JobKeyed
    <3> QED
      BY <3>1, <3>2, OpenPartDisk DEF DiskInv, Sits
  <2> QED
    BY <1>2, <2>1, <2>2 DEF FileInit, FileInitError
<1>3. CASE FileData(c) /\ ~Teardown(c)
  <2>1. writer[c] # NoWriter /\ pc[c] = "ready" /\ pc' = pc
    BY <1>3 DEF FileData, FileDataWrite, FileDataPause, FileDataDiskFull, FileDataError, DataFor
  <2>2. \/ writer' = [writer EXCEPT ![c] = NoWriter]
        \/ \E o, p : writer' = [writer EXCEPT ![c].offset = o, ![c].pos = p]
    BY <1>3 DEF FileData, FileDataWrite, FileDataPause, FileDataDiskFull, FileDataError, Pause
  <2>3. writer'[c] = NoWriter \/ writer'[c].inode = writer[c].inode
    BY <2>2 DEF Writers
  <2> QED
    BY <2>1, <2>3 DEF Sits
<1>4. CASE FileEnd(c) /\ ~Teardown(c)
  <2>1. /\ pc[c] # "closed" /\ pc'[c] # "closed"
        /\ writer' = writer \/ writer' = [writer EXCEPT ![c] = NoWriter]
    <3>1. CASE FileEndVerify(c) \/ FileEndMismatch(c) \/ FileEndHashError(c) \/ FileEndUnavailable(c)
      BY <3>1 DEF FileEndVerify, FileEndMismatch, FileEndHashError, FileEndUnavailable, EndFor, Pause
    <3>2. CASE FileEndPlace(c) \/ FileEndMove(c) \/ FileEndComplete(c)
      BY <3>2 DEF FileEndPlace, FileEndMove, FileEndComplete
    <3>3. CASE FileEndUnplaced(c) \/ FileEndStats(c)
      BY <3>3 DEF FileEndUnplaced, FileEndStats, Pause
    <3> QED
      BY <1>4, <3>1, <3>2, <3>3 DEF FileEnd, FileEndNoDirName
  <2> QED
    BY <2>1 DEF Sits
<1> QED
  BY <1>1, <1>2, <1>3, <1>4 DEF Sidecar, ProtocolError, ReadEOF

\* Only the rename changes what has a name in the receive directory.
LEMMA SidecarFinals ==
  ASSUME NEW c \in Conns, Sidecar(c), ~FileEndMove(c)
  PROVE  finals' = finals
BY DEF Sidecar, FileInit, FileInitReject, FileInitRead, FileInitResume, FileInitUpload, FileInitError,
   OpenPart, FileData, FileDataWrite, FileDataPause, FileDataDiskFull, FileDataError, FileEnd,
   FileEndVerify, FileEndMismatch, FileEndHashError, FileEndUnavailable, FileEndPlace, FileEndUnplaced,
   FileEndNoDirName, FileEndComplete, FileEndStats, ProtocolError, ReadEOF, diskVars

\* The file that was checked is the file that is moved, and the name it takes
\* is not the path of another upload's row.
LEMMA MoveWhole ==
  ASSUME VerifiedInv, NEW c \in Conns, FileEndMove(c)
  PROVE  /\ Whole(job[c].path, job[c].key)'
         /\ \A q \in Paths, j \in Keys : Whole(q, j) => Whole(q, j)'
<1>1. PICK k, p : k = job[c].key /\ p = job[c].path
  OBVIOUS
<1>2. /\ pc[c] = "end.move" /\ part[k] # 0 /\ finals' = [finals EXCEPT ![p] = part[k]]
      /\ UNCHANGED <<data, job>>
  BY <1>1 DEF FileEndMove
<1>3. k \in Keys /\ p \in Wants(k) /\ (p = Plain(k) => finals[p] = 0)
  BY <1>1, <1>2 DEF VerifiedInv, TypeInv, JobKeyed, DiskInv, Name
<1>4. p \in Paths /\ data[part[k]].key = k
  BY <1>2, <1>3, WantsPaths DEF VerifiedInv, DiskInv, PartsInv
<1>5. Intact(part[k])
  BY <1>1, <1>2 DEF VerifiedInv, Checked
<1>6. finals'[p] = part[k] /\ \A q \in Paths \ {p} : finals'[q] = finals[q]
  BY <1>2, <1>4 DEF VerifiedInv, TypeInv, DiskType
<1>7. Whole(p, k)'
  BY <1>2, <1>4, <1>5, <1>6 DEF Whole, Intact
<1>8. \A j \in Keys : Whole(p, j) => j = k
  <2> SUFFICES ASSUME NEW j \in Keys, Whole(p, j) PROVE j = k
    OBVIOUS
  <2>1. p = Suffixed(k)
    BY <1>3 DEF Whole, Wants
  <2>2. p \in Wants(j)
    BY DEF Whole, VerifiedInv, DiskInv, FinalsInv
  <2> QED
    BY <1>3, <2>1, <2>2, WantsPaths
<1>9. ASSUME NEW q \in Paths, NEW j \in Keys, Whole(q, j) PROVE Whole(q, j)'
  <2>1. CASE q = p
    BY <1>7, <1>8, <1>9, <2>1
  <2>2. CASE q # p
    BY <1>2, <1>6, <1>9, <2>2 DEF Whole, Intact
  <2> QED
    BY <2>1, <2>2
<1> QED
  BY <1>1, <1>2, <1>7, <1>9

\* No step of a goroutine takes a whole file away.
LEMMA WholeStays ==
  ASSUME VerifiedInv, NEW c \in Conns, Sidecar(c), Lands(c),
         NEW q \in Paths, NEW j \in Keys, Whole(q, j)
  PROVE  Whole(q, j)'
<1>1. CASE FileEndMove(c)
  BY <1>1, MoveWhole
<1>2. CASE ~FileEndMove(c)
  <2>1. finals' = finals
    BY <1>2, SidecarFinals
  <2>2. data'[finals[q]] = data[finals[q]]
    BY DEF Lands, Unwritten, Whole
  <2> QED
    BY <2>1, <2>2 DEF Whole, Intact
<1> QED
  BY <1>1, <1>2

LEMMA SidecarRowsWhole ==
  ASSUME VerifiedInv, NEW c \in Conns, Sidecar(c), Lands(c)
  PROVE  RowsWhole'
<1> SUFFICES ASSUME NEW k \in Keys, row'[k].status = "completed", NEW p, p = row'[k].path
             PROVE  Whole(p, k)'
  BY DEF RowsWhole, Whole, Intact
<1>1. CASE row[k].status = "completed" /\ row'[k].path = row[k].path
  <2>1. Whole(p, k)
    BY <1>1 DEF VerifiedInv, RowsWhole
  <2> QED
    BY <2>1, WholeStays DEF Whole
<1>2. CASE pc[c] = "end.complete" /\ k = job[c].key /\ row'[k].path = job[c].path
  <2>1. Whole(p, k)
    BY <1>2 DEF VerifiedInv, Checked, Moved
  <2> QED
    BY <2>1, WholeStays DEF Whole
<1> QED
  BY <1>1, <1>2, SidecarRows DEF VerifiedInv

LEMMA SidecarChecked ==
  ASSUME VerifiedInv, NEW c \in Conns, Sidecar(c)
  PROVE  Checked(c)'
<1> USE DEF TypeInv, SidecarType
<1>1. TypeInv /\ Checked(c)
  BY DEF VerifiedInv
<1>2. CASE FileEndVerify(c)
  <2>1. PICK f : f = Head(inbox[c])
    OBVIOUS
  <2>2. /\ pc' = [pc EXCEPT ![c] = "end.place"] /\ inbox[c] # <<>> /\ f.type = "FILE_END"
        /\ job' = [job EXCEPT ![c] = [NoJob EXCEPT !.key = f.key, !.sha = f.sha]]
        /\ HashMatches(f) /\ UNCHANGED <<part, data>>
    BY <1>2, <2>1 DEF FileEndVerify, EndFor, diskVars
  <2>3. f.sha
    BY <1>1, <2>1, <2>2, VouchedTail DEF VerifiedInv, WireType
  <2>4. job'[c].key = f.key /\ pc'[c] = "end.place"
    BY <1>1, <2>2 DEF NoJob
  <2>5. Intact(part[f.key])
    BY <2>2, <2>3 DEF HashMatches
  <2> QED
    BY <2>2, <2>4, <2>5 DEF Checked, Moved, Intact
<1>3. CASE FileEndPlace(c)
  <2>1. /\ pc[c] = "end.place" /\ pc' = [pc EXCEPT ![c] = "end.move"]
        /\ job' = [job EXCEPT ![c].path = FinalPath(job[c].key)] /\ UNCHANGED <<part, data>>
    BY <1>3 DEF FileEndPlace, diskVars
  <2>2. job'[c].key = job[c].key /\ pc'[c] = "end.move"
    BY <1>1, <2>1 DEF Jobs
  <2> QED
    BY <1>1, <2>1, <2>2 DEF Checked, Moved, Intact
<1>4. CASE FileEndMove(c)
  <2>1. job' = job /\ pc'[c] = "end.complete"
    BY <1>1, <1>4 DEF FileEndMove
  <2> QED
    BY <1>4, <2>1, MoveWhole DEF Checked, Moved, Whole, Intact
<1>5. CASE FileEndComplete(c)
  <2>1. pc[c] = "end.complete" /\ pc'[c] = "end.stats" /\ UNCHANGED <<job, finals, data>>
    BY <1>1, <1>5 DEF FileEndComplete, diskVars
  <2> QED
    BY <1>1, <2>1 DEF Checked, Moved, Whole, Intact
<1>6. CASE ~FileEndVerify(c) /\ ~FileEndPlace(c) /\ ~FileEndMove(c) /\ ~FileEndComplete(c)
  <2>1. pc'[c] \in {"closed", "ready", "init.open"}
    <3>1. CASE Teardown(c)
      BY <1>1, <3>1 DEF Teardown
    <3>2. CASE FileInit(c) /\ ~Teardown(c)
      BY <1>1, <3>2 DEF FileInit, FileInitReject, FileInitRead, FileInitResume, FileInitUpload,
         FileInitError, sidecarVars
    <3>3. CASE FileData(c) /\ ~Teardown(c)
      BY <3>3 DEF FileData, FileDataWrite, FileDataPause, FileDataDiskFull, FileDataError, DataFor
    <3>4. CASE FileEnd(c) /\ ~Teardown(c)
      BY <1>1, <1>6, <3>4 DEF FileEnd, FileEndMismatch, FileEndHashError, FileEndUnavailable, EndFor,
         FileEndUnplaced, FileEndStats, FileEndNoDirName
    <3> QED
      BY <3>1, <3>2, <3>3, <3>4 DEF Sidecar, ProtocolError, ReadEOF
  <2> QED
    BY <2>1 DEF Checked, Moved
<1> QED
  BY <1>2, <1>3, <1>4, <1>5, <1>6

LEMMA SidecarVerifies ==
  ASSUME VerifiedInv, OneAtATime, TypeInv', NEW c \in Conns, Sidecar(c)
  PROVE  VerifiedInv'
<1>1. /\ TypeInv /\ DiskInv /\ Full(c)
      /\ \A d \in Conns : Sits(d) /\ Vouched(inbox[d]) /\ Checked(d)
  BY CheckedFull DEF VerifiedInv
<1>2. Lands(c) /\ Beside(c)
  BY <1>1, SidecarLands, SidecarBeside
<1>3. \A d \in Conns \ {c} : /\ pc'[d] = "closed" /\ writer'[d] = NoWriter
                             /\ Use(d)' /\ Name(d)' /\ inbox'[d] = inbox[d]
  BY <1>1, <1>2, OthersIdle DEF Beside
<1>4. DiskInv'
  BY <1>2, <1>3 DEF DiskInv, Lands
<1>5. Vouched(inbox'[c])
  <2>1. inbox[c] \in Seq(Frames) /\ Vouched(<<>>)
    BY <1>1 DEF TypeInv, WireType, Vouched
  <2> QED
    BY <1>1, <2>1, SidecarInbox, VouchedTail
<1>6. \A d \in Conns : Sits(d)' /\ Vouched(inbox'[d]) /\ Checked(d)'
  BY <1>1, <1>3, <1>5, SidecarSits, SidecarChecked DEF Sits, Checked, Moved
<1>7. RowsWhole'
  BY <1>2, SidecarRowsWhole
<1> QED
  BY <1>4, <1>6, <1>7 DEF VerifiedInv, Vouched

\* The phone leaves the disk and the rows to the sidecar, and sends its hashes.
LEMMA PhoneSends ==
  ASSUME Hashed, TypeInv, PhoneLoop
  PROVE  /\ UNCHANGED <<part, finals, data, row, writer, job>>
         /\ \A c \in Conns : pc'[c] = pc[c] \/ (pc[c] = "closed" /\ pc'[c] = "ready")
         /\ \/ inbox' = inbox
            \/ \E f \in Frames : /\ f.type = "FILE_END" => f.sha
                                 /\ inbox' = [inbox EXCEPT ![cur] = Append(@, f)]
<1>1. CASE \E c \in Conns : PhoneConnect(c)
  BY <1>1 DEF PhoneConnect, wireVars, diskVars, storeVars, TypeInv, SidecarType
<1>2. CASE \E k \in Keys : PhoneInit(k)
  <2>1. PICK k \in Keys : PhoneInit(k)
    BY <1>2
  <2>2. InitFrame(k).type = "FILE_INIT"
    BY DEF InitFrame
  <2> QED
    BY <2>1, <2>2, FrameKinds DEF PhoneInit, Send, diskVars, storeVars, sidecarVars
<1>3. CASE PhoneData
  <2>1. PICK f : /\ f = DataFrame(task.key, task.next, MinOf(task.chunk, Size - task.next))
                 /\ inbox' = [inbox EXCEPT ![cur] = Append(@, f)]
    BY <1>3 DEF PhoneData, Send
  <2>2. task.key \in Keys /\ task.next \in Offsets /\ task.chunk \in Units /\ task.next < Size
    BY <1>3 DEF PhoneData, TypeInv, TaskKeyed, PhoneType, TaskType
  <2> DEFINE n == MinOf(task.chunk, Size - task.next)
  <2>3. n \in Units /\ task.next + n <= Size
    BY <2>2, ConstantsAssumption DEF MinOf, Offsets, Units
  <2> HIDE DEF n
  <2>4. f = DataFrame(task.key, task.next, n)
    BY <2>1 DEF n
  <2>5. f \in Frames
    BY <2>2, <2>3, <2>4, FrameKinds
  <2>6. f.type = "FILE_DATA"
    BY <2>4 DEF DataFrame
  <2> QED
    BY <1>3, <2>1, <2>5, <2>6 DEF PhoneData, diskVars, storeVars, sidecarVars
<1>4. CASE PhoneEnd
  <2>1. PICK h \in Hashing : Send(EndFrame(task.key, h))
    BY <1>4 DEF PhoneEnd
  <2>2. task.key \in Keys
    BY <1>4 DEF PhoneEnd, TypeInv, TaskKeyed
  <2>3. EndFrame(task.key, h) \in Frames /\ EndFrame(task.key, h).sha
    BY <2>1, <2>2, FrameKinds DEF Hashed, EndFrame
  <2> QED
    BY <1>4, <2>1, <2>3 DEF PhoneEnd, Send, diskVars, storeVars, sidecarVars
<1>5. CASE PhoneInitRes \/ PhoneEndRes \/ PhoneError
  BY <1>5 DEF PhoneInitRes, PhoneEndRes, PhoneError, diskVars, storeVars, sidecarVars
<1> QED
  BY <1>1, <1>2, <1>3, <1>4, <1>5 DEF PhoneLoop

\* Where the disk, the rows and the handlers stay as they are.
LEMMA StillVerified ==
  ASSUME VerifiedInv, TypeInv', UNCHANGED <<part, finals, data, row, writer, job>>,
         \A c \in Conns : pc'[c] = pc[c] \/ (pc[c] = "closed" /\ pc'[c] = "ready"),
         \A c \in Conns : Vouched(inbox'[c])
  PROVE  VerifiedInv'
<1>1. DiskInv'
  BY StillDisk DEF VerifiedInv
<1>2. RowsWhole'
  BY DEF VerifiedInv, RowsWhole, Whole, Intact
<1>3. \A c \in Conns : Sits(c)' /\ Checked(c)'
  BY DEF VerifiedInv, Sits, Checked, Moved, Whole, Intact
<1> QED
  BY <1>1, <1>2, <1>3 DEF VerifiedInv, Vouched

LEMMA PhoneVerifies ==
  ASSUME Hashed, VerifiedInv, TypeInv', PhoneLoop
  PROVE  VerifiedInv'
<1>1. \A c \in Conns : inbox[c] \in Seq(Frames) /\ Vouched(inbox[c])
  BY DEF VerifiedInv, TypeInv, WireType
<1>2. \A c \in Conns : Vouched(inbox'[c])
  <2>1. CASE inbox' = inbox
    BY <1>1, <2>1
  <2>2. CASE \E f \in Frames : /\ f.type = "FILE_END" => f.sha
                               /\ inbox' = [inbox EXCEPT ![cur] = Append(@, f)]
    <3>1. PICK f \in Frames : /\ f.type = "FILE_END" => f.sha
                              /\ inbox' = [inbox EXCEPT ![cur] = Append(@, f)]
      BY <2>2
    <3>2. \A c \in Conns : inbox'[c] = inbox[c] \/ inbox'[c] = Append(inbox[c], f)
      BY <3>1 DEF VerifiedInv, TypeInv, WireType
    <3> QED
      BY <1>1, <3>1, <3>2, VouchedAppend
  <2> QED
    BY <2>1, <2>2, PhoneSends DEF VerifiedInv
<1> QED
  BY <1>2, PhoneSends, StillVerified DEF VerifiedInv

LEMMA EnvironmentVerifies ==
  ASSUME VerifiedInv, TypeInv', Untouched', Environment
  PROVE  VerifiedInv'
<1>1. /\ TypeInv /\ DiskInv /\ RowsWhole
      /\ \A c \in Conns : Sits(c) /\ Vouched(inbox[c]) /\ Checked(c) /\ inbox[c] \in Seq(Frames)
  BY DEF VerifiedInv, TypeInv, WireType
<1>2. CASE \E p \in Paths : UserDeletesFinal(p)
  BY <1>2 DEF UserDeletesFinal, Untouched
<1>3. CASE Crash
  <2>1. /\ \A c \in Conns : pc'[c] = "closed" /\ writer'[c] = NoWriter /\ inbox'[c] = <<>>
        /\ UNCHANGED <<part, finals, data, row>>
    BY <1>3 DEF Crash, diskVars, storeVars
  <2>2. FinalsInv' /\ PartsInv'
    BY <1>1, <2>1, SettledDisk DEF DiskInv, Settled
  <2>3. RowsWhole'
    BY <1>1, <2>1 DEF RowsWhole, Whole, Intact
  <2>4. \A c \in Conns : Use(c)' /\ Name(c)' /\ Sits(c)' /\ Vouched(inbox'[c]) /\ Checked(c)'
    BY <2>1 DEF Use, Name, Sits, Vouched, Checked, Moved
  <2> QED
    BY <2>2, <2>3, <2>4 DEF VerifiedInv, DiskInv, Vouched
<1>4. CASE PhoneDrop
  <2>1. PICK n \in 0 .. Len(inbox[cur]) : inbox' = [inbox EXCEPT ![cur] = SubSeq(@, 1, n)]
    BY <1>4 DEF PhoneDrop
  <2>2. cur \in Conns /\ UNCHANGED <<part, finals, data, row, writer, job, pc>>
    BY <1>1, <1>4 DEF PhoneDrop, diskVars, storeVars, sidecarVars, TypeInv, PhoneType
  <2>3. \A c \in Conns : inbox'[c] = inbox[c] \/ (c = cur /\ inbox'[c] = SubSeq(inbox[c], 1, n))
    BY <1>1, <2>1 DEF TypeInv, WireType
  <2>4. \A c \in Conns : Vouched(inbox'[c])
    BY <1>1, <2>2, <2>3, VouchedPrefix
  <2> QED
    BY <2>2, <2>4, StillVerified
<1>5. CASE \E k \in Keys : PhoneReoffer(k)
  <2>1. UNCHANGED <<part, finals, data, row, writer, job, pc, inbox>>
    BY <1>5 DEF PhoneReoffer, diskVars, storeVars, sidecarVars, wireVars
  <2> QED
    BY <1>1, <2>1, StillVerified
<1>6. CASE \E k \in Keys : PartVanishes(k)
  <2>1. /\ Settled /\ UNCHANGED <<row, writer, job, pc, inbox>>
    BY <1>1, <1>6 DEF PartVanishes, Settled, storeVars, sidecarVars, wireVars, TypeInv, DiskType
  <2>2. FinalsInv' /\ PartsInv'
    BY <1>1, <2>1, SettledDisk DEF DiskInv
  <2>3. RowsWhole'
    BY <1>1, <2>1 DEF RowsWhole, Whole, Intact, Settled
  <2>4. ASSUME NEW c \in Conns PROVE Use(c)' /\ Name(c)' /\ Sits(c)' /\ Vouched(inbox'[c]) /\ Checked(c)'
    <3>1. Use(c)' /\ Name(c)' /\ Sits(c)' /\ Vouched(inbox'[c])
      BY <1>1, <2>1, SettledUse DEF DiskInv, Name, Settled, Wants, Plain, Suffixed, Sits
    <3>2. Checked(c)'
      <4>1. pc[c] \in {"end.place", "end.move"} => job[c].key \in Keys
        BY <1>1 DEF TypeInv, JobKeyed
      <4> QED
        BY <1>1, <2>1, <4>1 DEF Checked, Whole, Intact, Settled
    <3> QED
      BY <3>1, <3>2
  <2> QED
    BY <2>2, <2>3, <2>4 DEF VerifiedInv, DiskInv, Vouched
<1> QED
  BY <1>2, <1>3, <1>4, <1>5, <1>6 DEF Environment

LEMMA InitVerified == Init => VerifiedInv
<1> SUFFICES ASSUME Init PROVE VerifiedInv
  OBVIOUS
<1>1. /\ \A c \in Conns : writer[c] = NoWriter /\ pc[c] = "closed" /\ inbox[c] = <<>>
      /\ \A k \in Keys : row[k].status = "none"
      /\ \A p \in Paths : finals[p] = 0
      /\ \A k \in Keys : part[k] = 0
  BY DEF Init, NoRow
<1> QED
  BY <1>1, InitType DEF VerifiedInv, DiskInv, FinalsInv, PartsInv, Use, Name, RowsWhole, Sits, Vouched,
     Checked, Moved

LEMMA NextVerifies ==
  ASSUME Hashed, VerifiedInv, OneAtATime, Untouched', [Next]_vars
  PROVE  VerifiedInv'
<1>1. TypeInv'
  BY NextType DEF VerifiedInv
<1>2. CASE UNCHANGED vars
  BY <1>1, <1>2, StillVerified
     DEF vars, phoneVars, wireVars, sidecarVars, diskVars, storeVars, VerifiedInv
<1> QED
  BY <1>1, <1>2, SidecarVerifies, PhoneVerifies, EnvironmentVerifies DEF Next

\* Between the hash and the rename the handler asks again for storage, chooses a
\* name and may be left alone by the staging directory; still, a row that says
\* completed has the whole file at its path, for any length of the chunks, as long
\* as every FILE_END carries its hash, the user deletes no received file and no two
\* connections are at work at once: VerifiedIsIntact.
THEOREM VerifiedFilesAreIntact ==
  ASSUME Hashed PROVE Spec /\ []OneAtATime /\ []Untouched => []VerifiedIsIntact
<1>1. VerifiedInv /\ OneAtATime /\ Untouched' /\ [Next]_vars => VerifiedInv'
  BY NextVerifies
<1>2. VerifiedInv => VerifiedIsIntact
  BY DEF VerifiedInv, RowsWhole, Whole, VerifiedIsIntact
<1> QED
  BY <1>1, <1>2, InitVerified, PTL DEF Spec

=============================================================================
