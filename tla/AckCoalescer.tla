---------------------------- MODULE AckCoalescer ----------------------------
(***************************************************************************)
(* FILE_ACK coalescing on one connection of the sidecar                    *)
(* (services/sidecar-go/internal/server/connection.go and                  *)
(* handler_file.go), together with the sending loop of the phone that      *)
(* waits for those ACKs.                                                   *)
(*                                                                         *)
(* Three kinds of goroutine share the fields under ackMu: the connection's *)
(* handler, and one goroutine per expired time.AfterFunc timer, which runs *)
(* flushScheduledAck.  flushScheduledAck takes the pending ACK, releases   *)
(* the lock, sends, and takes the lock again to record what it sent; a     *)
(* timer that has expired cannot be stopped any more.                      *)
(*                                                                         *)
(* A file is Size units, a FILE_DATA carries one unit.  Files are numbered *)
(* in the order the phone sends them, 0 stands for the empty file key.     *)
(***************************************************************************)
EXTENDS Integers, Sequences, FiniteSets

CONSTANTS
  NFiles,      \* files sent on the connection
  Size,        \* units in a file
  Starts,      \* how a file may start: [phone |-> offset in FILE_INIT_RES,
               \*                        disk |-> size of the .part file]
  Windows,     \* units the phone keeps in flight: 1 on Android, on iOS chosen
               \* for each file by uploadTuning
  AckBytes,    \* ackFlushBytes, in units
  PromptFlush  \* TRUE when a flush goroutine that has released the lock sends
               \* and records its ACK before the handler gets another frame

ASSUME AckAssumption ==
  /\ NFiles \in Nat /\ Size \in Nat /\ Windows \subseteq Nat /\ AckBytes \in Nat
  /\ Starts \subseteq [phone : 0 .. Size, disk : 0 .. Size]
  /\ \A s \in Starts : s.phone <= s.disk
  /\ PromptFlush \in BOOLEAN

VARIABLES
  file,      \* phone: the file it is sending, NFiles + 1 when all are sent
  phase,     \* phone: "idle", "init", "data" or "end"
  next,      \* phone: nextOffset
  acked,     \* phone: acknowledgedOffset
  window,    \* phone: targetInFlightBytes
  inbox,     \* frames to the sidecar
  wire,      \* frames to the phone
  hpc,       \* handler: "idle", or inside FILE_DATA at "send", "mark", "schedule"
  wkey,      \* the file of connection.fileWriter
  size,      \* CommittedOffset of each file's writer, as last reached
  ackKey,    \* ackFileKey
  lastAck,   \* lastAckOffset
  age,       \* lastAckAt: "zero", within ackFlushInterval ("fresh") or "old"
  armed,     \* ackTimer is set and has not expired
  pendKey,   \* pendingAckKey
  pendPos,   \* pendingAckPos
  loose,     \* flushes nobody can stop: expired timers whose goroutine has not
             \* got the lock, and armed timers no field refers to any more
  flushers,  \* flush goroutines that have released the lock
  owed       \* history: FILE_DATA handled since the last FILE_ACK was sent

phoneVars == <<file, phase, next, acked, window>>
ackVars   == <<ackKey, lastAck, age>>
timerVars == <<armed, pendKey, pendPos, loose>>
vars == <<phoneVars, inbox, wire, hpc, wkey, size, ackVars, timerVars, flushers, owed>>

-----------------------------------------------------------------------------
Files   == 1 .. NFiles
Offsets == 0 .. Size

MinOf(a, b) == IF a < b THEN a ELSE b
MaxOf(a, b) == IF a < b THEN b ELSE a

InitFrame(k)    == [type |-> "FILE_INIT", key |-> k, offset |-> 0]
DataFrame(k, o) == [type |-> "FILE_DATA", key |-> k, offset |-> o]
EndFrame(k)     == [type |-> "FILE_END", key |-> k, offset |-> 0]
InitRes(k, o)   == [type |-> "FILE_INIT_RES", key |-> k, offset |-> o]
FileAck(k, o)   == [type |-> "FILE_ACK", key |-> k, offset |-> o]
EndRes(k)       == [type |-> "FILE_END_RES", key |-> k, offset |-> 0]

Flush(at, k, o) == [pc |-> at, key |-> k, offset |-> o]

-----------------------------------------------------------------------------
(* Under ackMu. *)

\* clearAckTimerLocked(k): another file's timer is left alone.
\* Mutant: the timer runs on.
ClearTimerLater(k) == UNCHANGED timerVars
ClearTimer(k) ==
  /\ IF k # 0 /\ pendKey # 0 /\ pendKey # k
       THEN UNCHANGED <<armed, pendKey, pendPos>>
       ELSE armed' = FALSE /\ pendKey' = 0 /\ pendPos' = 0
  /\ UNCHANGED loose

\* resetAckStateLocked
ResetAck(k, o) ==
  /\ ackKey' = k /\ lastAck' = o /\ age' = "zero"
  /\ ClearTimer(0)

\* clearAckStateLocked
ClearAck(k) ==
  IF k # 0 /\ ackKey # k
    THEN UNCHANGED <<ackVars, timerVars>>
    ELSE ackKey' = 0 /\ lastAck' = 0 /\ age' = "zero" /\ ClearTimer(0)

\* markAckSentLocked
MarkSent(k, o) ==
  /\ ackKey' = k /\ lastAck' = o /\ age' = "fresh"
  /\ ClearTimer(k)

\* shouldSendAckLocked when the connection's ACK state is about this file: the
\* first ACK, the file's tail, ackFlushBytes, ackFlushInterval.
AckDue(o) ==
  \/ age = "zero"
  \/ Size > 0 /\ o >= Size
  \/ o - lastAck >= AckBytes
  \/ age = "old"

-----------------------------------------------------------------------------
(* The handler. *)

Quiet == PromptFlush => flushers = {}
Read(type) == /\ hpc = "idle" /\ inbox # <<>> /\ Head(inbox).type = type /\ Quiet
              /\ inbox' = Tail(inbox)
Send(m) == wire' = Append(wire, m)

\* handleFileInit: the writer starts at the end of the .part file, the ACK
\* state at the offset the phone is told.
FileInit ==
  /\ Read("FILE_INIT")
  /\ LET k == Head(inbox).key
     IN \E s \in Starts :
          /\ wkey' = k
          /\ size' = [size EXCEPT ![k] = s.disk]
          /\ ResetAck(k, s.phone)
          /\ Send(InitRes(k, s.phone))
  /\ UNCHANGED <<phoneVars, hpc, flushers, owed>>

\* handleFileData up to the result of shouldSendAck.
FileData ==
  /\ Read("FILE_DATA")
  /\ LET k == Head(inbox).key
         committed == MaxOf(size[k], Head(inbox).offset + 1)
     IN /\ size' = [size EXCEPT ![k] = committed]
        /\ IF ackKey # k
             THEN ResetAck(k, committed) /\ hpc' = "send"
             ELSE /\ hpc' = IF AckDue(committed) THEN "send" ELSE "schedule"
                  /\ UNCHANGED <<ackVars, timerVars>>
  /\ owed' = owed + 1
  /\ UNCHANGED <<phoneVars, wire, wkey, flushers>>

\* The offset FILE_ACK carries.
\* Mutants: the next frame's, and the one acknowledged before.
AckOffsetNext == size[wkey] + 1
AckOffsetLast == lastAck
AckOffset     == size[wkey]

\* sendJSON(FILE_ACK)
SendAck ==
  /\ hpc = "send"
  /\ Send(FileAck(wkey, AckOffset))
  /\ hpc' = "mark"
  /\ owed' = 0
  /\ UNCHANGED <<phoneVars, inbox, wkey, size, ackVars, timerVars, flushers>>

MarkAck ==
  /\ hpc = "mark"
  /\ MarkSent(wkey, size[wkey])
  /\ hpc' = "idle"
  /\ UNCHANGED <<phoneVars, inbox, wire, wkey, size, flushers, owed>>

\* What scheduleAckFlush takes as covered by the last ACK.
\* Mutant: one unit more.
CoveredLate(o) == o <= lastAck + 1
Covered(o)     == o <= lastAck

\* scheduleAckFlush
ScheduleFlush ==
  /\ hpc = "schedule"
  /\ hpc' = "idle"
  /\ IF ackKey # 0 /\ ackKey # wkey
       THEN ResetAck(wkey, size[wkey])
       ELSE IF Covered(size[wkey])
              THEN UNCHANGED <<ackVars, timerVars>>
              ELSE /\ armed' = TRUE
                   /\ pendKey' = wkey
                   /\ IF pendKey \in {0, wkey}
                        THEN pendPos' = size[wkey] /\ UNCHANGED loose
                        ELSE /\ pendPos' = MaxOf(pendPos, size[wkey])
                             /\ loose' = IF armed THEN loose + 1 ELSE loose
                   /\ UNCHANGED ackVars
  /\ UNCHANGED <<phoneVars, inbox, wire, wkey, size, flushers, owed>>

\* handleFileEnd, of which only the answer and the deferred clearAckState
\* matter here.
FileEnd ==
  /\ Read("FILE_END")
  /\ LET k == Head(inbox).key
     IN Send(EndRes(k)) /\ ClearAck(k)
  /\ UNCHANGED <<phoneVars, hpc, wkey, size, flushers, owed>>

-----------------------------------------------------------------------------
(* Time and the flush goroutines. *)

\* ackFlushInterval has passed since the last ACK.
IntervalPasses ==
  /\ age = "fresh" /\ age' = "old"
  /\ UNCHANGED <<phoneVars, inbox, wire, hpc, wkey, size, ackKey, lastAck, timerVars,
                 flushers, owed>>

\* The timer was armed for the end of the interval.
TimerExpires ==
  /\ armed /\ (age # "fresh" \/ pendKey # ackKey)
  /\ armed' = FALSE /\ loose' = loose + 1
  /\ UNCHANGED <<phoneVars, inbox, wire, hpc, wkey, size, ackVars, pendKey, pendPos,
                 flushers, owed>>

\* flushScheduledAck up to the unlock.  It forgets ackTimer, even one that was
\* armed after its own.
FlushTake ==
  /\ loose > 0
  /\ loose' = IF armed THEN loose ELSE loose - 1
  /\ armed' = FALSE /\ pendKey' = 0 /\ pendPos' = 0
  /\ flushers' = IF pendKey = 0 \/ (ackKey = pendKey /\ pendPos <= lastAck) THEN flushers
                 ELSE flushers \cup {Flush("send", pendKey, pendPos)}
  /\ UNCHANGED <<phoneVars, inbox, wire, hpc, wkey, size, ackVars, owed>>

FlushSend(f) ==
  /\ f \in flushers /\ f.pc = "send"
  /\ Send(FileAck(f.key, f.offset))
  /\ flushers' = (flushers \ {f}) \cup {Flush("mark", f.key, f.offset)}
  /\ owed' = 0
  /\ UNCHANGED <<phoneVars, inbox, hpc, wkey, size, ackVars, timerVars>>

FlushMark(f) ==
  /\ f \in flushers /\ f.pc = "mark"
  /\ MarkSent(f.key, f.offset)
  /\ flushers' = flushers \ {f}
  /\ UNCHANGED <<phoneVars, inbox, wire, hpc, wkey, size, owed>>

-----------------------------------------------------------------------------
(* The phone. *)

Transmit(f) == inbox' = Append(inbox, f)

PhoneInit ==
  /\ phase = "idle" /\ file \in Files
  /\ Transmit(InitFrame(file))
  /\ phase' = "init"
  /\ UNCHANGED <<file, next, acked, window, wire, hpc, wkey, size, ackVars, timerVars,
                 flushers, owed>>

PhoneData ==
  /\ phase = "data" /\ next < Size /\ next - acked < window
  /\ Transmit(DataFrame(file, next))
  /\ next' = next + 1
  /\ UNCHANGED <<file, phase, acked, window, wire, hpc, wkey, size, ackVars, timerVars,
                 flushers, owed>>

PhoneEnd ==
  /\ phase = "data" /\ acked = Size
  /\ Transmit(EndFrame(file))
  /\ phase' = "end"
  /\ UNCHANGED <<file, next, acked, window, wire, hpc, wkey, size, ackVars, timerVars,
                 flushers, owed>>

\* The phone takes any FILE_ACK for one of the file it is sending; it clamps
\* the offset to what it has sent.  While it waits for FILE_END_RES it passes
\* over FILE_ACKs; one in front of FILE_INIT_RES ends its round, and the model.
PhoneReads ==
  /\ wire # <<>> /\ phase # "idle"
  /\ wire' = Tail(wire)
  /\ LET m == Head(wire)
     IN \/ /\ m.type = "FILE_INIT_RES"
           /\ phase' = "data" /\ next' = m.offset /\ acked' = m.offset
           /\ window' \in Windows
           /\ UNCHANGED file
        \/ /\ m.type = "FILE_ACK" /\ phase = "data"
           /\ acked' = MinOf(MaxOf(m.offset, acked), next)
           /\ UNCHANGED <<file, phase, next, window>>
        \/ /\ m.type = "FILE_ACK" /\ phase = "end"
           /\ UNCHANGED phoneVars
        \/ /\ m.type = "FILE_END_RES"
           /\ phase' = "idle" /\ file' = file + 1
           /\ UNCHANGED <<next, acked, window>>
  /\ UNCHANGED <<inbox, hpc, wkey, size, ackVars, timerVars, flushers, owed>>

-----------------------------------------------------------------------------
Init ==
  /\ file = 1 /\ phase = "idle" /\ next = 0 /\ acked = 0 /\ window = 0
  /\ inbox = <<>> /\ wire = <<>>
  /\ hpc = "idle" /\ wkey = 0 /\ size = [k \in Files |-> 0]
  /\ ackKey = 0 /\ lastAck = 0 /\ age = "zero"
  /\ armed = FALSE /\ pendKey = 0 /\ pendPos = 0 /\ loose = 0
  /\ flushers = {} /\ owed = 0

Handler == FileInit \/ FileData \/ SendAck \/ MarkAck \/ ScheduleFlush \/ FileEnd
Flusher == FlushTake \/ \E f \in flushers : FlushSend(f) \/ FlushMark(f)
Phone   == PhoneInit \/ PhoneData \/ PhoneEnd \/ PhoneReads

Next == Handler \/ IntervalPasses \/ TimerExpires \/ Flusher \/ Phone

Spec == Init /\ [][Next]_vars

\* The goroutines and the phone run, and time passes.
FairSpec == /\ Spec
            /\ WF_vars(Handler) /\ WF_vars(Phone)
            /\ WF_vars(IntervalPasses) /\ WF_vars(TimerExpires)
            /\ WF_vars(FlushTake)
            /\ WF_vars(\E f \in flushers : FlushSend(f) \/ FlushMark(f))

-----------------------------------------------------------------------------
(* Properties. *)

Requests == {InitFrame(k) : k \in Files} \cup {EndFrame(k) : k \in Files}
              \cup {DataFrame(k, o) : k \in Files, o \in 0 .. Size - 1}
Replies  == [type : {"FILE_INIT_RES", "FILE_ACK", "FILE_END_RES"}, key : Files, offset : Offsets]

\* Every variable has the shape its declaration says.
TypeOK ==
  /\ file \in Nat /\ phase \in {"idle", "init", "data", "end"}
  /\ next \in Offsets /\ acked \in Offsets /\ window \in Nat
  /\ inbox \in Seq(Requests) /\ wire \in Seq(Replies)
  /\ hpc \in {"idle", "send", "mark", "schedule"}
  /\ wkey \in 0 .. NFiles /\ size \in [Files -> Offsets]
  /\ ackKey \in 0 .. NFiles /\ lastAck \in Offsets /\ age \in {"zero", "fresh", "old"}
  /\ armed \in BOOLEAN /\ pendKey \in 0 .. NFiles /\ pendPos \in Offsets /\ loose \in Nat
  /\ flushers \subseteq [pc : {"send", "mark"}, key : Files, offset : Offsets]
  /\ owed \in Nat

\* A FILE_ACK never promises more than the file's writer has taken, whichever
\* goroutine sends it and however late it is sent.
AckNeverAhead ==
  /\ \A i \in 1 .. Len(wire) : wire[i].type = "FILE_ACK" => wire[i].offset <= size[wire[i].key]
  /\ \A f \in flushers : f.offset <= size[f.key]

\* The timer of one file never sends into the next one, whose sender would
\* take the ACK for its own.
AckOfCurrentFile ==
  \A i \in 1 .. Len(wire) : wire[i].type = "FILE_ACK" => wire[i].key = file

\* "ACK still flushes on interval with no new frame": a FILE_DATA that was not
\* acknowledged at once is acknowledged later.
TimedAckFlush == (owed > 0) ~> (owed = 0)

\* The phone gets through its files.
AllSent == <>(file = NFiles + 1)

=============================================================================
