------------------------ MODULE AckCoalescer_proofs -------------------------
(***************************************************************************)
(* Theorems about AckCoalescer, for any number of files, any file size,    *)
(* any window and any ackFlushBytes: type correctness and AckNeverAhead    *)
(* with flush goroutines that may be overtaken by any number of frames     *)
(* (PromptFlush is left open).  Nothing is proved of AckOfCurrentFile: a   *)
(* flush goroutine that has let go of ackMu and sleeps through FILE_END    *)
(* does send into the next file.                                           *)
(*                                                                         *)
(* AckNeverAhead depends on the order of the protocol: the writer of a     *)
(* file starts at the size of its .part file, so a FILE_ACK of the file    *)
(* that is still on its way, or that a flush goroutine still holds, must   *)
(* not be there when FILE_INIT is handled.  ProtocolInv says why it is     *)
(* not: a FILE_INIT is always for a later file than every ACK.             *)
(***************************************************************************)
EXTENDS AckCoalescer, TLAPS

-----------------------------------------------------------------------------
(* The inductive invariant. *)

\* Of the frames on their way, those that answer or ask something.
Asks(i)    == inbox[i].type # "FILE_DATA"
Answers(i) == wire[i].type # "FILE_ACK"

\* The writer's file is never ahead of the phone's.
OrderInv ==
  /\ wkey <= file
  /\ phase = "idle" => wkey < file
  /\ phase # "idle" => file \in Files
  /\ phase = "data" => wkey # 0
  /\ hpc # "idle" => wkey # 0

\* What the phone has asked for, of which at most one thing is on its way.
InboxInv ==
  /\ \A i \in 1 .. Len(inbox) :
       /\ inbox[i].type = "FILE_INIT" => phase = "init" /\ inbox[i].key = file /\ wkey < file
       /\ inbox[i].type = "FILE_END" => phase = "end"
       /\ inbox[i].type = "FILE_DATA" => wkey # 0
  /\ \A i, j \in 1 .. Len(inbox) : Asks(i) /\ Asks(j) => i = j

\* What the sidecar has answered, likewise.
WireInv ==
  /\ \A i \in 1 .. Len(wire) :
       /\ wire[i].type = "FILE_INIT_RES" => phase = "init" /\ wkey # 0
       /\ wire[i].type = "FILE_END_RES" => phase = "end"
  /\ \A i, j \in 1 .. Len(wire) : Answers(i) /\ Answers(j) => i = j
  /\ \A i \in 1 .. Len(wire), j \in 1 .. Len(inbox) : ~(Answers(i) /\ Asks(j))

ProtocolInv == OrderInv /\ InboxInv /\ WireInv

\* The pending ACK is for the writer's file and for what the writer has.
PendingInv ==
  /\ pendKey \in {0, wkey}
  /\ pendKey # 0 => pendPos <= size[pendKey]

\* No ACK is for a file whose writer has still to be opened.
AckKeysInv ==
  /\ \A i \in 1 .. Len(wire) : wire[i].type = "FILE_ACK" => wire[i].key <= wkey
  /\ \A f \in flushers : f.key <= wkey

IInv == TypeOK /\ ProtocolInv /\ PendingInv /\ AckKeysInv /\ AckNeverAhead

-----------------------------------------------------------------------------
(* Sequences. *)

LEMMA AppendProperties ==
  ASSUME NEW S, NEW s \in Seq(S), NEW e \in S
  PROVE  /\ Append(s, e) \in Seq(S)
         /\ Len(Append(s, e)) = Len(s) + 1
         /\ \A i \in 1 .. Len(s) : Append(s, e)[i] = s[i]
         /\ Append(s, e)[Len(s) + 1] = e
OBVIOUS

LEMMA TailProperties ==
  ASSUME NEW S, NEW s \in Seq(S), s # <<>>
  PROVE  /\ Len(s) \in Nat \ {0}
         /\ Head(s) = s[1] /\ Head(s) \in S
         /\ Tail(s) \in Seq(S)
         /\ Len(Tail(s)) = Len(s) - 1
         /\ \A i \in 1 .. Len(s) - 1 : Tail(s)[i] = s[i + 1]
<1>1. Len(s) \in Nat \ {0}
  OBVIOUS
<1>2. Head(s) = s[1] /\ s[1] \in S
  BY <1>1
<1>3. Tail(s) \in Seq(S) /\ Len(Tail(s)) = Len(s) - 1
  BY <1>1
<1>4. \A i \in 1 .. Len(s) - 1 : Tail(s)[i] = s[i + 1]
  BY <1>1
<1> QED
  BY <1>1, <1>2, <1>3, <1>4

-----------------------------------------------------------------------------
(* Under ackMu: what each of these leaves of the ACK state.                *)

AckTypes ==
  /\ ackKey \in 0 .. NFiles /\ lastAck \in Offsets /\ age \in {"zero", "fresh", "old"}
  /\ armed \in BOOLEAN /\ pendKey \in 0 .. NFiles /\ pendPos \in Offsets /\ loose \in Nat

\* The pending ACK was kept or dropped.
PendingKeptOrDropped == pendKey' = 0 \/ (pendKey' = pendKey /\ pendPos' = pendPos)

LEMMA ZeroInRange == 0 \in 0 .. NFiles /\ 0 \in Offsets
BY AckAssumption DEF Offsets

LEMMA ClearTimerFacts ==
  ASSUME AckTypes, NEW k, ClearTimer(k)
  PROVE  /\ armed' \in BOOLEAN /\ pendKey' \in 0 .. NFiles /\ pendPos' \in Offsets
         /\ loose' \in Nat
         /\ PendingKeptOrDropped
BY ZeroInRange, Zenon DEF AckTypes, ClearTimer, PendingKeptOrDropped

LEMMA ResetAckFacts ==
  ASSUME AckTypes, NEW k \in 0 .. NFiles, NEW o \in Offsets, ResetAck(k, o)
  PROVE  AckTypes' /\ pendKey' = 0
<1>1. ClearTimer(0)
  BY DEF ResetAck
<1>2. pendKey' = 0
  BY <1>1 DEF ClearTimer
<1>3. ackKey' \in 0 .. NFiles /\ lastAck' \in Offsets /\ age' \in {"zero", "fresh", "old"}
  BY DEF ResetAck
<1> QED
  BY <1>1, <1>2, <1>3, ClearTimerFacts DEF AckTypes

LEMMA ClearAckFacts ==
  ASSUME AckTypes, NEW k, ClearAck(k)
  PROVE  AckTypes' /\ PendingKeptOrDropped
<1>1. CASE k # 0 /\ ackKey # k
  BY <1>1, Zenon DEF AckTypes, ClearAck, PendingKeptOrDropped, ackVars, timerVars
<1>2. CASE ~(k # 0 /\ ackKey # k)
  <2>1. ackKey' = 0 /\ lastAck' = 0 /\ age' = "zero" /\ ClearTimer(0)
    BY <1>2 DEF ClearAck
  <2> QED
    BY <2>1, ClearTimerFacts, ZeroInRange DEF AckTypes
<1> QED
  BY <1>1, <1>2

LEMMA MarkSentFacts ==
  ASSUME AckTypes, NEW k \in 0 .. NFiles, NEW o \in Offsets, MarkSent(k, o)
  PROVE  AckTypes' /\ PendingKeptOrDropped
<1>1. ClearTimer(k) /\ ackKey' = k /\ lastAck' = o /\ age' = "fresh"
  BY DEF MarkSent
<1> QED
  BY <1>1, ClearTimerFacts DEF AckTypes

-----------------------------------------------------------------------------
(* Frames. *)

LEMMA RequestFacts ==
  ASSUME NEW f \in Requests
  PROVE  /\ f.type \in {"FILE_INIT", "FILE_DATA", "FILE_END"}
         /\ f.key \in Files
         /\ f.type = "FILE_DATA" => f.offset \in 0 .. Size - 1
BY DEF Requests, InitFrame, DataFrame, EndFrame

LEMMA RequestsMade ==
  ASSUME NEW k \in Files, NEW o \in 0 .. Size - 1
  PROVE  DataFrame(k, o) \in Requests
BY DEF Requests

LEMMA ReplyFacts ==
  ASSUME NEW f \in Replies
  PROVE  /\ f.type \in {"FILE_INIT_RES", "FILE_ACK", "FILE_END_RES"}
         /\ f.key \in Files /\ f.offset \in Offsets
BY DEF Replies

LEMMA ReplyMade ==
  ASSUME NEW k \in Files, NEW o \in Offsets
  PROVE  InitRes(k, o) \in Replies /\ FileAck(k, o) \in Replies /\ EndRes(k) \in Replies
BY ZeroInRange DEF Replies, InitRes, FileAck, EndRes

\* A reply or an ACK is put at the end of the wire.
LEMMA SendFacts ==
  ASSUME wire \in Seq(Replies), NEW m \in Replies, Send(m)
  PROVE  /\ wire' \in Seq(Replies)
         /\ Len(wire') = Len(wire) + 1 /\ Len(wire) \in Nat
         /\ \A i \in 1 .. Len(wire) : wire'[i] = wire[i]
         /\ wire'[Len(wire) + 1] = m
BY AppendProperties DEF Send

\* An ACK changes nothing for WireInv.
LEMMA SendAckWire ==
  ASSUME IInv, NEW k \in Files, NEW o \in Offsets, Send(FileAck(k, o)),
         UNCHANGED <<phase, wkey, inbox>>
  PROVE  WireInv'
<1>1. wire \in Seq(Replies) /\ WireInv
  BY DEF IInv, TypeOK, ProtocolInv
<1>2. FileAck(k, o) \in Replies /\ FileAck(k, o).type = "FILE_ACK"
  BY ReplyMade DEF FileAck
<1>3. /\ Len(wire') = Len(wire) + 1 /\ Len(wire) \in Nat
      /\ \A i \in 1 .. Len(wire) : wire'[i] = wire[i]
      /\ wire'[Len(wire) + 1].type = "FILE_ACK"
  BY <1>1, <1>2, SendFacts
<1>4. \A i \in 1 .. Len(wire') : wire'[i].type # "FILE_ACK" => i \in 1 .. Len(wire)
  BY <1>3
<1> QED
  BY <1>1, <1>3, <1>4 DEF WireInv, Answers, Asks

\* An ACK of what the writer has, for the writer's file or an earlier one.
LEMMA SendAckAhead ==
  ASSUME IInv, NEW k \in Files, NEW o \in Offsets, Send(FileAck(k, o)),
         k <= wkey, o <= size[k], UNCHANGED <<wkey, size>>
  PROVE  /\ wire' \in Seq(Replies)
         /\ \A i \in 1 .. Len(wire') :
              wire'[i].type = "FILE_ACK" => wire'[i].key <= wkey' /\ wire'[i].offset <= size'[wire'[i].key]
<1>1. wire \in Seq(Replies) /\ AckKeysInv /\ AckNeverAhead
  BY DEF IInv, TypeOK
<1>2. /\ FileAck(k, o) \in Replies /\ FileAck(k, o).key = k /\ FileAck(k, o).offset = o
  BY ReplyMade DEF FileAck
<1>3. /\ Len(wire') = Len(wire) + 1 /\ Len(wire) \in Nat /\ wire' \in Seq(Replies)
      /\ \A i \in 1 .. Len(wire) : wire'[i] = wire[i]
      /\ wire'[Len(wire) + 1].key = k /\ wire'[Len(wire) + 1].offset = o
  BY <1>1, <1>2, SendFacts
<1>4. \A i \in 1 .. Len(wire') : i \in 1 .. Len(wire) \/ i = Len(wire) + 1
  BY <1>3
<1> QED
  BY <1>1, <1>3, <1>4 DEF AckKeysInv, AckNeverAhead

\* The frame at the head of the inbox leaves it.
LEMMA ReadFacts ==
  ASSUME IInv, NEW type, Read(type)
  PROVE  /\ hpc = "idle"
         /\ inbox' \in Seq(Requests)
         /\ Len(inbox) \in Nat \ {0} /\ Len(inbox') = Len(inbox) - 1
         /\ Head(inbox) = inbox[1] /\ inbox[1] \in Requests /\ inbox[1].type = type
         /\ \A i \in 1 .. Len(inbox') : i + 1 \in 1 .. Len(inbox) /\ inbox'[i] = inbox[i + 1]
<1>1. inbox \in Seq(Requests) /\ inbox # <<>> /\ inbox' = Tail(inbox)
      /\ hpc = "idle" /\ Head(inbox).type = type
  BY DEF IInv, TypeOK, Read
<1>2. /\ Len(inbox) \in Nat \ {0}
      /\ Head(inbox) = inbox[1] /\ Head(inbox) \in Requests
      /\ inbox' \in Seq(Requests)
      /\ Len(inbox') = Len(inbox) - 1
      /\ \A i \in 1 .. Len(inbox) - 1 : inbox'[i] = inbox[i + 1]
  BY <1>1, TailProperties
<1> QED
  BY <1>1, <1>2

\* The rest of the inbox is as it was.
LEMMA ReadInbox ==
  ASSUME IInv, NEW type, Read(type), UNCHANGED <<phase, file, wkey>>
  PROVE  InboxInv'
<1>1. InboxInv
  BY DEF IInv, ProtocolInv
<1>2. /\ Len(inbox) \in Nat \ {0} /\ Len(inbox') = Len(inbox) - 1
      /\ \A i \in 1 .. Len(inbox') : i + 1 \in 1 .. Len(inbox) /\ inbox'[i] = inbox[i + 1]
  BY ReadFacts
<1>3. \A i \in 1 .. Len(inbox') :
        /\ inbox'[i].type = "FILE_INIT" => phase' = "init" /\ inbox'[i].key = file' /\ wkey' < file'
        /\ inbox'[i].type = "FILE_END" => phase' = "end"
        /\ inbox'[i].type = "FILE_DATA" => wkey' # 0
  BY <1>1, <1>2 DEF InboxInv
<1>4. ASSUME NEW i \in 1 .. Len(inbox'), NEW j \in 1 .. Len(inbox'),
             inbox'[i].type # "FILE_DATA", inbox'[j].type # "FILE_DATA"
      PROVE  i = j
  <2>1. Asks(i + 1) /\ Asks(j + 1) /\ i + 1 \in 1 .. Len(inbox) /\ j + 1 \in 1 .. Len(inbox)
    BY <1>2, <1>4 DEF Asks
  <2> QED
    BY <1>1, <1>2, <2>1 DEF InboxInv
<1> QED
  BY <1>3, <1>4 DEF InboxInv, Asks

-----------------------------------------------------------------------------
(* The steps. *)

LEMMA TypeUse ==
  IInv => /\ wkey \in 0 .. NFiles /\ file \in Nat /\ AckTypes
          /\ size \in [Files -> Offsets] /\ next \in Offsets /\ acked \in Offsets
          /\ NFiles \in Nat /\ Size \in Nat
          /\ (wkey # 0 => wkey \in Files /\ size[wkey] \in Offsets)
BY AckAssumption DEF IInv, TypeOK, AckTypes, Files

\* FILE_INIT opens the writer of a file no ACK has been for.
LEMMA FileInitStep == IInv /\ FileInit => IInv'
<1> SUFFICES ASSUME IInv, FileInit PROVE IInv'
  OBVIOUS
<1> DEFINE k == inbox[1].key
<1>1. Read("FILE_INIT")
  BY DEF FileInit
<1>2. /\ hpc = "idle" /\ inbox' \in Seq(Requests)
      /\ Len(inbox) \in Nat \ {0} /\ Len(inbox') = Len(inbox) - 1
      /\ Head(inbox).key = k /\ inbox[1] \in Requests /\ inbox[1].type = "FILE_INIT"
      /\ \A i \in 1 .. Len(inbox') : i + 1 \in 1 .. Len(inbox) /\ inbox'[i] = inbox[i + 1]
  BY <1>1, ReadFacts
<1>3. k \in Files /\ k = file /\ wkey < k /\ phase = "init" /\ k # 0 /\ k \in 0 .. NFiles
  BY <1>2, RequestFacts, TypeUse DEF IInv, ProtocolInv, InboxInv, Files
<1>4. PICK s \in Starts : /\ wkey' = k /\ size' = [size EXCEPT ![k] = s.disk]
                          /\ ResetAck(k, s.phone) /\ Send(InitRes(k, s.phone))
  BY <1>2 DEF FileInit
<1>5. s.phone \in Offsets /\ s.disk \in Offsets
  BY AckAssumption DEF Offsets
<1>6. AckTypes' /\ pendKey' = 0
  BY <1>3, <1>4, <1>5, TypeUse, ResetAckFacts
<1>7. InitRes(k, s.phone) \in Replies /\ InitRes(k, s.phone).type = "FILE_INIT_RES"
  BY <1>3, <1>5, ReplyMade DEF InitRes
<1>8. /\ wire' \in Seq(Replies)
      /\ Len(wire') = Len(wire) + 1 /\ Len(wire) \in Nat
      /\ \A i \in 1 .. Len(wire) : wire'[i] = wire[i]
      /\ wire'[Len(wire) + 1].type = "FILE_INIT_RES"
  BY <1>4, <1>7, SendFacts DEF IInv, TypeOK
<1>9. \A i \in 1 .. Len(inbox') : inbox'[i].type = "FILE_DATA"
  <2>1. \A i \in 1 .. Len(inbox') : i + 1 # 1 /\ 1 \in 1 .. Len(inbox)
    BY <1>2
  <2> QED
    BY <1>2, <2>1 DEF IInv, ProtocolInv, InboxInv, Asks
<1>10. \A i \in 1 .. Len(wire) : wire[i].type = "FILE_ACK"
  BY <1>2 DEF IInv, ProtocolInv, WireInv, Asks, Answers
<1>11. \A i \in 1 .. Len(wire') : i \in 1 .. Len(wire) \/ i = Len(wire) + 1
  BY <1>8
<1>12. size' \in [Files -> Offsets] /\ \A x \in Files : x # k => size'[x] = size[x]
  BY <1>3, <1>4, <1>5, TypeUse
<1>13. UNCHANGED <<phoneVars, hpc, flushers, owed>>
  BY DEF FileInit
<1>14. TypeOK'
  BY <1>2, <1>3, <1>4, <1>6, <1>8, <1>12, <1>13 DEF IInv, TypeOK, AckTypes, phoneVars
<1>15. OrderInv'
  BY <1>2, <1>3, <1>4, <1>13, TypeUse DEF OrderInv, IInv, ProtocolInv, phoneVars, Files
<1>16. InboxInv'
  BY <1>3, <1>4, <1>9 DEF InboxInv, Asks
<1>17. WireInv'
  BY <1>3, <1>4, <1>8, <1>9, <1>10, <1>11, <1>13 DEF WireInv, Asks, Answers, phoneVars
<1>18. PendingInv'
  BY <1>6 DEF PendingInv
<1>19. \A i \in 1 .. Len(wire') : wire'[i].type = "FILE_ACK" =>
         /\ i \in 1 .. Len(wire) /\ wire'[i] = wire[i] /\ wire[i].key \in Files
         /\ wire[i].key <= wkey
  BY <1>8, <1>11, ReplyFacts DEF IInv, AckKeysInv, TypeOK
<1>20. \A f \in flushers : f.key \in Files /\ f.key <= wkey
  BY DEF IInv, AckKeysInv, TypeOK
<1>21. AckKeysInv'
  BY <1>3, <1>4, <1>13, <1>19, <1>20, TypeUse DEF AckKeysInv, Files
<1>22. \A i \in 1 .. Len(wire') :
         wire'[i].type = "FILE_ACK" => wire'[i].offset <= size'[wire'[i].key]
  <2>1. \A i \in 1 .. Len(wire) : wire[i].type = "FILE_ACK" => wire[i].offset <= size[wire[i].key]
    BY DEF IInv, AckNeverAhead
  <2>2. \A x \in Files : x <= wkey => size'[x] = size[x]
    BY <1>3, <1>12, TypeUse DEF Files
  <2> QED
    BY <1>19, <2>1, <2>2
<1>23. \A f \in flushers : f.offset <= size'[f.key]
  <2>1. \A x \in Files : x <= wkey => size'[x] = size[x]
    BY <1>3, <1>12, TypeUse DEF Files
  <2> QED
    BY <1>20, <2>1 DEF IInv, AckNeverAhead
<1>24. AckNeverAhead'
  BY <1>13, <1>22, <1>23 DEF AckNeverAhead
<1> QED
  BY <1>14, <1>15, <1>16, <1>17, <1>18, <1>21, <1>24 DEF IInv, ProtocolInv

\* FILE_DATA only lets a writer grow.
LEMMA FileDataStep == IInv /\ FileData => IInv'
<1> SUFFICES ASSUME IInv, FileData PROVE IInv'
  OBVIOUS
<1> DEFINE k == inbox[1].key
           committed == MaxOf(size[k], inbox[1].offset + 1)
<1>1. Read("FILE_DATA")
  BY DEF FileData
<1>2. /\ hpc = "idle" /\ inbox' \in Seq(Requests)
      /\ Len(inbox) \in Nat \ {0}
      /\ Head(inbox) = inbox[1] /\ inbox[1] \in Requests /\ inbox[1].type = "FILE_DATA"
  BY <1>1, ReadFacts
<1>3. k \in Files /\ inbox[1].offset \in 0 .. Size - 1
  BY <1>2, RequestFacts
<1>4. wkey # 0
  BY <1>2 DEF IInv, ProtocolInv, InboxInv
<1>5. committed \in Offsets /\ size[k] <= committed /\ k \in 0 .. NFiles
  <2>1. size[k] \in 0 .. Size /\ Size \in Nat
    BY <1>3, TypeUse DEF Offsets
  <2>2. \A o \in 0 .. Size - 1 : MaxOf(size[k], o + 1) \in 0 .. Size /\ size[k] <= MaxOf(size[k], o + 1)
    BY <2>1 DEF MaxOf
  <2> QED
    BY <1>3, <2>2 DEF Offsets, Files
<1>6. size' = [size EXCEPT ![k] = committed]
  BY <1>2 DEF FileData
<1>7. /\ owed' = owed + 1
      /\ UNCHANGED <<phoneVars, wire, wkey, flushers>>
  BY DEF FileData
<1>8. hpc' \in {"send", "schedule"}
  <2>1. CASE ackKey # k
    BY <1>2, <2>1 DEF FileData
  <2>2. CASE ackKey = k
    <3>1. hpc' = IF AckDue(committed) THEN "send" ELSE "schedule"
      BY <1>2, <2>2 DEF FileData
    <3> QED
      BY <3>1
  <2> QED
    BY <2>1, <2>2
<1>9. AckTypes' /\ PendingKeptOrDropped
  <2>1. CASE ackKey # k
    <3>1. ResetAck(k, committed)
      BY <1>2, <2>1 DEF FileData
    <3> QED
      BY <1>5, <3>1, TypeUse, ResetAckFacts DEF PendingKeptOrDropped
  <2>2. CASE ackKey = k
    <3>1. UNCHANGED <<ackVars, timerVars>>
      BY <1>2, <2>2 DEF FileData
    <3> QED
      BY <3>1, TypeUse, Zenon DEF AckTypes, PendingKeptOrDropped, ackVars, timerVars
  <2> QED
    BY <2>1, <2>2
<1>10. size' \in [Files -> Offsets] /\ \A x \in Files : size[x] <= size'[x]
  BY <1>3, <1>5, <1>6, TypeUse DEF Offsets
<1>11. TypeOK'
  BY <1>2, <1>7, <1>8, <1>9, <1>10 DEF IInv, TypeOK, AckTypes, phoneVars
<1>12. OrderInv' /\ InboxInv'
  BY <1>1, <1>4, <1>7, ReadInbox DEF IInv, ProtocolInv, OrderInv, phoneVars
<1>13. WireInv'
  <2>1. \A i \in 1 .. Len(inbox') : i + 1 \in 1 .. Len(inbox) /\ inbox'[i] = inbox[i + 1]
    BY <1>1, ReadFacts
  <2> QED
    BY <1>7, <2>1 DEF IInv, ProtocolInv, WireInv, Asks, Answers, phoneVars
<1>14. PendingInv'
  <2>1. CASE pendKey' = 0
    BY <2>1 DEF PendingInv
  <2>2. CASE pendKey' # 0
    <3>1. pendKey' = pendKey /\ pendPos' = pendPos /\ pendKey = wkey /\ pendPos <= size[wkey]
      BY <1>9, <2>2 DEF PendingKeptOrDropped, IInv, PendingInv
    <3>2. pendPos \in Offsets /\ wkey \in Files
      BY <1>4, TypeUse DEF AckTypes
    <3>3. size[wkey] \in Offsets /\ size'[wkey] \in Offsets /\ size[wkey] <= size'[wkey]
      BY <1>10, <3>2, TypeUse
    <3> QED
      BY <1>7, <3>1, <3>2, <3>3 DEF PendingInv, Offsets
  <2> QED
    BY <2>1, <2>2
<1>15. AckKeysInv'
  BY <1>7 DEF IInv, AckKeysInv
<1>16. AckNeverAhead'
  <2>1. ASSUME NEW i \in 1 .. Len(wire), wire[i].type = "FILE_ACK"
        PROVE  wire[i].offset <= size'[wire[i].key]
    <3>1. wire[i].key \in Files /\ wire[i].offset \in Offsets
      BY ReplyFacts DEF IInv, TypeOK
    <3>2. wire[i].offset <= size[wire[i].key]
      BY <2>1 DEF IInv, AckNeverAhead
    <3>3. size[wire[i].key] \in Offsets /\ size'[wire[i].key] \in Offsets
      BY <1>10, <3>1, TypeUse
    <3> QED
      BY <1>10, <3>1, <3>2, <3>3 DEF Offsets
  <2>2. ASSUME NEW f \in flushers
        PROVE  f.offset <= size'[f.key]
    <3>1. f.key \in Files /\ f.offset \in Offsets
      BY DEF IInv, TypeOK
    <3>2. f.offset <= size[f.key]
      BY DEF IInv, AckNeverAhead
    <3>3. size[f.key] \in Offsets /\ size'[f.key] \in Offsets
      BY <1>10, <3>1, TypeUse
    <3> QED
      BY <1>10, <3>1, <3>2, <3>3 DEF Offsets
  <2> QED
    BY <1>7, <2>1, <2>2 DEF AckNeverAhead
<1> QED
  BY <1>11, <1>12, <1>13, <1>14, <1>15, <1>16 DEF IInv, ProtocolInv

\* The handler's own ACK is for what the writer has.
LEMMA SendAckStep == IInv /\ SendAck => IInv'
<1> SUFFICES ASSUME IInv, SendAck PROVE IInv'
  OBVIOUS
<1>1. /\ hpc = "send" /\ hpc' = "mark" /\ owed' = 0 /\ Send(FileAck(wkey, size[wkey]))
      /\ UNCHANGED <<phoneVars, inbox, wkey, size, ackVars, timerVars, flushers>>
  BY DEF SendAck, AckOffset
<1>2. wkey \in Files /\ size[wkey] \in Offsets
  BY <1>1, TypeUse DEF IInv, ProtocolInv, OrderInv
<1>3. wkey <= wkey /\ size[wkey] <= size[wkey]
  BY <1>2 DEF Files, Offsets
<1>4. /\ wire' \in Seq(Replies)
      /\ \A i \in 1 .. Len(wire') :
           wire'[i].type = "FILE_ACK" => wire'[i].key <= wkey' /\ wire'[i].offset <= size'[wire'[i].key]
  BY <1>1, <1>2, <1>3, SendAckAhead
<1>5. TypeOK'
  BY <1>1, <1>4 DEF IInv, TypeOK, phoneVars, ackVars, timerVars
<1>6. WireInv'
  BY <1>1, <1>2, SendAckWire DEF phoneVars
<1>7. OrderInv' /\ InboxInv' /\ PendingInv'
  BY <1>1, Zenon DEF IInv, ProtocolInv, OrderInv, InboxInv, PendingInv, Asks, phoneVars, timerVars
<1>8. AckKeysInv' /\ AckNeverAhead'
  BY <1>1, <1>4 DEF IInv, AckKeysInv, AckNeverAhead
<1> QED
  BY <1>5, <1>6, <1>7, <1>8 DEF IInv, ProtocolInv

\* What a step leaves alone when it touches only the ACK state: the pending
\* ACK is dropped or stays.
LEMMA AckStateStep ==
  ASSUME IInv, AckTypes', PendingKeptOrDropped, hpc' = "idle",
         UNCHANGED <<phoneVars, inbox, wire, wkey, size, owed>>,
         flushers' \subseteq flushers
  PROVE  IInv'
<1>1. TypeOK'
  BY DEF IInv, TypeOK, AckTypes, phoneVars
<1>2. ProtocolInv'
  BY DEF IInv, ProtocolInv, OrderInv, InboxInv, WireInv, Asks, Answers, phoneVars
<1>3. PendingInv'
  BY DEF IInv, PendingInv, PendingKeptOrDropped
<1>4. AckKeysInv' /\ AckNeverAhead'
  BY DEF IInv, AckKeysInv, AckNeverAhead
<1> QED
  BY <1>1, <1>2, <1>3, <1>4 DEF IInv

LEMMA MarkAckStep == IInv /\ MarkAck => IInv'
<1> SUFFICES ASSUME IInv, MarkAck PROVE IInv'
  OBVIOUS
<1>1. /\ hpc = "mark" /\ hpc' = "idle" /\ MarkSent(wkey, size[wkey])
      /\ UNCHANGED <<phoneVars, inbox, wire, wkey, size, flushers, owed>>
  BY DEF MarkAck
<1>2. wkey \in 0 .. NFiles /\ size[wkey] \in Offsets
  BY <1>1, TypeUse DEF IInv, ProtocolInv, OrderInv
<1>3. AckTypes' /\ PendingKeptOrDropped
  BY <1>1, <1>2, TypeUse, MarkSentFacts
<1> QED
  BY <1>1, <1>3, AckStateStep

\* The pending ACK moves to what the writer has now.
LEMMA ScheduleFlushStep == IInv /\ ScheduleFlush => IInv'
<1> SUFFICES ASSUME IInv, ScheduleFlush PROVE IInv'
  OBVIOUS
<1>1. /\ hpc = "schedule" /\ hpc' = "idle"
      /\ UNCHANGED <<phoneVars, inbox, wire, wkey, size, flushers, owed>>
  BY DEF ScheduleFlush
<1>2. wkey \in Files /\ wkey \in 0 .. NFiles /\ size[wkey] \in Offsets
  BY <1>1, TypeUse DEF IInv, ProtocolInv, OrderInv
<1>3. CASE ackKey # 0 /\ ackKey # wkey
  <2>1. ResetAck(wkey, size[wkey])
    BY <1>3 DEF ScheduleFlush
  <2>2. AckTypes' /\ PendingKeptOrDropped
    BY <1>2, <2>1, TypeUse, ResetAckFacts DEF PendingKeptOrDropped
  <2> QED
    BY <1>1, <2>2, AckStateStep
<1>4. CASE ~(ackKey # 0 /\ ackKey # wkey) /\ Covered(size[wkey])
  <2>1. UNCHANGED <<ackVars, timerVars>>
    BY <1>4, Zenon DEF ScheduleFlush
  <2>2. AckTypes' /\ PendingKeptOrDropped
    BY <2>1, TypeUse, Zenon DEF AckTypes, PendingKeptOrDropped, ackVars, timerVars
  <2> QED
    BY <1>1, <2>2, AckStateStep
<1>5. CASE ~(ackKey # 0 /\ ackKey # wkey) /\ ~Covered(size[wkey])
  <2>1. /\ armed' = TRUE /\ pendKey' = wkey /\ UNCHANGED ackVars
        /\ pendKey \in {0, wkey} => pendPos' = size[wkey] /\ UNCHANGED loose
    BY <1>5, Zenon DEF ScheduleFlush
  <2>2. pendKey \in {0, wkey}
    BY DEF IInv, PendingInv
  <2>3. armed' \in BOOLEAN
    BY <2>1
  <2>4. AckTypes'
    BY <1>2, <2>1, <2>2, <2>3, TypeUse DEF AckTypes, ackVars
  <2>5. TypeOK'
    BY <1>1, <2>4 DEF IInv, TypeOK, AckTypes, phoneVars
  <2>6. ProtocolInv'
    BY <1>1 DEF IInv, ProtocolInv, OrderInv, InboxInv, WireInv, Asks, Answers, phoneVars
  <2>7. PendingInv'
    BY <1>1, <1>2, <2>1, <2>2 DEF PendingInv, Offsets
  <2>8. AckKeysInv' /\ AckNeverAhead'
    BY <1>1 DEF IInv, AckKeysInv, AckNeverAhead
  <2> QED
    BY <2>5, <2>6, <2>7, <2>8 DEF IInv
<1> QED
  BY <1>3, <1>4, <1>5

\* FILE_END: nothing is on its way to the phone but ACKs.
LEMMA FileEndStep == IInv /\ FileEnd => IInv'
<1> SUFFICES ASSUME IInv, FileEnd PROVE IInv'
  OBVIOUS
<1> DEFINE k == inbox[1].key
<1>1. Read("FILE_END")
  BY DEF FileEnd
<1>2. /\ hpc = "idle" /\ inbox' \in Seq(Requests)
      /\ Len(inbox) \in Nat \ {0} /\ Len(inbox') = Len(inbox) - 1
      /\ Head(inbox) = inbox[1] /\ inbox[1] \in Requests /\ inbox[1].type = "FILE_END"
      /\ \A i \in 1 .. Len(inbox') : i + 1 \in 1 .. Len(inbox) /\ inbox'[i] = inbox[i + 1]
  BY <1>1, ReadFacts
<1>3. k \in Files /\ phase = "end"
  BY <1>2, RequestFacts DEF IInv, ProtocolInv, InboxInv
<1>4. /\ Send(EndRes(k)) /\ ClearAck(k)
      /\ UNCHANGED <<phoneVars, hpc, wkey, size, flushers, owed>>
  BY <1>2 DEF FileEnd
<1>5. AckTypes' /\ PendingKeptOrDropped
  BY <1>4, TypeUse, ClearAckFacts
<1>6. EndRes(k) \in Replies /\ EndRes(k).type = "FILE_END_RES"
  BY <1>3, ZeroInRange, ReplyMade DEF EndRes
<1>7. /\ wire' \in Seq(Replies)
      /\ Len(wire') = Len(wire) + 1 /\ Len(wire) \in Nat
      /\ \A i \in 1 .. Len(wire) : wire'[i] = wire[i]
      /\ wire'[Len(wire) + 1].type = "FILE_END_RES"
  BY <1>4, <1>6, SendFacts DEF IInv, TypeOK
<1>8. \A i \in 1 .. Len(inbox') : inbox'[i].type = "FILE_DATA"
  <2>1. \A i \in 1 .. Len(inbox') : i + 1 # 1 /\ 1 \in 1 .. Len(inbox)
    BY <1>2
  <2> QED
    BY <1>2, <2>1 DEF IInv, ProtocolInv, InboxInv, Asks
<1>9. \A i \in 1 .. Len(wire) : wire[i].type = "FILE_ACK"
  BY <1>2 DEF IInv, ProtocolInv, WireInv, Asks, Answers
<1>10. \A i \in 1 .. Len(wire') : i \in 1 .. Len(wire) \/ i = Len(wire) + 1
  BY <1>7
<1>11. TypeOK'
  BY <1>2, <1>4, <1>5, <1>7 DEF IInv, TypeOK, AckTypes, phoneVars
<1>12. OrderInv'
  BY <1>4 DEF IInv, ProtocolInv, OrderInv, phoneVars
<1>13. InboxInv'
  BY <1>1, <1>4, ReadInbox DEF phoneVars
<1>14. WireInv'
  BY <1>3, <1>4, <1>7, <1>8, <1>9, <1>10 DEF WireInv, Asks, Answers, phoneVars
<1>15. PendingInv'
  BY <1>4, <1>5 DEF IInv, PendingInv, PendingKeptOrDropped
<1>16. AckKeysInv' /\ AckNeverAhead'
  BY <1>4, <1>7, <1>10 DEF IInv, AckKeysInv, AckNeverAhead
<1> QED
  BY <1>11, <1>12, <1>13, <1>14, <1>15, <1>16 DEF IInv, ProtocolInv

LEMMA IntervalStep == IInv /\ IntervalPasses => IInv'
<1> SUFFICES ASSUME IInv, IntervalPasses PROVE IInv'
  OBVIOUS
<1>1. age' = "old" /\ UNCHANGED <<phoneVars, inbox, wire, hpc, wkey, size, ackKey, lastAck,
                                  timerVars, flushers, owed>>
  BY DEF IntervalPasses
<1>2. TypeOK'
  BY <1>1 DEF IInv, TypeOK, phoneVars, timerVars
<1> QED
  BY <1>1, <1>2 DEF IInv, ProtocolInv, OrderInv, InboxInv, WireInv, PendingInv, AckKeysInv,
                    AckNeverAhead, Asks, Answers, phoneVars, timerVars

LEMMA TimerExpiresStep == IInv /\ TimerExpires => IInv'
<1> SUFFICES ASSUME IInv, TimerExpires PROVE IInv'
  OBVIOUS
<1>1. /\ armed' = FALSE /\ loose' = loose + 1
      /\ UNCHANGED <<phoneVars, inbox, wire, hpc, wkey, size, ackVars, pendKey, pendPos,
                     flushers, owed>>
  BY DEF TimerExpires
<1>2. TypeOK'
  <2>1. AckTypes'
    <3>1. loose' \in Nat
      BY <1>1, TypeUse DEF AckTypes
    <3>2. armed' \in BOOLEAN
      BY <1>1
    <3>3. UNCHANGED <<ackKey, lastAck, age, pendKey, pendPos>>
      BY <1>1 DEF ackVars
    <3> QED
      BY <3>1, <3>2, <3>3, TypeUse DEF AckTypes
  <2> QED
    BY <1>1, <2>1 DEF IInv, TypeOK, AckTypes, phoneVars
<1> QED
  BY <1>1, <1>2 DEF IInv, ProtocolInv, OrderInv, InboxInv, WireInv, PendingInv, AckKeysInv,
                    AckNeverAhead, Asks, Answers, phoneVars, ackVars

\* A flush goroutine takes the pending ACK with it.
LEMMA FlushTakeStep == IInv /\ FlushTake => IInv'
<1> SUFFICES ASSUME IInv, FlushTake PROVE IInv'
  OBVIOUS
<1>1. /\ loose > 0 /\ loose' = IF armed THEN loose ELSE loose - 1
      /\ armed' = FALSE /\ pendKey' = 0 /\ pendPos' = 0
      /\ UNCHANGED <<phoneVars, inbox, wire, hpc, wkey, size, ackVars, owed>>
  BY DEF FlushTake
<1> DEFINE f0 == Flush("send", pendKey, pendPos)
<1>2. flushers' = flushers \/ (pendKey # 0 /\ flushers' = flushers \cup {f0})
  BY DEF FlushTake
<1>3. pendKey # 0 => /\ pendKey = wkey /\ pendPos <= size[wkey]
                     /\ pendKey \in Files /\ pendPos \in Offsets
                     /\ wkey <= wkey
  BY TypeUse DEF IInv, PendingInv, AckTypes, Files
<1>4. f0.pc = "send" /\ f0.key = pendKey /\ f0.offset = pendPos
  BY DEF Flush
<1>5. flushers' \subseteq [pc : {"send", "mark"}, key : Files, offset : Offsets]
  BY <1>2, <1>3 DEF IInv, TypeOK, Flush
<1>6. loose' \in Nat
  BY <1>1, TypeUse DEF AckTypes
<1>7. TypeOK'
  BY <1>1, <1>5, <1>6, ZeroInRange DEF IInv, TypeOK, phoneVars, ackVars
<1>8. ProtocolInv' /\ PendingInv'
  BY <1>1 DEF IInv, ProtocolInv, OrderInv, InboxInv, WireInv, PendingInv, Asks, Answers, phoneVars
<1>9. AckKeysInv'
  BY <1>1, <1>2, <1>3, <1>4 DEF IInv, AckKeysInv
<1>10. AckNeverAhead'
  BY <1>1, <1>2, <1>3, <1>4 DEF IInv, AckNeverAhead
<1> QED
  BY <1>7, <1>8, <1>9, <1>10 DEF IInv

LEMMA FlushSendStep == ASSUME IInv, NEW f \in flushers, FlushSend(f) PROVE IInv'
<1> DEFINE g == Flush("mark", f.key, f.offset)
<1>1. /\ Send(FileAck(f.key, f.offset)) /\ flushers' = (flushers \ {f}) \cup {g} /\ owed' = 0
      /\ UNCHANGED <<phoneVars, inbox, hpc, wkey, size, ackVars, timerVars>>
  BY DEF FlushSend
<1>2. f.key \in Files /\ f.offset \in Offsets /\ f.key <= wkey /\ f.offset <= size[f.key]
  BY DEF IInv, TypeOK, AckKeysInv, AckNeverAhead
<1>3. /\ wire' \in Seq(Replies)
      /\ \A i \in 1 .. Len(wire') :
           wire'[i].type = "FILE_ACK" => wire'[i].key <= wkey' /\ wire'[i].offset <= size'[wire'[i].key]
  BY <1>1, <1>2, SendAckAhead
<1>4. g.key = f.key /\ g.offset = f.offset /\ g \in [pc : {"send", "mark"}, key : Files, offset : Offsets]
  BY <1>2 DEF Flush
<1>5. TypeOK'
  BY <1>1, <1>3, <1>4 DEF IInv, TypeOK, phoneVars, ackVars, timerVars
<1>6. WireInv'
  BY <1>1, <1>2, SendAckWire DEF phoneVars
<1>7. OrderInv' /\ InboxInv' /\ PendingInv'
  BY <1>1, Zenon DEF IInv, ProtocolInv, OrderInv, InboxInv, PendingInv, Asks, phoneVars, timerVars
<1>8. AckKeysInv' /\ AckNeverAhead'
  BY <1>1, <1>2, <1>3, <1>4 DEF IInv, AckKeysInv, AckNeverAhead
<1> QED
  BY <1>5, <1>6, <1>7, <1>8 DEF IInv, ProtocolInv

LEMMA FlushMarkStep == ASSUME IInv, NEW f \in flushers, FlushMark(f) PROVE IInv'
<1>1. /\ MarkSent(f.key, f.offset) /\ flushers' = flushers \ {f}
      /\ UNCHANGED <<phoneVars, inbox, wire, hpc, wkey, size, owed>>
  BY DEF FlushMark
<1>2. f.key \in 0 .. NFiles /\ f.offset \in Offsets
  BY TypeUse DEF IInv, TypeOK, Files
<1>3. AckTypes' /\ PendingKeptOrDropped
  BY <1>1, <1>2, TypeUse, MarkSentFacts
<1>4. TypeOK'
  BY <1>1, <1>3 DEF IInv, TypeOK, AckTypes, phoneVars
<1>5. ProtocolInv'
  BY <1>1 DEF IInv, ProtocolInv, OrderInv, InboxInv, WireInv, Asks, Answers, phoneVars
<1>6. PendingInv'
  BY <1>1, <1>3 DEF IInv, PendingInv, PendingKeptOrDropped
<1>7. AckKeysInv' /\ AckNeverAhead'
  BY <1>1 DEF IInv, AckKeysInv, AckNeverAhead
<1> QED
  BY <1>4, <1>5, <1>6, <1>7 DEF IInv

-----------------------------------------------------------------------------
(* The phone's steps. *)

\* What the phone appends to the inbox.
LEMMA TransmitFacts ==
  ASSUME IInv, NEW m \in Requests, Transmit(m)
  PROVE  /\ inbox' \in Seq(Requests)
         /\ Len(inbox') = Len(inbox) + 1 /\ Len(inbox) \in Nat
         /\ \A i \in 1 .. Len(inbox) : inbox'[i] = inbox[i]
         /\ inbox'[Len(inbox) + 1] = m
         /\ \A i \in 1 .. Len(inbox') : i \in 1 .. Len(inbox) \/ i = Len(inbox) + 1
<1>1. inbox \in Seq(Requests)
  BY DEF IInv, TypeOK
<1>2. /\ inbox' \in Seq(Requests)
      /\ Len(inbox') = Len(inbox) + 1
      /\ \A i \in 1 .. Len(inbox) : inbox'[i] = inbox[i]
      /\ inbox'[Len(inbox) + 1] = m
  BY <1>1, AppendProperties DEF Transmit
<1> QED
  BY <1>1, <1>2

\* A phone that waits for nothing has nothing on its way but data and ACKs.
LEMMA QuietPhone ==
  ASSUME IInv, phase \in {"idle", "data"}
  PROVE  /\ \A i \in 1 .. Len(inbox) : inbox[i].type = "FILE_DATA" /\ wkey # 0
         /\ \A i \in 1 .. Len(wire) : wire[i].type = "FILE_ACK"
<1>1. \A i \in 1 .. Len(inbox) : inbox[i].type \in {"FILE_INIT", "FILE_DATA", "FILE_END"}
  BY RequestFacts DEF IInv, TypeOK
<1>2. \A i \in 1 .. Len(wire) : wire[i].type \in {"FILE_INIT_RES", "FILE_ACK", "FILE_END_RES"}
  BY ReplyFacts DEF IInv, TypeOK
<1> QED
  BY <1>1, <1>2 DEF IInv, ProtocolInv, InboxInv, WireInv

\* The parts of the invariant that no step of the phone touches.
LEMMA SidecarPart ==
  ASSUME IInv, UNCHANGED <<wkey, size, ackVars, timerVars, flushers>>
  PROVE  /\ PendingInv'
         /\ \A f \in flushers' : f.key <= wkey' /\ f.offset <= size'[f.key]
BY DEF IInv, PendingInv, AckKeysInv, AckNeverAhead, timerVars

LEMMA PhoneInitStep == IInv /\ PhoneInit => IInv'
<1> SUFFICES ASSUME IInv, PhoneInit PROVE IInv'
  OBVIOUS
<1>1. /\ phase = "idle" /\ file \in Files /\ Transmit(InitFrame(file)) /\ phase' = "init"
      /\ UNCHANGED <<file, next, acked, window, wire, hpc, wkey, size, ackVars, timerVars,
                     flushers, owed>>
  BY DEF PhoneInit
<1>2. InitFrame(file) \in Requests
  BY <1>1 DEF Requests
<1>3. InitFrame(file).type = "FILE_INIT" /\ InitFrame(file).key = file
  BY DEF InitFrame
<1>4. /\ inbox' \in Seq(Requests)
      /\ Len(inbox') = Len(inbox) + 1 /\ Len(inbox) \in Nat
      /\ \A i \in 1 .. Len(inbox) : inbox'[i] = inbox[i]
      /\ inbox'[Len(inbox) + 1].type = "FILE_INIT" /\ inbox'[Len(inbox) + 1].key = file
      /\ \A i \in 1 .. Len(inbox') : i \in 1 .. Len(inbox) \/ i = Len(inbox) + 1
  BY <1>1, <1>2, <1>3, TransmitFacts
<1>5. /\ \A i \in 1 .. Len(inbox) : inbox[i].type = "FILE_DATA" /\ wkey # 0
      /\ \A i \in 1 .. Len(wire) : wire[i].type = "FILE_ACK"
  BY <1>1, QuietPhone
<1>6. wkey < file
  BY <1>1 DEF IInv, ProtocolInv, OrderInv
<1>7. TypeOK'
  BY <1>1, <1>4 DEF IInv, TypeOK, ackVars, timerVars
<1>8. OrderInv'
  BY <1>1, <1>6 DEF IInv, ProtocolInv, OrderInv
<1>9. InboxInv'
  BY <1>1, <1>4, <1>5, <1>6 DEF InboxInv, Asks
<1>10. WireInv'
  BY <1>1, <1>5 DEF WireInv, Asks, Answers
<1>11. PendingInv' /\ AckKeysInv' /\ AckNeverAhead'
  BY <1>1, SidecarPart DEF IInv, AckKeysInv, AckNeverAhead
<1> QED
  BY <1>7, <1>8, <1>9, <1>10, <1>11 DEF IInv, ProtocolInv

LEMMA PhoneDataStep == IInv /\ PhoneData => IInv'
<1> SUFFICES ASSUME IInv, PhoneData PROVE IInv'
  OBVIOUS
<1>1. /\ phase = "data" /\ next < Size /\ Transmit(DataFrame(file, next)) /\ next' = next + 1
      /\ UNCHANGED <<file, phase, acked, window, wire, hpc, wkey, size, ackVars, timerVars,
                     flushers, owed>>
  BY DEF PhoneData
<1>2. file \in Files /\ wkey # 0 /\ next \in 0 .. Size - 1 /\ next' \in Offsets
  BY <1>1, TypeUse DEF IInv, ProtocolInv, OrderInv, Offsets
<1>3. DataFrame(file, next) \in Requests /\ DataFrame(file, next).type = "FILE_DATA"
  BY <1>2, RequestsMade DEF DataFrame
<1>4. /\ inbox' \in Seq(Requests)
      /\ Len(inbox') = Len(inbox) + 1 /\ Len(inbox) \in Nat
      /\ \A i \in 1 .. Len(inbox) : inbox'[i] = inbox[i]
      /\ inbox'[Len(inbox) + 1].type = "FILE_DATA"
      /\ \A i \in 1 .. Len(inbox') : i \in 1 .. Len(inbox) \/ i = Len(inbox) + 1
  BY <1>1, <1>3, TransmitFacts
<1>5. /\ \A i \in 1 .. Len(inbox) : inbox[i].type = "FILE_DATA" /\ wkey # 0
      /\ \A i \in 1 .. Len(wire) : wire[i].type = "FILE_ACK"
  BY <1>1, QuietPhone
<1>6. \A i \in 1 .. Len(inbox') : inbox'[i].type = "FILE_DATA"
  BY <1>4, <1>5
<1>7. TypeOK'
  BY <1>1, <1>2, <1>4 DEF IInv, TypeOK, ackVars, timerVars
<1>8. OrderInv'
  BY <1>1 DEF IInv, ProtocolInv, OrderInv
<1>9. InboxInv' /\ WireInv'
  BY <1>1, <1>2, <1>5, <1>6 DEF InboxInv, WireInv, Asks, Answers
<1>10. PendingInv' /\ AckKeysInv' /\ AckNeverAhead'
  BY <1>1, SidecarPart DEF IInv, AckKeysInv, AckNeverAhead
<1> QED
  BY <1>7, <1>8, <1>9, <1>10 DEF IInv, ProtocolInv

LEMMA PhoneEndStep == IInv /\ PhoneEnd => IInv'
<1> SUFFICES ASSUME IInv, PhoneEnd PROVE IInv'
  OBVIOUS
<1>1. /\ phase = "data" /\ Transmit(EndFrame(file)) /\ phase' = "end"
      /\ UNCHANGED <<file, next, acked, window, wire, hpc, wkey, size, ackVars, timerVars,
                     flushers, owed>>
  BY DEF PhoneEnd
<1>2. file \in Files /\ wkey # 0
  BY <1>1 DEF IInv, ProtocolInv, OrderInv
<1>3. EndFrame(file) \in Requests /\ EndFrame(file).type = "FILE_END"
  BY <1>2 DEF Requests, EndFrame
<1>4. /\ inbox' \in Seq(Requests)
      /\ Len(inbox') = Len(inbox) + 1 /\ Len(inbox) \in Nat
      /\ \A i \in 1 .. Len(inbox) : inbox'[i] = inbox[i]
      /\ inbox'[Len(inbox) + 1].type = "FILE_END"
      /\ \A i \in 1 .. Len(inbox') : i \in 1 .. Len(inbox) \/ i = Len(inbox) + 1
  BY <1>1, <1>3, TransmitFacts
<1>5. /\ \A i \in 1 .. Len(inbox) : inbox[i].type = "FILE_DATA" /\ wkey # 0
      /\ \A i \in 1 .. Len(wire) : wire[i].type = "FILE_ACK"
  BY <1>1, QuietPhone
<1>6. TypeOK'
  BY <1>1, <1>4 DEF IInv, TypeOK, ackVars, timerVars
<1>7. OrderInv'
  BY <1>1, <1>2 DEF IInv, ProtocolInv, OrderInv
<1>8. InboxInv'
  BY <1>1, <1>2, <1>4, <1>5 DEF InboxInv, Asks
<1>9. WireInv'
  BY <1>1, <1>5 DEF WireInv, Asks, Answers
<1>10. PendingInv' /\ AckKeysInv' /\ AckNeverAhead'
  BY <1>1, SidecarPart DEF IInv, AckKeysInv, AckNeverAhead
<1> QED
  BY <1>6, <1>7, <1>8, <1>9, <1>10 DEF IInv, ProtocolInv

\* The phone takes a reply: what is left on the wire was there before.
LEMMA WireTail ==
  ASSUME IInv, wire # <<>>, wire' = Tail(wire)
  PROVE  /\ wire' \in Seq(Replies)
         /\ 1 \in 1 .. Len(wire) /\ Head(wire) = wire[1] /\ wire[1] \in Replies
         /\ \A i \in 1 .. Len(wire') :
              i + 1 \in 1 .. Len(wire) /\ i + 1 # 1 /\ wire'[i] = wire[i + 1]
         /\ \A i, j \in 1 .. Len(wire') : i + 1 = j + 1 => i = j
<1>1. wire \in Seq(Replies)
  BY DEF IInv, TypeOK
<1>2. /\ Len(wire) \in Nat \ {0}
      /\ Head(wire) = wire[1] /\ Head(wire) \in Replies
      /\ wire' \in Seq(Replies)
      /\ Len(wire') = Len(wire) - 1
      /\ \A i \in 1 .. Len(wire) - 1 : wire'[i] = wire[i + 1]
  BY <1>1, TailProperties
<1> QED
  BY <1>2

LEMMA PhoneReadsStep == IInv /\ PhoneReads => IInv'
<1> SUFFICES ASSUME IInv, PhoneReads PROVE IInv'
  OBVIOUS
<1> DEFINE m == wire[1]
<1>1. /\ wire # <<>> /\ wire' = Tail(wire)
      /\ UNCHANGED <<inbox, hpc, wkey, size, ackVars, timerVars, flushers, owed>>
  BY DEF PhoneReads
<1>2. /\ wire' \in Seq(Replies)
      /\ 1 \in 1 .. Len(wire) /\ Head(wire) = m /\ m \in Replies
      /\ \A i \in 1 .. Len(wire') :
           i + 1 \in 1 .. Len(wire) /\ i + 1 # 1 /\ wire'[i] = wire[i + 1]
      /\ \A i, j \in 1 .. Len(wire') : i + 1 = j + 1 => i = j
  BY <1>1, WireTail
<1>3. m.key \in Files /\ m.offset \in Offsets
  BY <1>2, ReplyFacts
<1>4. /\ \A i \in 1 .. Len(wire') : wire'[i].type = "FILE_ACK" =>
           wire'[i].key <= wkey /\ wire'[i].offset <= size[wire'[i].key]
  BY <1>2 DEF IInv, AckKeysInv, AckNeverAhead
<1>5. PendingInv' /\ AckKeysInv' /\ AckNeverAhead'
  BY <1>1, <1>4, SidecarPart DEF AckKeysInv, AckNeverAhead
<1>6. ASSUME m.type # "FILE_ACK"
      PROVE  /\ \A i \in 1 .. Len(wire') : wire'[i].type = "FILE_ACK"
             /\ \A i \in 1 .. Len(inbox) : inbox[i].type = "FILE_DATA" /\ wkey # 0
  BY <1>2, <1>6 DEF IInv, ProtocolInv, InboxInv, WireInv, Asks, Answers
<1>7. CASE m.type = "FILE_INIT_RES" /\ phase' = "data" /\ next' = m.offset /\ acked' = m.offset
             /\ window' \in Windows /\ UNCHANGED file
  <2>1. phase = "init" /\ wkey # 0 /\ file \in Files /\ wkey <= file
    BY <1>2, <1>7 DEF IInv, ProtocolInv, OrderInv, WireInv
  <2>2. window' \in Nat
    BY <1>7, AckAssumption
  <2>3. TypeOK'
    BY <1>1, <1>2, <1>3, <1>7, <2>2 DEF IInv, TypeOK, ackVars, timerVars
  <2>4. OrderInv'
    BY <1>1, <1>7, <2>1 DEF IInv, ProtocolInv, OrderInv
  <2>5. InboxInv' /\ WireInv'
    BY <1>1, <1>6, <1>7 DEF InboxInv, WireInv, Asks, Answers
  <2> QED
    BY <1>5, <2>3, <2>4, <2>5 DEF IInv, ProtocolInv
<1>8. CASE m.type = "FILE_ACK" /\ acked' \in Offsets /\ UNCHANGED <<file, phase, next, window>>
  <2>1. TypeOK'
    BY <1>1, <1>2, <1>8 DEF IInv, TypeOK, ackVars, timerVars
  <2>2. OrderInv' /\ InboxInv'
    BY <1>1, <1>8 DEF IInv, ProtocolInv, OrderInv, InboxInv, Asks
  <2>3. WireInv'
    BY <1>1, <1>2, <1>8 DEF IInv, ProtocolInv, WireInv, Asks, Answers
  <2> QED
    BY <1>5, <2>1, <2>2, <2>3 DEF IInv, ProtocolInv
<1>9. CASE m.type = "FILE_END_RES" /\ phase' = "idle" /\ file' = file + 1
             /\ UNCHANGED <<next, acked, window>>
  <2>1. TypeOK'
    BY <1>1, <1>2, <1>9 DEF IInv, TypeOK, ackVars, timerVars
  <2>2. OrderInv'
    BY <1>1, <1>9, TypeUse DEF IInv, ProtocolInv, OrderInv
  <2>3. InboxInv' /\ WireInv'
    BY <1>1, <1>6, <1>9 DEF InboxInv, WireInv, Asks, Answers
  <2> QED
    BY <1>5, <2>1, <2>2, <2>3 DEF IInv, ProtocolInv
<1>10. MinOf(MaxOf(m.offset, acked), next) \in Offsets /\ acked \in Offsets
  BY <1>3, TypeUse DEF MinOf, MaxOf, Offsets
<1> QED
  BY <1>2, <1>7, <1>8, <1>9, <1>10 DEF PhoneReads, phoneVars

-----------------------------------------------------------------------------
(* The theorems. *)

LEMMA InvInit == Init => IInv
<1> SUFFICES ASSUME Init PROVE IInv
  OBVIOUS
<1>1. TypeOK
  <2>1. size \in [Files -> Offsets]
    BY ZeroInRange DEF Init
  <2>2. AckTypes
    <3>1. armed \in BOOLEAN
      BY DEF Init
    <3> QED
      BY <3>1, ZeroInRange DEF Init, AckTypes
  <2>3. inbox \in Seq(Requests) /\ wire \in Seq(Replies)
    BY DEF Init
  <2>4. flushers \subseteq [pc : {"send", "mark"}, key : Files, offset : Offsets]
    BY DEF Init
  <2> QED
    BY <2>1, <2>2, <2>3, <2>4, ZeroInRange DEF Init, TypeOK, AckTypes
<1>2. ProtocolInv
  BY DEF Init, ProtocolInv, OrderInv, InboxInv, WireInv
<1>3. PendingInv /\ AckKeysInv /\ AckNeverAhead
  BY DEF Init, PendingInv, AckKeysInv, AckNeverAhead
<1> QED
  BY <1>1, <1>2, <1>3 DEF IInv

LEMMA InvStep == IInv /\ [Next]_vars => IInv'
<1> SUFFICES ASSUME IInv, [Next]_vars PROVE IInv'
  OBVIOUS
<1>1. CASE Handler
  BY <1>1, FileInitStep, FileDataStep, SendAckStep, MarkAckStep, ScheduleFlushStep, FileEndStep
     DEF Handler
<1>2. CASE IntervalPasses \/ TimerExpires
  BY <1>2, IntervalStep, TimerExpiresStep
<1>3. CASE Flusher
  BY <1>3, FlushTakeStep, FlushSendStep, FlushMarkStep DEF Flusher
<1>4. CASE Phone
  BY <1>4, PhoneInitStep, PhoneDataStep, PhoneEndStep, PhoneReadsStep DEF Phone
<1>5. CASE UNCHANGED vars
  <2>1. TypeOK'
    BY <1>5 DEF IInv, TypeOK, vars, phoneVars, ackVars, timerVars
  <2>2. ProtocolInv' /\ PendingInv'
    BY <1>5 DEF IInv, ProtocolInv, OrderInv, InboxInv, WireInv, PendingInv, Asks, Answers,
                vars, phoneVars, timerVars
  <2>3. AckKeysInv' /\ AckNeverAhead'
    BY <1>5 DEF IInv, AckKeysInv, AckNeverAhead, vars
  <2> QED
    BY <2>1, <2>2, <2>3 DEF IInv
<1> QED
  BY <1>1, <1>2, <1>3, <1>4, <1>5 DEF Next

\* Every variable keeps its shape, for any number of files and any sizes.
THEOREM AckTypeCorrect == Spec => []TypeOK
<1>1. IInv => TypeOK
  BY DEF IInv
<1> QED
  BY <1>1, InvInit, InvStep, PTL DEF Spec

\* No FILE_ACK that connection.go sends or has decided to send promises more
\* than the file's writer has taken, with timers that fire at any moment and
\* flush goroutines that are overtaken by any number of frames.
THEOREM AcksAreWritten == Spec => []AckNeverAhead
<1>1. IInv => AckNeverAhead
  BY DEF IInv
<1> QED
  BY <1>1, InvInit, InvStep, PTL DEF Spec

=============================================================================
