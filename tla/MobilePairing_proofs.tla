------------------------ MODULE MobilePairing_proofs ------------------------
(***************************************************************************)
(* Theorems about MobilePairing, for any desktops, typed hosts, answers of *)
(* pairDevice and bounds: type correctness, FirstScanTrue and HomeIsBound. *)
(*                                                                         *)
(* HomeIsBound is not inductive: a pairDevice that went well is on its way *)
(* to JavaScript when its binding is dropped again.  It needs that native  *)
(* sends in order, so that the invalidation is behind every such answer,   *)
(* and that before the first screen there is nothing but the answer about  *)
(* the default route, which an invalidation makes one that was missed.     *)
(***************************************************************************)
EXTENDS MobilePairing, SequenceTheorems, TLAPS

-----------------------------------------------------------------------------
(* The inductive invariant. *)

\* The values the variables take.
Routes   == [name : {"DeviceDiscovery", "SyncActivity", "QRScanner", "CodeVerify",
                     "ConnectionTutorial"},
             mode : {"initial", "switch"}]
Requests == [by : {"known", "recent", "code", "typed", "timer"}, id : Ids, inst : Nat]
Devices  == [id : Ids, named : BOOLEAN, fallback : BOOLEAN]
Messages ==
  [type : {"pair"}, request : Requests, outcome : Outcomes]
    \cup [type : {"devices"}, raw : Seq(Devices)]
    \cup [type : {"invalidated"}]
    \cup [type : {"route"}, name : {"DeviceDiscovery", "SyncActivity"}]
Failures == {"none", "wrong_code", "blocked", "version_incompatible", "unknown"}
Screens  ==
  [inst : Nat, scanning : BOOLEAN,
   status : {"none", "scanning", "empty", "permissionRequired", "failed", "timeout",
             "cameraDenied", "ready"},
   devices : SUBSET Devices, ref : SUBSET Devices, selected : Ids \cup {None}, failure : Failures,
   step : {"none", "method", "manualPair", "code", "cameraPermission"},
   verifying : BOOLEAN, guide : 0..Len(GuideSteps), current : Ids \cup {None},
   knownIds : SUBSET Ids]
Verifies ==
  [on : BOOLEAN, verifying : BOOLEAN, timer : BOOLEAN,
   error : {"none", "versionMismatch", "wrongCode", "clientBlocked", "tokenInvalid",
            "connectFailed"}]

NativeTypes ==
  /\ bound \in Ids \cup {None} /\ invalidated \in BOOLEAN /\ known \subseteq Ids
  /\ pairing \subseteq Requests
QueueTypes  == queue \in Seq(Messages)
RecentTypes == recents \subseteq Ids /\ stored \subseteq Ids
\* While the timer of the first scan runs, its devices are those that are shown.
RefInv == boot = "timed" => scr.devices = {} \/ scr.ref = scr.devices
ScreenTypes ==
  /\ scr \in Screens /\ RefInv
  /\ boot \in {"none", "stopping", "starting", "timed", "idle"}
  /\ timers \in 0..MaxTimers /\ mounts \in 0..MaxMounts
  /\ scr.guide # 0 => ~seen
OtherTypes  ==
  /\ verify \in Verifies /\ due \in BOOLEAN
  /\ scanner \in {"none", "checking", "granted", "denied", "scanned"}
StackTypes  == stack \in Seq(Routes)

\* Before the first screen there is nothing but the answer about the default route.
QuietInv ==
  stack = <<>> =>
    /\ pairing = {} /\ boot = "none" /\ ~verify.on /\ ~due /\ scanner = "none"
    /\ queue # <<>> => /\ Len(queue) = 1
                       /\ queue[1].type = "route"
                       /\ queue[1].name = "SyncActivity" /\ ~missed => bound # None

\* The binding of a desktop that is gone is followed by the news of it.
Told(i) == bound # None \/ \E j \in DOMAIN queue : j > i /\ queue[j].type = "invalidated"

\* An answer that leads to the home screen is one while a desktop is bound, or the
\* invalidation comes behind it.
AnswerInv ==
  \A i \in DOMAIN queue :
    queue[i].type = "pair" /\ queue[i].outcome = "ok" /\ ~missed => Told(i)

HomeInv == Mounted("SyncActivity") /\ ~missed => Told(0)

PairingInv ==
  /\ NativeTypes /\ QueueTypes /\ RecentTypes /\ ScreenTypes /\ OtherTypes /\ StackTypes
  /\ QuietInv /\ AnswerInv /\ HomeInv

-----------------------------------------------------------------------------
(* Helpers: the guide, the queue, the stack. *)

LEMMA GuideLength == Len(GuideSteps) = 6
BY DEF GuideSteps

LEMMA Sending ==
  ASSUME QueueTypes, NEW m \in Messages, Sent(m)
  PROVE  /\ QueueTypes' /\ Len(queue') = Len(queue) + 1
         /\ DOMAIN queue' = 1..(Len(queue) + 1)
         /\ \A i \in DOMAIN queue : queue'[i] = queue[i]
         /\ queue'[Len(queue) + 1] = m
<1>1. queue' = Append(queue, m)
  BY DEF Sent
<1> QED
  BY <1>1 DEF QueueTypes

LEMMA Taking ==
  ASSUME NEW S, NEW s \in Seq(S), s # <<>>
  PROVE  /\ Head(s) \in S /\ Tail(s) \in Seq(S) /\ Head(s) = s[1]
         /\ DOMAIN Tail(s) = 1..(Len(s) - 1) /\ Len(s) >= 1 /\ DOMAIN s = 1..Len(s)
         /\ \A i \in 1..(Len(s) - 1) : Tail(s)[i] = s[i + 1]
OBVIOUS

LEMMA Pushing ==
  ASSUME NEW S, NEW s \in Seq(S), NEW r \in S
  PROVE  /\ Append(s, r) \in Seq(S) /\ Append(s, r) # <<>>
         /\ \A i \in DOMAIN Append(s, r) :
              \/ Append(s, r)[i] = r
              \/ i \in DOMAIN s /\ Append(s, r)[i] = s[i]
OBVIOUS

LEMMA Popping ==
  ASSUME NEW S, NEW s \in Seq(S), Len(s) > 1
  PROVE  /\ SubSeq(s, 1, Len(s) - 1) \in Seq(S) /\ SubSeq(s, 1, Len(s) - 1) # <<>>
         /\ \A i \in DOMAIN SubSeq(s, 1, Len(s) - 1) :
              i \in DOMAIN s /\ SubSeq(s, 1, Len(s) - 1)[i] = s[i]
<1>1. PICK n \in Nat : n = Len(s)
  OBVIOUS
<1>2. PICK t : t = SubSeq(s, 1, n - 1)
  OBVIOUS
<1>3. n > 1 /\ n - 1 \in Nat
  BY <1>1
<1>4. \A i \in 1..(n - 1) : s[i] \in S
  BY <1>1, <1>3
<1>5. /\ t \in Seq(S) /\ Len(t) = n - 1
      /\ \A i \in 1..(n - 1) : t[i] = s[i]
  <2>1. /\ SubSeq(s, 1, n - 1) \in Seq(S)
        /\ Len(SubSeq(s, 1, n - 1)) = IF 1 <= n - 1 THEN (n - 1) - 1 + 1 ELSE 0
        /\ \A i \in 1..((n - 1) - 1 + 1) : SubSeq(s, 1, n - 1)[i] = s[1 + i - 1]
    BY <1>3, <1>4, SubSeqProperties
  <2>2. Len(t) = n - 1
    BY <1>2, <1>3, <2>1
  <2>3. \A i \in 1..(n - 1) : t[i] = s[i]
    BY <1>2, <1>3, <2>1
  <2> QED
    BY <1>2, <2>1, <2>2, <2>3
<1>6. t # <<>> /\ DOMAIN t = 1..(n - 1)
  BY <1>3, <1>5
<1>7. DOMAIN s = 1..n
  BY <1>1
<1>8. \A i \in 1..(n - 1) : i \in 1..n
  BY <1>3
<1> QED
  BY <1>1, <1>2, <1>5, <1>6, <1>7, <1>8

LEMMA Replacing ==
  ASSUME NEW S, NEW s \in Seq(S), NEW r \in S, s # <<>>
  PROVE  /\ [s EXCEPT ![Len(s)] = r] \in Seq(S) /\ [s EXCEPT ![Len(s)] = r] # <<>>
         /\ \A i \in DOMAIN [s EXCEPT ![Len(s)] = r] :
              \/ [s EXCEPT ![Len(s)] = r][i] = r
              \/ i \in DOMAIN s /\ [s EXCEPT ![Len(s)] = r][i] = s[i]
<1>1. PICK n \in Nat : n = Len(s)
  OBVIOUS
<1>2. PICK t : t = [s EXCEPT ![n] = r]
  OBVIOUS
<1>3. n \in 1..n /\ s \in [1..n -> S]
  BY <1>1
<1>4. t \in [1..n -> S] /\ \A i \in 1..n : t[i] = IF i = n THEN r ELSE s[i]
  BY <1>2, <1>3
<1>5. t \in Seq(S) /\ DOMAIN t = 1..n
  BY <1>4
<1>6. Len(t) = n
  BY <1>4, <1>5
<1>7. t # <<>>
  BY <1>3, <1>6
<1> QED
  BY <1>1, <1>2, <1>3, <1>4, <1>5, <1>7

LEMMA ShortSequences ==
  ASSUME NEW S, NEW x \in S, NEW y \in S
  PROVE  <<x>> \in Seq(S) /\ <<x, y>> \in Seq(S)
OBVIOUS

LEMMA RouteTypes ==
  ASSUME NEW n \in {"DeviceDiscovery", "SyncActivity", "QRScanner", "CodeVerify",
                   "ConnectionTutorial"},
         NEW m \in {"initial", "switch"}
  PROVE  Route(n, m) \in Routes /\ Route(n, m).name = n
BY DEF Route, Routes

LEMMA TopMeansStack == Top # "none" => stack # <<>>
BY DEF Top

\* One screen on its own.
LEMMA OneRoute ==
  ASSUME NEW r \in Routes
  PROVE  <<r>> \in Seq(Routes) /\ <<r>> # <<>> /\ DOMAIN <<r>> = {1} /\ <<r>>[1] = r
OBVIOUS

LEMMA MountedMeansStack == ASSUME NEW n, Mounted(n) PROVE stack # <<>>
BY DEF Mounted

LEMMA BlankScreens ==
  /\ NoScreen \in Screens /\ NoScreen.devices = {} /\ NoScreen.guide = 0
  /\ \A n \in Nat : /\ FreshScreen(n) \in Screens /\ FreshScreen(n).devices = {}
                    /\ FreshScreen(n).guide = 0
<1>1. 0 \in 0..Len(GuideSteps)
  BY GuideLength
<1>2. NoScreen \in Screens /\ NoScreen.devices = {} /\ NoScreen.guide = 0
  BY <1>1 DEF NoScreen, Screens, Failures
<1>3. ASSUME NEW n \in Nat
      PROVE  /\ FreshScreen(n) \in Screens /\ FreshScreen(n).devices = {}
             /\ FreshScreen(n).guide = 0
  BY <1>1 DEF FreshScreen, NoScreen, Screens, Failures
<1> QED
  BY <1>2, <1>3

\* Where GoTo leads: the screens that are left lose their state.
LEMMA GoingTo ==
  ASSUME ScreenTypes, OtherTypes, PairingAssumption, UNCHANGED due,
         NEW s \in Seq(Routes), NEW fresh, GoTo(s, fresh)
  PROVE  stack' = s /\ StackTypes' /\ ScreenTypes' /\ OtherTypes'
<1>1. stack' = s /\ StackTypes'
  BY DEF GoTo, StackTypes
<1>2. verify' \in Verifies
  BY DEF GoTo, OtherTypes, Verifies, NoVerify
<1>3. scanner' \in {"none", "checking", "granted", "denied", "scanned"}
  BY DEF GoTo, OtherTypes
<1>4. due' \in BOOLEAN
  BY DEF OtherTypes
<1>5. CASE fresh
  <2>1. /\ mounts < MaxMounts /\ mounts' = mounts + 1 /\ timers' = 0 /\ boot' = "stopping"
        /\ scr' = FreshScreen(mounts + 1)
    BY <1>5 DEF GoTo
  <2>2. mounts' \in 0..MaxMounts /\ timers' \in 0..MaxTimers /\ mounts + 1 \in Nat
    BY <2>1 DEF ScreenTypes, PairingAssumption
  <2>3. scr' \in Screens /\ scr'.devices = {} /\ scr'.guide = 0
    BY <2>1, <2>2, BlankScreens
  <2> QED
    BY <1>1, <1>2, <1>3, <1>4, <2>1, <2>2, <2>3 DEF ScreenTypes, OtherTypes, RefInv
<1>6. CASE ~fresh /\ UNCHANGED <<mounts, scr, boot, timers, seen>>
  <2>1. ScreenTypes'
    BY <1>6 DEF ScreenTypes, RefInv
  <2> QED
    BY <1>1, <1>2, <1>3, <1>4, <2>1 DEF OtherTypes
<1>7. CASE ~fresh /\ UNCHANGED mounts /\ scr' = NoScreen /\ boot' = "none" /\ timers' = 0
  <2>1. timers' \in 0..MaxTimers
    BY <1>7 DEF PairingAssumption
  <2>2. scr' \in Screens /\ scr'.devices = {} /\ scr'.guide = 0
    BY <1>7, BlankScreens
  <2>3. ScreenTypes'
    BY <1>7, <2>1, <2>2 DEF ScreenTypes, RefInv
  <2> QED
    BY <1>1, <1>2, <1>3, <1>4, <2>3 DEF OtherTypes
<1> QED
  BY <1>5, <1>6, <1>7 DEF GoTo

-----------------------------------------------------------------------------
(* What steps leave alone. *)

LEMMA NativeSame ==
  ASSUME NativeTypes, UNCHANGED <<bound, invalidated, known, pairing>>
  PROVE  NativeTypes'
BY DEF NativeTypes

LEMMA ScreenSame ==
  ASSUME ScreenTypes, UNCHANGED <<scr, boot, timers, mounts, seen>>
  PROVE  ScreenTypes'
BY DEF ScreenTypes, RefInv

LEMMA OtherSame ==
  ASSUME OtherTypes, UNCHANGED <<verify, due, scanner>>
  PROVE  OtherTypes'
BY DEF OtherTypes

\* Only the discovery screen changes, and not its guide.
LEMMA ScreenChanges ==
  ASSUME ScreenTypes, UNCHANGED <<boot, timers, mounts, seen>>,
         scr' \in Screens, RefInv', scr'.guide = scr.guide
  PROVE  ScreenTypes'
BY DEF ScreenTypes

\* The stack, the binding and the queue stay: so do the facts about the home screen.
LEMMA Kept ==
  ASSUME StackTypes, QueueTypes, QuietInv, AnswerInv, HomeInv,
         UNCHANGED <<stack, bound, missed, queue>>,
         stack # <<>> \/ UNCHANGED <<pairing, boot, verify, due, scanner>>
  PROVE  StackTypes' /\ QueueTypes' /\ QuietInv' /\ AnswerInv' /\ HomeInv'
<1>1. StackTypes' /\ QueueTypes'
  BY DEF StackTypes, QueueTypes
<1>2. QuietInv'
  BY DEF QuietInv
<1>3. AnswerInv'
  BY DEF AnswerInv, Told
<1>4. HomeInv'
  BY DEF HomeInv, Told, Mounted
<1> QED
  BY <1>1, <1>2, <1>3, <1>4

\* Other screens, but not home from elsewhere.
LEMMA Moved ==
  ASSUME QueueTypes, AnswerInv, HomeInv, UNCHANGED <<bound, missed, queue>>, stack' # <<>>,
         Mounted("SyncActivity")' => Mounted("SyncActivity")
  PROVE  QueueTypes' /\ QuietInv' /\ AnswerInv' /\ HomeInv'
<1>1. QueueTypes'
  BY DEF QueueTypes
<1>2. QuietInv'
  BY DEF QuietInv
<1>3. AnswerInv'
  BY DEF AnswerInv, Told
<1>4. HomeInv'
  BY DEF HomeInv, Told
<1> QED
  BY <1>1, <1>2, <1>3, <1>4

\* A step of the discovery screen.
LEMMA ScreenStep ==
  ASSUME PairingInv, NativeTypes', ScreenTypes',
         UNCHANGED <<stack, bound, missed, queue, recents, stored, verify, due, scanner>>,
         stack # <<>> \/ UNCHANGED <<pairing, boot>>
  PROVE  PairingInv'
<1>1. StackTypes' /\ QueueTypes' /\ QuietInv' /\ AnswerInv' /\ HomeInv'
  BY Kept DEF PairingInv
<1>2. OtherTypes'
  BY OtherSame DEF PairingInv
<1>3. RecentTypes'
  BY DEF PairingInv, RecentTypes
<1> QED
  BY <1>1, <1>2, <1>3 DEF PairingInv

-----------------------------------------------------------------------------
(* Native. *)

LEMMA PairEndsStep ==
  ASSUME PairingInv, PairingAssumption, NEW p \in pairing, PairEnds(p)
  PROVE  PairingInv'
<1>1. PICK outcome \in Outcomes :
        /\ Sent([type |-> "pair", request |-> p, outcome |-> outcome])
        /\ IF outcome = "ok"
           THEN bound' = p.id /\ invalidated' = FALSE /\ known' = known \cup {p.id}
           ELSE UNCHANGED <<bound, invalidated, known>>
  BY DEF PairEnds
<1>2. p \in Requests /\ p.id \in Ids /\ p.id # None
  BY DEF PairingInv, NativeTypes, Requests, PairingAssumption
<1>3. [type |-> "pair", request |-> p, outcome |-> outcome] \in Messages
  BY <1>2 DEF Messages
<1>4. PICK m \in Messages : m = [type |-> "pair", request |-> p, outcome |-> outcome]
  BY <1>3
<1>5. Sent(m)
  BY <1>1, <1>4
<1>6. /\ QueueTypes' /\ Len(queue') = Len(queue) + 1 /\ DOMAIN queue' = 1..(Len(queue) + 1)
      /\ \A i \in DOMAIN queue : queue'[i] = queue[i]
      /\ queue'[Len(queue) + 1] = m
  BY <1>5, Sending DEF PairingInv
<1>7. NativeTypes'
  BY <1>1, <1>2 DEF PairEnds, PairingInv, NativeTypes
<1>8. stack # <<>> /\ UNCHANGED <<stack, missed>>
  BY DEF PairEnds, PairingInv, QuietInv
<1>9. QuietInv' /\ StackTypes' /\ RecentTypes'
  BY <1>8 DEF PairEnds, QuietInv, recentVars, PairingInv, StackTypes, RecentTypes
<1>10. ScreenTypes' /\ OtherTypes'
  BY ScreenSame, OtherSame DEF PairEnds, PairingInv, screenVars, otherVars
<1>11. DOMAIN queue = 1..Len(queue) /\ Len(queue) \in Nat
  BY DEF PairingInv, QueueTypes
<1>12. ASSUME NEW k, Told(k) PROVE Told(k)'
  BY <1>1, <1>2, <1>6, <1>11, <1>12 DEF Told
<1>13. AnswerInv'
  <2> SUFFICES ASSUME NEW i \in DOMAIN queue', queue'[i].type = "pair", queue'[i].outcome = "ok",
                      ~missed'
               PROVE  Told(i)'
    BY DEF AnswerInv
  <2>1. CASE i \in DOMAIN queue
    BY <1>6, <1>8, <1>12, <2>1 DEF PairingInv, AnswerInv
  <2>2. CASE i = Len(queue) + 1
    <3>1. bound' # None
      BY <1>1, <1>2, <1>4, <1>6, <2>2
    <3> QED
      BY <3>1 DEF Told
  <2> QED
    BY <1>6, <1>11, <2>1, <2>2
<1>14. HomeInv'
  BY <1>8, <1>12 DEF PairingInv, HomeInv, Mounted
<1> QED
  BY <1>6, <1>7, <1>9, <1>10, <1>13, <1>14 DEF PairingInv

LEMMA InvalidateStep ==
  ASSUME PairingInv, Invalidate
  PROVE  PairingInv'
<1>1. NativeTypes'
  BY DEF PairingInv, NativeTypes, Invalidate
<1>2. RecentTypes' /\ StackTypes'
  BY DEF PairingInv, Invalidate, recentVars, RecentTypes, StackTypes
<1>3. ScreenTypes' /\ OtherTypes'
  BY ScreenSame, OtherSame DEF Invalidate, PairingInv, screenVars, otherVars
<1>4. UNCHANGED <<stack, pairing, boot, verify, due, scanner>>
  BY DEF Invalidate, screenVars, otherVars
<1>5. CASE stack = <<>>
  <2>1. UNCHANGED queue /\ missed' = TRUE
    BY <1>5 DEF Invalidate, Listening
  <2>2. QueueTypes' /\ QuietInv' /\ AnswerInv' /\ HomeInv'
    BY <1>4, <2>1 DEF PairingInv, QueueTypes, QuietInv, AnswerInv, HomeInv
  <2> QED
    BY <1>1, <1>2, <1>3, <2>2 DEF PairingInv
<1>6. CASE stack # <<>>
  <2>1. PICK m \in Messages : m = [type |-> "invalidated"]
    BY DEF Messages
  <2>2. Sent(m) /\ UNCHANGED missed
    BY <1>6, <2>1 DEF Invalidate, Listening
  <2>3. /\ QueueTypes' /\ DOMAIN queue' = 1..(Len(queue) + 1)
        /\ \A i \in DOMAIN queue : queue'[i] = queue[i]
        /\ queue'[Len(queue) + 1] = m
    BY <2>2, Sending DEF PairingInv
  <2>4. DOMAIN queue = 1..Len(queue) /\ Len(queue) \in Nat
    BY DEF PairingInv, QueueTypes
  <2>5. \A k \in 0..Len(queue) : Told(k)'
    <3>1. Len(queue) + 1 \in DOMAIN queue' /\ queue'[Len(queue) + 1].type = "invalidated"
      BY <2>1, <2>3, <2>4
    <3>2. \A k \in 0..Len(queue) : Len(queue) + 1 > k
      BY <2>4
    <3> QED
      BY <3>1, <3>2 DEF Told
  <2>6. AnswerInv'
    <3> SUFFICES ASSUME NEW i \in DOMAIN queue', queue'[i].type = "pair"
                 PROVE  Told(i)'
      BY DEF AnswerInv
    <3>1. i # Len(queue) + 1
      BY <2>1, <2>3
    <3>2. i \in 0..Len(queue)
      BY <2>3, <2>4, <3>1
    <3> QED
      BY <2>5, <3>2
  <2>7. HomeInv'
    BY <2>4, <2>5 DEF HomeInv
  <2>8. QuietInv'
    BY <1>4, <1>6 DEF QuietInv
  <2> QED
    BY <1>1, <1>2, <1>3, <2>3, <2>6, <2>7, <2>8 DEF PairingInv
<1> QED
  BY <1>5, <1>6

LEMMA DiscoversStep ==
  ASSUME PairingInv, Discovers
  PROVE  PairingInv'
<1>1. PICK raw \in {<<>>} \cup
        UNION {{<<Found(d, TRUE, FALSE)>>, <<Found(d, FALSE, TRUE), Found(d, TRUE, FALSE)>>}
                 : d \in Desktops} :
        Sent([type |-> "devices", raw |-> raw])
  BY DEF Discovers
<1>2. \A d \in Desktops, x, y \in BOOLEAN : Found(d, x, y) \in Devices
  BY DEF Found, Devices, Ids
<1>3. raw \in Seq(Devices)
  <2>1. CASE raw = <<>>
    BY <2>1
  <2>2. ASSUME NEW d \in Desktops,
               raw \in {<<Found(d, TRUE, FALSE)>>,
                        <<Found(d, FALSE, TRUE), Found(d, TRUE, FALSE)>>}
        PROVE  raw \in Seq(Devices)
    <3>1. Found(d, TRUE, FALSE) \in Devices /\ Found(d, FALSE, TRUE) \in Devices
      BY <1>2
    <3> QED
      BY <2>2, <3>1, ShortSequences
  <2> QED
    BY <1>1, <2>1, <2>2
<1>4. PICK m \in Messages : m = [type |-> "devices", raw |-> raw]
  BY <1>3 DEF Messages
<1>5. Sent(m)
  BY <1>1, <1>4
<1>6. /\ QueueTypes' /\ DOMAIN queue' = 1..(Len(queue) + 1)
      /\ \A i \in DOMAIN queue : queue'[i] = queue[i]
      /\ queue'[Len(queue) + 1] = m
  BY <1>5, Sending DEF PairingInv
<1>7. stack # <<>> /\ UNCHANGED <<stack, missed, bound, recents, stored>>
  BY DEF Discovers, PairingInv, QuietInv, recentVars
<1>8. NativeTypes' /\ ScreenTypes' /\ OtherTypes'
  BY NativeSame, ScreenSame, OtherSame DEF Discovers, PairingInv, screenVars, otherVars
<1>9. RecentTypes' /\ StackTypes' /\ QuietInv'
  BY <1>7 DEF PairingInv, RecentTypes, StackTypes, QuietInv
<1>10. DOMAIN queue = 1..Len(queue) /\ Len(queue) \in Nat
  BY DEF PairingInv, QueueTypes
<1>11. ASSUME NEW k, Told(k) PROVE Told(k)'
  BY <1>6, <1>7, <1>10, <1>11 DEF Told
<1>12. AnswerInv'
  <2> SUFFICES ASSUME NEW i \in DOMAIN queue', queue'[i].type = "pair", queue'[i].outcome = "ok",
                      ~missed'
               PROVE  Told(i)'
    BY DEF AnswerInv
  <2>1. i # Len(queue) + 1
    BY <1>4, <1>6
  <2>2. i \in DOMAIN queue
    BY <1>6, <1>10, <2>1
  <2> QED
    BY <1>6, <1>7, <1>11, <2>2 DEF PairingInv, AnswerInv
<1>13. HomeInv'
  BY <1>7, <1>11 DEF PairingInv, HomeInv, Mounted
<1> QED
  BY <1>6, <1>8, <1>9, <1>12, <1>13 DEF PairingInv

-----------------------------------------------------------------------------
(* RootNavigator and the desktops of before. *)

LEMMA DecideStep ==
  ASSUME PairingInv, Decide
  PROVE  PairingInv'
<1>1. DefaultRoute \in {"DeviceDiscovery", "SyncActivity"}
  BY DEF DefaultRoute
<1>2. DefaultRoute = "SyncActivity" => bound # None
  BY DEF DefaultRoute
<1>3. PICK n \in {"DeviceDiscovery", "SyncActivity"} : n = DefaultRoute
  BY <1>1
<1>4. PICK m \in Messages : m = [type |-> "route", name |-> n]
  BY DEF Messages
<1>5. queue' = <<m>>
  BY <1>3, <1>4 DEF Decide
<1>6. QueueTypes' /\ Len(queue') = 1 /\ DOMAIN queue' = {1} /\ queue'[1] = m
  BY <1>5 DEF QueueTypes
<1>7. /\ stack = <<>>
      /\ UNCHANGED <<stack, bound, missed, pairing, boot, verify, due, scanner, recents, stored>>
  BY DEF Decide, nativeVars, otherVars, screenVars, recentVars
<1>8. NativeTypes' /\ ScreenTypes' /\ OtherTypes'
  BY NativeSame, ScreenSame, OtherSame
  DEF Decide, PairingInv, nativeVars, screenVars, otherVars
<1>9. RecentTypes' /\ StackTypes'
  BY <1>7 DEF PairingInv, RecentTypes, StackTypes
<1>10. m.type = "route" /\ (m.name = "SyncActivity" => bound # None)
  BY <1>2, <1>3, <1>4
<1>11. QuietInv'
  BY <1>6, <1>7, <1>10 DEF PairingInv, QuietInv
<1>12. AnswerInv'
  BY <1>6, <1>10 DEF AnswerInv
<1>13. HomeInv'
  BY <1>7, MountedMeansStack DEF HomeInv, Mounted
<1> QED
  BY <1>6, <1>8, <1>9, <1>11, <1>12, <1>13 DEF PairingInv

LEMMA DecidedStep ==
  ASSUME PairingInv, PairingAssumption, Decided
  PROVE  PairingInv'
<1>1. /\ stack = <<>> /\ queue # <<>> /\ queue' = <<>>
      /\ GoTo(<<Route(Head(queue).name, "initial")>>, Head(queue).name = "DeviceDiscovery")
      /\ UNCHANGED <<bound, invalidated, known, pairing, missed, recents, stored, due>>
  BY DEF Decided, nativeVars, recentVars
<1>2. queue[1].type = "route" /\ (queue[1].name = "SyncActivity" /\ ~missed => bound # None)
  BY <1>1 DEF PairingInv, QuietInv
<1>3. Head(queue) = queue[1] /\ Head(queue) \in Messages
  BY <1>1, Taking DEF PairingInv, QueueTypes
<1>4. PICK m \in Messages : m = queue[1] /\ m.type = "route"
  BY <1>2, <1>3
<1>5. m.name \in {"DeviceDiscovery", "SyncActivity"}
  BY <1>4 DEF Messages
<1>6. PICK r \in Routes : r = Route(m.name, "initial")
  BY <1>5 DEF Route, Routes
<1>7. PICK s \in Seq(Routes) : s = <<r>>
  BY OneRoute
<1>8. PICK f : f = (m.name = "DeviceDiscovery")
  OBVIOUS
<1>9. GoTo(s, f)
  BY <1>1, <1>3, <1>4, <1>6, <1>7, <1>8
<1>10. stack' = s /\ StackTypes' /\ ScreenTypes' /\ OtherTypes'
  BY <1>1, <1>9, GoingTo DEF PairingInv
<1>11. NativeTypes' /\ RecentTypes' /\ QueueTypes'
  BY <1>1, NativeSame DEF PairingInv, RecentTypes, QueueTypes
<1>12. s # <<>> /\ DOMAIN s = {1} /\ s[1] = r
  BY <1>7, OneRoute
<1>13. QuietInv'
  BY <1>10, <1>12 DEF QuietInv
<1>14. AnswerInv'
  BY <1>1 DEF AnswerInv
<1>15. HomeInv'
  <2> SUFFICES ASSUME Mounted("SyncActivity")', ~missed' PROVE Told(0)'
    BY DEF HomeInv
  <2>1. r.name = "SyncActivity"
    BY <1>10, <1>12 DEF Mounted
  <2>2. m.name = "SyncActivity"
    BY <1>6, <2>1 DEF Route
  <2>3. bound # None
    BY <1>1, <1>2, <1>4, <2>2
  <2> QED
    BY <1>1, <2>3 DEF Told
<1> QED
  BY <1>10, <1>11, <1>13, <1>14, <1>15 DEF PairingInv

LEMMA ResetTimerStep ==
  ASSUME PairingInv, ResetTimer
  PROVE  PairingInv'
<1>1. NativeTypes' /\ ScreenTypes'
  BY NativeSame, ScreenSame DEF ResetTimer, PairingInv, nativeVars, screenVars
<1> QED
  BY <1>1, ScreenStep DEF ResetTimer, nativeVars, recentVars, screenVars

LEMMA LoadRecentsStep ==
  ASSUME PairingInv, LoadRecents
  PROVE  PairingInv'
<1>1. NativeTypes' /\ ScreenTypes' /\ OtherTypes'
  BY NativeSame, ScreenSame, OtherSame
  DEF LoadRecents, PairingInv, nativeVars, screenVars, otherVars
<1>2. StackTypes' /\ QueueTypes' /\ QuietInv' /\ AnswerInv' /\ HomeInv'
  BY Kept DEF LoadRecents, PairingInv, nativeVars, otherVars, screenVars
<1>3. RecentTypes'
  BY DEF LoadRecents, PairingInv, RecentTypes
<1> QED
  BY <1>1, <1>2, <1>3 DEF PairingInv

-----------------------------------------------------------------------------
(* The scan. *)

\* Something of the discovery screen changes that is neither its devices, nor what the
\* timers see of them, nor its guide.
LEMMA PlainChange ==
  ASSUME PairingInv, UNCHANGED <<stack, bound, missed, queue, recents, stored, verify, due, scanner,
                                 boot, timers, mounts, seen>>,
         NativeTypes', stack # <<>> \/ UNCHANGED pairing,
         scr' \in Screens, scr'.devices = scr.devices, scr'.guide = scr.guide,
         scr'.ref = scr.ref
  PROVE  PairingInv'
<1>1. RefInv'
  BY DEF PairingInv, ScreenTypes, RefInv
<1>2. ScreenTypes'
  BY <1>1, ScreenChanges DEF PairingInv
<1> QED
  BY <1>2, ScreenStep

LEMMA BootPermissionStep ==
  ASSUME PairingInv, BootPermission
  PROVE  PairingInv'
<1>1. NativeTypes'
  BY NativeSame DEF BootPermission, PairingInv, nativeVars
<1>2. stack # <<>>
  BY DEF BootPermission, PairingInv, QuietInv
<1>3. boot' \in {"starting", "idle"} /\ UNCHANGED <<timers, mounts, seen>>
  BY DEF BootPermission
<1>4. CASE UNCHANGED scr
  <2>1. ScreenTypes'
    BY <1>3, <1>4 DEF PairingInv, ScreenTypes, RefInv
  <2> QED
    BY <1>1, <1>2, <2>1, ScreenStep DEF BootPermission, nativeVars, recentVars, otherVars
<1>5. CASE scr' = [scr EXCEPT !.scanning = FALSE, !.status = "permissionRequired"]
  <2>1. scr' \in Screens /\ scr'.guide = scr.guide
    BY <1>5 DEF PairingInv, ScreenTypes, Screens, Failures
  <2>2. ScreenTypes'
    BY <1>3, <2>1 DEF PairingInv, ScreenTypes, RefInv
  <2> QED
    BY <1>1, <1>2, <2>2, ScreenStep DEF BootPermission, nativeVars, recentVars, otherVars
<1> QED
  BY <1>4, <1>5 DEF BootPermission

LEMMA BootStartedStep ==
  ASSUME PairingInv, BootStarted
  PROVE  PairingInv'
<1>1. NativeTypes'
  BY NativeSame DEF BootStarted, PairingInv, nativeVars
<1>2. stack # <<>>
  BY DEF BootStarted, PairingInv, QuietInv
<1>3. ScreenTypes'
  BY DEF BootStarted, PairingInv, ScreenTypes, RefInv
<1> QED
  BY <1>1, <1>2, <1>3, ScreenStep DEF BootStarted, nativeVars, recentVars, otherVars

LEMMA RefFollowsStep ==
  ASSUME PairingInv, RefFollows
  PROVE  PairingInv'
<1>1. NativeTypes'
  BY NativeSame DEF RefFollows, PairingInv, nativeVars
<1>2. scr' = [scr EXCEPT !.ref = scr.devices] /\ scr.devices \in SUBSET Devices
  BY DEF RefFollows, PairingInv, ScreenTypes, Screens
<1>3. /\ scr' \in Screens /\ scr'.guide = scr.guide /\ scr'.ref = scr.devices
      /\ scr'.devices = scr.devices
  BY <1>2 DEF PairingInv, ScreenTypes, Screens, Failures
<1>4. ScreenTypes'
  BY <1>3 DEF RefFollows, PairingInv, ScreenTypes, RefInv
<1> QED
  BY <1>1, <1>4, ScreenStep DEF RefFollows, nativeVars, recentVars, otherVars

\* A timer's end changes neither the devices nor what the timers see of them, and says
\* nothing while they see some.
LEMMA ScanIsOver ==
  ASSUME ScreenTypes, ScanOver
  PROVE  /\ scr' \in Screens /\ scr'.guide = scr.guide
         /\ scr'.devices = scr.devices /\ scr'.ref = scr.ref
         /\ scr.ref # {} => scr'.status = scr.status
<1>1. PICK st : st = IF scr.ref = {} THEN "empty" ELSE scr.status
  OBVIOUS
<1>2. scr' = [scr EXCEPT !.scanning = FALSE, !.status = st]
  BY <1>1 DEF ScanOver, ScreenTypes, Screens
<1>3. st \in {"none", "scanning", "empty", "permissionRequired", "failed", "timeout",
              "cameraDenied", "ready"}
  BY <1>1 DEF ScreenTypes, Screens
<1>4. scr' \in Screens /\ scr'.guide = scr.guide
  BY <1>2, <1>3 DEF ScreenTypes, Screens, Failures
<1>5. scr'.devices = scr.devices /\ scr'.ref = scr.ref /\ scr'.status = st
  BY <1>2 DEF ScreenTypes, Screens
<1> QED
  BY <1>1, <1>4, <1>5

LEMMA DiscoveryTimeoutStep ==
  ASSUME PairingInv, DiscoveryTimeout
  PROVE  PairingInv'
<1>1. NativeTypes'
  BY NativeSame DEF DiscoveryTimeout, PairingInv, nativeVars
<1>2. stack # <<>>
  BY DEF DiscoveryTimeout, PairingInv, QuietInv
<1>3. ScreenTypes'
  BY ScanIsOver DEF DiscoveryTimeout, PairingInv, ScreenTypes, RefInv
<1> QED
  BY <1>1, <1>2, <1>3, ScreenStep DEF DiscoveryTimeout, nativeVars, recentVars, otherVars

LEMMA RescanTimeoutStep ==
  ASSUME PairingInv, PairingAssumption, RescanTimeout
  PROVE  PairingInv'
<1>1. NativeTypes'
  BY NativeSame DEF RescanTimeout, PairingInv, nativeVars
<1>2. timers' \in 0..MaxTimers
  BY DEF RescanTimeout, PairingInv, ScreenTypes, PairingAssumption
<1>3. ScreenTypes'
  BY <1>2, ScanIsOver DEF RescanTimeout, PairingInv, ScreenTypes, RefInv
<1> QED
  BY <1>1, <1>3, ScreenStep DEF RescanTimeout, nativeVars, recentVars, otherVars

LEMMA HandleRescanStep ==
  ASSUME PairingInv, PairingAssumption, HandleRescan
  PROVE  PairingInv'
<1>1. NativeTypes'
  BY NativeSame DEF HandleRescan, PairingInv
<1>2. timers' \in 0..MaxTimers
  BY DEF HandleRescan, Rescan, PairingInv, ScreenTypes, PairingAssumption
<1>3. scr' = [scr EXCEPT !.devices = {}, !.scanning = TRUE, !.status = "scanning",
                         !.failure = "none"]
  BY DEF HandleRescan, Rescan
<1>4. scr' \in Screens /\ scr'.guide = scr.guide /\ scr'.devices = {}
  BY <1>3 DEF PairingInv, ScreenTypes, Screens, Failures
<1>5. ScreenTypes'
  BY <1>2, <1>4 DEF HandleRescan, PairingInv, ScreenTypes, RefInv
<1> QED
  BY <1>1, <1>5, ScreenStep DEF HandleRescan, recentVars, otherVars

LEMMA SwitchBootstrapStep ==
  ASSUME PairingInv, SwitchBootstrap
  PROVE  PairingInv'
<1>1. NativeTypes'
  BY NativeSame DEF SwitchBootstrap, PairingInv, nativeVars
<1>2. scr' = [scr EXCEPT !.knownIds = known, !.current = bound]
  BY DEF SwitchBootstrap
<1>3. scr' \in Screens
  BY <1>2 DEF PairingInv, ScreenTypes, NativeTypes, Screens, Failures
<1>4. scr'.guide = scr.guide /\ scr'.ref = scr.ref /\ scr'.devices = scr.devices
  BY <1>2 DEF PairingInv, ScreenTypes, Screens
<1> QED
  BY <1>1, <1>3, <1>4, PlainChange
  DEF SwitchBootstrap, nativeVars, recentVars, otherVars

\* The guide changes, and whether it was dismissed.
LEMMA GuideStep ==
  ASSUME PairingInv, NEW g \in 0..Len(GuideSteps), scr' = [scr EXCEPT !.guide = g],
         UNCHANGED <<stack, nativeVars, queue, recentVars, otherVars, boot, timers, mounts>>,
         g # 0 => ~seen'
  PROVE  PairingInv'
<1>1. NativeTypes'
  BY NativeSame DEF PairingInv, nativeVars
<1>2. /\ scr' \in Screens /\ scr'.guide = g
      /\ scr'.ref = scr.ref /\ scr'.devices = scr.devices
  BY DEF PairingInv, ScreenTypes, Screens, Failures
<1>3. ScreenTypes'
  BY <1>2 DEF PairingInv, ScreenTypes, RefInv
<1> QED
  BY <1>1, <1>3, ScreenStep DEF nativeVars, recentVars, otherVars

LEMMA ShowGuideStep ==
  ASSUME PairingInv, ShowGuide
  PROVE  PairingInv'
<1>1. 1 \in 0..Len(GuideSteps)
  BY GuideLength
<1> QED
  BY <1>1, GuideStep DEF ShowGuide

LEMMA DismissGuideStep ==
  ASSUME PairingInv, DismissGuide
  PROVE  PairingInv'
<1>1. 0 \in 0..Len(GuideSteps)
  BY GuideLength
<1> QED
  BY <1>1, GuideStep DEF DismissGuide

LEMMA ContinuePreviewStep ==
  ASSUME PairingInv, ContinuePreview
  PROVE  PairingInv'
<1>1. PICK g \in 0..Len(GuideSteps) : g = scr.guide + 1 /\ g # 0
  BY GuideLength DEF ContinuePreview
<1>2. scr' = [scr EXCEPT !.guide = g]
  BY <1>1 DEF ContinuePreview
<1>3. ~seen'
  BY DEF ContinuePreview, PairingInv, ScreenTypes
<1> QED
  BY <1>1, <1>2, <1>3, GuideStep DEF ContinuePreview

-----------------------------------------------------------------------------
(* Choosing a desktop. *)

LEMMA Starting ==
  ASSUME NativeTypes, NEW p \in Requests, StartPair(p)
  PROVE  NativeTypes' /\ UNCHANGED <<bound, missed>>
BY DEF StartPair, NativeTypes

LEMMA RequestTypes ==
  ASSUME scr \in Screens, NEW id \in Ids, NEW by \in {"known", "recent", "code"}
  PROVE  Request(by, id) \in Requests
BY DEF Request, Requests, Screens

\* What may be touched is on a stack.
LEMMA EnterMeansStack == Enter => stack # <<>>
BY TopMeansStack DEF Enter

LEMMA OpenDeviceStep ==
  ASSUME PairingInv, NEW d \in scr.devices, NEW busy \in BOOLEAN, OpenDevice(d, busy)
  PROVE  PairingInv'
<1>1. d.id \in Ids /\ scr \in Screens
  BY DEF PairingInv, ScreenTypes, Screens, Devices
<1>2. stack # <<>>
  BY EnterMeansStack DEF OpenDevice, RowsShown
<1>3. PICK q \in Requests : q = Request("known", d.id)
  BY <1>1, RequestTypes
<1>4. PICK i \in Ids : i = d.id
  BY <1>1
<1> DEFINE chosen == [scr EXCEPT !.selected = i, !.failure = "none"]
<1>5. chosen \in Screens /\ chosen.devices = scr.devices /\ chosen.guide = scr.guide
      /\ chosen.ref = scr.ref
  BY <1>1 DEF Screens, Failures
<1> HIDE DEF chosen
<1>6. \/ scr' = [chosen EXCEPT !.status = "timeout"] /\ UNCHANGED nativeVars
      \/ /\ scr' = [chosen EXCEPT !.status = "ready", !.verifying = TRUE]
         /\ StartPair(q)
      \/ scr' = [chosen EXCEPT !.status = "ready", !.step = "code"] /\ UNCHANGED nativeVars
  BY <1>3, <1>4 DEF OpenDevice, chosen
<1>7. /\ scr' \in Screens /\ scr'.devices = chosen.devices /\ scr'.guide = chosen.guide
      /\ scr'.ref = chosen.ref
  BY <1>5, <1>6 DEF Screens
<1>8. NativeTypes' /\ UNCHANGED <<bound, missed>>
  BY <1>6, Starting, NativeSame DEF PairingInv, nativeVars
<1> QED
  BY <1>2, <1>5, <1>7, <1>8, PlainChange DEF OpenDevice, recentVars, otherVars

LEMMA OpenRecentStep ==
  ASSUME PairingInv, NEW r \in recents, OpenRecent(r)
  PROVE  PairingInv'
<1>1. r \in Ids /\ scr \in Screens
  BY DEF PairingInv, ScreenTypes, RecentTypes
<1>2. stack # <<>>
  BY EnterMeansStack DEF OpenRecent, RowsShown
<1>3. PICK q \in Requests : q = Request("recent", r)
  BY <1>1, RequestTypes
<1>4. scr' = [scr EXCEPT !.selected = r, !.failure = "none",
                         !.status = "ready", !.verifying = TRUE]
  BY DEF OpenRecent
<1>5. /\ scr' \in Screens /\ scr'.devices = scr.devices /\ scr'.guide = scr.guide
      /\ scr'.ref = scr.ref
  BY <1>1, <1>4 DEF Screens, Failures
<1>6. NativeTypes' /\ UNCHANGED <<bound, missed>>
  BY <1>3, Starting DEF OpenRecent, PairingInv
<1> QED
  BY <1>2, <1>5, <1>6, PlainChange DEF OpenRecent, recentVars, otherVars

LEMMA OpenMethodStep ==
  ASSUME PairingInv, OpenMethod
  PROVE  PairingInv'
<1>1. NativeTypes' /\ scr \in Screens
  BY NativeSame DEF OpenMethod, PairingInv, nativeVars, ScreenTypes
<1>2. \/ scr' = [scr EXCEPT !.selected = None, !.failure = "none", !.step = "method"]
      \/ scr' = [scr EXCEPT !.selected = None, !.step = "method"]
  BY DEF OpenMethod
<1>3. /\ scr' \in Screens /\ scr'.devices = scr.devices /\ scr'.guide = scr.guide
      /\ scr'.ref = scr.ref
  BY <1>1, <1>2 DEF Screens, Failures
<1> QED
  BY <1>1, <1>3, PlainChange DEF OpenMethod, nativeVars, recentVars, otherVars

LEMMA CardActionStep ==
  ASSUME PairingInv, CardAction
  PROVE  PairingInv'
<1>1. NativeTypes' /\ scr \in Screens
  BY NativeSame DEF CardAction, PairingInv, nativeVars, ScreenTypes
<1>2. \/ scr' = [scr EXCEPT !.failure = "none", !.status = "ready", !.step = "code"]
      \/ scr' = [scr EXCEPT !.step = "code"]
      \/ scr' = [scr EXCEPT !.step = "method"]
  BY DEF CardAction
<1>3. /\ scr' \in Screens /\ scr'.devices = scr.devices /\ scr'.guide = scr.guide
      /\ scr'.ref = scr.ref
  BY <1>1, <1>2 DEF Screens, Failures
<1> QED
  BY <1>1, <1>3, PlainChange DEF CardAction, nativeVars, recentVars, otherVars

LEMMA ChooseManualStep ==
  ASSUME PairingInv, ChooseManual
  PROVE  PairingInv'
<1>1. NativeTypes' /\ scr \in Screens
  BY NativeSame DEF ChooseManual, PairingInv, nativeVars, ScreenTypes
<1>2. \/ scr' = [scr EXCEPT !.step = "manualPair", !.failure = "none"]
      \/ scr' = [scr EXCEPT !.step = "code", !.failure = "none"]
  BY DEF ChooseManual
<1>3. /\ scr' \in Screens /\ scr'.devices = scr.devices /\ scr'.guide = scr.guide
      /\ scr'.ref = scr.ref
  BY <1>1, <1>2 DEF Screens, Failures
<1> QED
  BY <1>1, <1>3, PlainChange DEF ChooseManual, nativeVars, recentVars, otherVars

LEMMA ManualPairStep ==
  ASSUME PairingInv, NEW h \in ManualHosts, ManualPair(h)
  PROVE  PairingInv'
<1>1. NativeTypes' /\ scr \in Screens /\ h \in Ids
  BY NativeSame DEF ManualPair, PairingInv, nativeVars, ScreenTypes, Ids
<1>2. scr' = [scr EXCEPT !.selected = h, !.failure = "none",
                         !.status = "ready", !.step = "code"]
  BY DEF ManualPair
<1>3. /\ scr' \in Screens /\ scr'.devices = scr.devices /\ scr'.guide = scr.guide
      /\ scr'.ref = scr.ref
  BY <1>1, <1>2 DEF Screens, Failures
<1> QED
  BY <1>1, <1>3, PlainChange DEF ManualPair, nativeVars, recentVars, otherVars

LEMMA VerifyCodeStep ==
  ASSUME PairingInv, VerifyCode
  PROVE  PairingInv'
<1>1. scr \in Screens /\ scr.selected \in Ids
  BY DEF VerifyCode, CodeStep, ModalStep, PairingInv, ScreenTypes, Screens
<1>2. stack # <<>>
  BY EnterMeansStack DEF VerifyCode, CodeStep
<1>3. PICK q \in Requests : q = Request("code", scr.selected)
  BY <1>1, RequestTypes
<1>4. scr' = [scr EXCEPT !.verifying = TRUE]
  BY DEF VerifyCode
<1>5. /\ scr' \in Screens /\ scr'.devices = scr.devices /\ scr'.guide = scr.guide
      /\ scr'.ref = scr.ref
  BY <1>1, <1>4 DEF Screens, Failures
<1>6. NativeTypes' /\ UNCHANGED <<bound, missed>>
  BY <1>3, Starting DEF VerifyCode, PairingInv
<1> QED
  BY <1>2, <1>5, <1>6, PlainChange DEF VerifyCode, recentVars, otherVars

LEMMA CloseModalStep ==
  ASSUME PairingInv, CloseModal
  PROVE  PairingInv'
<1>1. NativeTypes' /\ scr \in Screens
  BY NativeSame DEF CloseModal, PairingInv, nativeVars, ScreenTypes
<1>2. scr' = [scr EXCEPT !.step = "none"]
  BY DEF CloseModal
<1>3. /\ scr' \in Screens /\ scr'.devices = scr.devices /\ scr'.guide = scr.guide
      /\ scr'.ref = scr.ref
  BY <1>1, <1>2 DEF Screens, Failures
<1> QED
  BY <1>1, <1>3, PlainChange DEF CloseModal, nativeVars, recentVars, otherVars

-----------------------------------------------------------------------------
(* The way to the camera. *)

\* One more screen that is not the home screen.
LEMMA OneMore ==
  ASSUME StackTypes, NEW r \in Routes, r.name # "SyncActivity", stack' = Append(stack, r)
  PROVE  /\ StackTypes' /\ stack' # <<>>
         /\ Mounted("SyncActivity")' => Mounted("SyncActivity")
<1>1. /\ stack' \in Seq(Routes) /\ stack' # <<>>
      /\ \A i \in DOMAIN stack' : stack'[i] = r \/ (i \in DOMAIN stack /\ stack'[i] = stack[i])
  BY Pushing DEF StackTypes
<1> QED
  BY <1>1 DEF StackTypes, Mounted

\* The screen changes its dialog, and maybe the scanner opens over it.
LEMMA DialogStep ==
  ASSUME PairingInv, stack # <<>>,
         UNCHANGED <<nativeVars, queue, recentVars, verify, due, boot, timers, mounts, seen>>,
         scr' \in Screens, scr'.devices = scr.devices, scr'.guide = scr.guide,
         scr'.ref = scr.ref,
         \/ UNCHANGED <<stack, scanner>>
         \/ /\ stack' = Append(stack, Route("QRScanner", "initial"))
            /\ scanner' = "checking"
  PROVE  PairingInv'
<1>1. NativeTypes' /\ UNCHANGED <<bound, missed, recents, stored>>
  BY NativeSame DEF PairingInv, nativeVars, recentVars
<1>2. CASE UNCHANGED <<stack, scanner>>
  BY <1>1, <1>2, PlainChange
<1>3. CASE stack' = Append(stack, Route("QRScanner", "initial")) /\ scanner' = "checking"
  <2>1. PICK r \in Routes : r = Route("QRScanner", "initial") /\ r.name # "SyncActivity"
    BY RouteTypes
  <2>2. /\ StackTypes' /\ stack' # <<>>
        /\ Mounted("SyncActivity")' => Mounted("SyncActivity")
    BY <1>3, <2>1, OneMore DEF PairingInv
  <2>3. QueueTypes' /\ QuietInv' /\ AnswerInv' /\ HomeInv'
    BY <1>1, <2>2, Moved DEF PairingInv
  <2>4. RefInv'
    BY DEF PairingInv, ScreenTypes, RefInv
  <2>5. ScreenTypes'
    BY <2>4, ScreenChanges DEF PairingInv
  <2>6. OtherTypes' /\ RecentTypes'
    BY <1>1, <1>3 DEF PairingInv, OtherTypes, RecentTypes
  <2> QED
    BY <1>1, <2>2, <2>3, <2>5, <2>6 DEF PairingInv
<1> QED
  BY <1>2, <1>3

LEMMA ChooseScanStep ==
  ASSUME PairingInv, ChooseScan
  PROVE  PairingInv'
<1>1. stack # <<>> /\ scr \in Screens
  BY EnterMeansStack DEF ChooseScan, MethodStep, PairingInv, ScreenTypes
<1>2. \/ scr' = [scr EXCEPT !.step = "none"]
      \/ scr' = [scr EXCEPT !.step = "cameraPermission"]
  BY DEF ChooseScan, OpenScanner
<1>3. /\ scr' \in Screens /\ scr'.devices = scr.devices /\ scr'.guide = scr.guide
      /\ scr'.ref = scr.ref
  BY <1>1, <1>2 DEF Screens, Failures
<1> QED
  BY <1>1, <1>3, DialogStep DEF ChooseScan, OpenScanner

LEMMA AnswerCameraStep ==
  ASSUME PairingInv, AnswerCamera
  PROVE  PairingInv'
<1>1. stack # <<>> /\ scr \in Screens
  BY EnterMeansStack DEF AnswerCamera, CameraStep, PairingInv, ScreenTypes
<1>2. \/ scr' = [scr EXCEPT !.step = "none"]
      \/ scr' = [scr EXCEPT !.step = "none", !.status = "cameraDenied"]
  BY DEF AnswerCamera, OpenScanner
<1>3. /\ scr' \in Screens /\ scr'.devices = scr.devices /\ scr'.guide = scr.guide
      /\ scr'.ref = scr.ref
  BY <1>1, <1>2 DEF Screens, Failures
<1> QED
  BY <1>1, <1>3, DialogStep DEF AnswerCamera, OpenScanner

-----------------------------------------------------------------------------
(* The QR code. *)

\* A step of the scanner or of CodeVerifyScreen.
LEMMA CodeStepKeeps ==
  ASSUME PairingInv, stack # <<>>, NativeTypes', OtherTypes',
         UNCHANGED <<stack, bound, missed, queue, recentVars, screenVars>>
  PROVE  PairingInv'
<1>1. StackTypes' /\ QueueTypes' /\ QuietInv' /\ AnswerInv' /\ HomeInv'
  BY Kept DEF PairingInv
<1>2. ScreenTypes'
  BY ScreenSame DEF PairingInv, screenVars
<1>3. RecentTypes'
  BY DEF PairingInv, RecentTypes, recentVars
<1> QED
  BY <1>1, <1>2, <1>3 DEF PairingInv

LEMMA CameraAnsweredStep ==
  ASSUME PairingInv, PairingAssumption, CameraAnswered
  PROVE  PairingInv'
<1>1. NativeTypes' /\ stack # <<>>
  BY NativeSame DEF CameraAnswered, PairingInv, nativeVars, QuietInv
<1>2. OtherTypes'
  BY DEF CameraAnswered, PairingInv, OtherTypes, PairingAssumption
<1> QED
  BY <1>1, <1>2, CodeStepKeeps DEF CameraAnswered, nativeVars

LEMMA CameraReturnsStep ==
  ASSUME PairingInv, PairingAssumption, CameraReturns
  PROVE  PairingInv'
<1>1. NativeTypes' /\ stack # <<>>
  BY NativeSame DEF CameraReturns, PairingInv, nativeVars, QuietInv
<1>2. OtherTypes'
  BY DEF CameraReturns, PairingInv, OtherTypes, PairingAssumption
<1> QED
  BY <1>1, <1>2, CodeStepKeeps DEF CameraReturns, nativeVars

LEMMA CodeScannedStep ==
  ASSUME PairingInv, CodeScanned
  PROVE  PairingInv'
<1>1. NativeTypes' /\ stack # <<>>
  BY NativeSame DEF CodeScanned, PairingInv, nativeVars, QuietInv
<1>2. OtherTypes'
  BY DEF CodeScanned, PairingInv, OtherTypes
<1> QED
  BY <1>1, <1>2, CodeStepKeeps DEF CodeScanned, nativeVars

LEMMA CodeOpensStep ==
  ASSUME PairingInv, PairingAssumption, CodeOpens
  PROVE  PairingInv'
<1>1. stack # <<>>
  BY DEF CodeOpens, PairingInv, QuietInv
<1>2. PICK r \in Routes : r = Route("CodeVerify", "initial") /\ r.name # "SyncActivity"
  BY RouteTypes
<1>3. PICK s : s = [stack EXCEPT ![Len(stack)] = r]
  OBVIOUS
<1>4. /\ s \in Seq(Routes) /\ s # <<>>
      /\ \A i \in DOMAIN s : s[i] = r \/ (i \in DOMAIN stack /\ s[i] = stack[i])
  BY <1>1, <1>3, Replacing DEF PairingInv, StackTypes
<1>5. PICK six \in BOOLEAN :
        /\ stack' = s
        /\ verify' = [NoVerify EXCEPT !.on = TRUE, !.timer = six]
        /\ scanner' = IF \E i \in DOMAIN s : s[i].name = "QRScanner" THEN scanner ELSE "none"
        /\ IF \E i \in DOMAIN s : s[i].name = "DeviceDiscovery" THEN UNCHANGED screenVars
           ELSE UNCHANGED <<mounts, seen>> /\ scr' = NoScreen /\ boot' = "none" /\ timers' = 0
  BY <1>2, <1>3 DEF CodeOpens
<1>6. UNCHANGED <<bound, invalidated, known, pairing, missed, queue, recents, stored>> /\ due' = FALSE
  BY DEF CodeOpens, nativeVars, recentVars
<1>7. NativeTypes' /\ RecentTypes'
  BY <1>6, NativeSame DEF PairingInv, RecentTypes
<1>8. verify' \in Verifies
  BY <1>5 DEF NoVerify, Verifies
<1>9. OtherTypes'
  BY <1>5, <1>6, <1>8 DEF PairingInv, OtherTypes
<1>10. ScreenTypes'
  <2>1. CASE UNCHANGED screenVars
    BY <2>1, ScreenSame DEF PairingInv, screenVars
  <2>2. CASE UNCHANGED <<mounts, seen>> /\ scr' = NoScreen /\ boot' = "none" /\ timers' = 0
    <3>1. scr' \in Screens /\ scr'.devices = {} /\ scr'.guide = 0
      BY <2>2, BlankScreens
    <3>2. timers' \in 0..MaxTimers
      BY <2>2 DEF PairingAssumption
    <3> QED
      BY <2>2, <3>1, <3>2 DEF PairingInv, ScreenTypes, RefInv
  <2> QED
    BY <1>5, <2>1, <2>2
<1>11. StackTypes' /\ stack' # <<>> /\ (Mounted("SyncActivity")' => Mounted("SyncActivity"))
  BY <1>2, <1>4, <1>5 DEF StackTypes, Mounted
<1>12. QueueTypes' /\ QuietInv' /\ AnswerInv' /\ HomeInv'
  BY <1>6, <1>11, Moved DEF PairingInv
<1> QED
  BY <1>7, <1>9, <1>10, <1>11, <1>12 DEF PairingInv

LEMMA SubmitCodeStep ==
  ASSUME PairingInv, NEW by \in {"typed", "timer"}, SubmitCode(by)
  PROVE  PairingInv'
<1>1. stack # <<>>
  BY DEF SubmitCode, PairingInv, QuietInv
<1>2. PICK q \in Requests : q = [by |-> by, id |-> QrId, inst |-> 0]
  BY DEF Requests, Ids
<1>3. StartPair(q)
  BY <1>2 DEF SubmitCode
<1>4. NativeTypes' /\ UNCHANGED <<bound, missed>>
  BY <1>3, Starting DEF PairingInv
<1>5. verify \in Verifies /\ verify.timer \in BOOLEAN
  BY DEF PairingInv, OtherTypes, Verifies
<1>6. PICK t \in BOOLEAN : t = (verify.timer /\ by # "timer")
  OBVIOUS
<1>7. verify' = [verify EXCEPT !.verifying = TRUE, !.error = "none", !.timer = t]
  BY <1>6 DEF SubmitCode
<1>8. verify' \in Verifies
  BY <1>5, <1>7 DEF Verifies
<1>9. OtherTypes'
  BY <1>8 DEF SubmitCode, PairingInv, OtherTypes
<1> QED
  BY <1>1, <1>4, <1>9, CodeStepKeeps DEF SubmitCode

LEMMA OpenTutorialStep ==
  ASSUME PairingInv, OpenTutorial
  PROVE  PairingInv'
<1>1. PICK r \in Routes : r = Route("ConnectionTutorial", "initial") /\ r.name # "SyncActivity"
  BY RouteTypes
<1>2. /\ StackTypes' /\ stack' # <<>>
      /\ Mounted("SyncActivity")' => Mounted("SyncActivity")
  BY <1>1, OneMore DEF OpenTutorial, PairingInv
<1>3. NativeTypes' /\ ScreenTypes' /\ OtherTypes'
  BY NativeSame, ScreenSame, OtherSame
  DEF OpenTutorial, PairingInv, nativeVars, screenVars, otherVars
<1>4. QueueTypes' /\ QuietInv' /\ AnswerInv' /\ HomeInv'
  BY <1>2, Moved DEF OpenTutorial, PairingInv, nativeVars
<1>5. RecentTypes'
  BY DEF OpenTutorial, PairingInv, RecentTypes, recentVars
<1> QED
  BY <1>2, <1>3, <1>4, <1>5 DEF PairingInv

-----------------------------------------------------------------------------
(* Between the screens. *)

\* Going somewhere that is not home, or was home already.
LEMMA GoToStep ==
  ASSUME PairingInv, PairingAssumption, NEW s \in Seq(Routes), NEW fresh, GoTo(s, fresh),
         s # <<>>, (\E i \in DOMAIN s : s[i].name = "SyncActivity") => Mounted("SyncActivity"),
         UNCHANGED <<nativeVars, queue, recentVars, due>>
  PROVE  PairingInv'
<1>1. stack' = s /\ StackTypes' /\ ScreenTypes' /\ OtherTypes'
  BY GoingTo DEF PairingInv
<1>2. NativeTypes' /\ RecentTypes'
  BY NativeSame DEF PairingInv, nativeVars, recentVars, RecentTypes
<1>3. QueueTypes' /\ QuietInv' /\ AnswerInv' /\ HomeInv'
  BY <1>1, Moved DEF PairingInv, nativeVars, Mounted
<1> QED
  BY <1>1, <1>2, <1>3 DEF PairingInv

LEMMA BackStep ==
  ASSUME PairingInv, PairingAssumption, Back
  PROVE  PairingInv'
<1>1. PICK s : s = SubSeq(stack, 1, Len(stack) - 1)
  OBVIOUS
<1>2. Len(stack) > 1 /\ GoTo(s, FALSE)
  BY <1>1 DEF Back
<1>3. /\ s \in Seq(Routes) /\ s # <<>>
      /\ \A i \in DOMAIN s : i \in DOMAIN stack /\ s[i] = stack[i]
  BY <1>1, <1>2, Popping DEF PairingInv, StackTypes
<1>4. (\E i \in DOMAIN s : s[i].name = "SyncActivity") => Mounted("SyncActivity")
  BY <1>3 DEF Mounted
<1> QED
  BY <1>2, <1>3, <1>4, GoToStep DEF Back

LEMMA BackToScanStep ==
  ASSUME PairingInv, PairingAssumption, BackToScan
  PROVE  PairingInv'
<1>1. PICK r \in Routes : r = Route("DeviceDiscovery", "initial") /\ r.name # "SyncActivity"
  BY RouteTypes
<1>2. PICK s \in Seq(Routes) : s = <<r>> /\ s # <<>> /\ DOMAIN s = {1} /\ s[1] = r
  BY OneRoute
<1>3. GoTo(s, TRUE)
  BY <1>1, <1>2 DEF BackToScan
<1>4. (\E i \in DOMAIN s : s[i].name = "SyncActivity") => Mounted("SyncActivity")
  BY <1>1, <1>2
<1> QED
  BY <1>2, <1>3, <1>4, GoToStep DEF BackToScan

LEMMA SwitchComputerStep ==
  ASSUME PairingInv, PairingAssumption, SwitchComputer
  PROVE  PairingInv'
<1>1. PICK r \in Routes : r = Route("DeviceDiscovery", "switch") /\ r.name # "SyncActivity"
  BY RouteTypes
<1>2. PICK s : s = Append(stack, r)
  OBVIOUS
<1>3. /\ s \in Seq(Routes) /\ s # <<>>
      /\ \A i \in DOMAIN s : s[i] = r \/ (i \in DOMAIN stack /\ s[i] = stack[i])
  BY <1>2, Pushing DEF PairingInv, StackTypes
<1>4. GoTo(s, TRUE)
  BY <1>1, <1>2 DEF SwitchComputer
<1>5. (\E i \in DOMAIN s : s[i].name = "SyncActivity") => Mounted("SyncActivity")
  BY <1>1, <1>3 DEF Mounted
<1> QED
  BY <1>3, <1>4, <1>5, GoToStep DEF SwitchComputer

-----------------------------------------------------------------------------
(* Messages from native. *)

\* One message less: what was told behind it is told still.
LEMMA Receiving ==
  ASSUME QueueTypes, AnswerInv, queue # <<>>, queue' = Tail(queue), UNCHANGED bound,
         missed' \/ UNCHANGED missed
  PROVE  /\ QueueTypes' /\ AnswerInv'
         /\ Head(queue) \in Messages /\ 1 \in DOMAIN queue /\ queue[1] = Head(queue)
         /\ Told(1) => Told(0)'
         /\ Head(queue).type # "invalidated" /\ Told(0) => Told(0)'
<1>1. /\ Head(queue) \in Messages /\ queue' \in Seq(Messages) /\ Head(queue) = queue[1]
      /\ DOMAIN queue' = 1..(Len(queue) - 1) /\ Len(queue) >= 1 /\ DOMAIN queue = 1..Len(queue)
      /\ \A i \in 1..(Len(queue) - 1) : queue'[i] = queue[i + 1]
  BY Taking DEF QueueTypes
<1>2. Len(queue) \in Nat
  BY DEF QueueTypes
<1>3. ASSUME NEW k \in Nat, Told(k + 1) PROVE Told(k)'
  <2>1. CASE bound # None
    BY <2>1 DEF Told
  <2>2. CASE \E j \in DOMAIN queue : j > k + 1 /\ queue[j].type = "invalidated"
    <3>1. PICK j \in DOMAIN queue : j > k + 1 /\ queue[j].type = "invalidated"
      BY <2>2
    <3>2. j - 1 \in DOMAIN queue' /\ j - 1 > k /\ queue'[j - 1] = queue[j]
      BY <1>1, <1>2, <3>1
    <3> QED
      BY <3>1, <3>2 DEF Told
  <2> QED
    BY <1>3, <2>1, <2>2 DEF Told
<1>4. AnswerInv'
  <2> SUFFICES ASSUME NEW i \in DOMAIN queue', queue'[i].type = "pair", queue'[i].outcome = "ok",
                      ~missed'
               PROVE  Told(i)'
    BY DEF AnswerInv
  <2>1. i + 1 \in DOMAIN queue /\ queue'[i] = queue[i + 1] /\ i \in Nat
    BY <1>1, <1>2
  <2>2. Told(i + 1)
    BY <2>1 DEF AnswerInv
  <2> QED
    BY <1>3, <2>1, <2>2
<1>5. 1 \in DOMAIN queue
  BY <1>1, <1>2
<1>6. Told(1) => Told(0)'
  <2>1. Told(1) => Told(0 + 1)
    OBVIOUS
  <2> QED
    BY <1>3, <2>1
<1>7. ASSUME Head(queue).type # "invalidated", Told(0) PROVE Told(1)
  <2>1. CASE bound # None
    BY <2>1 DEF Told
  <2>2. CASE \E j \in DOMAIN queue : j > 0 /\ queue[j].type = "invalidated"
    <3>1. PICK j \in DOMAIN queue : j > 0 /\ queue[j].type = "invalidated"
      BY <2>2
    <3>2. j # 1
      BY <1>1, <1>7, <3>1
    <3>3. j > 1
      BY <1>1, <1>2, <3>1, <3>2
    <3> QED
      BY <3>1, <3>3 DEF Told
  <2> QED
    BY <1>7, <2>1, <2>2 DEF Told
<1> QED
  BY <1>1, <1>4, <1>5, <1>6, <1>7 DEF QueueTypes

LEMMA FailureTypes ==
  \A outcome : Failure(outcome) \in Failures /\ VerifyError(outcome) \in
    {"versionMismatch", "wrongCode", "clientBlocked", "tokenInvalid", "connectFailed"}
<1> SUFFICES ASSUME NEW outcome
             PROVE  /\ Failure(outcome) \in Failures
                    /\ VerifyError(outcome) \in
                         {"versionMismatch", "wrongCode", "clientBlocked", "tokenInvalid",
                          "connectFailed"}
  OBVIOUS
<1>1. PairErrorCode(outcome) \in {"wrong_code", "blocked", "version_incompatible", "unknown"}
  BY DEF PairErrorCode
<1>2. Failure(outcome) \in Failures
  BY <1>1 DEF Failure, Failures
<1>3. PICK e : e = [code |-> PairErrorCode(outcome)]
  OBVIOUS
<1>4. VerifyError(outcome) = CASE e.code = "version_incompatible" -> "versionMismatch"
                               [] e.code = "wrong_code" -> "wrongCode"
                               [] e.code = "blocked" -> "clientBlocked"
                               [] NativeErrorCode(e) = "PAIR_TOKEN_INVALID" -> "tokenInvalid"
                               [] OTHER -> "connectFailed"
  BY <1>3 DEF VerifyError
<1>5. e.code \in {"wrong_code", "blocked", "version_incompatible", "unknown"}
  BY <1>1, <1>3
<1>6. NativeErrorCode(e) # "PAIR_TOKEN_INVALID"
  BY <1>5 DEF NativeErrorCode, NativeCodes
<1> QED
  BY <1>2, <1>4, <1>5, <1>6

\* pairDevice went well: home, where a desktop is bound or its end is told behind.
LEMMA PairOkStep ==
  ASSUME PairingInv, PairingAssumption, queue # <<>>, queue' = Tail(queue),
         Head(queue).type = "pair", Head(queue).outcome = "ok", TakePairOk(Head(queue).request),
         UNCHANGED <<due, bound, invalidated, known, pairing>>
  PROVE  PairingInv'
<1>1. /\ QueueTypes' /\ AnswerInv' /\ Head(queue) \in Messages /\ 1 \in DOMAIN queue
      /\ queue[1] = Head(queue) /\ (Told(1) => Told(0)')
  BY Receiving DEF TakePairOk, PairingInv
<1>2. ~missed' => Told(0)'
  BY <1>1 DEF TakePairOk, PairingInv, AnswerInv
<1>3. Head(queue).request.id \in Ids
  BY <1>1 DEF Messages, Requests
<1>4. RecentTypes'
  BY <1>3 DEF TakePairOk, AddDesktop, PairingInv, RecentTypes
<1>5. PICK r \in Routes : r = Route("SyncActivity", "initial")
  BY RouteTypes
<1>6. PICK s \in Seq(Routes) : s = <<r>> /\ s # <<>>
  BY OneRoute
<1>7. GoTo(s, FALSE)
  BY <1>5, <1>6 DEF TakePairOk, Home
<1>8. stack' = s /\ StackTypes' /\ ScreenTypes' /\ OtherTypes'
  BY <1>7, GoingTo DEF PairingInv
<1>9. NativeTypes'
  BY NativeSame DEF PairingInv
<1>10. QuietInv' /\ HomeInv'
  BY <1>2, <1>6, <1>8 DEF QuietInv, HomeInv
<1> QED
  BY <1>1, <1>4, <1>8, <1>9, <1>10 DEF PairingInv

\* A message that leaves the screens where they are.
LEMMA StayingStep ==
  ASSUME PairingInv, stack # <<>>, queue # <<>>, queue' = Tail(queue),
         Head(queue).type # "invalidated",
         UNCHANGED <<stack, missed, due, bound, invalidated, known, pairing>>,
         ScreenTypes', OtherTypes', RecentTypes'
  PROVE  PairingInv'
<1>1. QueueTypes' /\ AnswerInv' /\ (Told(0) => Told(0)')
  BY Receiving DEF PairingInv
<1>2. NativeTypes' /\ StackTypes' /\ QuietInv'
  BY NativeSame DEF PairingInv, StackTypes, QuietInv
<1>3. HomeInv'
  BY <1>1 DEF PairingInv, HomeInv, Mounted
<1> QED
  BY <1>1, <1>2, <1>3 DEF PairingInv

LEMMA PairErrorStep ==
  ASSUME PairingInv, stack # <<>>, queue # <<>>, queue' = Tail(queue),
         Head(queue).type = "pair", TakePairError(Head(queue).request, Head(queue).outcome),
         UNCHANGED <<due, bound, invalidated, known, pairing>>
  PROVE  PairingInv'
<1>1. PICK f \in Failures : f = Failure(Head(queue).outcome)
  BY FailureTypes
<1>2. PICK x : x = VerifyError(Head(queue).outcome)
  OBVIOUS
<1>3. x \in {"versionMismatch", "wrongCode", "clientBlocked", "tokenInvalid", "connectFailed"}
  BY <1>2, FailureTypes
<1>4. \/ scr' = scr
      \/ scr' = [scr EXCEPT !.verifying = FALSE, !.step = "code"]
      \/ scr' = [scr EXCEPT !.verifying = FALSE, !.failure = "wrong_code"]
      \/ scr' = [scr EXCEPT !.verifying = FALSE, !.failure = f, !.step = "none",
                            !.status = "failed"]
  BY <1>1 DEF TakePairError
<1>5. /\ scr' \in Screens /\ scr'.devices = scr.devices /\ scr'.guide = scr.guide
      /\ scr'.ref = scr.ref
  BY <1>4 DEF PairingInv, ScreenTypes, Screens, Failures
<1>6. RefInv'
  BY <1>5 DEF TakePairError, PairingInv, ScreenTypes, RefInv
<1>7. ScreenTypes'
  BY <1>5, <1>6, ScreenChanges DEF PairingInv, TakePairError
<1>8. verify' = verify \/ verify' = [verify EXCEPT !.verifying = FALSE, !.error = x]
  BY <1>2 DEF TakePairError
<1>9. verify' \in Verifies
  BY <1>3, <1>8 DEF PairingInv, OtherTypes, Verifies
<1>10. OtherTypes'
  BY <1>9 DEF TakePairError, PairingInv, OtherTypes
<1>11. RecentTypes'
  BY DEF TakePairError, UpdateAuthStatus, PairingInv, RecentTypes
<1>12. UNCHANGED <<stack, missed>>
  BY DEF TakePairError
<1> QED
  BY <1>7, <1>10, <1>11, <1>12, StayingStep

\* The best device of each address is a device; nothing is made of an empty list.
LEMMA NormalizedTypes ==
  ASSUME NEW raw \in Seq(Devices)
  PROVE  Normalized(raw) \in SUBSET Devices /\ (raw = <<>> => Normalized(raw) = {})
<1>1. \A i \in DOMAIN raw : raw[i] \in Devices
  OBVIOUS
<1>2. \A d \in Normalized(raw) : \E i \in DOMAIN raw : d = raw[i]
  BY DEF Normalized
<1>3. raw = <<>> => DOMAIN raw = {}
  OBVIOUS
<1> QED
  BY <1>1, <1>2, <1>3

LEMMA DevicesStep ==
  ASSUME PairingInv, stack # <<>>, queue # <<>>, queue' = Tail(queue),
         Head(queue).type = "devices", TakeDevices(Head(queue).raw),
         UNCHANGED <<due, bound, invalidated, known, pairing, recentVars, verify, scanner>>
  PROVE  PairingInv'
<1>1. Head(queue) \in Messages
  BY Taking DEF PairingInv, QueueTypes
<1>2. PICK raw \in Seq(Devices) : raw = Head(queue).raw
  BY <1>1 DEF Messages
<1>3. PICK ds \in SUBSET Devices : ds = Normalized(raw) /\ (raw = <<>> => ds = {})
  BY NormalizedTypes
<1>4. PICK b \in BOOLEAN : b = (scr.scanning /\ raw = <<>>)
  OBVIOUS
<1>5. UNCHANGED <<stack, missed, timers, mounts, seen>>
  BY DEF TakeDevices
<1>6. boot' \in {"none", "stopping", "starting", "timed", "idle"}
  BY DEF TakeDevices, PairingInv, ScreenTypes
<1>7. \/ scr' = scr
      \/ scr' = [scr EXCEPT !.devices = ds, !.scanning = b,
                            !.status = IF raw = <<>> THEN @ ELSE "ready"]
  BY <1>2, <1>3, <1>4 DEF TakeDevices
<1>8. scr' \in Screens /\ scr'.guide = scr.guide
  BY <1>7 DEF PairingInv, ScreenTypes, Screens, Failures
<1>9. scr' # scr => scr'.devices = ds
  BY <1>7 DEF PairingInv, ScreenTypes, Screens
<1>10. RefInv'
  <2>1. CASE scr' = scr
    BY <2>1 DEF TakeDevices, PairingInv, ScreenTypes, RefInv
  <2>2. CASE scr' # scr /\ raw = <<>>
    BY <1>3, <1>9, <2>2 DEF RefInv
  <2>3. CASE scr' # scr /\ raw # <<>>
    BY <1>2, <2>3 DEF TakeDevices, RefInv
  <2> QED
    BY <2>1, <2>2, <2>3
<1>11. ScreenTypes'
  BY <1>5, <1>6, <1>8, <1>10 DEF PairingInv, ScreenTypes
<1>12. OtherTypes' /\ RecentTypes'
  BY DEF PairingInv, OtherTypes, RecentTypes, recentVars
<1> QED
  BY <1>5, <1>11, <1>12, StayingStep

\* The news that the pairing is over: back to the scan, or one that was missed.
LEMMA InvalidationStep ==
  ASSUME PairingInv, PairingAssumption, stack # <<>>, queue # <<>>, queue' = Tail(queue),
         TakeInvalidation,
         UNCHANGED <<due, bound, invalidated, known, pairing, recentVars>>
  PROVE  PairingInv'
<1>1. missed' \/ UNCHANGED missed
  BY DEF TakeInvalidation
<1>2. QueueTypes' /\ AnswerInv'
  BY <1>1, Receiving DEF PairingInv
<1>3. NativeTypes' /\ RecentTypes'
  BY NativeSame DEF PairingInv, RecentTypes, recentVars
<1>4. CASE resetting
  <2>1. missed' = TRUE /\ UNCHANGED <<stack, verify, scanner, screenVars>>
    BY <1>4 DEF TakeInvalidation
  <2>2. ScreenTypes' /\ OtherTypes'
    BY <2>1, ScreenSame, OtherSame DEF PairingInv, screenVars
  <2>3. StackTypes' /\ QuietInv' /\ HomeInv'
    BY <2>1 DEF PairingInv, StackTypes, QuietInv, HomeInv
  <2> QED
    BY <1>2, <1>3, <2>2, <2>3 DEF PairingInv
<1>5. CASE ~resetting
  <2>1. PICK r \in Routes : r = Route("DeviceDiscovery", "initial") /\ r.name # "SyncActivity"
    BY RouteTypes
  <2>2. PICK s \in Seq(Routes) : s = <<r>> /\ s # <<>> /\ DOMAIN s = {1} /\ s[1] = r
    BY OneRoute
  <2>3. GoTo(s, TRUE)
    BY <1>5, <2>1, <2>2 DEF TakeInvalidation
  <2>4. stack' = s /\ StackTypes' /\ ScreenTypes' /\ OtherTypes'
    BY <2>3, GoingTo DEF PairingInv
  <2>5. QuietInv' /\ HomeInv'
    BY <2>1, <2>2, <2>4 DEF QuietInv, HomeInv, Mounted
  <2> QED
    BY <1>2, <1>3, <2>4, <2>5 DEF PairingInv
<1> QED
  BY <1>4, <1>5

LEMMA ReceiveStep ==
  ASSUME PairingInv, PairingAssumption, Receive
  PROVE  PairingInv'
<1>1. /\ stack # <<>> /\ queue # <<>> /\ queue' = Tail(queue)
      /\ UNCHANGED <<due, bound, invalidated, known, pairing>>
  BY DEF Receive
<1>2. CASE /\ Head(queue).type = "pair" /\ Head(queue).outcome = "ok"
           /\ TakePairOk(Head(queue).request)
  BY <1>1, <1>2, PairOkStep
<1>3. CASE /\ Head(queue).type = "pair"
           /\ TakePairError(Head(queue).request, Head(queue).outcome)
  BY <1>1, <1>3, PairErrorStep
<1>4. CASE /\ Head(queue).type = "devices" /\ TakeDevices(Head(queue).raw)
           /\ UNCHANGED <<recentVars, verify, scanner>>
  BY <1>1, <1>4, DevicesStep
<1>5. CASE TakeInvalidation /\ UNCHANGED recentVars
  BY <1>1, <1>5, InvalidationStep
<1> QED
  BY <1>2, <1>3, <1>4, <1>5 DEF Receive

-----------------------------------------------------------------------------
(* The theorems. *)

LEMMA PairingInit == PairingAssumption /\ Init => PairingInv
<1> SUFFICES ASSUME PairingAssumption, Init PROVE PairingInv
  OBVIOUS
<1>1. NativeTypes /\ RecentTypes
  BY DEF Init, NativeTypes, RecentTypes, Ids
<1>2. QueueTypes /\ StackTypes
  BY DEF Init, QueueTypes, StackTypes
<1>3. ScreenTypes
  BY BlankScreens DEF Init, PairingAssumption, ScreenTypes, RefInv
<1>4. OtherTypes
  BY DEF Init, OtherTypes, Verifies, NoVerify
<1>5. QuietInv
  BY DEF Init, QuietInv, NoVerify
<1>6. AnswerInv
  BY DEF Init, AnswerInv
<1>7. HomeInv
  BY DEF Init, HomeInv, Mounted
<1> QED
  BY <1>1, <1>2, <1>3, <1>4, <1>5, <1>6, <1>7 DEF PairingInv

LEMMA PairingStep == PairingAssumption /\ PairingInv /\ [Next]_vars => PairingInv'
<1> SUFFICES ASSUME PairingAssumption, PairingInv, [Next]_vars PROVE PairingInv'
  OBVIOUS
<1>1. CASE Native
  BY <1>1, PairEndsStep, InvalidateStep, DiscoversStep DEF Native
<1>2. CASE Timers
  BY <1>2, ResetTimerStep, DiscoveryTimeoutStep, RescanTimeoutStep, BootPermissionStep,
     BootStartedStep, RefFollowsStep, CodeOpensStep, SubmitCodeStep
  DEF Timers
<1>3. CASE User
  <2>1. CASE \/ HandleRescan \/ ShowGuide \/ ContinuePreview \/ DismissGuide \/ OpenMethod
             \/ CardAction \/ ChooseScan \/ ChooseManual \/ AnswerCamera \/ VerifyCode
             \/ CloseModal
    BY <2>1, HandleRescanStep, ShowGuideStep, ContinuePreviewStep, DismissGuideStep,
       OpenMethodStep, CardActionStep, ChooseScanStep, ChooseManualStep, AnswerCameraStep,
       VerifyCodeStep, CloseModalStep
  <2>2. CASE \/ CameraAnswered \/ CameraReturns \/ CodeScanned \/ SubmitCode("typed")
             \/ OpenTutorial \/ Back \/ BackToScan \/ SwitchComputer
    BY <2>2, CameraAnsweredStep, CameraReturnsStep, CodeScannedStep, SubmitCodeStep,
       OpenTutorialStep, BackStep, BackToScanStep, SwitchComputerStep
  <2>3. CASE \E d \in scr.devices, busy \in BOOLEAN : OpenDevice(d, busy)
    BY <2>3, OpenDeviceStep
  <2>4. CASE \E r \in recents : OpenRecent(r)
    BY <2>4, OpenRecentStep
  <2>5. CASE \E h \in ManualHosts : ManualPair(h)
    BY <2>5, ManualPairStep
  <2> QED
    BY <1>3, <2>1, <2>2, <2>3, <2>4, <2>5 DEF User
<1>4. CASE Receive \/ Decide \/ Decided \/ LoadRecents \/ SwitchBootstrap
  BY <1>4, ReceiveStep, DecideStep, DecidedStep, LoadRecentsStep, SwitchBootstrapStep
<1>5. CASE UNCHANGED vars
  <2>1. UNCHANGED <<stack, bound, invalidated, known, pairing, missed, queue, recents, stored,
                    verify, due, scanner, scr, boot, timers, mounts, seen>>
    BY <1>5 DEF vars, nativeVars, recentVars, otherVars, screenVars
  <2>2. NativeTypes' /\ ScreenTypes'
    BY <2>1, NativeSame, ScreenSame DEF PairingInv
  <2> QED
    BY <2>1, <2>2, ScreenStep
<1> QED
  BY <1>1, <1>2, <1>3, <1>4, <1>5 DEF Next

LEMMA PairingAlways == ASSUME PairingAssumption PROVE Spec => []PairingInv
<1>1. Init => PairingInv
  BY PairingInit
<1>2. PairingInv /\ [Next]_vars => PairingInv'
  BY PairingStep
<1> QED
  BY <1>1, <1>2, PTL DEF Spec

LEMMA PairingImplies == PairingInv => TypeOK /\ HomeIsBound
<1> SUFFICES ASSUME PairingInv PROVE TypeOK /\ HomeIsBound
  OBVIOUS
<1>1. scr.selected \in Ids \cup {None} /\ scr.guide \in 0..Len(GuideSteps)
  BY DEF PairingInv, ScreenTypes, Screens
<1>2. TypeOK
  BY <1>1 DEF PairingInv, NativeTypes, RecentTypes, ScreenTypes, OtherTypes, TypeOK
<1>3. HomeIsBound
  BY DEF PairingInv, HomeInv, Told, HomeIsBound
<1> QED
  BY <1>2, <1>3

\* The variables of the way to a desktop keep their types, and the guide that was
\* dismissed is not shown again (markUnconnectedGuideSeen).
THEOREM PairingTypeCorrect ==
  ASSUME PairingAssumption
  PROVE  Spec => []TypeOK
<1>1. PairingInv => TypeOK
  BY PairingImplies
<1> QED
  BY <1>1, PairingAlways, PTL

\* The timer of the first scan never says that nothing was found while computers are
\* shown, whichever lists, rescans and effects come before it: devices that are found end
\* it, and those that were there before it was set are in devicesRef when it ends.
THEOREM FirstScanIsTrue ==
  ASSUME PairingAssumption
  PROVE  Spec => FirstScanTrue
<1>1. PairingInv /\ [Next]_vars
        => [DiscoveryTimeout /\ scr.devices # {} => scr'.status = scr.status]_vars
  <2> SUFFICES ASSUME PairingInv, DiscoveryTimeout, scr.devices # {}
               PROVE  scr'.status = scr.status
    OBVIOUS
  <2>1. scr.ref # {}
    BY DEF DiscoveryTimeout, PairingInv, ScreenTypes, RefInv
  <2> QED
    BY <2>1, ScanIsOver DEF DiscoveryTimeout, PairingInv
<1> QED
  BY <1>1, PairingAlways, PTL DEF Spec, FirstScanTrue

\* Outside of the two windows in which PairingInvalidationWatcher misses an event, the home
\* screen is mounted only while a desktop is bound or the invalidation is on its way to it,
\* for any number of answers of pairDevice and invalidations in the queue.
THEOREM HomeMeansBound ==
  ASSUME PairingAssumption
  PROVE  Spec => []HomeIsBound
<1>1. PairingInv => HomeIsBound
  BY PairingImplies
<1> QED
  BY <1>1, PairingAlways, PTL

=============================================================================
