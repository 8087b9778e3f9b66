------------------------------ MODULE Delivery ------------------------------
(***************************************************************************)
(* What the phone and the sidecar promise together about an upload, with   *)
(* nothing of how: no frames, offsets, rows, .part files or goroutines.    *)
(* UploadReceiver is shown to implement it.                                *)
(***************************************************************************)
CONSTANT Keys   \* files in the phone's queue

VARIABLES
  copies,   \* files with a whole copy among the received files
  told,     \* files the phone has crossed off its queue
  lost      \* files of which the user deleted a received copy

vars == <<copies, told, lost>>

Init == copies = {} /\ told = {} /\ lost = {}

\* A file becomes visible whole, in one step.
Arrive(k) == k \notin copies /\ copies' = copies \cup {k} /\ UNCHANGED <<told, lost>>

\* The phone crosses off what is there, or was until its user deleted it.
Confirm(k) == /\ k \in (copies \cup lost) \ told /\ told' = told \cup {k}
              /\ UNCHANGED <<copies, lost>>

\* Only the user removes a copy; there may be another one of the same file.
Remove(k) == /\ k \in copies /\ copies' \in {copies, copies \ {k}}
             /\ lost' = lost \cup {k} /\ UNCHANGED told

\* The phone may offer a file again.
Offer(k) == k \in told /\ told' = told \ {k} /\ UNCHANGED <<copies, lost>>

Next == \E k \in Keys : Arrive(k) \/ Confirm(k) \/ Remove(k) \/ Offer(k)

Spec == Init /\ [][Next]_vars

=============================================================================
