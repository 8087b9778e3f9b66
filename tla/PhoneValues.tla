----------------------------- MODULE PhoneValues -----------------------------
(***************************************************************************)
(* What the modules of the phone's screens share: the value that stands    *)
(* for null and undefined.                                                 *)
(***************************************************************************)
CONSTANT None

=============================================================================
