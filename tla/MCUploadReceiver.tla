-------------------------- MODULE MCUploadReceiver --------------------------
(***************************************************************************)
(* Small instances of UploadReceiver for TLC.                              *)
(***************************************************************************)
EXTENDS UploadReceiver

CONSTANTS c1, c2, k1, k2, n1

\* Every file has the same name, so that two of them collide in the receive
\* directory.
MCNameOf == [k \in Keys |-> n1]

=============================================================================
