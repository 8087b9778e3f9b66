--------------------------- MODULE MCAckCoalescer ---------------------------
(***************************************************************************)
(* Small instances of AckCoalescer for TLC.                                *)
(***************************************************************************)
EXTENDS AckCoalescer

\* A new file, and resumed ones.
MCAligned == {[phone |-> n, disk |-> n] : n \in 0 .. 2}

\* A file that is started over although half of it is still in staging.
MCStale == {[phone |-> 0, disk |-> 2]}

=============================================================================
