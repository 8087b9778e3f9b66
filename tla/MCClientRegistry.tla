-------------------------- MODULE MCClientRegistry --------------------------
(***************************************************************************)
(* Small instances of ClientRegistry for TLC.                              *)
(***************************************************************************)
EXTENDS ClientRegistry

CONSTANTS a1, a2, b1, A, B, s1, s2

\* One phone that reconnects and another one beside it.
MCClientOf == [c \in Conns |-> IF c = b1 THEN B ELSE A]

=============================================================================
