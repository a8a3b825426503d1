----------------------------- MODULE MCGateway -----------------------------
(***************************************************************************)
(* Small instances of Gateway for TLC.                                     *)
(***************************************************************************)
EXTENDS Gateway

CONSTANTS c1, c2

\* Each thread in a gateway of its own.
OneEach == [c \in Client |-> c]
=============================================================================
