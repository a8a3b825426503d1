----------------------------- MODULE MCPdServer -----------------------------
(***************************************************************************)
(* Small instances of PdServer for TLC: its bounds are its constants.      *)
(***************************************************************************)
EXTENDS PdServer
=============================================================================
