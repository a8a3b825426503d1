------------------------ MODULE MCMultiRegionCluster ------------------------
(***************************************************************************)
(* Small instances of MultiRegionCluster for TLC: its bounds are its       *)
(* constants.                                                              *)
(***************************************************************************)
EXTENDS MultiRegionCluster
=============================================================================
