--------------------------- MODULE MCStoreStartup ---------------------------
(***************************************************************************)
(* Small instances of StoreStartup for TLC.                                *)
(***************************************************************************)
EXTENDS StoreStartup

\* Every process has its own store.id, as in config/distributed_store<n>.yaml.
OwnIds == [p \in Process |-> p]
=============================================================================
