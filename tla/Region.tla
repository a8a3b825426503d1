------------------------------- MODULE Region -------------------------------
(***************************************************************************)
(* Key ranges and peers of a region (region.h), shared by PD and by the    *)
(* stores.  Keys are numbers in the order of the strings they stand for; 0 *)
(* is the empty string, which as an end key means "no upper bound".        *)
(***************************************************************************)
EXTENDS Integers, Sequences

Unbounded == 0

ContainsKey(r, k) == r.start <= k /\ (r.end = Unbounded \/ k < r.end)

\* Positions in the peer list.
FindPeer(r, id) == {i \in DOMAIN r.peers : r.peers[i].id = id}
FindPeerByStore(r, s) == {i \in DOMAIN r.peers : r.peers[i].store = s}
=============================================================================
