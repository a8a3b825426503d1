----------------------- MODULE MCSingleRegionCluster -----------------------
(***************************************************************************)
(* Small instances of SingleRegionCluster for TLC.                         *)
(***************************************************************************)
EXTENDS SingleRegionCluster

CONSTANTS x, y, a

\* A Put and a Delete of the same key; with a Put of a second key; a Put alone.
PutOrDelete == {x :> a, x :> NoValue}
PutDeleteOrOther == PutOrDelete \cup {y :> a}
OnePut == {x :> a}

\* ReplicasAgree is about the first start.  Of the later ones: logs of one entry, and
\* in the last one a single request, which may find a directory that does not open.
ShortLater ==
  /\ starts > 1 => \A s \in Store : Cardinality(DOMAIN disk[s].log) <= 1
  /\ starts = MaxStarts => ops + 1 >= MaxOps

\* acked_lost: the peer each request transfers to, None for a write.
Plan == <<2, None, 2, None, None, None, 3, None, None, None, 3>>

AsPlanned ==
  /\ op.pc \in {"append", "commit"} => Plan[ops] = None
  /\ op.pc \in {"candidate", "votes"} /\ ~op.boot => Plan[ops] = op.peer
=============================================================================
