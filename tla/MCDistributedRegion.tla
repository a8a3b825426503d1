------------------------ MODULE MCDistributedRegion ------------------------
(***************************************************************************)
(* Small instances of DistributedRegion for TLC.                           *)
(***************************************************************************)
EXTENDS DistributedRegion, TLC

CONSTANTS x, y, a

PutX    == x :> a
Batch   == (x :> NoValue) @@ (y :> a)
DeleteY == y :> NoValue

\* A Put alone, where entries need not be told apart beyond their term.
PutAlone == {PutX}

\* A Put, a Batch that deletes its key and writes another, a Delete of that one.
PutBatchDelete == {PutX, Batch, DeleteY}

\* Restricts exploration to operations that each write something else, so that
\* no two entries and no two applied prefixes look alike, and to leader transfers
\* after the first operation: before it there is nothing a new leader could lack.
Distinct ==
  /\ ops = 1 => pdLeader = Min(Peer)
  /\ \A c \in Client : th[c].cmd # NoCommand =>
       th[c].cmd = CASE ops = 1 -> PutX [] ops = 2 -> Batch [] OTHER -> DeleteY

\* Restricts exploration to two actors at a time: two requests, or one request and
\* a call of an earlier one that arrives late.
TwoAtATime ==
  Cardinality(orphans) + Cardinality({c \in Client : th[c].pc # "idle"}) <= 2

\* Restricts exploration to one history: puts at peer 1 that reach nobody, then
\* requests at peer 2, whose log is shorter.
Isolated ==
  /\ ops <= 4 => pdLeader = 1 /\ raft[2].log = <<>> /\ raft[3].log = <<>>
  /\ ops >= 5 => pdLeader = 2
  /\ ops > 5 => \A c \in Client : th[c].pc = "idle" \/ th[c].home = 2
  /\ \A i \in DOMAIN raft[1].log : raft[1].log[i].term = 1
  /\ raft[1].term <= 2 /\ raft[2].term <= 2

ClientSymmetry == Permutations(Client)
=============================================================================
