------------------------- MODULE MultiRegionCluster -------------------------
(***************************************************************************)
(* The regions of one store process (MultiRegionCluster): the list         *)
(* regions_, the file regions.catalog, and per region a                    *)
(* SingleRegionCluster, of which this module keeps what its callers see:   *)
(* the data and the log entries of failed writes, which are durable, the   *)
(* replicas and whether one of them leads, which are not.  Which replica   *)
(* leads, and so which election is lost, is left open: the replication     *)
(* inside a cluster is the subject of module SingleRegionCluster.          *)
(*                                                                         *)
(* SplitRegion calls two clusters several times and then rewrites the      *)
(* catalog, so it is a sequence of steps: the process may die between two  *)
(* of them and, as every request has a thread of its own and nothing is    *)
(* locked, other requests may run between them.                            *)
(***************************************************************************)
EXTENDS Region, FiniteSets, FiniteSetsExt, SequencesExt

CONSTANTS
  MaxKey,      \* user keys are 1 .. MaxKey
  Value, NoValue,
  Reserved,    \* user keys that start with raft/, region/, pd/ or local/
  StoreCount,  \* store_count
  MaxPeer,     \* bound: peer and store ids
  MaxRegion,   \* bound: region ids
  MaxOps,      \* bound: requests
  MaxPending   \* bound: failed writes in a region's log

ASSUME MultiAssumption ==
  /\ MaxKey \in Nat /\ StoreCount \in Nat \ {0} /\ MaxPeer \in Nat
  /\ MaxRegion \in Nat \ {0} /\ MaxOps \in Nat /\ MaxPending \in Nat
  /\ Reserved \subseteq 1 .. MaxKey /\ NoValue \notin Value

VARIABLES
  running,
  regions,   \* regions_: records of id, start, end, version, confVer, leader, peers
  replicas,  \* clusters_: region id -> its replicas, in order, as peers
  leaderless,  \* the regions whose leader_peer_id_ names no replica
  data,      \* directory region-<id> -> the user keys in it
  pending,   \* the same -> the commands of failed writes in its logs
  catalog,   \* the file regions.catalog
  split,     \* the SplitRegion in progress
  ops,
  acked,     \* history: key -> the value of its last acknowledged write
  doubts,    \* history: key -> what has made that write doubtful since
  strays     \* history: keys of which a copy may have stayed behind

files == <<data, pending>>
vars  == <<running, regions, replicas, leaderless, data, pending, catalog, split, ops,
           acked, doubts, strays>>

UserKey  == 1 .. MaxKey
RegionId == 1 .. MaxRegion

Empty == [k \in UserKey |-> NoValue]

NoSplit == [pc |-> "idle", id |-> 0, key |-> 0, right |-> 0, moved |-> Empty]

\* The region main() passes to Bootstrap: no peers, no leader.
DefaultRegion == [id |-> 1, start |-> 0, end |-> Unbounded, version |-> 1,
                  confVer |-> 1, leader |-> 0, peers |-> <<>>]

\* A bootstrapped cluster has peers 1 .. store_count, whatever it had before.
NewReplicas == [i \in 1 .. StoreCount |-> [id |-> i, store |-> i]]

Init ==
  /\ running = FALSE /\ regions = <<>> /\ replicas = <<>> /\ leaderless = {}
  /\ data = [id \in RegionId |-> Empty] /\ pending = [id \in RegionId |-> {}]
  /\ catalog = [state |-> "none", image |-> <<>>]
  /\ split = NoSplit /\ ops = 0 /\ acked = Empty
  /\ doubts = [k \in UserKey |-> {}] /\ strays = {}

-----------------------------------------------------------------------------
\* The first region that contains k.
FindRegionByKey(k) == SelectInSeq(regions, LAMBDA r : ContainsKey(r, k))

\* A linearizable Get: what the leader of the key's region has.
Get(k) == data[regions[FindRegionByKey(k)].id][k]

Position(id) == SelectInSeq(regions, LAMBDA r : r.id = id)

Stop ==
  /\ running' = FALSE /\ regions' = <<>> /\ replicas' = <<>> /\ leaderless' = {}
  /\ split' = NoSplit

\* PersistRegionCatalog opens the file, which truncates it, and fills it.
Persist(rs) ==
  /\ catalog' = [state |-> "full", image |-> rs]
  /\ UNCHANGED running

\* The end of a handler that has changed the list to rs, the clusters to cs and
\* those without a leader to ls: the catalog is saved, or the process dies with
\* the file truncated.
Save(rs, cs, ls) ==
  \/ /\ regions' = rs /\ replicas' = cs /\ leaderless' = ls /\ split' = NoSplit
     /\ Persist(rs)
  \/ Stop /\ catalog' = [catalog EXCEPT !.state = "torn"]

Crash ==
  /\ running
  /\ Stop
  /\ UNCHANGED <<files, catalog>>

\* LoadRegionCatalog, or the default where there is no catalog.  In a truncated
\* one the field region_count, the last one, is missing: the call throws.
CanLoadCatalog == catalog.state # "torn"
LoadRegionCatalog ==
  IF catalog.state = "full" THEN catalog.image ELSE <<DefaultRegion>>

\* Bootstrap without reset_data.
Start ==
  /\ ~running /\ CanLoadCatalog
  /\ regions' = LoadRegionCatalog
  /\ replicas' = [id \in {r.id : r \in Range(regions')} |-> NewReplicas]
  /\ catalog' = [state |-> "full", image |-> regions']
  /\ running' = TRUE
  /\ UNCHANGED <<leaderless, files, split>>

\* The process dies in the PersistRegionCatalog that ends Bootstrap.
StartDies ==
  /\ ~running /\ CanLoadCatalog
  /\ catalog' = [catalog EXCEPT !.state = "torn"]
  /\ UNCHANGED <<running, regions, replicas, leaderless, files, split>>

\* An administrative request is let in.
Request == running /\ split = NoSplit

\* The contents m of a directory after the mutations of cmd.
Mutate(m, cmd) == [k \in DOMAIN m |-> IF k \in DOMAIN cmd THEN cmd[k] ELSE m[k]]

tables == <<running, regions, replicas, leaderless, catalog>>

\* A cluster commits cmd, and with it whatever its leader's log has before it:
\* the failed writes that have not come up by now have lost their place.
Commits(id, cmd) ==
  /\ data' = [data EXCEPT ![id] = Mutate(@, cmd)]
  /\ pending' = [pending EXCEPT ![id] = {}]

\* A cluster returns an error for cmd: its leader does not lead, or too few
\* replicas take the entry, which then stays in the leader's log.
Rejects(id, cmd) ==
  /\ \/ UNCHANGED pending
     \/ /\ id \notin leaderless /\ Cardinality(pending[id]) < MaxPending
        /\ pending' = [pending EXCEPT ![id] = @ \cup {cmd}]
  /\ UNCHANGED data

\* Put, Delete and Batch: cmd gives the keys their values.  A batch whose keys
\* are not all in the region of the first is refused.
Targets(cmd, i) == \A k \in DOMAIN cmd : FindRegionByKey(k) = i

Write(cmd) ==
  /\ running
  /\ \E i \in DOMAIN regions :
       /\ Targets(cmd, i) /\ regions[i].id \notin leaderless
       /\ Commits(regions[i].id, cmd)
  /\ UNCHANGED <<tables, split>>

WriteFails(cmd) ==
  /\ running
  /\ \E i \in DOMAIN regions : Targets(cmd, i) /\ Rejects(regions[i].id, cmd)
  /\ UNCHANGED <<tables, split>>

\* The entry of a failed write takes effect after all: a later entry commits it,
\* or the replica that had applied it leads again.
ComesUp(id) ==
  /\ running
  /\ \E cmd \in pending[id] :
       /\ data' = [data EXCEPT ![id] = Mutate(@, cmd)]
       /\ pending' = [pending EXCEPT ![id] = @ \ {cmd}]
  /\ UNCHANGED <<tables, split>>

-----------------------------------------------------------------------------
\* SplitRegion.

\* Mutant of ResetRight: the directory is opened as it is.
KeepRight(right) == data

\* The right cluster's directory is removed and bootstrapped afresh.
ResetRight(right) == [data EXCEPT ![right] = Empty]

CanSplit(id, k) ==
  \E i \in DOMAIN regions :
    regions[i].id = id /\ ContainsKey(regions[i], k) /\ k # regions[i].start

NextRegionId == Max({regions[j].id : j \in DOMAIN regions}) + 1

SplitRegion(id, k) ==
  /\ Request /\ CanSplit(id, k)
  /\ NextRegionId \in RegionId
  /\ data' = ResetRight(NextRegionId)
  /\ pending' = [pending EXCEPT ![NextRegionId] = {}]
  /\ split' = [NoSplit EXCEPT !.pc = "export", !.id = id, !.key = k,
                              !.right = NextRegionId]
  /\ UNCHANGED tables

\* Mutant of Migrates: the split key stays behind.
MigratesAfter(r, k, key) == key > k /\ ContainsKey(r, key) /\ key \notin Reserved

\* ScanRange(split_key, end_key), without the keys of reserved prefixes.
Migrates(r, k, key) == key >= k /\ ContainsKey(r, key) /\ key \notin Reserved

\* ExportRangeFromLeader; a cluster without a leader has nothing to export.
Exported(r, k) ==
  [key \in UserKey |-> IF Migrates(r, k, key) /\ r.id \notin leaderless
                       THEN data[r.id][key] ELSE NoValue]

Export ==
  /\ split.pc = "export"
  /\ split' = [split EXCEPT !.pc = "puts",
                  !.moved = Exported(regions[Position(split.id)], split.key)]
  /\ UNCHANGED <<tables, files>>

Moved == {k \in UserKey : split.moved[k] # NoValue}

\* The two batches, which succeed at once when they are empty.
Puts    == [k \in Moved |-> split.moved[k]]
Deletes == [k \in Moved |-> NoValue]

Batch(id, cmd) == IF DOMAIN cmd = {} THEN UNCHANGED files ELSE Commits(id, cmd)

PutRight ==
  /\ split.pc = "puts"
  /\ Batch(split.right, Puts)
  /\ split' = [split EXCEPT !.pc = "deletes"]
  /\ UNCHANGED tables

DeleteLeft ==
  /\ split.pc = "deletes"
  /\ Batch(split.id, Deletes)
  /\ split' = [split EXCEPT !.pc = "install"]
  /\ UNCHANGED tables

\* Either cluster returns an error: so does the split, and the entry with the
\* deletes may stay in the old region's log.
SplitFails ==
  /\ Moved # {}
  /\ \/ split.pc = "puts" /\ Rejects(split.right, Puts)
     \/ split.pc = "deletes" /\ Rejects(split.id, Deletes)
  /\ split' = NoSplit
  /\ UNCHANGED tables

\* Mutant of LeftRegion: the left half keeps its end key.
LeftRegionKeepsEnd(r, k) == [r EXCEPT !.version = r.version + 1]

LeftRegion(r, k) == [r EXCEPT !.end = k, !.version = r.version + 1]

RightRegion(r, k, right) ==
  LET ps == [i \in DOMAIN r.peers |-> [r.peers[i] EXCEPT !.id = @ + right * 1000]]
  IN  [r EXCEPT !.id = right, !.start = k, !.version = r.version + 1, !.peers = ps,
                !.leader = IF ps = <<>> THEN r.leader ELSE ps[1].id]

Install ==
  /\ split.pc = "install"
  /\ LET i == Position(split.id)
         r == regions[i]
     IN  Save([regions EXCEPT ![i] = LeftRegion(r, split.key)]
                \o <<RightRegion(r, split.key, split.right)>>,
              [id \in DOMAIN replicas \cup {split.right} |->
                 IF id = split.right THEN NewReplicas ELSE replicas[id]],
              leaderless)
  /\ UNCHANGED files

-----------------------------------------------------------------------------
\* Leader and membership changes: the cluster first, then regions_ and the file.
\* A peer that already leads is elected without a vote.

HasPeer(id, p) ==
  id \in DOMAIN replicas /\ \E i \in DOMAIN replicas[id] : replicas[id][i].id = p

TransferLeader(id, p) ==
  /\ Request /\ HasPeer(id, p)
  /\ Save([regions EXCEPT ![Position(id)].leader = p], replicas, leaderless \ {id})
  /\ UNCHANGED files

\* The cluster returns an error and has changed nothing that is kept here: the
\* election of a TransferLeader is lost, or AddPeer cannot open the directory.
ClusterFails(id) ==
  /\ Request /\ id \in DOMAIN replicas
  /\ UNCHANGED <<tables, files, split>>

CanAddPeer(id, s, p) ==
  /\ id \in DOMAIN replicas
  /\ \A i \in DOMAIN replicas[id] : replicas[id][i].id # p /\ replicas[id][i].store # s

AddPeer(id, s, p) ==
  /\ Request /\ CanAddPeer(id, s, p)
  /\ LET new == [id |-> p, store |-> s]
     IN  Save([regions EXCEPT ![Position(id)].peers = Append(@, new),
                              ![Position(id)].confVer = @ + 1],
              [replicas EXCEPT ![id] = Append(@, new)], leaderless)
  /\ UNCHANGED files

CanRemovePeer(id, p) == HasPeer(id, p) /\ Len(replicas[id]) > 1

\* The cluster erases the first such replica.
Remaining(id, p) == [replicas EXCEPT ![id] = RemoveFirstMatch(@, LAMBDA q : q.id = p)]

\* regions_ may not list the peer; its conf_ver is raised all the same.
RemovePeer(id, p) ==
  /\ Request /\ CanRemovePeer(id, p)
  /\ LET r    == regions[Position(id)]
         rest == SelectSeq(r.peers, LAMBDA q : q.id # p)
     IN  Save([regions EXCEPT ![Position(id)] =
                 [r EXCEPT !.peers = rest, !.confVer = r.confVer + 1,
                    !.leader = IF r.leader = p /\ rest # <<>> THEN rest[1].id
                                                              ELSE r.leader]],
              Remaining(id, p), leaderless)
  /\ UNCHANGED files

\* The replica was the leader, and the first one left loses the election: the
\* error leaves the list and the catalog as they were.
RemovePeerFails(id, p) ==
  /\ Request /\ CanRemovePeer(id, p) /\ id \notin leaderless
  /\ replicas' = Remaining(id, p) /\ leaderless' = leaderless \cup {id}
  /\ UNCHANGED <<running, regions, catalog, files, split>>

\* What clients write: a Put or a Delete of a key, a Batch of two neighbours.
Commands ==
  UNION {[ks -> Value \cup {NoValue}] :
           ks \in {{k} : k \in UserKey} \cup {{k, k + 1} : k \in 1 .. MaxKey - 1}}

Manage ==
  \E id \in RegionId :
    \/ \E k \in UserKey : SplitRegion(id, k)
    \/ ClusterFails(id)
    \/ \E p \in 1 .. MaxPeer : TransferLeader(id, p) \/ AddPeer(id, p, p)
                                 \/ RemovePeer(id, p) \/ RemovePeerFails(id, p)

-----------------------------------------------------------------------------
\* The histories.  An acknowledged write of a key becomes doubtful by
\*   failed      a later write of the key that returned an error
\*   overlap     a split that had exported the key when the write was made
\*   cut short   a split that deleted the key and did not get to the catalog
\*   reserved    a split that leaves the key behind for its prefix
\*   leaderless  a split that found no leader to export the key from
\* and is what counts again after the next acknowledged write of the key.

\* The half of the region being split that goes to the right.
MovingHalf == LET r == regions[Position(split.id)]
              IN  {k \in UserKey : k >= split.key /\ ContainsKey(r, k)}

Exposed == IF split.pc \in {"puts", "deletes", "install"} THEN MovingHalf \ Reserved
                                                          ELSE {}

Doubt(ks, why) ==
  doubts' = [k \in UserKey |-> IF k \in ks THEN doubts[k] \cup {why} ELSE doubts[k]]

\* The keys of that half that have a value where they are.
Kept == {k \in MovingHalf : data[split.id][k] # NoValue}

\* Steps of the process itself, and of a split that is under way.
Internal ==
  \/ Export /\ Doubt(IF split.id \in leaderless THEN Kept \ Reserved ELSE {}, "leaderless")
  \/ SplitFails /\ Doubt(IF split.pc = "deletes" THEN Moved ELSE {}, "cut short")
  \/ Crash /\ Doubt(IF split.pc = "install" THEN Moved ELSE {}, "cut short")
  \/ Install /\ Doubt(Kept \cap Reserved, "reserved")
  \/ /\ \/ Start \/ StartDies \/ PutRight \/ DeleteLeft
        \/ \E id \in RegionId : ComesUp(id)
     /\ UNCHANGED doubts

WriteDoubts(cmd) ==
  doubts' = [k \in UserKey |-> IF k \notin DOMAIN cmd THEN doubts[k]
                               ELSE IF k \in Exposed THEN {"overlap"} ELSE {}]

Next ==
  /\ \/ Internal /\ UNCHANGED <<ops, acked>>
     \/ /\ ops < MaxOps /\ ops' = ops + 1
        /\ \/ Manage /\ UNCHANGED <<acked, doubts>>
           \/ \E cmd \in Commands :
                \/ Write(cmd) /\ WriteDoubts(cmd) /\ acked' = Mutate(acked, cmd)
                \/ WriteFails(cmd) /\ Doubt(DOMAIN cmd, "failed") /\ UNCHANGED acked
  /\ strays' = strays \cup {k \in UserKey : doubts'[k] \ {"cut short"} # {}}

Spec == Init /\ [][Next]_vars
-----------------------------------------------------------------------------
\* Properties.

Settled == running /\ split = NoSplit

\* Keys whose last acknowledged write is in doubt for no other reason than these
\* are read with the value of that write.
ReadsDespite(reasons) ==
  Settled => \A k \in UserKey : doubts[k] \subseteq reasons =>
    /\ FindRegionByKey(k) # 0
    /\ Get(k) = acked[k]

\* A Get at the leader of the key's region returns the last acknowledged write,
\* across splits, failed splits, crashes anywhere in a split, restarts, lost
\* elections and failed writes that come up late, unless the write is in doubt
\* for one of the five reasons above.
ReadsLastWrite == ReadsDespite({})

\* What the repository says of splits, each violated by what SplitRegion does.

\* A split that fails or dies half-way, and a restart, lose no key
\* (src/README.md:112; violated in split_crash.cfg).
SplitSurvivesCrash == ReadsDespite({"cut short"})

\* A write acknowledged while its region is being split is read afterwards
\* (src/README.md:115; violated in split_overlap.cfg).
WriteSurvivesSplit == ReadsDespite({"overlap"})

\* A split takes every key of the right half along, whatever it is called
\* (src/README.md:111; violated in split_reserved.cfg).
SplitMovesEveryKey == ReadsDespite({"reserved"})

\* A region's cluster holds no key outside the region's range: a key is stored
\* once, and what an abandoned split left behind never comes back.  Not covered
\* are keys that were ever in a failed write, written while a split had already
\* exported them, or left behind for their prefix or for want of a leader.
DataWithinRange ==
  Settled => \A i \in DOMAIN regions : \A k \in UserKey \ strays :
    data[regions[i].id][k] # NoValue => ContainsKey(regions[i], k)

\* Every key belongs to exactly one region, in memory and in the catalog.
RegionsPartition ==
  \A rs \in {regions, catalog.image} :
    rs # <<>> => \A k \in UserKey : \E i \in DOMAIN rs :
      \A j \in DOMAIN rs : ContainsKey(rs[j], k) <=> i = j
=============================================================================
