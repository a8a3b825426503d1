# RStone in TLA+

RStone is a small distributed key-value store: clients talk to a gateway, the
gateway finds a key's region through a placement driver (PD), and stores keep
the regions, each replicated by Raft. This directory holds TLA+ modules of its
core, the TLC configurations that check them on small instances, and TLAPS proofs.
Source paths below are relative to the repository's root; `PROJECT.json` maps
every definition to its lines.

Check a run with `tlc -config <run>.cfg <module>`, a proof module with `tlapm
<module>.tla`. Beside the runs there are ten configurations that reproduce behaviours in
which a promise of the repository does not hold, or holds beyond a run (section 3).

## 1. Inventory

| Component (code) | State | Operations | What makes it correct |
|---|---|---|---|
| `RaftNode` (`src/raft/raft_node.cpp`) | role, term, vote, log, commit and applied index; no lock, no I/O | BecomeFollower/Candidate/Leader, HandleRequestVote, HandleAppendEntries, Propose, SetCommitIndex, TakeCommittedEntries, Restore | one vote per term; matching logs; indexes inside the log |
| `RaftStorage` (`src/raft/raft_storage.cpp`) | hard state (4 keys) and log records, in the engine of the peer | SaveHardState, AppendLog, DeleteLogsFrom, Load... | what a crash leaves can be restored, and no answered vote or acknowledged entry is lost |
| `FileKvEngine`, commands, `Snapshotter` (`src/storage/`, `src/raft/snapshot.cpp`) | a map, and the lines of kv.log; one mutex | Open, Put/Delete/WriteBatch, ApplyKvCommand, Create, Restore | kv.log replays to every acknowledged write; what is encoded is decoded |
| `DistributedRegionNode` (`src/store/distributed_region_node.cpp`) | one peer per store process, with its view of who leads | Put/Delete/Batch, TransferLeader, the two Raft RPC handlers, Bootstrap | the Raft guarantees; requests return |
| `SingleRegionCluster` (`src/store/single_region_cluster.cpp`) | all replicas of a region in one process, one directory each | Bootstrap, Put/Delete/Batch, TransferLeader, AddPeer, RemovePeer | acknowledged writes survive crashes; replicas agree |
| `MultiRegionCluster` (`src/store/multi_region_cluster.cpp`) | list of regions, their clusters, regions.catalog | Bootstrap, writes, SplitRegion, TransferLeader, AddPeer, RemovePeer | regions partition the keys; a split loses nothing |
| `PdServer`, `PdMetadataStore` (`src/pd/`) | stores, regions, start-key index, id allocators, pd.catalog; one mutex | RegisterStore, StoreHeartbeat, BootstrapDefaultRegion, SplitRegion, AddPeer, RemovePeer, TransferLeader, lookups, Open | regions partition the keys; lookups find the owner; ids and epochs are trustworthy |
| Gateway (`src/gateway/`) | route cache of regions, no lock | routing with one refresh after a stale answer; administrative requests, PD first and then the store | a request reaches the key's owner; PD and stores agree |
| TCP RPC (`src/rpc/tcp_rpc.cpp`) | none between calls | one connection and one thread per request | a call is handled at most once |
| Start of the stores (`src/main.cpp`) | what PD has answered so far | registration, polling, bootstrap of the default region | all stores serve the same complete replica set |
| Scheduler, codecs, configuration, dashboard, client SDK | none | pure functions and presentation | |

**How they interact.** There is no background Raft thread. In distributed mode a
client's write arrives at the leader's store process, which elects itself if it
must, sends the entry to the other stores one after the other, commits, applies,
and sends the commit index around. The TCP server gives every connection a
thread, and neither `DistributedRegionNode` nor `RaftNode` has a lock, so
requests and handlers of one process interleave. PD serialises its handlers with a
mutex. Administrative requests go from the gateway to PD and then to the store; PD
and the store keep their own lists of regions and number the halves of a split
each for themselves. Stores learn of one another only through PD, when they start.

**What is hard.** A campaign or a replication loop that goes on after its peer's
term has changed; calls handled after their caller has gone; processes that die
between the writes of one handler; catalogs that are truncated before they are
filled; splits as sequences of unlocked steps; directories opened again by another
life of a replica; retry loops that must end; a route that was cached, or asked for,
before a split and is used after it; a request that changes PD and fails at the store;
stores that race to create the first region; text in which an empty field vanishes or a
line is cut; a save whose failure nobody notices.
`PROJECT.json` lists the hazards
line by line, with the properties aimed at them.

## 2. Modules

* `RaftNode` — the Raft core as operators on a record, one per C++ method
  (`BecomeFollower`, `GrantsVote`, `MergeEntries`, ...). A log entry's index is
  its position. A command is a function from the keys it writes to their values, with
  `NoValue` for a deletion.
* `RaftStorage` — a data directory as a record: how many hard-state keys exist
  (`saved`), their values, a partial function of log records, the user keys.
  `SaveHardState`, `AppendLog`, `PersistLogFrom`, `ApplyCommitted` are the writes;
  each `Torn...` is the set of images that a crash in the middle of the write
  leaves. `CanBootstrap` and `BootstrapNode` are Restore.
* `DistributedRegion` — peers in processes of their own. `raft` and `disk` are each
  peer's memory and directory, `hint` the leader the store was told of, `pdLeader`
  PD's. A client thread (`th`) runs Put or TransferLeader; the code between two
  RPCs is one action, a handler is one action, and everything else may happen in
  between. `orphans` are requests whose caller has died or given up.
  `votes`, `elected` and `committed` are history.
* `SingleRegionCluster` — the replicas of one process. One action per call
  of a replica, with the writes that follow it, each in two variants: whole, or cut short
  by the death of the process. `peerIds` is separate from `members`: AddPeer extends it
  before it opens a directory that may not open. `Reserved` are the user keys with the
  prefixes AddPeer does not copy. `acked` and `joined`, the length of the log a store was
  given when it joined, are history.
* `Region` — the helpers shared by PD and stores.
* `MultiRegionCluster` — the list of regions, the catalog file, and per region only
  what its callers see of the cluster: the data and the entries of failed writes
  (`pending`), which are durable, the list of replicas and whether one of them leads
  (`leaderless`), which are not. A cluster may return an error for any write (`Rejects`:
  the entry may stay in its log and take effect later, `ComesUp`), lose the election of a
  TransferLeader (`ClusterFails`) or that of a RemovePeer, after which it has no leader
  (`RemovePeerFails`). SplitRegion is five steps (`SplitRegion`, `Export`, `PutRight`,
  `DeleteLeft`, `Install`); client requests run and the process dies between any two,
  and either batch may fail (`SplitFails`). The histories `doubts` and `strays` record,
  key by key, the events after which the code cannot vouch for a write:
  a later failed write of the key (failed), a split that had exported the key before the
  write (overlap), one that deleted it and did not reach the catalog (cut short), one
  that leaves it behind for its prefix (reserved) or for want of a leader (leaderless).
* `PdServer` — every handler is one action because of the mutex; `Persist`, its
  end, succeeds, fails with an I/O error after the memory has changed, fails unnoticed
  (the write is not checked) with the catalog old or truncated while PD runs on, or dies
  with it old or truncated.
* `FileKvEngine` — the engine as a map, and kv.log as a sequence of lines. A text is a
  sequence of fields and reading drops the empty ones, which is what `>>` does with
  the hex form of an empty string. A write is `Begin`, one `AppendMutation` per line and
  `Finish`; between them `Crash`, `AppendFails` (the file does not open) and `WriteFails`
  (the disk takes a part of the line, noticed or not; `cut` says that the next line
  continues it) may come. `Spoiled` is the history of the two things after which kv.log
  need not replay: a cut line and the empty key. Commands pass through their
  codec (`EncodeCommand`, `DecodeCommand`) on the way in. `Create` and `Restore` are
  the snapshot's; its file is read in records of three fields, the last of which may be
  cut short (`Records`, `Parses`).
* `KvStore` — the abstract store: what is acknowledged is there, now and after a
  restart, and a mutation without an acknowledgement may turn up at a restart until its
  key is written again. Unless its log is spoiled, `FileKvEngine` implements it, with
  `kv` mapped to the map while the engine is up and to the replayed file while it is not.
* `Gateway` — request threads (`th`) of several gateways, each gateway with its cache,
  composed with PD (`PD == INSTANCE PdServer`) and the store process
  (`ST == INSTANCE MultiRegionCluster`), whose actions it uses as they are. Between
  looking a route up, filling the cache, calling the store and refreshing, anything
  else may happen; an answer is lost at the cost of a fault. `broken` and `calm` are
  history: what a half-failed request lets PD and the store disagree on, and whether they
  agreed since a request began.
* `StoreStartup` — the start of distributed stores, composed with `PdServer`: `proc`
  holds the local variables of RunDistributedStoreService in each process. A call to PD is
  handled and answered, handled and its answer lost, or lost before PD sees it.
* `Ordered` — a set of numbers in increasing order: PD's list of stores, the fields of a
  text that are not empty.
* `MC...` — the instances for TLC: commands, symmetry, constraints.
* `RaftStorageProofs`, `DistributedRegionProofs`, `PdServerProofs`,
  `MultiRegionClusterProofs`, `SingleRegionClusterProofs`, `StoreStartupProofs`,
  `FileKvEngineProofs`, `GatewayProofs` — lemmas and theorems (section 4).

`DistributedRegion` and `SingleRegionCluster` both extend `RaftStorage`, which
extends `RaftNode`: the two ways of running a region share one Raft core, as in the
code. `Region` is shared by `PdServer`, `MultiRegionCluster` and the two compositions.

## 3. Runs

| Run | Instance | Properties | Result |
|---|---|---|---|
| `region_serial` | 3 peers, 1 client, 3 requests, 1 crash, 2 attempts | ElectionSafety, LeaderCompleteness, CommittedIsDurable, CanAlwaysRestart, LogMatching, KvIsAppliedPrefix, AppliedOnlyGrows | hold (2.0 M states) |
| `region_overlap` | 2 overlapping clients, 2 requests, calls that fail, late calls | TypeOK, VoteOncePerTerm, ElectedOncePerTerm, MemoryIsSaved, LogIsWhole, SavedVoteIsKept | hold (1.0 M) |
| `region_torn` | crash between any two writes, failed calls, fairness | VotesAreSaved, OperationsReturn | hold (0.3 M) |
| `deposed_leader` | 1 client, 3 requests, 1 late request | LeaderCompleteness | violated |
| `past_the_log` | 1 client, 7 requests, calls that fail | CommittedIsDurable | violated |
| `pd_metadata` | 4 keys, 2 stores, 3 regions, 5 peers, crashes and disk errors | TypeOK, RegionsPartitionKeys, LookupFindsOwner, PeersAreConsistent, RegionIdNeverReused | hold (0.6 M) |
| `single_crash` | 3 replicas, 5 requests, 3 starts | AckedSurvives, KvIsPrefix, DirectoriesOpen | hold (2.6 M) |
| `single_members` | 4 stores, 2 keys (one reserved), puts and deletes, 5 requests, 3 starts | ReplicasAgree, OneLeader | hold (4.7 M) |
| `multi_split` | 3 keys (one reserved), 3 regions, 4 requests, 1 failed write pending per region | ReadsLastWrite, DataWithinRange, RegionsPartition | hold (1.0 M) |
| `gateway_routes` | 2 gateways, 2 client and 2 administrative requests, 2 keys, 1 fault | RangesAgree, PeersAgree, OneRefreshIsEnough, RefusedBatchSpansRegions | hold (1.8 M) |
| `kv_engine` | 2 keys, 2 values (one of them empty), 3 lines, 1 cut line | CanReopen, SnapshotExactOrRefused, ImplementsKvStore | hold (0.5 M) |
| `store_startup` | 2 stores, 2 registrations and 3 polls each, 4 faults, disk errors | ReplicaSetIsComplete, ServingStoresAgree, PeersHaveAddresses, GivesUpWithoutRegion, StartsEnd | hold (0.07 M) |

### What the passing runs show

*Serial use.* With one request at a time, which is how the repository's scripts and
end-to-end tests use it, the distributed region is Raft as long as no leader reads
past the end of its own log: `region_serial` lets calls fail before and after they are
handled, leaders change and a process die and restart at any point of a request. Three
requests leave no log long enough for that read; `past_the_log` shows what it does.
*Overlapping use.* With overlapping requests, or calls that arrive after their callers
have gone, less holds. `region_overlap` keeps what does: votes and elections stay unique,
indexes stay inside the log although another thread may truncate it, memory and disk are
in step after every handler, and the saved log has no hole.
*Torn writes.* `region_torn` kills processes between the puts of SaveHardState, in
the log rewrite and inside a commit; the order of these writes is enough to keep every
vote, and whatever dies, the other threads' requests return.
*The in-process region.* `single_crash` and `single_members` separate two worlds:
with a fixed membership acknowledged writes survive two crashes (`acked_lost` shows that
four may lose one), and membership changes keep the logs of all replicas equal until the
process dies, and their data but for deleted and reserved keys, which AddPeer does not
carry over (`added_again`).
*Splits.* `multi_split` lets requests run and the process die at every step of a split,
either batch fail, its entry come up later, elections get lost; the next split
reuses the id and the directory of an abandoned one. Keys do get lost, in the ways that
`doubts` names (`split_crash`, `split_overlap` and `split_reserved` show three of them).
The run shows that there is no other way: a key without a doubt is read with its last
acknowledged write, one acknowledged write settles every doubt about its key, and
outside `strays` no region keeps or gets back a key of another.

*The engine.* `kv_engine` cuts batches short after any line, by an error or a
crash. Until a line is cut inside the file replays, nothing acknowledged is lost, and what
comes back of a failed batch is only what nobody has overwritten since: the engine refines
`KvStore`. Empty values survive commands and kv.log; a snapshot that has one is refused, or,
if it comes last, restored as it was, by an engine that goes on after a cut line too.
`kv_spoiled.cfg` checks the same of snapshots with the empty key among their keys.
*Gateway, PD and store.* In `gateway_routes` one gateway administers while
another serves clients from a cache that nobody invalidates. PD and the store come
to the same ids and ranges by numbering separately, through restarts of either,
unless a split failed between its two calls, as it does when the store dies or its
cluster returns an error; an outdated cache costs a request
one refresh, and never makes a batch look as if it crossed a boundary.
*Start.* `store_startup` lets the stores and PD die, calls and answers get lost and saves
fail, unnoticed ones included, while the cluster comes up. The region has a peer on
every store and all stores serve with the same one; every start ends, and without faults
no store gives up that could have served.

### What the violations show

* `deposed_leader`: `ReplicateToStore` reads the term and the log again for every
  request and never asks whether the peer still leads. Deposed in the middle of a
  put, it sends the remaining requests in the later term, counts the answers, and
  acknowledges an entry that the later leader does not have.
* `past_the_log`: after a rejection `ReplicateToStore` goes on from the follower's
  match_index, even when that is past its own log because the follower kept entries of
  an earlier leader that nobody committed. `log()[prev_log_index - 1]` is then a read out
  of bounds and the request carries no entries. If the term found there is the
  follower's, the request succeeds and the store is counted: the new leader commits and
  acknowledges an entry that only it has. One request at a time, no crash and no late
  message are needed (`Isolated` only keeps the search to one history).

### Promises that do not hold

Nine configurations each reproduce, in the same modules, a behaviour in which something
the repository promises fails; TLC reports the property violated. The properties of the
passing runs state what holds beside them.

| Configuration (module) | Property | Promise | What happens |
|---|---|---|---|
| `torn_log.cfg` (`MCDistributedRegion`) | CanAlwaysRestart | `src/README.md:107`, "Store 重启恢复" | `PersistLogFrom` deletes log records and writes them again; a follower that dies in between keeps a commit index without its records, which Restore refuses |
| `late_commit.cfg` (`MCDistributedRegion`) | CanAlwaysRestart | `src/README.md:107` | of two overlapping puts the one with the smaller index commits last and lowers commit_index below last_applied; both are saved, and Restore refuses them |
| `acked_lost.cfg` (`MCSingleRegionCluster`) | AckedSurvives | `src/README.md:107` | a follower that replaces a conflicting entry saves that entry alone (`PersistLogEntry`; nobody calls DeleteLogsFrom), so the records behind the old one are back after a restart; with them it votes for a replica that lacks an acknowledged entry. Five starts and eleven requests, whose order `AsPlanned` fixes |
| `added_again.cfg` (`MCSingleRegionCluster`) | PeersHoldLeaderData | `src/README.md:117`, "新增 peer 同步 leader 数据和 Raft log" | a store that is removed and, after a Delete, added again keeps the deleted key |
| `split_crash.cfg` (`MCMultiRegionCluster`) | SplitSurvivesCrash | `src/README.md:112`, "split 后重启可恢复多个 Region 和对应数据" | the keys are deleted from the old region before regions.catalog names the new one; a crash in between loses them |
| `split_overlap.cfg` (`MCMultiRegionCluster`) | WriteSurvivesSplit | `src/README.md:115`, "Region split 后的强一致读取" | a put that is acknowledged after the export is deleted or hidden by the split |
| `split_reserved.cfg` (`MCMultiRegionCluster`) | SplitMovesEveryKey | `src/README.md:111`, "右半区 key range 迁入新 Region" | user keys that begin with raft/, region/, pd/ or local/ stay in the old region, where no Get looks |
| `empty_key.cfg` (`MCFileKvEngine`) | LogReplays | `src/README.md:107` | Delete of the empty key writes a line in which "-" is taken for the key; Open fails at every later start |
| `cut_line.cfg` (`MCFileKvEngine`) | LogReplays | `src/README.md:107` | a write of which the disk takes half of a hex pair; Open fails at every later start |

Further behaviours of the modules, each of which breaks a property of a run under other
constants:

* `BroadcastCommit` of an in-process region names the end of the follower's own log as
  the previous entry, so a follower with a conflicting last entry applies it: after
  three starts two replicas may have applied different commands at one index.
* Two administrators that split at the same time reach PD and the store in different
  orders, and the new regions get each other's ids (`RangesAgree` in `gateway_routes` with
  `Admin = {c1, c2}`, `MaxKey = 3`, `MaxAdmin = 3`, `MaxRegion = 4`, `MaxPeer = 8`).
* Threads of one gateway share the cache without a lock: an answer that PD gave before
  a split is cached after the cache was cleared. With all threads in one gateway
  `RefusedBatchSpansRegions` fails for one client beside the administrator, and
  `OneRefreshIsEnough` for three.
* Peer ids of a split region differ between PD, the store's list and its cluster: leader
  and membership changes of it change PD and are refused by the store. A peer that AddPeer
  put into the region catalog is not rebuilt after a restart.
* PD keeps a region in memory that it could not save. With four stores, five faults and
  failed saves, `ServingStoresAgree` fails: store 2's registration is not saved and lost in
  a crash of PD, store 1's bootstrap is refused for the unknown store but takes a region
  id, the saves of store 2's second registration and of store 3's bootstrap fail, store 4
  serves that region 2 from PD's memory, PD dies, and store 2 makes and serves region 1.
* With `store.id` 0 a store whose registration was answered too late registers twice, and the
  phantom gets a peer (`ReplicaSetIsComplete` with `StoreId` 0). The poll after
  the loop may take a region of whose stores it has no address.
* Two overlapping campaigns of one peer make it leader of a term it did not win
  (`ElectionSafety` in the instance of `region_overlap`): `EnsureLeader` does not
  look at the term after the votes. One client and one late vote request with a later
  term do the same (`ElectionSafety` with one put and five transfers, `MaxOps = 6`,
  `MaxOrphans = 1`).
* A peer that dies inside a handler, after its log was written and before its first hard
  state, has records on disk that Bootstrap ignores: what was in memory is not what is
  restored (`MemoryIsSaved` with `TornWrites = TRUE` and a crash).
* A follower whose tail conflicts in more than its last entry is never repaired:
  every retry after the second repeats the same request (`RetryFrom`).
* A newly elected leader answers reads before it has applied what was committed.
* An entry that the leader of an in-process region saved alone before a crash is
  never sent again, and every later write of that leader is rejected. Two such
  crashes under two other leaders keep the first peer, the only one Bootstrap
  puts up, from being elected at all.
* A store that was removed and is added again has its old applied index until
  AddPeer's last put. A process that dies inside that SaveHardState may leave a commit index
  below it, which Restore refuses (`DirectoriesOpen` in the instance of `single_members`);
  one that dies between the log and the data leaves a replica that is a member again after
  the restart, with a log and without the data (`KvIsPrefix`, same instance).
* Removed replicas are members again after a restart and may elect a leader without
  later acknowledged writes (`AckedSurvives` in the instance of `single_members`).
* Both catalogs are truncated before they are filled, and neither process starts
  from a truncated one.

### Bounds, and why they are enough

Three peers are the smallest group in which a majority is not everyone; two
clients the fewest that overlap. `MaxOps` counts requests: three let a write be
followed by a change of leader and another write; in the in-process region
five reach write, remove, write, add and a last request. `MaxCrashes` and
`MaxStarts` count failures; one crash per run of the distributed region is combined
with broken connections, of which there may be any number. `MaxAttempts` is 8 in the code and 2
here: the second attempt is the first that starts from a follower's answer, and
`OperationsReturn` does not depend on the number. `MaxOrphans` bounds the late requests in
flight; in `region_overlap` a late call meets one request and two requests meet each
other, never all three (`TwoAtATime`). In `region_serial` the first request is a Put, the
second a Batch and the third a Delete, so that no two entries and no two applied
prefixes look alike, and the leader is not transferred before the first (`Distinct`).
`MaxTerm` follows from the other bounds. Keys are numbers in PD and
`MultiRegionCluster`: 0 is the empty key, which is both the lowest
key and, as an end, "no upper bound".

In `single_members` the first start is explored in full, which is what `ReplicasAgree` is
about; later ones with logs of one entry, enough to find a directory that AddPeer cannot
open (`ShortLater`). In `multi_split` four requests are a write, a split, a request
inside it and one after it; one pending entry per region lets a failed write come up after
a split. In `gateway_routes` two keys and two splits put a boundary
before the keys of a batch, between them, or both; two client requests let the first fill
the cache that the second finds outdated. One fault is enough for
every half-failed request, two are no deeper, since any disagreement it causes stays. In
`kv_engine` three lines hold a batch cut after its first line and a write after it, or
two writes and a restored snapshot; once a line is cut the file is kept to that one line,
which later writes continue (`SpoiledIsShort`). In `store_startup` the loops are shortened
(100 registrations and 200 polls in the code): the last attempt, the attempt before it and
an earlier one are the cases the code tells apart; four faults let PD and both stores fail
in one start, and seven give the same result.

`CHECK_DEADLOCK FALSE` is in every configuration: once the requests are used up, or a
process cannot restart, the system rightly stops.

### Fairness

`FairSpec` is weak fairness of `Step(c)` for each client thread: a running thread is
scheduled, a store handles the calls it accepts, and a call to a dead store fails.
The operating system's scheduler and TCP give this; clients, restarts, broken
connections and crashes are not forced to happen. A store that accepts a
call and never answers is outside this assumption: the code has no timeout for it.

`StoreStartup` has weak fairness of `Step(p)` for each store process: its thread is
scheduled, and a call to PD returns, with an error when PD is down. PD need not come
up, and stores need not be launched.

## 4. Proofs

All theorems are for any finite set of peers or stores, any commands, keys and clients
and any number of requests, crashes, failed calls and attempts. The assumptions on
constants are those of the modules: peers are a finite, non-empty set of positive
numbers, commands write a non-empty set of keys, the bounds are naturals. In the engine
the words of its formats ("P", "KV", "-", ...) are neither keys nor values.
`RaftStorageProofs` holds the lemmas about the operators of the Raft core and its storage,
one per operator, on torn images too. The other modules begin with the lemmas
about sets and sequences that they need (`MinOfNats`, `MaxOfBoundedNats`, `InOrderFacts`),
so that each can be read alone.

### Types, votes and elections of a distributed region

`DistributedRegionProofs`, with any overlap of requests, late calls, and torn writes on
or off:

| Theorem | Statement |
|---|---|
| `TypeCorrect` | `Spec => [](TypeOK /\ CommitWithinLog)` |
| `VotesAreUnique` | `Spec => [](VoteOncePerTerm /\ VotesAreSaved)` |
| `HardStateIsKept` | `Spec => SavedVoteIsKept` |
| `OneWinnerPerTerm` | `Spec => []ElectedOncePerTerm` |

* **Types.** `TypeInv` adds to `TypeOK` what each thread may hold at each program
  counter (`ThreadOK`): a thread in its voting loop has a vote request, one that is
  replicating has a positive index, and so on. It also needs `CommitWithinLog`, since
  `ApplyCommitted` reads entries up to the commit index.
* **Votes.** `VoteOncePerTerm` says nothing about how the next vote is decided, so
  `VoteInv` adds that threads run only in processes that are up, that a running peer's term
  and vote equal the saved ones, and that every vote granted is saved or superseded by
  a later saved term. Each write of SaveHardState keeps the last of these, because the
  term is written before the vote and the term only rises with the vote cleared; so
  a crash after any of them is harmless. `HardStateIsKept` follows from the same steps.
* **Elections.** `ElectionInv` says that every member of a campaign's `got` has voted for
  it in the term of its request, and that every election recorded has a majority
  of such voters. Two majorities share a peer (`QuorumsMeet`), and that peer voted once.

`ElectedOncePerTerm` is about the term a campaign asked for. It does not say that
the peer is still in that term when it becomes leader; that is `ElectionSafety`,
which needs the assumptions of the next part.

### Memory, logs and data of a distributed region

`DistributedRegionProofs`, second half:

| Theorem | Statement |
|---|---|
| `NothingIsLost` | `~TornWrites => (Spec => []MemoryIsSaved)` |
| `LogsAreWhole` | `~TornWrites => (Spec => []LogIsWhole)` |
| `OneLeaderPerTerm` | `Serial => (Spec /\ []StrayTermsDiffer => []ElectionSafety)` |
| `LogsAgree` | the same for `[]LogMatching` |
| `CommitsSurvive` | the same for `[](CommittedIsDurable /\ LeaderCompleteness)` |
| `KeysAreAppliedPrefix` | the same for `[]KvIsAppliedPrefix` |
| `AppliedNeverGoesBack` | the same for `AppliedOnlyGrows` |

The hypotheses are what the code needs, each with a counterexample without it:

* `~TornWrites`: a crash falls between two handlers. With a crash inside one, neither
  `MemoryIsSaved` nor `LogIsWhole` holds (section 3). Calls may overlap and
  arrive late in the first two theorems: of the checks of Restore only the one that
  last_applied is not past the commit index can then fail, and `late_commit` fails it.
* `Serial`: one client, no late calls, no torn writes. Overlapping puts break the log
  properties, and so does a single late call (`deposed_leader`).
* `StrayTermsDiffer`: a term that `ReplicateToStore` reads past the end of its own log is
  never the one the called store has there. Without it `past_the_log` is a
  counterexample. It restricts only the outcome of that undefined read: every
  behaviour in which no leader meets a longer log satisfies it, all of `region_serial`
  among them, and so do those in which it does and the value read does not fit.

The inductive invariant is `SafeBase`: `TypeInv`, `VoteInv`, `ElectionInv` and `SafeInv`,
whose parts were first checked with TLC in the instance of `region_serial`.

* **Saved state.** `SavedInv`: what Bootstrap makes of the directory of a running
  peer is its memory with the role Follower. Every handler ends in writes that
  restore it, also when it rejects.
* **Logs.** `LogInv` is about the directories, which outlive crashes. Terms grow along a
  log and were won in an election; two logs with an entry of one term agree up to the
  earlier of the two (`LogsMatch`; stronger than `LogMatching`, which compares equal indexes
  and would not survive an append); a leader has every entry of its term
  (`LeadersOwn`); a log with an entry later than a committed one has the committed
  one (`LaterLogsHave`), and so has a leader of no earlier term. That last part is the
  point of Raft: a new leader's voters and a committed entry's holders share a peer, and
  the vote it gave compared the logs.
* **Requests under way.** `OperationInv` says what a thread relies on between its
  steps: a campaign's request describes the log its peer still has, the voters in `got`
  have no better one, a replicating peer still leads and the entry is its last, the stores
  counted in `got` hold its whole log. This is where `Serial` is used: with a second
  thread none of it is stable.
* **Data.** `KvInv`: the keys of a directory are the effect of its first `applied`
  entries. Truncation stops above them, because they are committed (`CommitPoints`).

Every action is shown to be one of five kinds of step (`QuietStep`, `WinStep`,
`PushStep`, `CommitStep`, `FollowStep`), and each kind to keep `LogInv`; one lemma per
action then adds the other parts.

### The placement driver

`PdServerProofs`, for any number of keys, stores, regions and peers, with saves that fail,
crashes inside a save and reloads:

| Theorem | Statement |
|---|---|
| `TypeCorrect` | `Spec => []TypeOK` |
| `RegionsPartition` | `Spec => []RegionsPartitionKeys` |
| `PeersConsistent` | `Spec => []PeersAreConsistent` |
| `RegionIdsAreNotReused` | `Spec => []RegionIdNeverReused` |
| `LookupIsExact` | `Spec => []LookupFindsOwner` |

`PdInv` says of the tables in memory and of the catalog, each by itself, that they are
`Sound`: ids are below the allocators, no region is empty, the regions partition
the keys, peer ids are unique in the cluster, peers are on registered stores, and the
start-key index is the inverse of the start keys. A failed save leaves memory ahead of the
catalog and a crash leaves it behind, so nothing may compare the two directly; what
ties them together is the history `seen` of saved regions: no saved id is at or above
either allocator, or belongs to another start key in either (`Remembers`). That is what
lets a reloaded PD go on numbering.

### The regions of a store process

`MultiRegionClusterProofs`, for any number of keys, regions, peers and requests, with
requests, failures and deaths at every step of a split, lost elections and restarts:

| Theorem | Statement |
|---|---|
| `RegionsCoverKeys` | `Spec => []RegionsPartition` |
| `DataStaysWithinRange` | `Spec => []DataWithinRange` |
| `LastWriteIsRead` | `Spec => []ReadsLastWrite` |

No hypothesis restricts the behaviours. The last two properties except single keys,
by what has happened to them (`doubts`, `strays`); section 3 has a counterexample for
the doubts overlap, cut short and reserved.

* **Lists.** `ListInv`: memory and catalog hold a table of regions, none empty,
  with unique ids, that partition the keys; memory equals the catalog while the process
  runs; a split under way has its key inside its region and a right id that no region
  has. The last part is what lets `Install` cut a region in two, after
  membership changes, leader transfers and writes.
* **Data.** `DataInv` is about every key that is not in doubt. `Base`: the directory of each
  region of the list, in memory or, while the process is down, in the catalog, holds
  the last write of its keys and no key outside that does not stray. `Late`: what is in
  the log of a failed write is in doubt wherever it could be read, so its coming up
  later harms nothing. `Moving` says what each step of a split has
  established: the right directory is empty before the puts (`SplitRegion` clears what an
  earlier, failed split left in it) and is `moved` after them, `moved` has the last write
  of every key that goes, and after the deletes those keys are nowhere in the old
  directory. The keys that are deleted and not yet handed over (`Gone`) are the ones that
  a death at that point puts in doubt. The properties alone are not inductive: they
  mention neither the directory that a split is filling nor the entries that come up late.

### The in-process region

`SingleRegionClusterProofs`, for any number of stores, any requests and commands and any
number of crashes, between or inside the writes of a step:

| Theorem | Statement |
|---|---|
| `AtMostOneLeader` | `Spec => []OneLeader` |
| `ReplicasStayEqual` | `Spec => []ReplicasAgree` |

* **Leaders.** `LeadInv`: outside an election a replica that leads is the one that
  `leader_peer_id_` names, and no member is in an earlier term (`Ruled`). The second half is
  needed because a candidate raises its own term by one: only then is it past the leader's,
  and the leader steps down when it is asked. During the election (`Voting`) a leader is
  in an earlier term than the candidate and among the replicas that are still to be asked,
  so after the loop nobody leads, whether or not the candidate has a majority. That the
  loop reaches every member but the candidate is `Called`, with `OthersFacts`; that a new
  replica's peer id and store differ from the members' is `Joining`.
* **Replicas.** `AgreeInv` speaks of a process that was started once. There are a log L and
  a term T such that the members the loop under way has called are
  at the new state and those it has still to call (`Pending`) at the old one: in an
  election terms T + 1 and T, in a write L with and without the entry, in the commit
  broadcast the data before and after the last entry. So each vote is granted and each
  request accepted, the counter `got` is the number of members at the end of a loop
  (`Counted`), and the branches for a lost election or a write without a majority are never
  taken. The data of a replica is what L writes, or differs in keys that AddPeer does not
  carry over and nobody has written since it joined (`Good`); an entry that writes such a
  key settles it (`GoodApply`). `Common` adds that a key in any directory, a removed
  replica's too, was once written by L: this is what makes every difference after the copy
  of AddPeer one of a deleted or a reserved key (`GoodCopy`).

`AckedSurvives`, `KvIsPrefix` and `DirectoriesOpen` are not proved: each fails beyond the
bounds of its run (section 3).

### The start of a cluster

`StoreStartupProofs`, for any number of stores, tries, crashes and lost answers:

| Theorem | Statement |
|---|---|
| `ReplicaSetComplete` | `Configured => (Spec => []ReplicaSetIsComplete)` |
| `PeersAddressed` | `Configured => (Spec => []PeersHaveAddresses)` |
| `NoStoreGivesUp` | `Configured => (Spec => GivesUpWithoutRegion)` |
| `ServingAgree` | `~DiskErrors => (Spec => []ServingStoresAgree)` |

`Configured` says that every store has an id of its own choice and that `store_count` is
not less than their number, which is what `config/distributed_store<n>.yaml` does; with id 0, or
a smaller count, the region is made of whoever registered first (section 3). Saves of PD
may fail in the first three theorems. `ServingAgree` needs no configuration, only
saves that succeed; section 3 has the counterexample.

* **Types.** `TypeInv`: PD's tables and catalog are maps with the fields the code reads,
  and what each process has read of them is a copy of such a table.
* **Replica sets.** `ReplicaInv`: the stores that PD knows, in memory or saved, and those
  any process has listed are configured ones, and every region among them is complete. A
  store asks for the region only when it has listed `store_count` stores; by `Configured`
  these are all of them (`EnoughIsAll`), so whichever process wins the race, and however
  often it is run again after a crash, the peers are the same. The property alone is not
  inductive: it does not mention what a process read before PD died.
* **Giving up.** `NoExit` looks at the one step that exits: without faults the last poll of
  a store either sees a region or has it made, and a complete region has a peer for it.
* **Agreement.** `AgreeInv`: while PD runs its memory is its catalog, the catalog has at most one
  region, and what a process has read, however long ago, is in the catalog: its stores
  are among the saved ones and its regions are the saved ones. The catalog only gains
  stores, and a region once (`Grows`), so nothing read becomes false.

### The engine

`FileKvEngineProofs`, for any sets of keys and values (the empty string among both),
batches, snapshots of any prefix, a file of any length, failed appends, writes cut inside a
line and crashes after any line:

| Theorem | Statement |
|---|---|
| `LogAlwaysReplays` | `Spec => []CanReopen` |
| `SnapshotsExact` | `Spec => [](~Spoiled => SnapshotExactOrRefused)` |
| `EngineImplementsKvStore` | `Spec => ImplementsKvStore` |

`Spoiled` is a history: a line was cut, or the empty key was written or deleted. `CanReopen`
and `ImplementsKvStore` speak of the behaviours up to that point; after it neither holds
(`empty_key.cfg`, `cut_line.cfg`).

* **Texts.** `ReadWhole` and `ReadOthers` say where a field of a text is found when the
  empty ones have vanished: behind as many fields as are left before it. From them follow
  the codecs, each for every input: a line says the key and the value of its mutation
  (`LineFacts`), a Put, a Delete and a Batch of any length come back as they were meant
  (`PutDecodes`, `DeleteDecodes`, `BatchDecodes`), and a snapshot that parses has its fields
  where they were written (`SnapshotRead`). The last is by its first empty field: in the
  middle of the file the word KV moves into its place and does not decode, at the
  end the field is read as missing, which means empty.
* **Replay.** The value of a key is that of the last line about it, so no induction over the
  file is needed: `AppendedLine` says what one line more changes, and `EndsDecide` that the
  lines of a batch at the end of the file decide about its keys.
* **The invariant.** `EngineInv`, which holds until the log is spoiled (`Unspoiled`), says that every line is a mutation's and the file ends with the
  lines of the batch under way (`Writing`); that the map is what the file would give,
  except where the file has a mutation of unknown outcome (`Behind`); that every key of
  the map is in the file, which makes a scan finite (`Kept`); and that a snapshot is a text
  of the pairs it was made of (`Snapshots`). `Behind` is the heart of the refinement: a
  failed append leaves lines in the file that the map does not have, so file and map may
  not be equated, and `Finish` must settle every key that it acknowledges.
* **The refinement.** `Open` is a `Start`, `Crash` a `Stop`, the beginning of a batch a
  `Submit`, `Finish` an `Acknowledge`; everything else stutters (`RefinesNext`).

### The gateway, PD and a store together

`GatewayProofs`, for any number of threads, gateways, keys, requests, lost calls and answers,
errors of a region's cluster, and deaths of PD and of the store:

| Theorem | Statement |
|---|---|
| `RangesStayEqual` | `OneAdministrator => (Spec => []RangesAgree)` |
| `PeersStayEqual` | `OneAdministrator => (Spec => []PeersAgree)` |
| `OneRefresh` | `UnsharedGateways => (Spec => []OneRefreshIsEnough)` |
| `RefusedBatch` | `UnsharedGateways => (Spec => []RefusedBatchSpansRegions)` |

`OneAdministrator` says that administrative requests come one after the other, of one
thread; clients may share gateways as they like. `UnsharedGateways` says that no two
threads use one cache; there may be any number of administrators. Without the first, two
splits reach PD and the store in different orders; without the second, an answer
from before a split is cached after it (section 3). Each instance of the hypotheses is
a deployment: one operator, and gateways that serve one request at a time.

The components are used through what their actions do to the tables (`PdDid`, `StoreDid`,
`SplitInstalled`); these step lemmas are proved once and serve both arguments.

* **Tables.** `PdInv`: what PD has saved is what it knows while it runs, its regions are
  numbered from 1 without a gap, partition the keys, and the peers of region 1 have different
  ids. `StoreInv`: the store's list is its catalog while it runs, and a split under way is of
  a region of the list.
* **Ranges.** `RangesInv`, for the administrator: between the two calls of a split the store
  is exactly one split behind PD (`OneSplitBehind`), and the right half is PD's last region;
  otherwise the lists have the same ids and ranges. `RangesAgree` alone says nothing
  of the time between the calls. That the two sides number alike is `SameNumber`: the largest
  id of the store's list plus one is the id PD gave last, because nothing was ever
  skipped. A lost answer, a death inside the split, an error or a refusal sets `broken`, and a
  crash of PD or of the store in between changes neither list.
* **Peers.** `PeersInv` is the same for the list of region 1: one change behind (`Changed`),
  otherwise equal. The ids must be different for the store's `find_if` to erase what PD
  erased (`SameRemoved`).
* **Routes.** `KvInv` says of a cached route, and of an answer of PD that is not cached
  yet, that it covers all keys of the region it names and overlaps no region in part
  (`KnownRoute`), however many splits ago PD gave it: a split refines PD's regions
  (`Refines`), and both are kept by refinement. So an old route may be too wide, and never
  separates two keys of one region: a batch that the gateway refuses has its keys in two
  regions, with which the store agrees while `calm`. After a refresh the cache is empty
  until PD answers (`ResolvingInv`), and the answer names the owner (`AnswerInv`), so the
  store's ValidateRoute cannot refuse it.

### Left to TLC

* Liveness (`OperationsReturn`, `StartsEnd`) is beyond the prover.
* The log properties of a distributed region beyond the hypotheses above do not hold, and
  `CanAlwaysRestart` needs them too; it is checked by `region_serial`.
* Snapshots after a spoiled write, and of the empty key (`kv_engine`, `kv_spoiled.cfg`).
* `AckedSurvives`, `KvIsPrefix` and `DirectoriesOpen` of the in-process region hold only
  within bounds.
* `CommitWithinLog` is part of `TypeCorrect` and has no run of its own.

## 5. What is not modelled

* Data races inside one handler: the handlers of a peer are atomic here.
* `fsync`: what a write has put into kv.log is there after a crash. The text of
  the two catalogs beyond "whole or truncated"; a snapshot cut short by a crash.
* Engine writes that fail under a Raft peer; I/O errors of regions.catalog.
* The second lookup of the gateway's dynamic mode, by which it picks the address of the
  leader's store; the addresses are not modelled. A connection that breaks while the
  store is in the middle of a split breaks after it. The registrations of a restarting
  in-process store are one step, and PD does not fail inside it.
* Overlapping requests in `SingleRegionCluster`, two splits at once, and requests that read
  the list of regions while a split extends it (requests between the steps of a split are
  modelled). Which replica of a region leads in `MultiRegionCluster`, and so which of its
  elections is lost: any may be.
* The in-process `GatewayServer`: it resolves a route and discards it. The PD scheduler:
  pure functions without a caller. `EpochEqual`, `EpochStale` and
  `RouteCache::Invalidate` have none either.
* Codecs other than those of commands, kv.log and snapshots; configuration, logging,
  dashboard, SDK, the in-process RPC, the status reports (see "components").

## 6. State of the project

Modelled and checked: the Raft core and storage, the distributed region, the in-process
region, PD and splits, the engine with its abstract store, the gateway composed
with PD and a store, the start of a cluster. Proved: what section 4 lists. An abstract map
for `MultiRegionCluster` was considered and left out: `ReadsLastWrite` says the same, and
a truncated catalog would have to be mapped to a store that never comes back.

Open, if the code gets the checks it lacks (the term after each answer, the length of the
log before it is read, an atomic replacement of the catalogs, the catalog before the
deletes of a split, a lock around splits and around the route cache): the theorems of
section 4 without their hypotheses, and the properties without their exceptions.
