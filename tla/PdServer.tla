------------------------------ MODULE PdServer ------------------------------
(***************************************************************************)
(* The placement driver: PdServer, the PdMetadataStore it keeps in memory, *)
(* and the file pd.catalog it rewrites after every change.                 *)
(*                                                                         *)
(* Every handler holds mutex_ from its first read to the end of Persist,   *)
(* so a handler is one action.  The process may die inside it: before      *)
(* Persist the catalog is the old one, inside Persist it is truncated (the *)
(* file is opened for writing and then filled).  Persist may also fail     *)
(* with an I/O error after the memory has been changed, and the writing    *)
(* may: the stream is not looked at, PD answers Ok and runs on, and leaves *)
(* the file truncated.                                                     *)
(*                                                                         *)
(* A store is its id: endpoints and heartbeat times are stored and never   *)
(* consulted.                                                              *)
(***************************************************************************)
EXTENDS Region, FiniteSets, FiniteSetsExt, SequencesExt

CONSTANTS
  MaxKey,     \* keys are 0 .. MaxKey
  MaxStore,   \* bound: store ids
  MaxRegion,  \* bound: region ids
  MaxPeer,    \* bound: peer ids
  DiskErrors  \* whether Persist may fail, or leave the file cut short

ASSUME PdAssumption ==
  /\ MaxKey \in Nat /\ MaxStore \in Nat /\ MaxRegion \in Nat /\ MaxPeer \in Nat
  /\ DiskErrors \in BOOLEAN

VARIABLES
  running,  \* the PD process is up
  meta,     \* its PdMetadataStore
  catalog,  \* the file pd.catalog
  seen      \* history: <<region id, start key>> of every region ever saved

vars == <<running, meta, catalog, seen>>

PdKey == 0 .. MaxKey

PeerInfo   == [id : Nat, store : Nat]
RegionInfo == [start : PdKey, end : PdKey, version : Nat, confVer : Nat,
               leader : Nat, peers : Seq(PeerInfo)]

\* The part of the metadata that Persist writes.
IsImage(m) ==
  /\ m.stores \subseteq Nat
  /\ DOMAIN m.regions \subseteq Nat
  /\ m.regions \in [DOMAIN m.regions -> RegionInfo]
  /\ m.nextStore \in Nat /\ m.nextRegion \in Nat /\ m.nextPeer \in Nat

-----------------------------------------------------------------------------
\* PdMetadataStore.

NewMetadata == [stores |-> {}, regions |-> <<>>, byStart |-> <<>>,
                nextStore |-> 1, nextRegion |-> 1, nextPeer |-> 1]

PutStore(m, s) == [m EXCEPT !.stores = m.stores \cup {s}]

PutRegion(m, id, r) ==
  [m EXCEPT !.regions = [i \in DOMAIN m.regions \cup {id} |->
                           IF i = id THEN r ELSE m.regions[i]],
            !.byStart = [k \in DOMAIN m.byStart \cup {r.start} |->
                           IF k = r.start THEN id ELSE m.byStart[k]]]

\* The ids of the regions GetRegionByKey answers with: none, or the one whose
\* start key is the last not above k, if it contains k.
GetRegionByKey(m, k) ==
  LET starts == {s \in DOMAIN m.byStart : s <= k}
  IN  {id \in DOMAIN m.regions :
         /\ starts # {} /\ id = m.byStart[Max(starts)]
         /\ ContainsKey(m.regions[id], k)}

\* Mutant of LoadMetadata: the start-key index is not rebuilt.
LoadWithoutIndex(image) ==
  [stores |-> image.stores, regions |-> image.regions, byStart |-> <<>>,
   nextStore |-> image.nextStore, nextRegion |-> image.nextRegion,
   nextPeer |-> image.nextPeer]

\* Mutant of LoadMetadata: SetNextIds is left out.
LoadWithoutNextIds(image) ==
  [stores |-> image.stores, regions |-> image.regions,
   byStart |-> [k \in {image.regions[i].start : i \in DOMAIN image.regions} |->
                  Max({i \in DOMAIN image.regions : image.regions[i].start = k})],
   nextStore |-> 1, nextRegion |-> 1, nextPeer |-> 1]

\* Load rebuilds the index by PutRegion in the order of region ids.
LoadMetadata(image) ==
  LET starting(k) == {i \in DOMAIN image.regions : image.regions[i].start = k}
  IN  [stores |-> image.stores, regions |-> image.regions,
       byStart |-> [k \in {image.regions[i].start : i \in DOMAIN image.regions}
                      |-> Max(starting(k))],
       nextStore |-> image.nextStore, nextRegion |-> image.nextRegion,
       nextPeer |-> image.nextPeer]

\* What Persist writes of the metadata.
ImageOf(m) == [stores |-> m.stores, regions |-> m.regions,
               nextStore |-> m.nextStore, nextRegion |-> m.nextRegion,
               nextPeer |-> m.nextPeer]

Ranges(m) == {<<id, m.regions[id].start>> : id \in DOMAIN m.regions}

Init ==
  /\ running = TRUE
  /\ meta = NewMetadata
  /\ catalog = [state |-> "full", image |-> ImageOf(NewMetadata)]
  /\ seen = {}

-----------------------------------------------------------------------------
\* The rest of a handler that has built the metadata m: Persist.
Persist(m) ==
  \/ /\ meta' = m
     /\ catalog' = [state |-> "full", image |-> ImageOf(m)]
     /\ UNCHANGED running
  \/ /\ DiskErrors
     /\ meta' = m /\ UNCHANGED running
     /\ catalog' \in {catalog, [catalog EXCEPT !.state = "torn"]}
  \/ /\ running' = FALSE
     /\ meta' = NewMetadata
     /\ catalog' \in {catalog, [catalog EXCEPT !.state = "torn"]}

\* id = 0: allocate one.  A fixed id moves the allocator past it.
RegisterStore(id) ==
  LET s == IF id = 0 THEN meta.nextStore ELSE id
      m == IF s >= meta.nextStore THEN [meta EXCEPT !.nextStore = s + 1] ELSE meta
  IN  /\ running /\ s <= MaxStore
      /\ Persist(PutStore(m, s))

StoreHeartbeat(s) ==
  /\ running /\ s \in meta.stores
  /\ Persist(PutStore(meta, s))

\* Mutant of NoRegion: the default region is made again.
NoRegionNeeded == TRUE

NoRegion == DOMAIN meta.regions = {}

\* One peer per listed store, in order; the first one leads.
BootstrapDefaultRegion(list) ==
  /\ running /\ NoRegion /\ list # <<>>
  /\ Range(list) \subseteq meta.stores
  /\ meta.nextRegion <= MaxRegion
  /\ meta.nextPeer + Len(list) <= MaxPeer + 1
  /\ LET ps == [i \in 1 .. Len(list) |->
                  [id |-> meta.nextPeer + i - 1, store |-> list[i]]]
         r  == [start |-> 0, end |-> Unbounded, version |-> 1, confVer |-> 1,
                leader |-> ps[1].id, peers |-> ps]
         m  == [meta EXCEPT !.nextRegion = meta.nextRegion + 1,
                            !.nextPeer = meta.nextPeer + Len(list)]
     IN  Persist(PutRegion(m, meta.nextRegion, r))

\* An unknown store ends the loop: the region id and the peer ids of the stores
\* before it stay allocated in memory and nothing is saved.
BootstrapUnknownStore(list) ==
  /\ running /\ NoRegion /\ ~(Range(list) \subseteq meta.stores)
  /\ meta.nextRegion <= MaxRegion
  /\ LET known == Min({i \in DOMAIN list : list[i] \notin meta.stores}) - 1
     IN  /\ meta.nextPeer + known <= MaxPeer + 1
         /\ meta' = [meta EXCEPT !.nextRegion = meta.nextRegion + 1,
                                 !.nextPeer = meta.nextPeer + known]
  /\ UNCHANGED <<running, catalog>>

\* Mutant of LeftHalf: the left half keeps its old end key.
LeftHalfKeepsEnd(r, k) == [r EXCEPT !.version = r.version + 1]

\* Mutant of LeftHalf: the split key stays in the left half.
LeftHalfInclusive(r, k) == [r EXCEPT !.end = k + 1, !.version = r.version + 1]

\* Mutant of RightHalf: the peers of the left half are copied.
RightHalfSamePeers(r, k) == [r EXCEPT !.start = k, !.version = r.version + 1]

\* The left half keeps the id, the right half gets a new id and new peers.
LeftHalf(r, k) == [r EXCEPT !.end = k, !.version = r.version + 1]

RightHalf(r, k) ==
  [r EXCEPT !.start = k, !.version = r.version + 1,
            !.leader = IF r.peers = <<>> THEN 0 ELSE meta.nextPeer,
            !.peers = [i \in 1 .. Len(r.peers) |->
                         [id |-> meta.nextPeer + i - 1, store |-> r.peers[i].store]]]

CanSplit(id, k) ==
  /\ id \in DOMAIN meta.regions
  /\ ContainsKey(meta.regions[id], k) /\ k # meta.regions[id].start

SplitRegion(id, k) ==
  /\ running /\ CanSplit(id, k)
  /\ LET r == meta.regions[id]
         m == [meta EXCEPT !.nextRegion = meta.nextRegion + 1,
                           !.nextPeer = meta.nextPeer + Len(r.peers)]
     IN  /\ meta.nextRegion <= MaxRegion
         /\ meta.nextPeer + Len(r.peers) <= MaxPeer + 1
         /\ Persist(PutRegion(PutRegion(m, id, LeftHalf(r, k)),
                              meta.nextRegion, RightHalf(r, k)))

CanAddPeer(id, s) ==
  /\ id \in DOMAIN meta.regions /\ s \in meta.stores
  /\ FindPeerByStore(meta.regions[id], s) = {}

AddPeer(id, s) ==
  /\ running /\ CanAddPeer(id, s)
  /\ meta.nextPeer <= MaxPeer
  /\ LET r == meta.regions[id]
     IN  Persist(PutRegion([meta EXCEPT !.nextPeer = meta.nextPeer + 1], id,
           [r EXCEPT !.peers = Append(r.peers, [id |-> meta.nextPeer, store |-> s]),
                     !.confVer = r.confVer + 1]))

\* Removing the leader makes the first remaining peer PD's leader.
WithoutPeer(r, i) ==
  LET rest == RemoveAt(r.peers, i)
  IN  [r EXCEPT !.peers = rest, !.confVer = r.confVer + 1,
                !.leader = IF r.leader = r.peers[i].id THEN rest[1].id ELSE r.leader]

HasPeer(id, p) ==
  id \in DOMAIN meta.regions /\ FindPeer(meta.regions[id], p) # {}

CanRemovePeer(id, p) == HasPeer(id, p) /\ Len(meta.regions[id].peers) > 1

RemovePeer(id, p) ==
  /\ running /\ CanRemovePeer(id, p)
  /\ LET r == meta.regions[id]
     IN  \E i \in FindPeer(r, p) : Persist(PutRegion(meta, id, WithoutPeer(r, i)))

TransferLeader(id, p) ==
  /\ running /\ HasPeer(id, p)
  /\ Persist(PutRegion(meta, id, [meta.regions[id] EXCEPT !.leader = p]))

Crash ==
  /\ running
  /\ running' = FALSE /\ meta' = NewMetadata
  /\ UNCHANGED catalog

\* A truncated catalog has no store_count (its last field): Load throws.
Open ==
  /\ ~running /\ catalog.state = "full"
  /\ running' = TRUE
  /\ meta' = LoadMetadata(catalog.image)
  /\ UNCHANGED catalog

\* The store lists of pd.BootstrapDefaultRegion: the ids that pd.Status listed,
\* without repetition.
StoreLists ==
  {l \in UNION {[1 .. n -> 1 .. MaxStore] : n \in 0 .. MaxStore} : IsInjective(l)}

Step ==
  \/ \E s \in 0 .. MaxStore : RegisterStore(s) \/ StoreHeartbeat(s)
  \/ \E l \in StoreLists : BootstrapDefaultRegion(l) \/ BootstrapUnknownStore(l)
  \/ \E id \in 1 .. MaxRegion :
       \/ \E k \in PdKey : SplitRegion(id, k)
       \/ \E s \in 1 .. MaxStore : AddPeer(id, s)
       \/ \E p \in 1 .. MaxPeer : RemovePeer(id, p) \/ TransferLeader(id, p)
  \/ Crash \/ Open

Next ==
  /\ Step
  /\ seen' = IF catalog'.state = "full" THEN seen \cup Ranges(catalog'.image) ELSE seen

Spec == Init /\ [][Next]_vars
-----------------------------------------------------------------------------
\* Properties.

\* What the variables range over; the index maps start keys to region ids.
TypeOK ==
  /\ running \in BOOLEAN
  /\ DOMAIN meta = {"stores", "regions", "byStart", "nextStore", "nextRegion", "nextPeer"}
  /\ IsImage(meta)
  /\ DOMAIN meta.byStart \subseteq PdKey
  /\ meta.byStart \in [DOMAIN meta.byStart -> Nat]
  /\ DOMAIN catalog = {"state", "image"}
  /\ catalog.state \in {"full", "torn"}
  /\ DOMAIN catalog.image = {"stores", "regions", "nextStore", "nextRegion", "nextPeer"}
  /\ IsImage(catalog.image)
  /\ seen \subseteq Nat \X PdKey

\* No two regions of this metadata share a key, and together they have all.
PartitionsKeys(m) ==
  /\ \A i, j \in DOMAIN m.regions : \A k \in PdKey :
       ContainsKey(m.regions[i], k) /\ ContainsKey(m.regions[j], k) => i = j
  /\ DOMAIN m.regions # {} =>
       \A k \in PdKey : \E i \in DOMAIN m.regions : ContainsKey(m.regions[i], k)

\* After any sequence of splits, crashes, failed saves and reloads the regions
\* of PD partition the key space, in memory and in the catalog.
RegionsPartitionKeys == PartitionsKeys(meta) /\ PartitionsKeys(catalog.image)

\* GetRegionByKey, which goes through the start-key index, finds the region that
\* owns a key whenever there is one.
LookupFindsOwner ==
  \A k \in PdKey : \A i \in DOMAIN meta.regions :
    ContainsKey(meta.regions[i], k) => GetRegionByKey(meta, k) = {i}

\* A peer id names one peer in the whole cluster, a region has at most one peer
\* per store, on a registered store, and PD's leader is one of its peers.
PeersAreConsistent ==
  \A i, j \in DOMAIN meta.regions :
    LET r == meta.regions[i]
        q == meta.regions[j]
    IN  /\ \A a \in DOMAIN r.peers : \A b \in DOMAIN q.peers :
             r.peers[a].id = q.peers[b].id => i = j /\ a = b
        /\ \A a, b \in DOMAIN r.peers : r.peers[a].store = r.peers[b].store => a = b
        /\ \A a \in DOMAIN r.peers : r.peers[a].store \in meta.stores
        /\ FindPeer(r, r.leader) # {}

\* A region id that was saved once is never given to another key range, across
\* failed saves, crashes and restarts: stores name their directories by it.
RegionIdNeverReused ==
  \A x, y \in seen : x[1] = y[1] => x[2] = y[2]
=============================================================================
