--------------------------- MODULE PdServerProofs ---------------------------
(***************************************************************************)
(* Theorems about PdServer, for every number of keys, stores, regions and  *)
(* peers, with and without failed saves.                                   *)
(***************************************************************************)
EXTENDS PdServer, SequenceTheorems, WellFoundedInduction, TLAPS

-----------------------------------------------------------------------------
\* The least and the greatest element of a set of numbers.

\* Min of a nonempty set of naturals is its least element.
LEMMA MinOfNats ==
  ASSUME NEW S \in SUBSET Nat, S # {}
  PROVE  Min(S) \in S /\ \A y \in S : Min(S) <= y
<1>1. IsWellFoundedOn({ss \in Nat \X Nat : ss[1] < ss[2]}, Nat)
  BY NatLessThanWellFounded DEF OpToRel
<1>2. PICK x \in S : \A y \in S : ~(<<y, x>> \in {ss \in Nat \X Nat : ss[1] < ss[2]})
  BY <1>1, WFMin, Zenon
<1>3. \A y \in S : x \in Nat /\ y \in Nat /\ ~(y < x)
  BY <1>2
<1>4. \A y \in S : x <= y
  BY <1>3
<1> QED
  BY <1>4 DEF Min

\* Max of a nonempty set of naturals with an upper bound is its greatest element.
LEMMA MaxOfBoundedNats ==
  ASSUME NEW S \in SUBSET Nat, S # {}, NEW b \in Nat, \A s \in S : s <= b
  PROVE  Max(S) \in S /\ \A y \in S : Max(S) >= y
<1> DEFINE D == {b - s : s \in S}
<1>1. \A s \in S : b - s \in Nat
  OBVIOUS
<1>2. D \in SUBSET Nat /\ D # {}
  BY <1>1
<1>3. Min(D) \in D /\ \A d \in D : Min(D) <= d
  BY <1>2, MinOfNats
<1>4. PICK x \in S : \A y \in S : b - x <= b - y
  BY <1>3
<1>5. \A y \in S : x >= y
  BY <1>4
<1> QED
  BY <1>5 DEF Max

-----------------------------------------------------------------------------

MetaFields  == {"stores", "regions", "byStart", "nextStore", "nextRegion", "nextPeer"}
ImageFields == {"stores", "regions", "nextStore", "nextRegion", "nextPeer"}

-----------------------------------------------------------------------------
\* The inductive invariant.  Memory and catalog are each sound by themselves;
\* what ties them together is the history of saved regions.

\* Ids are below the allocators and no region is empty.
Allocated(m) ==
  \A i \in DOMAIN m.regions :
    /\ i < m.nextRegion
    /\ ContainsKey(m.regions[i], m.regions[i].start)
    /\ \A a \in DOMAIN m.regions[i].peers : m.regions[i].peers[a].id < m.nextPeer

\* No two peers of the cluster have the same id.
UniquePeers(m) ==
  \A i, j \in DOMAIN m.regions :
    \A a \in DOMAIN m.regions[i].peers : \A b \in DOMAIN m.regions[j].peers :
      m.regions[i].peers[a].id = m.regions[j].peers[b].id => i = j /\ a = b

\* The peers of one region: on different stores, which are registered, and one
\* of them leads.
PlacedOn(r, stores) ==
  /\ \A a, b \in DOMAIN r.peers : r.peers[a].store = r.peers[b].store => a = b
  /\ \A a \in DOMAIN r.peers : r.peers[a].store \in stores
  /\ FindPeer(r, r.leader) # {}

Placed(m) == \A i \in DOMAIN m.regions : PlacedOn(m.regions[i], m.stores)

\* The start-key index is the inverse of the start keys.
Indexed(m) ==
  /\ DOMAIN m.byStart = {m.regions[i].start : i \in DOMAIN m.regions}
  /\ \A i \in DOMAIN m.regions : m.byStart[m.regions[i].start] = i

\* No region id of m, and none it would hand out, was saved with another start.
Remembers(m, saved) ==
  \A x \in saved : /\ x[1] \in 0 .. m.nextRegion - 1
                   /\ x[1] \in DOMAIN m.regions => m.regions[x[1]].start = x[2]

Sound(m, saved) ==
  /\ IsImage(m)
  /\ Allocated(m) /\ PartitionsKeys(m) /\ UniquePeers(m) /\ Placed(m)
  /\ Remembers(m, saved)

SoundMeta(m, saved) ==
  /\ DOMAIN m = MetaFields /\ Sound(m, saved)
  /\ Indexed(m) /\ m.byStart = [k \in DOMAIN m.byStart |-> m.byStart[k]]

PdInv ==
  /\ running \in BOOLEAN
  /\ running => SoundMeta(meta, seen)
  /\ ~running => meta = NewMetadata
  /\ DOMAIN catalog = {"state", "image"} /\ catalog.state \in {"full", "torn"}
  /\ DOMAIN catalog.image = ImageFields /\ Sound(catalog.image, seen)
  /\ catalog.state = "full" => Ranges(catalog.image) \subseteq seen
  /\ seen \subseteq Nat \X PdKey
  /\ RegionIdNeverReused

-----------------------------------------------------------------------------
\* Operators of PdMetadataStore.

LEMMA RegionTypes ==
  ASSUME NEW r \in RegionInfo
  PROVE  /\ DOMAIN r = {"start", "end", "version", "confVer", "leader", "peers"}
         /\ r.start \in PdKey /\ r.end \in PdKey /\ r.leader \in Nat
         /\ r.version \in Nat /\ r.confVer \in Nat
         /\ r.peers \in Seq(PeerInfo) /\ DOMAIN r.peers = 1 .. Len(r.peers)
         /\ Len(r.peers) \in Nat
         /\ \A a \in DOMAIN r.peers : r.peers[a].id \in Nat /\ r.peers[a].store \in Nat
<1>1. r.peers \in Seq(PeerInfo)
  BY DEF RegionInfo
<1>2. \A a \in DOMAIN r.peers : r.peers[a] \in PeerInfo
  BY <1>1
<1>3. \A q \in PeerInfo : q.id \in Nat /\ q.store \in Nat
  BY DEF PeerInfo
<1> QED
  BY <1>1, <1>2, <1>3 DEF RegionInfo

\* The metadata n after PutRegion of r as region id of m.
PutInto(m, id, r, n) ==
  /\ DOMAIN n = MetaFields
  /\ n.stores = m.stores /\ n.nextStore = m.nextStore
  /\ n.nextRegion = m.nextRegion /\ n.nextPeer = m.nextPeer
  /\ n.regions = [i \in DOMAIN m.regions \cup {id} |->
                    IF i = id THEN r ELSE m.regions[i]]
  /\ n.byStart = [k \in DOMAIN m.byStart \cup {r.start} |->
                    IF k = r.start THEN id ELSE m.byStart[k]]

LEMMA PutRegionFacts ==
  ASSUME NEW m, DOMAIN m = MetaFields, NEW id, NEW r, NEW n,
         n = PutRegion(m, id, r)
  PROVE  PutInto(m, id, r, n)
BY DEF PutRegion, MetaFields, PutInto

\* A region is put with the range of the region it replaces.
SameRange(r, q) == r.start = q.start /\ r.end = q.end

LEMMA SameRangeContains ==
  ASSUME NEW r, NEW q, SameRange(r, q), NEW k
  PROVE  ContainsKey(r, k) <=> ContainsKey(q, k)
BY DEF SameRange, ContainsKey

\* What PutRegion keeps when only the peers of a region change.
LEMMA ReplaceRegion ==
  ASSUME NEW m, NEW saved, SoundMeta(m, saved),
         NEW id \in DOMAIN m.regions, NEW r \in RegionInfo,
         SameRange(r, m.regions[id]), NEW n, n = PutRegion(m, id, r)
  PROVE  /\ DOMAIN n = MetaFields /\ DOMAIN n.regions = DOMAIN m.regions
         /\ n.regions[id] = r
         /\ \A i \in DOMAIN m.regions \ {id} : n.regions[i] = m.regions[i]
         /\ \A i \in DOMAIN m.regions : SameRange(n.regions[i], m.regions[i])
         /\ n.regions \in [DOMAIN n.regions -> RegionInfo]
         /\ n.stores = m.stores /\ n.nextStore = m.nextStore
         /\ n.nextRegion = m.nextRegion /\ n.nextPeer = m.nextPeer
         /\ Indexed(n) /\ n.byStart = [k \in DOMAIN n.byStart |-> n.byStart[k]]
<1>1. /\ DOMAIN n = MetaFields
      /\ n.stores = m.stores /\ n.nextStore = m.nextStore
      /\ n.nextRegion = m.nextRegion /\ n.nextPeer = m.nextPeer
      /\ n.regions = [i \in DOMAIN m.regions \cup {id} |->
                        IF i = id THEN r ELSE m.regions[i]]
      /\ n.byStart = [k \in DOMAIN m.byStart \cup {r.start} |->
                        IF k = r.start THEN id ELSE m.byStart[k]]
  <2>1. DOMAIN m = MetaFields /\ n = PutRegion(m, id, r)
    BY DEF SoundMeta
  <2>2. PutInto(m, id, r, n)
    BY <2>1, PutRegionFacts
  <2> QED
    BY <2>2 DEF PutInto
<1>2. DOMAIN n.regions = DOMAIN m.regions /\ n.regions[id] = r
      /\ \A i \in DOMAIN m.regions \ {id} : n.regions[i] = m.regions[i]
  BY <1>1
<1>3. \A i \in DOMAIN m.regions : SameRange(n.regions[i], m.regions[i])
  BY <1>2 DEF SameRange
<1>4. n.regions \in [DOMAIN n.regions -> RegionInfo]
  BY <1>1, <1>2 DEF SoundMeta, Sound, IsImage
<1>5. DOMAIN m.byStart = {m.regions[i].start : i \in DOMAIN m.regions}
      /\ \A i \in DOMAIN m.regions : m.byStart[m.regions[i].start] = i
  BY DEF SoundMeta, Indexed
<1>6. r.start = m.regions[id].start /\ r.start \in DOMAIN m.byStart
  BY <1>5 DEF SameRange
<1>7. DOMAIN n.byStart = DOMAIN m.byStart /\ \A k \in DOMAIN m.byStart : n.byStart[k] = m.byStart[k]
  BY <1>1, <1>5, <1>6
<1>8. n.byStart = [k \in DOMAIN n.byStart |-> n.byStart[k]]
  BY <1>1
<1>9. Indexed(n)
  <2>1. \A i \in DOMAIN m.regions : n.regions[i].start = m.regions[i].start
    BY <1>3 DEF SameRange
  <2> QED
    BY <1>2, <1>5, <1>7, <2>1 DEF Indexed
<1> QED
  BY <1>1, <1>2, <1>3, <1>4, <1>8, <1>9

\* The part of soundness that is about key ranges depends on the ranges only.
LEMMA SameRangesSound ==
  ASSUME NEW m, NEW n, NEW saved,
         DOMAIN n.regions = DOMAIN m.regions,
         \A i \in DOMAIN m.regions : SameRange(n.regions[i], m.regions[i]),
         n.nextRegion = m.nextRegion
  PROVE  /\ PartitionsKeys(m) => PartitionsKeys(n)
         /\ Remembers(m, saved) => Remembers(n, saved)
         /\ \A i \in DOMAIN m.regions :
              ContainsKey(m.regions[i], m.regions[i].start) =>
                ContainsKey(n.regions[i], n.regions[i].start)
<1>1. \A i \in DOMAIN m.regions : \A k :
        ContainsKey(n.regions[i], k) <=> ContainsKey(m.regions[i], k)
  BY SameRangeContains
<1>2. \A i \in DOMAIN m.regions : n.regions[i].start = m.regions[i].start
  BY DEF SameRange
<1>3. PartitionsKeys(m) => PartitionsKeys(n)
  BY <1>1 DEF PartitionsKeys
<1>4. Remembers(m, saved) => Remembers(n, saved)
  BY <1>2 DEF Remembers
<1> QED
  BY <1>1, <1>2, <1>3, <1>4

\* Handing out ids keeps the metadata sound.
LEMMA RaiseAllocators ==
  ASSUME NEW m, NEW saved, SoundMeta(m, saved), NEW n, DOMAIN n = MetaFields,
         n.stores \in SUBSET Nat, m.stores \subseteq n.stores,
         n.regions = m.regions, n.byStart = m.byStart,
         n.nextStore \in Nat, n.nextRegion \in Nat, n.nextPeer \in Nat,
         m.nextRegion <= n.nextRegion, m.nextPeer <= n.nextPeer
  PROVE  SoundMeta(n, saved)
<1>1. IsImage(n)
  BY DEF SoundMeta, Sound, IsImage
<1>2. Allocated(n)
  <2>1. \A i \in DOMAIN m.regions : i \in Nat /\ m.regions[i] \in RegionInfo
    BY DEF SoundMeta, Sound, IsImage
  <2>2. m.nextRegion \in Nat /\ m.nextPeer \in Nat
    BY DEF SoundMeta, Sound, IsImage
  <2>3. \A i \in DOMAIN m.regions : i < n.nextRegion
    BY <2>1, <2>2 DEF SoundMeta, Sound, Allocated
  <2>4. \A i \in DOMAIN m.regions : \A a \in DOMAIN m.regions[i].peers :
          m.regions[i].peers[a].id \in Nat
    BY <2>1, RegionTypes
  <2>5. \A i \in DOMAIN m.regions : \A a \in DOMAIN m.regions[i].peers :
          m.regions[i].peers[a].id < n.nextPeer
    BY <2>2, <2>4 DEF SoundMeta, Sound, Allocated
  <2> QED
    BY <2>3, <2>5 DEF SoundMeta, Sound, Allocated
<1>3. PartitionsKeys(n) /\ UniquePeers(n)
  BY DEF SoundMeta, Sound, PartitionsKeys, UniquePeers
<1>4. Placed(n)
  BY DEF SoundMeta, Sound, Placed, PlacedOn
<1>5. Indexed(n) /\ n.byStart = [k \in DOMAIN n.byStart |-> n.byStart[k]]
  BY DEF SoundMeta, Indexed
<1>6. Remembers(n, saved)
  <2>1. m.nextRegion \in Nat /\ Remembers(m, saved)
    BY DEF SoundMeta, Sound, IsImage
  <2> QED
    BY <2>1 DEF Remembers
<1> QED
  BY <1>1, <1>2, <1>3, <1>4, <1>5, <1>6 DEF SoundMeta, Sound

\* A region gets other peers, a leader or a configuration version.
LEMMA ReplaceSound ==
  ASSUME NEW m, NEW saved, SoundMeta(m, saved),
         NEW id \in DOMAIN m.regions, NEW r \in RegionInfo,
         SameRange(r, m.regions[id]), PlacedOn(r, m.stores),
         \A a \in DOMAIN r.peers : r.peers[a].id < m.nextPeer,
         \A a, b \in DOMAIN r.peers : r.peers[a].id = r.peers[b].id => a = b,
         \A j \in DOMAIN m.regions \ {id} : \A b \in DOMAIN m.regions[j].peers :
           \A a \in DOMAIN r.peers : r.peers[a].id # m.regions[j].peers[b].id,
         NEW n, n = PutRegion(m, id, r)
  PROVE  SoundMeta(n, saved)
<1>1. n = PutRegion(m, id, r)
  OBVIOUS
<1>2. /\ DOMAIN n = MetaFields /\ DOMAIN n.regions = DOMAIN m.regions
      /\ n.regions[id] = r
      /\ \A i \in DOMAIN m.regions \ {id} : n.regions[i] = m.regions[i]
      /\ \A i \in DOMAIN m.regions : SameRange(n.regions[i], m.regions[i])
      /\ n.regions \in [DOMAIN n.regions -> RegionInfo]
      /\ n.stores = m.stores /\ n.nextStore = m.nextStore
      /\ n.nextRegion = m.nextRegion /\ n.nextPeer = m.nextPeer
      /\ Indexed(n) /\ n.byStart = [k \in DOMAIN n.byStart |-> n.byStart[k]]
  BY <1>1, ReplaceRegion
<1>3. /\ IsImage(m) /\ Allocated(m) /\ PartitionsKeys(m) /\ UniquePeers(m)
      /\ Placed(m) /\ Remembers(m, saved)
  BY DEF SoundMeta, Sound
<1>4. IsImage(n)
  BY <1>2, <1>3 DEF IsImage
<1>5. /\ PartitionsKeys(n) /\ Remembers(n, saved)
      /\ \A i \in DOMAIN m.regions : ContainsKey(n.regions[i], n.regions[i].start)
  BY <1>2, <1>3, SameRangesSound DEF Allocated
<1>6. Allocated(n)
  BY <1>2, <1>3, <1>5 DEF Allocated
<1>7. UniquePeers(n)
  BY <1>2, <1>3 DEF UniquePeers
<1>8. Placed(n)
  BY <1>2, <1>3 DEF Placed
<1> QED
  BY <1>2, <1>4, <1>5, <1>6, <1>7, <1>8 DEF SoundMeta, Sound

-----------------------------------------------------------------------------
\* The handlers: what they hand to Persist is sound.

LEMMA RegisterSound ==
  ASSUME NEW m, NEW saved, SoundMeta(m, saved), NEW s \in Nat, NEW n,
         n = PutStore(IF s >= m.nextStore THEN [m EXCEPT !.nextStore = s + 1] ELSE m, s)
             \/ n = PutStore(m, s)
  PROVE  SoundMeta(n, saved)
<1>1. DOMAIN m = MetaFields /\ IsImage(m)
  BY DEF SoundMeta, Sound
<1>2. /\ DOMAIN n = MetaFields /\ n.stores = m.stores \cup {s}
      /\ n.regions = m.regions /\ n.byStart = m.byStart
      /\ n.nextRegion = m.nextRegion /\ n.nextPeer = m.nextPeer
      /\ n.nextStore \in {m.nextStore, s + 1}
  BY <1>1 DEF PutStore, MetaFields
<1>3. /\ n.stores \in SUBSET Nat /\ m.stores \subseteq n.stores /\ n.nextStore \in Nat
      /\ n.nextRegion \in Nat /\ n.nextPeer \in Nat
      /\ m.nextRegion <= n.nextRegion /\ m.nextPeer <= n.nextPeer
  BY <1>1, <1>2 DEF IsImage
<1> QED
  BY <1>2, <1>3, RaiseAllocators

\* The peer list with one more peer.
LEMMA AppendedPeer ==
  ASSUME NEW ps \in Seq(PeerInfo), NEW new \in PeerInfo, NEW qs, qs = Append(ps, new)
  PROVE  /\ qs \in Seq(PeerInfo) /\ DOMAIN qs = 1 .. Len(ps) + 1 /\ Len(ps) \in Nat
         /\ DOMAIN ps = 1 .. Len(ps)
         /\ qs[Len(ps) + 1] = new
         /\ \A a \in 1 .. Len(ps) : qs[a] = ps[a]
         /\ \A a \in DOMAIN qs : \/ a \in DOMAIN ps /\ qs[a] = ps[a]
                                 \/ a = Len(ps) + 1 /\ qs[a] = new
<1>1. /\ qs \in Seq(PeerInfo) /\ DOMAIN qs = 1 .. Len(ps) + 1 /\ Len(ps) \in Nat
      /\ DOMAIN ps = 1 .. Len(ps)
  OBVIOUS
<1>2. qs[Len(ps) + 1] = new /\ \A a \in 1 .. Len(ps) : qs[a] = ps[a]
  OBVIOUS
<1>3. \A a \in 1 .. Len(ps) + 1 : a \in 1 .. Len(ps) \/ a = Len(ps) + 1
  BY <1>1
<1> QED
  BY <1>1, <1>2, <1>3

LEMMA AddPeerSound ==
  ASSUME NEW m, NEW saved, SoundMeta(m, saved), NEW id \in DOMAIN m.regions,
         NEW q, q = m.regions[id], NEW new \in PeerInfo,
         new.id = m.nextPeer, new.store \in m.stores,
         FindPeerByStore(q, new.store) = {},
         NEW u, SoundMeta(u, saved), u.regions = m.regions, u.stores = m.stores,
         u.nextPeer = m.nextPeer + 1,
         NEW r \in RegionInfo, SameRange(r, q), r.leader = q.leader,
         r.peers = Append(q.peers, new)
  PROVE  SoundMeta(PutRegion(u, id, r), saved)
<1>1. /\ IsImage(m) /\ Allocated(m) /\ UniquePeers(m) /\ Placed(m)
  BY DEF SoundMeta, Sound
<1>2. q \in RegionInfo /\ m.nextPeer \in Nat
  BY <1>1 DEF IsImage
<1>3. /\ q.peers \in Seq(PeerInfo)
      /\ \A a \in DOMAIN q.peers : q.peers[a].id \in Nat /\ q.peers[a].store \in Nat
  BY <1>2, RegionTypes
<1>4. /\ DOMAIN r.peers = 1 .. Len(q.peers) + 1 /\ Len(q.peers) \in Nat
      /\ DOMAIN q.peers = 1 .. Len(q.peers)
      /\ r.peers[Len(q.peers) + 1] = new
      /\ \A a \in 1 .. Len(q.peers) : r.peers[a] = q.peers[a]
      /\ \A a \in DOMAIN r.peers : \/ a \in DOMAIN q.peers /\ r.peers[a] = q.peers[a]
                                   \/ a = Len(q.peers) + 1 /\ r.peers[a] = new
  <2>1. r.peers = Append(q.peers, new)
    OBVIOUS
  <2> QED
    BY <1>3, <2>1, AppendedPeer
<1>5. \A a \in DOMAIN q.peers : q.peers[a].id < m.nextPeer
  BY <1>1 DEF Allocated
<1>6. PlacedOn(r, u.stores)
  <2>1. PlacedOn(q, m.stores)
    BY <1>1 DEF Placed
  <2>2. \A a \in DOMAIN q.peers : q.peers[a].store # new.store
    BY DEF FindPeerByStore
  <2>3. FindPeer(r, r.leader) # {}
    <3>1. PICK a \in DOMAIN q.peers : q.peers[a].id = q.leader
      BY <2>1 DEF PlacedOn, FindPeer
    <3>2. a \in DOMAIN r.peers /\ r.peers[a].id = r.leader
      BY <1>4, <3>1
    <3> QED
      BY <3>2 DEF FindPeer
  <2>4. \A a \in DOMAIN r.peers : r.peers[a].store \in m.stores
    BY <1>4, <2>1 DEF PlacedOn
  <2>5. \A a, b \in DOMAIN r.peers : r.peers[a].store = r.peers[b].store => a = b
    BY <1>4, <2>1, <2>2 DEF PlacedOn
  <2> QED
    BY <2>3, <2>4, <2>5 DEF PlacedOn
<1>7. \A a \in DOMAIN r.peers : r.peers[a].id < u.nextPeer
  BY <1>2, <1>3, <1>4, <1>5
<1>8. \A a, b \in DOMAIN r.peers : r.peers[a].id = r.peers[b].id => a = b
  <2>1. \A a, b \in DOMAIN q.peers : q.peers[a].id = q.peers[b].id => a = b
    BY <1>1 DEF UniquePeers
  <2>2. \A a \in DOMAIN q.peers : q.peers[a].id # m.nextPeer
    BY <1>2, <1>3, <1>5
  <2> QED
    BY <1>4, <2>1, <2>2
<1>9. \A j \in DOMAIN m.regions \ {id} : \A b \in DOMAIN m.regions[j].peers :
        \A a \in DOMAIN r.peers : r.peers[a].id # m.regions[j].peers[b].id
  <2> SUFFICES ASSUME NEW j \in DOMAIN m.regions \ {id},
                      NEW b \in DOMAIN m.regions[j].peers, NEW a \in DOMAIN r.peers
               PROVE  r.peers[a].id # m.regions[j].peers[b].id
    OBVIOUS
  <2>1. m.regions[j].peers[b].id < m.nextPeer /\ m.regions[j].peers[b].id \in Nat
    BY <1>1, RegionTypes DEF Allocated, IsImage
  <2>2. CASE a \in DOMAIN q.peers /\ r.peers[a] = q.peers[a]
    BY <1>1, <2>2 DEF UniquePeers
  <2>3. CASE r.peers[a] = new
    BY <1>2, <2>1, <2>3
  <2> QED
    BY <1>4, <2>2, <2>3
<1>10. /\ id \in DOMAIN u.regions /\ SameRange(r, u.regions[id])
       /\ \A j \in DOMAIN u.regions \ {id} : \A b \in DOMAIN u.regions[j].peers :
            \A a \in DOMAIN r.peers : r.peers[a].id # u.regions[j].peers[b].id
  BY <1>9
<1> QED
  BY <1>6, <1>7, <1>8, <1>10, ReplaceSound

\* The peer list without one peer: position a was position From(a, i).
From(a, i) == IF a < i THEN a ELSE a + 1

LEMMA RemovedPeer ==
  ASSUME NEW ps \in Seq(PeerInfo), NEW i \in DOMAIN ps, NEW qs, qs = RemoveAt(ps, i)
  PROVE  /\ qs \in Seq(PeerInfo) /\ DOMAIN qs = 1 .. Len(ps) - 1 /\ Len(ps) \in Nat
         /\ \A a \in DOMAIN qs : /\ From(a, i) \in DOMAIN ps \ {i}
                                 /\ qs[a] = ps[From(a, i)]
         /\ \A b \in DOMAIN ps \ {i} : \E a \in DOMAIN qs : b = From(a, i)
         /\ \A a, b \in DOMAIN qs : From(a, i) = From(b, i) => a = b
<1> DEFINE l == SubSeq(ps, 1, i - 1)
           t == SubSeq(ps, i + 1, Len(ps))
<1>1. i \in 1 .. Len(ps) /\ Len(ps) \in Nat /\ DOMAIN ps = 1 .. Len(ps)
  OBVIOUS
<1>2. /\ l \in Seq(PeerInfo) /\ Len(l) = i - 1
      /\ \A a \in 1 .. i - 1 : l[a] = ps[a]
  BY <1>1
<1>3. /\ t \in Seq(PeerInfo) /\ Len(t) = Len(ps) - i
      /\ \A a \in 1 .. Len(ps) - i : t[a] = ps[i + a]
  BY <1>1
<1>4. qs = l \o t
  BY DEF RemoveAt
<1> HIDE DEF l, t
<1>5. qs \in Seq(PeerInfo) /\ Len(qs) = Len(ps) - 1 /\ DOMAIN qs = 1 .. Len(ps) - 1
  <2>1. qs \in Seq(PeerInfo) /\ Len(qs) = Len(l) + Len(t)
    BY <1>2, <1>3, <1>4
  <2>2. Len(l) + Len(t) = Len(ps) - 1
    BY <1>1, <1>2, <1>3
  <2> QED
    BY <2>1, <2>2
<1>6. \A a \in 1 .. Len(ps) - 1 : qs[a] = ps[From(a, i)]
  <2> SUFFICES ASSUME NEW a \in 1 .. Len(ps) - 1
               PROVE  qs[a] = ps[From(a, i)]
    OBVIOUS
  <2>1. CASE a < i
    <3>1. a \in 1 .. Len(l) /\ qs[a] = l[a]
      BY <1>1, <1>2, <1>3, <1>4, <2>1
    <3> QED
      BY <1>1, <1>2, <2>1, <3>1 DEF From
  <2>2. CASE ~(a < i)
    <3>1. a - Len(l) \in 1 .. Len(t) /\ qs[a] = t[a - Len(l)]
      BY <1>1, <1>2, <1>3, <1>4, <2>2
    <3>2. i + (a - Len(l)) = a + 1
      BY <1>1, <1>2
    <3> QED
      BY <1>1, <1>2, <1>3, <2>2, <3>1, <3>2 DEF From
  <2> QED
    BY <2>1, <2>2
<1>7. \A a \in 1 .. Len(ps) - 1 : From(a, i) \in 1 .. Len(ps) /\ From(a, i) # i
  BY <1>1 DEF From
<1>8. \A b \in DOMAIN ps \ {i} : \E a \in DOMAIN qs : b = From(a, i)
  <2> SUFFICES ASSUME NEW b \in DOMAIN ps \ {i}
               PROVE  \E a \in DOMAIN qs : b = From(a, i)
    OBVIOUS
  <2>1. CASE b < i
    <3>1. b \in DOMAIN qs /\ b = From(b, i)
      BY <1>1, <1>5, <2>1 DEF From
    <3> QED
      BY <3>1
  <2>2. CASE b > i
    <3>1. b - 1 \in DOMAIN qs /\ b = From(b - 1, i)
      BY <1>1, <1>5, <2>2 DEF From
    <3> QED
      BY <3>1
  <2> QED
    BY <1>1, <2>1, <2>2
<1>9. \A a, b \in DOMAIN qs : From(a, i) = From(b, i) => a = b
  BY <1>1, <1>5 DEF From
<1> QED
  BY <1>1, <1>5, <1>6, <1>7, <1>8, <1>9

LEMMA RemovePeerSound ==
  ASSUME NEW m, NEW saved, SoundMeta(m, saved), NEW id \in DOMAIN m.regions,
         NEW q, q = m.regions[id], NEW i \in DOMAIN q.peers, Len(q.peers) > 1,
         NEW r \in RegionInfo, SameRange(r, q), r.peers = RemoveAt(q.peers, i),
         r.leader = IF q.leader = q.peers[i].id THEN r.peers[1].id ELSE q.leader
  PROVE  SoundMeta(PutRegion(m, id, r), saved)
<1>1. IsImage(m) /\ Allocated(m) /\ UniquePeers(m) /\ Placed(m)
  BY DEF SoundMeta, Sound
<1>2. q \in RegionInfo
  BY <1>1 DEF IsImage
<1>3. q.peers \in Seq(PeerInfo)
  BY <1>2, RegionTypes
<1>4. /\ DOMAIN r.peers = 1 .. Len(q.peers) - 1 /\ Len(q.peers) \in Nat
      /\ \A a \in DOMAIN r.peers : /\ From(a, i) \in DOMAIN q.peers \ {i}
                                   /\ r.peers[a] = q.peers[From(a, i)]
      /\ \A b \in DOMAIN q.peers \ {i} : \E a \in DOMAIN r.peers : b = From(a, i)
      /\ \A a, b \in DOMAIN r.peers : From(a, i) = From(b, i) => a = b
  <2>1. r.peers = RemoveAt(q.peers, i)
    OBVIOUS
  <2> QED
    BY <1>3, <2>1, RemovedPeer
<1>5. PlacedOn(q, m.stores)
  BY <1>1 DEF Placed
<1>6. FindPeer(r, r.leader) # {}
  <2>1. CASE q.leader = q.peers[i].id
    <3>1. 1 \in DOMAIN r.peers
      BY <1>4
    <3> QED
      BY <2>1, <3>1 DEF FindPeer
  <2>2. CASE q.leader # q.peers[i].id
    <3>1. PICK b \in DOMAIN q.peers : q.peers[b].id = q.leader
      BY <1>5 DEF PlacedOn, FindPeer
    <3>2. PICK a \in DOMAIN r.peers : b = From(a, i)
      BY <1>4, <2>2, <3>1
    <3>3. r.peers[a].id = r.leader
      BY <1>4, <2>2, <3>1, <3>2
    <3> QED
      BY <3>2, <3>3 DEF FindPeer
  <2> QED
    BY <2>1, <2>2
<1>7. PlacedOn(r, m.stores)
  <2>1. \A a \in DOMAIN r.peers : r.peers[a].store \in m.stores
    BY <1>4, <1>5 DEF PlacedOn
  <2>2. \A a, b \in DOMAIN r.peers : r.peers[a].store = r.peers[b].store => a = b
    BY <1>4, <1>5 DEF PlacedOn
  <2> QED
    BY <1>6, <2>1, <2>2 DEF PlacedOn
<1>8. \A a \in DOMAIN r.peers : r.peers[a].id < m.nextPeer
  BY <1>1, <1>4 DEF Allocated
<1>9. \A a, b \in DOMAIN r.peers : r.peers[a].id = r.peers[b].id => a = b
  <2>1. \A a, b \in DOMAIN q.peers : q.peers[a].id = q.peers[b].id => a = b
    BY <1>1 DEF UniquePeers
  <2> QED
    BY <1>4, <2>1
<1>10. \A j \in DOMAIN m.regions \ {id} : \A b \in DOMAIN m.regions[j].peers :
         \A a \in DOMAIN r.peers : r.peers[a].id # m.regions[j].peers[b].id
  BY <1>1, <1>4 DEF UniquePeers
<1>11. SameRange(r, m.regions[id])
  OBVIOUS
<1> QED
  BY <1>7, <1>8, <1>9, <1>10, <1>11, ReplaceSound

LEMMA TransferSound ==
  ASSUME NEW m, NEW saved, SoundMeta(m, saved), NEW id \in DOMAIN m.regions,
         NEW q, q = m.regions[id], NEW r \in RegionInfo, SameRange(r, q),
         r.peers = q.peers, FindPeer(q, r.leader) # {}
  PROVE  SoundMeta(PutRegion(m, id, r), saved)
<1>1. IsImage(m) /\ Allocated(m) /\ UniquePeers(m) /\ Placed(m)
  BY DEF SoundMeta, Sound
<1>2. PlacedOn(r, m.stores)
  BY <1>1 DEF Placed, PlacedOn, FindPeer
<1>3. /\ \A a \in DOMAIN r.peers : r.peers[a].id < m.nextPeer
      /\ \A a, b \in DOMAIN r.peers : r.peers[a].id = r.peers[b].id => a = b
      /\ \A j \in DOMAIN m.regions \ {id} : \A b \in DOMAIN m.regions[j].peers :
           \A a \in DOMAIN r.peers : r.peers[a].id # m.regions[j].peers[b].id
  BY <1>1 DEF Allocated, UniquePeers
<1>4. SameRange(r, m.regions[id])
  OBVIOUS
<1> QED
  BY <1>2, <1>3, <1>4, ReplaceSound

-----------------------------------------------------------------------------
\* SplitRegion: region id of m, q, becomes left; right is new.
IsSplit(m, id, k, left, right) ==
  LET q == m.regions[id]
  IN  /\ id \in DOMAIN m.regions /\ k \in PdKey
      /\ ContainsKey(q, k) /\ k # q.start
      /\ left \in RegionInfo /\ right \in RegionInfo
      /\ left.start = q.start /\ left.end = k
      /\ left.peers = q.peers /\ left.leader = q.leader
      /\ right.start = k /\ right.end = q.end
      /\ DOMAIN right.peers = DOMAIN q.peers
      /\ \A a \in DOMAIN q.peers : /\ right.peers[a].id = m.nextPeer + a - 1
                                   /\ right.peers[a].store = q.peers[a].store
      /\ right.leader = m.nextPeer

\* The halves of a region contain its keys, each exactly one.
LEMMA SplitKeys ==
  ASSUME NEW q \in RegionInfo, NEW k \in PdKey, ContainsKey(q, k), k # q.start,
         NEW left \in RegionInfo, NEW right \in RegionInfo,
         left.start = q.start, left.end = k, right.start = k, right.end = q.end
  PROVE  /\ \A x \in PdKey : ContainsKey(q, x) <=>
                               ContainsKey(left, x) \/ ContainsKey(right, x)
         /\ \A x \in PdKey : ~(ContainsKey(left, x) /\ ContainsKey(right, x))
         /\ ContainsKey(left, left.start) /\ ContainsKey(right, right.start)
<1>1. /\ k \in Nat /\ q.start \in Nat /\ q.end \in Nat
      /\ \A x \in PdKey : x \in Nat
  BY RegionTypes, PdAssumption DEF PdKey
<1>2. q.start < k /\ k # 0 /\ (q.end = 0 \/ k < q.end)
  BY <1>1 DEF ContainsKey, Unbounded
<1>3. \A x \in PdKey : ContainsKey(q, x) <=>
                         ContainsKey(left, x) \/ ContainsKey(right, x)
  BY <1>1, <1>2 DEF ContainsKey, Unbounded
<1>4. \A x \in PdKey : ~(ContainsKey(left, x) /\ ContainsKey(right, x))
  BY <1>1, <1>2 DEF ContainsKey, Unbounded
<1>5. ContainsKey(left, left.start) /\ ContainsKey(right, right.start)
  BY <1>1, <1>2 DEF ContainsKey, Unbounded
<1> QED
  BY <1>3, <1>4, <1>5

\* Two regions with the same start key are the same region.
LEMMA StartsAreUnique ==
  ASSUME NEW m, IsImage(m), Allocated(m), PartitionsKeys(m),
         NEW i \in DOMAIN m.regions, NEW j \in DOMAIN m.regions,
         ContainsKey(m.regions[i], m.regions[j].start)
  PROVE  i = j
<1>1. ContainsKey(m.regions[j], m.regions[j].start)
  BY DEF Allocated
<1>2. m.regions[j].start \in PdKey
  BY RegionTypes DEF IsImage
<1> QED
  BY <1>1, <1>2 DEF PartitionsKeys

\* The metadata n after the two PutRegion of a split.
SplitInto(m, id, left, new, right, n) ==
  /\ DOMAIN n = MetaFields /\ n.stores = m.stores
  /\ n.nextStore = m.nextStore /\ n.nextRegion = m.nextRegion
  /\ n.nextPeer = m.nextPeer
  /\ DOMAIN n.regions = DOMAIN m.regions \cup {new}
  /\ n.regions = [i \in DOMAIN n.regions |-> n.regions[i]]
  /\ n.regions[id] = left /\ n.regions[new] = right
  /\ \A i \in DOMAIN m.regions \ {id} : n.regions[i] = m.regions[i]
  /\ n.byStart = [x \in DOMAIN m.byStart \cup {left.start} \cup {right.start} |->
                    IF x = right.start THEN new
                    ELSE IF x = left.start THEN id ELSE m.byStart[x]]

LEMMA SplitRegions ==
  ASSUME NEW m, DOMAIN m = MetaFields, NEW id, NEW left, NEW right, NEW new,
         id \in DOMAIN m.regions, new \notin DOMAIN m.regions,
         NEW n, n = PutRegion(PutRegion(m, id, left), new, right)
  PROVE  SplitInto(m, id, left, new, right, n)
<1> DEFINE l == PutRegion(m, id, left)
<1>1. /\ DOMAIN l = MetaFields
      /\ l.stores = m.stores /\ l.nextStore = m.nextStore
      /\ l.nextRegion = m.nextRegion /\ l.nextPeer = m.nextPeer
      /\ l.regions = [i \in DOMAIN m.regions \cup {id} |->
                        IF i = id THEN left ELSE m.regions[i]]
      /\ l.byStart = [k \in DOMAIN m.byStart \cup {left.start} |->
                        IF k = left.start THEN id ELSE m.byStart[k]]
  <2> HIDE DEF l
  <2>1. l = PutRegion(m, id, left)
    BY DEF l
  <2>2. PutInto(m, id, left, l)
    BY <2>1, PutRegionFacts
  <2> QED
    BY <2>2 DEF PutInto
<1>2. n = PutRegion(l, new, right)
  OBVIOUS
<1> HIDE DEF l
<1>3. /\ DOMAIN n = MetaFields
      /\ n.stores = l.stores /\ n.nextStore = l.nextStore
      /\ n.nextRegion = l.nextRegion /\ n.nextPeer = l.nextPeer
      /\ n.regions = [i \in DOMAIN l.regions \cup {new} |->
                        IF i = new THEN right ELSE l.regions[i]]
      /\ n.byStart = [k \in DOMAIN l.byStart \cup {right.start} |->
                        IF k = right.start THEN new ELSE l.byStart[k]]
  <2>1. DOMAIN l = MetaFields /\ n = PutRegion(l, new, right)
    BY <1>1, <1>2
  <2> QED
    BY <2>1, PutRegionFacts DEF PutInto
<1>4. DOMAIN l.regions = DOMAIN m.regions /\ l.regions[id] = left
      /\ \A i \in DOMAIN m.regions \ {id} : l.regions[i] = m.regions[i]
  BY <1>1
<1>5. /\ DOMAIN n.regions = DOMAIN m.regions \cup {new}
      /\ n.regions = [i \in DOMAIN n.regions |-> n.regions[i]]
      /\ n.regions[id] = left /\ n.regions[new] = right
      /\ \A i \in DOMAIN m.regions \ {id} : n.regions[i] = m.regions[i]
  BY <1>3, <1>4
<1>6. n.byStart = [x \in DOMAIN m.byStart \cup {left.start} \cup {right.start} |->
                     IF x = right.start THEN new
                     ELSE IF x = left.start THEN id ELSE m.byStart[x]]
  <2>1. /\ DOMAIN l.byStart = DOMAIN m.byStart \cup {left.start}
        /\ \A x \in DOMAIN l.byStart :
             l.byStart[x] = IF x = left.start THEN id ELSE m.byStart[x]
    BY <1>1
  <2> QED
    BY <1>3, <2>1
<1> QED
  BY <1>1, <1>3, <1>5, <1>6 DEF SplitInto

LEMMA SplitSound ==
  ASSUME NEW m, NEW saved, SoundMeta(m, saved), NEW id, NEW k,
         NEW left, NEW right, IsSplit(m, id, k, left, right),
         NEW u, SoundMeta(u, saved), u.regions = m.regions, u.stores = m.stores,
         u.byStart = m.byStart, u.nextRegion = m.nextRegion + 1,
         u.nextPeer = m.nextPeer + Len(m.regions[id].peers)
  PROVE  SoundMeta(PutRegion(PutRegion(u, id, left), m.nextRegion, right), saved)
<1> DEFINE q   == m.regions[id]
           new == m.nextRegion
           n   == PutRegion(PutRegion(u, id, left), new, right)
           D   == DOMAIN m.regions
<1>1. /\ IsImage(m) /\ Allocated(m) /\ PartitionsKeys(m) /\ UniquePeers(m)
      /\ Placed(m) /\ Remembers(m, saved) /\ Indexed(m)
      /\ IsImage(u) /\ DOMAIN u = MetaFields
  BY DEF SoundMeta, Sound
<1>2. /\ D \subseteq Nat /\ \A i \in D : m.regions[i] \in RegionInfo
      /\ m.nextRegion \in Nat /\ m.nextPeer \in Nat
  BY <1>1 DEF IsImage
<1>3. new \notin D
  BY <1>1, <1>2 DEF Allocated
<1>4. /\ id \in D /\ k \in PdKey /\ ContainsKey(q, k) /\ k # q.start
      /\ left \in RegionInfo /\ right \in RegionInfo
      /\ left.start = q.start /\ left.end = k
      /\ left.peers = q.peers /\ left.leader = q.leader
      /\ right.start = k /\ right.end = q.end
      /\ DOMAIN right.peers = DOMAIN q.peers
      /\ \A a \in DOMAIN q.peers : /\ right.peers[a].id = m.nextPeer + a - 1
                                   /\ right.peers[a].store = q.peers[a].store
      /\ right.leader = m.nextPeer
  BY DEF IsSplit
<1>5. /\ DOMAIN n = MetaFields /\ n.stores = u.stores
      /\ n.nextStore = u.nextStore /\ n.nextRegion = u.nextRegion
      /\ n.nextPeer = u.nextPeer
      /\ DOMAIN n.regions = D \cup {new}
      /\ n.regions = [i \in DOMAIN n.regions |-> n.regions[i]]
      /\ n.regions[id] = left /\ n.regions[new] = right
      /\ \A i \in D \ {id} : n.regions[i] = m.regions[i]
      /\ n.byStart = [x \in DOMAIN u.byStart \cup {left.start} \cup {right.start} |->
                        IF x = right.start THEN new
                        ELSE IF x = left.start THEN id ELSE u.byStart[x]]
  <2>1. /\ DOMAIN u = MetaFields /\ id \in DOMAIN u.regions
        /\ new \notin DOMAIN u.regions
        /\ n = PutRegion(PutRegion(u, id, left), new, right)
    BY <1>1, <1>3, <1>4
  <2> HIDE DEF n, new
  <2>2. SplitInto(u, id, left, new, right, n)
    BY <2>1, SplitRegions
  <2> QED
    BY <2>2 DEF SplitInto
<1> HIDE DEF n
<1>6. /\ q \in RegionInfo /\ q.peers \in Seq(PeerInfo) /\ Len(q.peers) \in Nat
      /\ DOMAIN q.peers = 1 .. Len(q.peers)
      /\ \A a \in DOMAIN q.peers : q.peers[a].id \in Nat
  BY <1>2, <1>4, RegionTypes
<1>7. /\ \A x \in PdKey : ContainsKey(q, x) <=>
                            ContainsKey(left, x) \/ ContainsKey(right, x)
      /\ \A x \in PdKey : ~(ContainsKey(left, x) /\ ContainsKey(right, x))
      /\ ContainsKey(left, left.start) /\ ContainsKey(right, right.start)
  BY <1>4, <1>6, SplitKeys
<1>8. IsImage(n)
  <2>1. \A i \in DOMAIN n.regions : n.regions[i] \in RegionInfo
    BY <1>2, <1>4, <1>5
  <2>2. n.regions \in [DOMAIN n.regions -> RegionInfo]
    BY <1>5, <2>1
  <2> QED
    BY <1>1, <1>2, <1>5, <2>2 DEF IsImage
<1>9. q.peers # <<>> /\ 1 \in DOMAIN q.peers
  <2>1. PlacedOn(q, m.stores)
    BY <1>1, <1>4 DEF Placed
  <2>2. DOMAIN q.peers # {}
    BY <2>1 DEF PlacedOn, FindPeer
  <2> QED
    BY <1>6, <2>2
<1>10. Allocated(n)
  <2>1. \A i \in D : i < n.nextRegion
    BY <1>1, <1>2, <1>5 DEF Allocated
  <2>2. new < n.nextRegion
    BY <1>2, <1>5
  <2>3. \A i \in D : \A a \in DOMAIN m.regions[i].peers :
          m.regions[i].peers[a].id < n.nextPeer
    <3> SUFFICES ASSUME NEW i \in D, NEW a \in DOMAIN m.regions[i].peers
                 PROVE  m.regions[i].peers[a].id < n.nextPeer
      OBVIOUS
    <3>1. m.regions[i].peers[a].id \in Nat /\ m.regions[i].peers[a].id < m.nextPeer
      BY <1>1, <1>2, RegionTypes DEF Allocated
    <3> QED
      BY <1>2, <1>5, <1>6, <3>1
  <2>4. \A a \in DOMAIN right.peers : right.peers[a].id < n.nextPeer
    BY <1>2, <1>4, <1>5, <1>6
  <2>5. \A i \in D : ContainsKey(m.regions[i], m.regions[i].start)
    BY <1>1 DEF Allocated
  <2> QED
    BY <1>4, <1>5, <1>7, <2>1, <2>2, <2>3, <2>4, <2>5 DEF Allocated
<1>11. PartitionsKeys(n)
  <2>1. \A i, j \in D : \A x \in PdKey :
          ContainsKey(m.regions[i], x) /\ ContainsKey(m.regions[j], x) => i = j
    BY <1>1 DEF PartitionsKeys
  <2>2. \A x \in PdKey : \E i \in D : ContainsKey(m.regions[i], x)
    BY <1>1, <1>4 DEF PartitionsKeys
  <2>3. \A i, j \in DOMAIN n.regions : \A x \in PdKey :
          ContainsKey(n.regions[i], x) /\ ContainsKey(n.regions[j], x) => i = j
    BY <1>3, <1>4, <1>5, <1>7, <2>1
  <2>4. \A x \in PdKey : \E i \in DOMAIN n.regions : ContainsKey(n.regions[i], x)
    <3> SUFFICES ASSUME NEW x \in PdKey
                 PROVE  \E i \in DOMAIN n.regions : ContainsKey(n.regions[i], x)
      OBVIOUS
    <3>1. PICK i \in D : ContainsKey(m.regions[i], x)
      BY <2>2
    <3>2. CASE i = id
      BY <1>4, <1>5, <1>7, <3>1, <3>2
    <3>3. CASE i # id
      BY <1>5, <3>1, <3>3
    <3> QED
      BY <3>2, <3>3
  <2> QED
    BY <2>3, <2>4 DEF PartitionsKeys
<1>12. UniquePeers(n)
  <2>1. \A i, j \in D : \A a \in DOMAIN m.regions[i].peers :
          \A b \in DOMAIN m.regions[j].peers :
            m.regions[i].peers[a].id = m.regions[j].peers[b].id => i = j /\ a = b
    BY <1>1 DEF UniquePeers
  <2>2. \A i \in D : DOMAIN n.regions[i].peers = DOMAIN m.regions[i].peers
        /\ \A a \in DOMAIN m.regions[i].peers :
             n.regions[i].peers[a].id = m.regions[i].peers[a].id
    BY <1>4, <1>5
  <2>3. \A i \in D : \A a \in DOMAIN n.regions[i].peers :
          \A b \in DOMAIN right.peers : n.regions[i].peers[a].id # right.peers[b].id
    <3> SUFFICES ASSUME NEW i \in D, NEW a \in DOMAIN n.regions[i].peers,
                        NEW b \in DOMAIN right.peers
                 PROVE  n.regions[i].peers[a].id # right.peers[b].id
      OBVIOUS
    <3>1. /\ n.regions[i].peers[a].id < m.nextPeer
          /\ n.regions[i].peers[a].id \in Nat
      BY <1>1, <1>2, <2>2, RegionTypes, ZenonT(40) DEF Allocated
    <3>2. right.peers[b].id >= m.nextPeer
      BY <1>2, <1>4, <1>6
    <3> QED
      BY <1>2, <1>4, <1>6, <3>1, <3>2
  <2>4. \A a, b \in DOMAIN right.peers : right.peers[a].id = right.peers[b].id => a = b
    BY <1>2, <1>4, <1>6
  <2>5. \A i, j \in D : \A a \in DOMAIN n.regions[i].peers :
          \A b \in DOMAIN n.regions[j].peers :
            n.regions[i].peers[a].id = n.regions[j].peers[b].id => i = j /\ a = b
    BY <2>1, <2>2
  <2> QED
    BY <1>5, <2>3, <2>4, <2>5 DEF UniquePeers
<1>13. Placed(n)
  <2>1. \A i \in D : PlacedOn(m.regions[i], m.stores)
    BY <1>1 DEF Placed
  <2>2. PlacedOn(left, m.stores)
    BY <1>4, <2>1 DEF PlacedOn, FindPeer
  <2>3. FindPeer(right, right.leader) # {}
    <3>1. 1 \in DOMAIN right.peers /\ right.peers[1].id = m.nextPeer + 1 - 1
      BY <1>4, <1>9
    <3>2. m.nextPeer + 1 - 1 = m.nextPeer
      BY <1>2
    <3> QED
      BY <1>4, <3>1, <3>2 DEF FindPeer
  <2>4. PlacedOn(right, m.stores)
    BY <1>4, <2>1, <2>3 DEF PlacedOn
  <2> QED
    BY <1>5, <2>1, <2>2, <2>4 DEF Placed
<1>14. Remembers(n, saved)
  <2>1. \A i \in D : n.regions[i].start = m.regions[i].start
    BY <1>4, <1>5
  <2> QED
    BY <1>1, <1>2, <1>5, <2>1 DEF Remembers
<1>15. Indexed(n)
  <2>1. /\ DOMAIN m.byStart = {m.regions[i].start : i \in D}
        /\ \A i \in D : m.byStart[m.regions[i].start] = i
    BY <1>1 DEF Indexed
  <2>2. \A i \in D : m.regions[i].start # k
    BY <1>1, <1>4, StartsAreUnique
  <2>3. \A i \in D : n.regions[i].start = m.regions[i].start
    BY <1>4, <1>5
  <2>4. DOMAIN n.byStart = {n.regions[i].start : i \in DOMAIN n.regions}
    BY <1>4, <1>5, <2>1, <2>3
  <2>5. \A i \in D : n.byStart[m.regions[i].start] = i
    BY <1>4, <1>5, <2>1, <2>2
  <2>6. n.byStart[k] = new
    BY <1>4, <1>5
  <2> QED
    BY <1>4, <1>5, <2>3, <2>4, <2>5, <2>6, ZenonT(40) DEF Indexed
<1>16. n.byStart = [x \in DOMAIN n.byStart |-> n.byStart[x]]
  BY <1>5
<1>17. SoundMeta(n, saved)
  BY <1>5, <1>8, <1>10, <1>11, <1>12, <1>13, <1>14, <1>15, <1>16 DEF SoundMeta, Sound
<1> QED
  BY <1>17 DEF n

-----------------------------------------------------------------------------
\* The first region, on the stores of a list.
LEMMA BootstrapSound ==
  ASSUME NEW m, NEW saved, SoundMeta(m, saved), DOMAIN m.regions = {},
         NEW len \in Nat \ {0}, NEW r \in RegionInfo,
         r.start = 0, r.end = Unbounded, r.leader = m.nextPeer,
         DOMAIN r.peers = 1 .. len,
         \A a \in 1 .. len : r.peers[a].id = m.nextPeer + a - 1,
         \A a \in 1 .. len : r.peers[a].store \in m.stores,
         \A a, b \in 1 .. len : r.peers[a].store = r.peers[b].store => a = b,
         NEW u, SoundMeta(u, saved), u.regions = m.regions, u.stores = m.stores,
         u.byStart = m.byStart, u.nextRegion = m.nextRegion + 1,
         u.nextPeer = m.nextPeer + len
  PROVE  SoundMeta(PutRegion(u, m.nextRegion, r), saved)
<1> DEFINE new == m.nextRegion
           n   == PutRegion(u, new, r)
<1>1. /\ IsImage(m) /\ Remembers(m, saved) /\ Indexed(m)
      /\ IsImage(u) /\ DOMAIN u = MetaFields
  BY DEF SoundMeta, Sound
<1>2. m.nextRegion \in Nat /\ m.nextPeer \in Nat
  BY <1>1 DEF IsImage
<1>3. /\ DOMAIN n = MetaFields
      /\ n.stores = u.stores /\ n.nextStore = u.nextStore
      /\ n.nextRegion = u.nextRegion /\ n.nextPeer = u.nextPeer
      /\ n.regions = [i \in DOMAIN u.regions \cup {new} |->
                        IF i = new THEN r ELSE u.regions[i]]
      /\ n.byStart = [k \in DOMAIN u.byStart \cup {r.start} |->
                        IF k = r.start THEN new ELSE u.byStart[k]]
  <2>1. DOMAIN u = MetaFields /\ n = PutRegion(u, new, r)
    BY <1>1
  <2> HIDE DEF n, new
  <2>2. PutInto(u, new, r, n)
    BY <2>1, PutRegionFacts
  <2> QED
    BY <2>2 DEF PutInto
<1> HIDE DEF n
<1>4. /\ DOMAIN n.regions = {new} /\ n.regions[new] = r
      /\ n.regions \in [DOMAIN n.regions -> RegionInfo]
  BY <1>3
<1>5. DOMAIN u.byStart = {}
  BY <1>1 DEF Indexed
<1>6. /\ DOMAIN n.byStart = {r.start} /\ n.byStart[r.start] = new
      /\ n.byStart = [k \in DOMAIN n.byStart |-> n.byStart[k]]
  BY <1>3, <1>5
<1>7. IsImage(n)
  BY <1>1, <1>2, <1>3, <1>4 DEF IsImage
<1>8. \A k \in PdKey : ContainsKey(r, k)
  BY PdAssumption DEF ContainsKey, Unbounded, PdKey
<1>9. Allocated(n)
  <2>1. new < n.nextRegion
    BY <1>2, <1>3
  <2>2. \A a \in DOMAIN r.peers : r.peers[a].id < n.nextPeer
    BY <1>2, <1>3
  <2>3. ContainsKey(r, r.start)
    BY <1>8, RegionTypes
  <2> QED
    BY <1>4, <2>1, <2>2, <2>3 DEF Allocated
<1>10. PartitionsKeys(n)
  BY <1>4, <1>8 DEF PartitionsKeys
<1>11. UniquePeers(n)
  <2> SUFFICES ASSUME NEW a \in 1 .. len, NEW b \in 1 .. len,
                      r.peers[a].id = r.peers[b].id
               PROVE  a = b
    BY <1>4 DEF UniquePeers
  <2>1. m.nextPeer + a - 1 = m.nextPeer + b - 1
    OBVIOUS
  <2> QED
    BY <1>2, <2>1
<1>12. Placed(n)
  <2>1. FindPeer(r, r.leader) # {}
    <3>1. 1 \in DOMAIN r.peers /\ r.peers[1].id = m.nextPeer
      BY <1>2
    <3> QED
      BY <3>1 DEF FindPeer
  <2>2. PlacedOn(r, n.stores)
    BY <1>3, <2>1 DEF PlacedOn
  <2> QED
    BY <1>4, <2>2 DEF Placed
<1>13. Remembers(n, saved)
  BY <1>1, <1>2, <1>3, <1>4 DEF Remembers
<1>14. Indexed(n)
  BY <1>4, <1>6 DEF Indexed
<1>15. SoundMeta(n, saved)
  BY <1>3, <1>6, <1>7, <1>9, <1>10, <1>11, <1>12, <1>13, <1>14 DEF SoundMeta, Sound
<1> QED
  BY <1>15 DEF n

LEMMA MaxOfSingleton ==
  ASSUME NEW i \in Nat
  PROVE  Max({i}) = i
BY DEF Max

\* What Load makes of a sound image.
LEMMA LoadSound ==
  ASSUME NEW image, NEW saved, Sound(image, saved)
  PROVE  SoundMeta(LoadMetadata(image), saved)
<1> DEFINE n == LoadMetadata(image)
           starting(k) == {i \in DOMAIN image.regions : image.regions[i].start = k}
<1>1. /\ IsImage(image) /\ Allocated(image) /\ PartitionsKeys(image)
      /\ UniquePeers(image) /\ Placed(image) /\ Remembers(image, saved)
  BY DEF Sound
<1>2. /\ DOMAIN n = MetaFields
      /\ n.stores = image.stores /\ n.regions = image.regions
      /\ n.nextStore = image.nextStore /\ n.nextRegion = image.nextRegion
      /\ n.nextPeer = image.nextPeer
      /\ n.byStart = [k \in {image.regions[i].start : i \in DOMAIN image.regions}
                        |-> Max(starting(k))]
  BY DEF LoadMetadata, MetaFields
<1> HIDE DEF n
<1>3. \A i \in DOMAIN image.regions : starting(image.regions[i].start) = {i}
  <2> SUFFICES ASSUME NEW i \in DOMAIN image.regions,
                      NEW j \in DOMAIN image.regions,
                      image.regions[j].start = image.regions[i].start
               PROVE  i = j
    OBVIOUS
  <2>1. ContainsKey(image.regions[i], image.regions[j].start)
    BY <1>1 DEF Allocated
  <2> QED
    BY <1>1, <2>1, StartsAreUnique
<1>4. \A i \in DOMAIN image.regions : Max(starting(image.regions[i].start)) = i
  BY <1>1, <1>3, MaxOfSingleton DEF IsImage
<1>5. /\ DOMAIN n.byStart = {image.regions[i].start : i \in DOMAIN image.regions}
      /\ \A i \in DOMAIN image.regions :
           n.byStart[image.regions[i].start] = Max(starting(image.regions[i].start))
      /\ n.byStart = [k \in DOMAIN n.byStart |-> n.byStart[k]]
  <2> HIDE DEF starting
  <2> QED
    BY <1>2
<1>6. Indexed(n)
  <2> HIDE DEF starting
  <2>1. n.regions = image.regions
    BY <1>2
  <2>2. \A i \in DOMAIN image.regions : n.byStart[image.regions[i].start] = i
    BY <1>4, <1>5
  <2>3. DOMAIN n.byStart = {image.regions[i].start : i \in DOMAIN image.regions}
    BY <1>5
  <2> QED
    BY <2>1, <2>2, <2>3 DEF Indexed
<1>7. Sound(n, saved)
  <2>1. IsImage(n)
    BY <1>1, <1>2 DEF IsImage
  <2>2. Allocated(n) /\ PartitionsKeys(n)
    BY <1>1, <1>2 DEF Allocated, PartitionsKeys
  <2>3. UniquePeers(n) /\ Placed(n) /\ Remembers(n, saved)
    BY <1>1, <1>2 DEF UniquePeers, Placed, Remembers
  <2> QED
    BY <2>1, <2>2, <2>3 DEF Sound
<1>8. SoundMeta(n, saved)
  BY <1>2, <1>5, <1>6, <1>7 DEF SoundMeta
<1> QED
  BY <1>8 DEF n

LEMMA ImageSound ==
  ASSUME NEW m, NEW saved, SoundMeta(m, saved)
  PROVE  DOMAIN ImageOf(m) = ImageFields /\ Sound(ImageOf(m), saved)
<1>1. /\ DOMAIN ImageOf(m) = ImageFields
      /\ ImageOf(m).stores = m.stores /\ ImageOf(m).regions = m.regions
      /\ ImageOf(m).nextStore = m.nextStore /\ ImageOf(m).nextRegion = m.nextRegion
      /\ ImageOf(m).nextPeer = m.nextPeer
  BY DEF ImageOf, ImageFields
<1> QED
  BY <1>1 DEF SoundMeta, Sound, IsImage, Allocated, PartitionsKeys, UniquePeers,
              Placed, Remembers

-----------------------------------------------------------------------------
\* Persist.

\* The ranges of a sound image agree with what was saved before.
LEMMA SaveIsSound ==
  ASSUME NEW m, NEW saved, SoundMeta(m, saved), saved \subseteq Nat \X PdKey,
         \A x, y \in saved : x[1] = y[1] => x[2] = y[2],
         NEW now, now = saved \cup Ranges(ImageOf(m))
  PROVE  /\ SoundMeta(m, now) /\ now \subseteq Nat \X PdKey
         /\ \A x, y \in now : x[1] = y[1] => x[2] = y[2]
<1>1. IsImage(m) /\ Allocated(m) /\ Remembers(m, saved)
  BY DEF SoundMeta, Sound
<1>2. ImageOf(m).regions = m.regions
  BY DEF ImageOf
<1>3. now = saved \cup {<<id, m.regions[id].start>> : id \in DOMAIN m.regions}
  BY <1>2 DEF Ranges
<1>4. \A id \in DOMAIN m.regions :
        id \in Nat /\ m.regions[id].start \in PdKey /\ id < m.nextRegion
  BY <1>1, RegionTypes DEF IsImage, Allocated
<1>5. now \subseteq Nat \X PdKey
  BY <1>3, <1>4
<1>6. m.nextRegion \in Nat
  BY <1>1 DEF IsImage
<1>7. \A x \in now :
        x \in saved \/ (x[1] \in DOMAIN m.regions /\ x[2] = m.regions[x[1]].start)
  BY <1>3
<1>8. Remembers(m, now)
  BY <1>1, <1>4, <1>6, <1>7 DEF Remembers
<1>9. \A x, y \in now : x[1] = y[1] => x[2] = y[2]
  BY <1>1, <1>7 DEF Remembers
<1> QED
  BY <1>5, <1>8, <1>9 DEF SoundMeta, Sound

\* The metadata of a new PD.
LEMMA NewIsSound ==
  ASSUME NEW saved
  PROVE  saved = {} => SoundMeta(NewMetadata, saved)
<1>1. /\ DOMAIN NewMetadata = MetaFields /\ NewMetadata.stores = {}
      /\ NewMetadata.regions = <<>> /\ NewMetadata.byStart = <<>>
      /\ NewMetadata.nextStore = 1 /\ NewMetadata.nextRegion = 1
      /\ NewMetadata.nextPeer = 1
  BY DEF NewMetadata, MetaFields
<1>2. DOMAIN NewMetadata.regions = {} /\ DOMAIN NewMetadata.byStart = {}
  BY <1>1
<1>3. NewMetadata.regions \in [DOMAIN NewMetadata.regions -> RegionInfo]
      /\ NewMetadata.byStart = [k \in DOMAIN NewMetadata.byStart |-> NewMetadata.byStart[k]]
  BY <1>1, <1>2
<1> HIDE DEF NewMetadata
<1>4. IsImage(NewMetadata)
  BY <1>1, <1>2, <1>3 DEF IsImage
<1>5. /\ Allocated(NewMetadata) /\ PartitionsKeys(NewMetadata)
      /\ UniquePeers(NewMetadata) /\ Placed(NewMetadata) /\ Indexed(NewMetadata)
  BY <1>2 DEF Allocated, PartitionsKeys, UniquePeers, Placed, Indexed
<1> QED
  BY <1>1, <1>3, <1>4, <1>5 DEF SoundMeta, Sound, Remembers

\* How the history follows the catalog.
Saved == seen' = IF catalog'.state = "full" THEN seen \cup Ranges(catalog'.image)
                                            ELSE seen

\* The catalog stays as it was, or is cut short: nothing new is saved.
LEMMA NothingSaved ==
  ASSUME PdInv, Saved, catalog' \in {catalog, [catalog EXCEPT !.state = "torn"]}
  PROVE  /\ seen' = seen
         /\ DOMAIN catalog' = {"state", "image"} /\ catalog'.state \in {"full", "torn"}
         /\ catalog'.image = catalog.image
         /\ catalog'.state = "full" => Ranges(catalog'.image) \subseteq seen
<1>1. /\ DOMAIN catalog = {"state", "image"} /\ catalog.state \in {"full", "torn"}
      /\ catalog.state = "full" => Ranges(catalog.image) \subseteq seen
  BY DEF PdInv
<1>2. CASE catalog' = catalog
  BY <1>1, <1>2 DEF Saved
<1>3. CASE catalog' = [catalog EXCEPT !.state = "torn"]
  <2>1. /\ catalog'.state = "torn" /\ catalog'.image = catalog.image
        /\ DOMAIN catalog' = {"state", "image"}
    BY <1>1, <1>3
  <2> QED
    BY <2>1 DEF Saved
<1> QED
  BY <1>2, <1>3

\* The memory is replaced and nothing is saved.
LEMMA OnlyMemory ==
  ASSUME PdInv, running, NEW m, SoundMeta(m, seen), Saved,
         meta' = m, UNCHANGED running,
         catalog' \in {catalog, [catalog EXCEPT !.state = "torn"]}
  PROVE  PdInv'
<1>1. SoundMeta(meta', seen') /\ running'
  BY NothingSaved
<1>2. DOMAIN catalog'.image = ImageFields /\ Sound(catalog'.image, seen')
  BY NothingSaved DEF PdInv
<1>3. seen \subseteq Nat \X PdKey /\ RegionIdNeverReused
  BY DEF PdInv
<1> QED
  BY <1>1, <1>2, <1>3, NothingSaved DEF PdInv, RegionIdNeverReused

\* The process stops, with the catalog as it was or torn.
LEMMA StopKeepsInv ==
  ASSUME PdInv, Saved, running' = FALSE, meta' = NewMetadata,
         catalog' \in {catalog, [catalog EXCEPT !.state = "torn"]}
  PROVE  PdInv'
<1>1. DOMAIN catalog'.image = ImageFields /\ Sound(catalog'.image, seen')
  BY NothingSaved DEF PdInv
<1>2. seen \subseteq Nat \X PdKey /\ RegionIdNeverReused
  BY DEF PdInv
<1> QED
  BY <1>1, <1>2, NothingSaved DEF PdInv, RegionIdNeverReused

\* Persist keeps the invariant whenever the memory it saves is sound.
LEMMA PersistKeepsInv ==
  ASSUME PdInv, running, NEW m, SoundMeta(m, seen), Persist(m), Saved
  PROVE  PdInv'
<1>1. CASE /\ meta' = m /\ UNCHANGED running
           /\ catalog' = [state |-> "full", image |-> ImageOf(m)]
  <2>1. /\ catalog'.state = "full" /\ catalog'.image = ImageOf(m)
        /\ DOMAIN catalog' = {"state", "image"}
    BY <1>1
  <2>2. seen' = seen \cup Ranges(ImageOf(m))
    BY <2>1 DEF Saved
  <2>3. /\ seen \subseteq Nat \X PdKey
        /\ \A x, y \in seen : x[1] = y[1] => x[2] = y[2]
    BY DEF PdInv, RegionIdNeverReused
  <2>4. /\ SoundMeta(m, seen') /\ seen' \subseteq Nat \X PdKey
        /\ \A x, y \in seen' : x[1] = y[1] => x[2] = y[2]
    BY <2>2, <2>3, SaveIsSound
  <2>5. DOMAIN ImageOf(m) = ImageFields /\ Sound(ImageOf(m), seen')
    BY <2>4, ImageSound
  <2> QED
    BY <1>1, <2>1, <2>2, <2>4, <2>5 DEF PdInv, RegionIdNeverReused
<1>2. CASE /\ meta' = m /\ UNCHANGED running
           /\ catalog' \in {catalog, [catalog EXCEPT !.state = "torn"]}
  BY <1>2, OnlyMemory
<1>3. CASE /\ running' = FALSE /\ meta' = NewMetadata
           /\ catalog' \in {catalog, [catalog EXCEPT !.state = "torn"]}
  BY <1>3, StopKeepsInv
<1> QED
  BY <1>1, <1>2, <1>3 DEF Persist

-----------------------------------------------------------------------------
\* The handlers.

\* What a running PD starts from.
LEMMA RunningMemory ==
  ASSUME PdInv, running
  PROVE  /\ SoundMeta(meta, seen) /\ DOMAIN meta = MetaFields /\ IsImage(meta)
         /\ meta.stores \subseteq Nat /\ DOMAIN meta.regions \subseteq Nat
         /\ meta.nextStore \in Nat /\ meta.nextRegion \in Nat /\ meta.nextPeer \in Nat
         /\ \A i \in DOMAIN meta.regions : meta.regions[i] \in RegionInfo
BY DEF PdInv, SoundMeta, Sound, IsImage

LEMMA RegisterStoreStep ==
  ASSUME PdInv, NEW id \in 0 .. MaxStore, RegisterStore(id), Saved
  PROVE  PdInv'
<1>1. running
  BY DEF RegisterStore
<1> DEFINE s == IF id = 0 THEN meta.nextStore ELSE id
           m == PutStore(IF s >= meta.nextStore
                           THEN [meta EXCEPT !.nextStore = s + 1] ELSE meta, s)
<1>2. s \in Nat
  BY <1>1, RunningMemory
<1>3. SoundMeta(meta, seen)
  BY <1>1, RunningMemory
<1>4. Persist(m)
  BY DEF RegisterStore
<1> HIDE DEF s
<1>5. SoundMeta(m, seen)
  BY <1>2, <1>3, RegisterSound
<1> HIDE DEF m
<1> QED
  BY <1>1, <1>4, <1>5, PersistKeepsInv

LEMMA StoreHeartbeatStep ==
  ASSUME PdInv, NEW s \in 0 .. MaxStore, StoreHeartbeat(s), Saved
  PROVE  PdInv'
<1>1. running /\ Persist(PutStore(meta, s)) /\ s \in meta.stores
  BY DEF StoreHeartbeat
<1>2. s \in Nat /\ SoundMeta(meta, seen)
  BY <1>1, RunningMemory
<1>3. SoundMeta(PutStore(meta, s), seen)
  BY <1>2, RegisterSound
<1> QED
  BY <1>1, <1>3, PersistKeepsInv

\* A region whose peers change.
WithPeers(q, ps, l, r) ==
  /\ DOMAIN r = DOMAIN q /\ r.start = q.start /\ r.end = q.end
  /\ r.version = q.version /\ r.confVer = q.confVer + 1
  /\ r.leader = l /\ r.peers = ps
  /\ r = [start |-> r.start, end |-> r.end, version |-> r.version,
          confVer |-> r.confVer, leader |-> r.leader, peers |-> r.peers]

LEMMA WithPeersFacts ==
  ASSUME NEW q \in RegionInfo, NEW ps \in Seq(PeerInfo), NEW l \in Nat, NEW r,
         WithPeers(q, ps, l, r)
  PROVE  r \in RegionInfo /\ SameRange(r, q) /\ r.leader = l /\ r.peers = ps
<1>1. q.confVer + 1 \in Nat
  BY RegionTypes
<1> QED
  BY <1>1, RegionTypes DEF RegionInfo, SameRange, WithPeers

LEMMA AddPeerStep ==
  ASSUME PdInv, NEW id \in 1 .. MaxRegion, NEW s \in 1 .. MaxStore, AddPeer(id, s), Saved
  PROVE  PdInv'
<1> DEFINE q   == meta.regions[id]
           new == [id |-> meta.nextPeer, store |-> s]
           u   == [meta EXCEPT !.nextPeer = meta.nextPeer + 1]
           r   == [q EXCEPT !.peers = Append(q.peers, new), !.confVer = q.confVer + 1]
<1>1. /\ running /\ id \in DOMAIN meta.regions /\ s \in meta.stores
      /\ FindPeerByStore(q, s) = {} /\ Persist(PutRegion(u, id, r))
  BY DEF AddPeer, CanAddPeer
<1>2. /\ SoundMeta(meta, seen) /\ DOMAIN meta = MetaFields
      /\ meta.nextPeer \in Nat /\ meta.stores \subseteq Nat /\ q \in RegionInfo
  BY <1>1, RunningMemory
<1>3. new \in PeerInfo /\ new.id = meta.nextPeer /\ new.store = s
  BY <1>1, <1>2 DEF PeerInfo
<1>4. /\ DOMAIN u = MetaFields /\ u.regions = meta.regions /\ u.stores = meta.stores
      /\ u.byStart = meta.byStart /\ u.nextRegion = meta.nextRegion
      /\ u.nextStore = meta.nextStore /\ u.nextPeer = meta.nextPeer + 1
  BY <1>2 DEF MetaFields
<1> HIDE DEF new, u
<1>5. SoundMeta(u, seen)
  <2>1. /\ u.stores \in SUBSET Nat /\ meta.stores \subseteq u.stores
        /\ u.nextStore \in Nat /\ u.nextRegion \in Nat /\ u.nextPeer \in Nat
        /\ meta.nextRegion <= u.nextRegion /\ meta.nextPeer <= u.nextPeer
    BY <1>1, <1>2, <1>4, RunningMemory
  <2> QED
    BY <1>2, <1>4, <2>1, RaiseAllocators
<1>6. /\ r \in RegionInfo /\ SameRange(r, q) /\ r.leader = q.leader
      /\ r.peers = Append(q.peers, new)
  <2> HIDE DEF q
  <2>1. q.peers \in Seq(PeerInfo) /\ q.leader \in Nat
    BY <1>2, RegionTypes
  <2> DEFINE ps == Append(q.peers, new)
  <2>2. ps \in Seq(PeerInfo)
    BY <1>3, <2>1
  <2>3. WithPeers(q, ps, q.leader, r)
    <3>1. r = [q EXCEPT !.peers = ps, !.confVer = q.confVer + 1]
      OBVIOUS
    <3> HIDE DEF ps, r
    <3> QED
      BY <1>2, <3>1, RegionTypes DEF WithPeers
  <2> HIDE DEF ps, r
  <2>4. /\ r \in RegionInfo /\ SameRange(r, q) /\ r.leader = q.leader /\ r.peers = ps
    BY <1>2, <2>1, <2>2, <2>3, WithPeersFacts
  <2> QED
    BY <2>4 DEF ps
<1> HIDE DEF r, q
<1>7. q = meta.regions[id] /\ new.store \in meta.stores /\ FindPeerByStore(q, new.store) = {}
  BY <1>1, <1>3 DEF q
<1>8. SoundMeta(PutRegion(u, id, r), seen)
  BY <1>1, <1>2, <1>3, <1>4, <1>5, <1>6, <1>7, AddPeerSound
<1> QED
  BY <1>1, <1>8, PersistKeepsInv

LEMMA RemovePeerStep ==
  ASSUME PdInv, NEW id \in 1 .. MaxRegion, NEW p \in 1 .. MaxPeer, RemovePeer(id, p), Saved
  PROVE  PdInv'
<1>1. /\ running /\ id \in DOMAIN meta.regions /\ Len(meta.regions[id].peers) > 1
  BY DEF RemovePeer, CanRemovePeer, HasPeer
<1> DEFINE q == meta.regions[id]
<1>2. PICK i \in DOMAIN q.peers : Persist(PutRegion(meta, id, WithoutPeer(q, i)))
  BY DEF RemovePeer, FindPeer
<1> DEFINE r  == WithoutPeer(q, i)
           ps == RemoveAt(q.peers, i)
           l  == IF q.leader = q.peers[i].id THEN ps[1].id ELSE q.leader
<1>3. SoundMeta(meta, seen) /\ q \in RegionInfo
  BY <1>1, RunningMemory
<1>4. /\ r = [q EXCEPT !.peers = ps, !.confVer = q.confVer + 1, !.leader = l]
  BY DEF WithoutPeer
<1>5. q.peers \in Seq(PeerInfo) /\ q.leader \in Nat /\ Len(q.peers) > 1
  BY <1>1, <1>3, RegionTypes
<1> HIDE DEF q
<1>6. ps \in Seq(PeerInfo) /\ Len(ps) = Len(q.peers) - 1
  BY <1>2, <1>5, RemovedPeer
<1>7. l \in Nat
  <2> HIDE DEF ps
  <2>1. 1 \in DOMAIN ps
    BY <1>5, <1>6
  <2>2. ps[1] \in PeerInfo
    BY <1>6, <2>1
  <2>3. ps[1].id \in Nat
    BY <2>2 DEF PeerInfo
  <2> QED
    BY <1>5, <2>3
<1>8. l = IF q.leader = q.peers[i].id THEN ps[1].id ELSE q.leader
  OBVIOUS
<1>9. ps = RemoveAt(q.peers, i)
  OBVIOUS
<1> HIDE DEF r, ps, l
<1>10. r \in RegionInfo /\ SameRange(r, q) /\ r.leader = l /\ r.peers = ps
  <2>1. WithPeers(q, ps, l, r)
    BY <1>3, <1>4, RegionTypes DEF WithPeers
  <2> QED
    BY <1>3, <1>6, <1>7, <2>1, WithPeersFacts
<1>11. /\ r.peers = RemoveAt(q.peers, i)
       /\ r.leader = IF q.leader = q.peers[i].id THEN r.peers[1].id ELSE q.leader
  BY <1>8, <1>9, <1>10
<1>12. q = meta.regions[id]
  BY DEF q
<1>13. SoundMeta(PutRegion(meta, id, r), seen)
  BY <1>1, <1>2, <1>3, <1>5, <1>10, <1>11, <1>12, RemovePeerSound
<1>14. Persist(PutRegion(meta, id, r))
  BY <1>2 DEF r
<1> QED
  BY <1>1, <1>13, <1>14, PersistKeepsInv

LEMMA TransferLeaderStep ==
  ASSUME PdInv, NEW id \in 1 .. MaxRegion, NEW p \in 1 .. MaxPeer,
         TransferLeader(id, p), Saved
  PROVE  PdInv'
<1> DEFINE q == meta.regions[id]
           r == [q EXCEPT !.leader = p]
<1>1. /\ running /\ id \in DOMAIN meta.regions /\ FindPeer(q, p) # {}
      /\ Persist(PutRegion(meta, id, r))
  BY DEF TransferLeader, HasPeer
<1>2. SoundMeta(meta, seen) /\ q \in RegionInfo
  BY <1>1, RunningMemory
<1>3. q = meta.regions[id] /\ p \in Nat
  OBVIOUS
<1> HIDE DEF q
<1>4. r \in RegionInfo /\ SameRange(r, q) /\ r.peers = q.peers /\ r.leader = p
  BY <1>2, <1>3 DEF RegionInfo, SameRange
<1> HIDE DEF r
<1>5. FindPeer(q, r.leader) # {}
  BY <1>1, <1>4
<1>6. SoundMeta(PutRegion(meta, id, r), seen)
  BY <1>1, <1>2, <1>3, <1>4, <1>5, TransferSound
<1> QED
  BY <1>1, <1>6, PersistKeepsInv

LEMMA SplitRegionStep ==
  ASSUME PdInv, NEW id \in 1 .. MaxRegion, NEW k \in PdKey, SplitRegion(id, k), Saved
  PROVE  PdInv'
<1> DEFINE q     == meta.regions[id]
           left  == LeftHalf(q, k)
           right == RightHalf(q, k)
           u     == [meta EXCEPT !.nextRegion = meta.nextRegion + 1,
                                 !.nextPeer = meta.nextPeer + Len(q.peers)]
<1>1. /\ running /\ id \in DOMAIN meta.regions /\ ContainsKey(q, k) /\ k # q.start
      /\ Persist(PutRegion(PutRegion(u, id, left), meta.nextRegion, right))
  BY DEF SplitRegion, CanSplit
<1>2. /\ SoundMeta(meta, seen) /\ DOMAIN meta = MetaFields
      /\ meta.nextPeer \in Nat /\ meta.nextRegion \in Nat /\ q \in RegionInfo
  BY <1>1, RunningMemory
<1>3. PlacedOn(q, meta.stores)
  BY <1>1, <1>2 DEF SoundMeta, Sound, Placed
<1>4. q = meta.regions[id]
  OBVIOUS
<1> HIDE DEF q
<1>5. /\ q.peers \in Seq(PeerInfo) /\ DOMAIN q.peers = 1 .. Len(q.peers)
      /\ Len(q.peers) \in Nat /\ q.version + 1 \in Nat
      /\ \A a \in DOMAIN q.peers : q.peers[a].store \in Nat
      /\ q.start \in PdKey /\ q.end \in PdKey /\ q.leader \in Nat /\ q.confVer \in Nat
  BY <1>2, RegionTypes
<1>6. q.peers # <<>>
  BY <1>3 DEF PlacedOn, FindPeer
<1>7. /\ DOMAIN u = MetaFields /\ u.regions = meta.regions /\ u.stores = meta.stores
      /\ u.byStart = meta.byStart /\ u.nextRegion = meta.nextRegion + 1
      /\ u.nextStore = meta.nextStore /\ u.nextPeer = meta.nextPeer + Len(q.peers)
  BY <1>2 DEF MetaFields
<1> HIDE DEF u
<1>8. SoundMeta(u, seen)
  <2>1. /\ u.stores \in SUBSET Nat /\ meta.stores \subseteq u.stores
        /\ u.nextStore \in Nat /\ u.nextRegion \in Nat /\ u.nextPeer \in Nat
        /\ meta.nextRegion <= u.nextRegion /\ meta.nextPeer <= u.nextPeer
    <3>1. /\ meta.stores \in SUBSET Nat /\ meta.nextStore \in Nat
          /\ meta.nextRegion \in Nat /\ meta.nextPeer \in Nat
      BY <1>1, <1>2, RunningMemory
    <3> QED
      BY <3>1, <1>5, <1>7
  <2> QED
    BY <1>2, <1>7, <2>1, RaiseAllocators
<1>9. /\ left \in RegionInfo /\ left.start = q.start /\ left.end = k
      /\ left.peers = q.peers /\ left.leader = q.leader
  BY <1>2, <1>5 DEF LeftHalf, RegionInfo
<1>10. /\ right \in RegionInfo /\ right.start = k /\ right.end = q.end
       /\ right.leader = meta.nextPeer /\ DOMAIN right.peers = DOMAIN q.peers
       /\ \A a \in DOMAIN q.peers : /\ right.peers[a].id = meta.nextPeer + a - 1
                                    /\ right.peers[a].store = q.peers[a].store
  <2> DEFINE ps == [i \in 1 .. Len(q.peers) |->
                      [id |-> meta.nextPeer + i - 1, store |-> q.peers[i].store]]
  <2>1. \A i \in 1 .. Len(q.peers) :
          [id |-> meta.nextPeer + i - 1, store |-> q.peers[i].store] \in PeerInfo
    <3> SUFFICES ASSUME NEW i \in 1 .. Len(q.peers)
                 PROVE  [id |-> meta.nextPeer + i - 1, store |-> q.peers[i].store]
                          \in PeerInfo
      OBVIOUS
    <3>1. meta.nextPeer + i - 1 \in Nat
      BY <1>2, <1>5
    <3> QED
      BY <1>5, <3>1 DEF PeerInfo
  <2>2. ps \in Seq(PeerInfo)
    BY <1>5, <2>1
  <2>3. /\ DOMAIN ps = DOMAIN q.peers
        /\ \A a \in DOMAIN q.peers : /\ ps[a].id = meta.nextPeer + a - 1
                                     /\ ps[a].store = q.peers[a].store
    BY <1>5
  <2>4. right = [q EXCEPT !.start = k, !.version = q.version + 1,
                          !.leader = meta.nextPeer, !.peers = ps]
    BY <1>6 DEF RightHalf
  <2> HIDE DEF ps, right
  <2>5. /\ right \in RegionInfo /\ right.start = k /\ right.end = q.end
        /\ right.leader = meta.nextPeer /\ right.peers = ps
    BY <1>2, <1>5, <2>2, <2>4 DEF RegionInfo
  <2> QED
    BY <2>3, <2>5
<1> HIDE DEF left, right
<1>11. IsSplit(meta, id, k, left, right)
  BY <1>1, <1>4, <1>9, <1>10 DEF IsSplit
<1>12. u.nextPeer = meta.nextPeer + Len(meta.regions[id].peers)
  BY <1>4, <1>7
<1>13. SoundMeta(PutRegion(PutRegion(u, id, left), meta.nextRegion, right), seen)
  BY <1>2, <1>7, <1>8, <1>11, <1>12, SplitSound
<1> QED
  BY <1>1, <1>13, PersistKeepsInv

LEMMA StoreListFacts ==
  ASSUME NEW list \in StoreLists
  PROVE  /\ Len(list) \in Nat /\ DOMAIN list = 1 .. Len(list)
         /\ \A i \in DOMAIN list : list[i] \in Nat
         /\ \A i, j \in DOMAIN list : list[i] = list[j] => i = j
<1>1. PICK n \in 0 .. MaxStore : list \in [1 .. n -> 1 .. MaxStore]
  BY DEF StoreLists
<1>2. n \in Nat /\ list \in Seq(1 .. MaxStore)
  <2>1. n \in Nat
    OBVIOUS
  <2> DEFINE S == 1 .. MaxStore
  <2>2. list \in [1 .. n -> S]
    BY <1>1
  <2> HIDE DEF S
  <2>3. list \in Seq(S)
    BY <2>1, <2>2, SeqDef
  <2> QED
    BY <2>1, <2>3 DEF S
<1>3. Len(list) \in Nat /\ DOMAIN list = 1 .. Len(list)
  BY <1>2
<1>4. IsInjective(list)
  BY DEF StoreLists
<1> QED
  BY <1>1, <1>3, <1>4 DEF IsInjective

LEMMA BootstrapStep ==
  ASSUME PdInv, NEW list \in StoreLists, BootstrapDefaultRegion(list), Saved
  PROVE  PdInv'
<1> DEFINE len == Len(list)
           ps  == [i \in 1 .. Len(list) |->
                     [id |-> meta.nextPeer + i - 1, store |-> list[i]]]
           r   == [start |-> 0, end |-> Unbounded, version |-> 1, confVer |-> 1,
                   leader |-> ps[1].id, peers |-> ps]
           u   == [meta EXCEPT !.nextRegion = meta.nextRegion + 1,
                               !.nextPeer = meta.nextPeer + Len(list)]
<1>1. /\ running /\ DOMAIN meta.regions = {} /\ list # <<>>
      /\ Range(list) \subseteq meta.stores
      /\ Persist(PutRegion(u, meta.nextRegion, r))
  BY DEF BootstrapDefaultRegion, NoRegion
<1>2. /\ SoundMeta(meta, seen) /\ DOMAIN meta = MetaFields
      /\ meta.nextPeer \in Nat /\ meta.nextRegion \in Nat
  BY <1>1, RunningMemory
<1>3. /\ len \in Nat /\ DOMAIN list = 1 .. len
      /\ \A i \in 1 .. len : list[i] \in Nat /\ list[i] \in meta.stores
      /\ \A i, j \in 1 .. len : list[i] = list[j] => i = j
  BY <1>1, StoreListFacts DEF Range
<1>4. len # 0
  BY <1>1, <1>3
<1>5. /\ DOMAIN u = MetaFields /\ u.regions = meta.regions /\ u.stores = meta.stores
      /\ u.byStart = meta.byStart /\ u.nextRegion = meta.nextRegion + 1
      /\ u.nextStore = meta.nextStore /\ u.nextPeer = meta.nextPeer + len
  BY <1>2 DEF MetaFields
<1>6. /\ DOMAIN ps = 1 .. len
      /\ \A a \in 1 .. len : ps[a].id = meta.nextPeer + a - 1 /\ ps[a].store = list[a]
  BY <1>3
<1>7. ps \in Seq(PeerInfo)
  <2>1. ASSUME NEW i \in 1 .. Len(list)
        PROVE  [id |-> meta.nextPeer + i - 1, store |-> list[i]] \in PeerInfo
    <3>1. meta.nextPeer + i - 1 \in Nat
      BY <1>2, <1>3
    <3> QED
      BY <1>3, <3>1 DEF PeerInfo
  <2> QED
    BY <1>3, <2>1
<1> HIDE DEF ps, u, len
<1>8. ps[1].id = meta.nextPeer
  BY <1>2, <1>3, <1>4, <1>6
<1>9. /\ r \in RegionInfo /\ r.start = 0 /\ r.end = Unbounded
      /\ r.leader = meta.nextPeer /\ r.peers = ps
  BY <1>2, <1>7, <1>8, PdAssumption DEF RegionInfo, Unbounded, PdKey
<1> HIDE DEF r
<1>10. SoundMeta(u, seen)
  <2>1. /\ u.stores \in SUBSET Nat /\ meta.stores \subseteq u.stores
        /\ u.nextStore \in Nat /\ u.nextRegion \in Nat /\ u.nextPeer \in Nat
        /\ meta.nextRegion <= u.nextRegion /\ meta.nextPeer <= u.nextPeer
    BY <1>1, <1>2, <1>3, <1>5, RunningMemory
  <2> QED
    BY <1>2, <1>5, <2>1, RaiseAllocators
<1>11. /\ len \in Nat \ {0} /\ DOMAIN r.peers = 1 .. len
       /\ \A a \in 1 .. len : r.peers[a].id = meta.nextPeer + a - 1
       /\ \A a \in 1 .. len : r.peers[a].store \in meta.stores
       /\ \A a, b \in 1 .. len : r.peers[a].store = r.peers[b].store => a = b
  BY <1>3, <1>4, <1>6, <1>9
<1>12. SoundMeta(PutRegion(u, meta.nextRegion, r), seen)
  BY <1>1, <1>2, <1>5, <1>9, <1>10, <1>11, BootstrapSound
<1> QED
  BY <1>1, <1>12, PersistKeepsInv

LEMMA BootstrapUnknownStep ==
  ASSUME PdInv, NEW list \in StoreLists, BootstrapUnknownStore(list), Saved
  PROVE  PdInv'
<1> DEFINE bad   == {i \in DOMAIN list : list[i] \notin meta.stores}
           known == Min(bad) - 1
           u     == [meta EXCEPT !.nextRegion = meta.nextRegion + 1,
                                 !.nextPeer = meta.nextPeer + known]
<1>1. /\ running /\ ~(Range(list) \subseteq meta.stores)
      /\ meta' = u /\ UNCHANGED <<running, catalog>>
  BY DEF BootstrapUnknownStore
<1>2. /\ SoundMeta(meta, seen) /\ DOMAIN meta = MetaFields
      /\ meta.nextPeer \in Nat /\ meta.nextRegion \in Nat
  BY <1>1, RunningMemory
<1>3. bad \in SUBSET Nat /\ bad # {} /\ \A i \in bad : i >= 1
  BY <1>1, StoreListFacts DEF Range
<1> HIDE DEF bad
<1>4. known \in Nat
  <2>1. Min(bad) \in bad
    BY <1>3, MinOfNats
  <2>2. Min(bad) \in Nat /\ Min(bad) >= 1
    BY <1>3, <2>1
  <2> QED
    BY <2>2
<1> HIDE DEF known
<1>5. /\ DOMAIN u = MetaFields /\ u.regions = meta.regions /\ u.stores = meta.stores
      /\ u.byStart = meta.byStart /\ u.nextRegion = meta.nextRegion + 1
      /\ u.nextStore = meta.nextStore /\ u.nextPeer = meta.nextPeer + known
  BY <1>2 DEF MetaFields
<1> HIDE DEF u
<1>6. SoundMeta(u, seen)
  <2>1. /\ u.stores \in SUBSET Nat /\ meta.stores \subseteq u.stores
        /\ u.nextStore \in Nat /\ u.nextRegion \in Nat /\ u.nextPeer \in Nat
        /\ meta.nextRegion <= u.nextRegion /\ meta.nextPeer <= u.nextPeer
    BY <1>1, <1>2, <1>4, <1>5, RunningMemory
  <2> QED
    BY <1>2, <1>5, <2>1, RaiseAllocators
<1> QED
  BY <1>1, <1>6, OnlyMemory

LEMMA CrashStep ==
  ASSUME PdInv, Crash, Saved
  PROVE  PdInv'
<1>1. /\ running' = FALSE /\ meta' = NewMetadata
      /\ catalog' \in {catalog, [catalog EXCEPT !.state = "torn"]}
  BY DEF Crash
<1> QED
  BY <1>1, StopKeepsInv

LEMMA OpenStep ==
  ASSUME PdInv, Open, Saved
  PROVE  PdInv'
<1>1. /\ running' = TRUE /\ meta' = LoadMetadata(catalog.image)
      /\ catalog' = catalog /\ catalog.state = "full"
  BY DEF Open
<1>2. Sound(catalog.image, seen) /\ Ranges(catalog.image) \subseteq seen
  BY <1>1 DEF PdInv
<1>3. seen' = seen
  BY <1>1, <1>2 DEF Saved
<1>4. SoundMeta(meta', seen')
  BY <1>1, <1>2, <1>3, LoadSound
<1> QED
  BY <1>1, <1>2, <1>3, <1>4 DEF PdInv, RegionIdNeverReused

-----------------------------------------------------------------------------
\* The specification.

LEMMA PdInit == Init => PdInv
<1> SUFFICES ASSUME Init PROVE PdInv
  OBVIOUS
<1>1. SoundMeta(NewMetadata, seen)
  BY NewIsSound DEF Init
<1>2. DOMAIN ImageOf(NewMetadata) = ImageFields /\ Sound(ImageOf(NewMetadata), seen)
  BY <1>1, ImageSound
<1>3. /\ running = TRUE /\ meta = NewMetadata /\ seen = {}
      /\ DOMAIN catalog = {"state", "image"} /\ catalog.state = "full"
      /\ catalog.image = ImageOf(NewMetadata)
  BY DEF Init
<1>4. Ranges(ImageOf(NewMetadata)) = {}
  BY DEF Ranges, ImageOf, NewMetadata
<1> QED
  BY <1>1, <1>2, <1>3, <1>4 DEF PdInv, RegionIdNeverReused

LEMMA PdStep == PdInv /\ [Next]_vars => PdInv'
<1> SUFFICES ASSUME PdInv, [Next]_vars PROVE PdInv'
  OBVIOUS
<1>1. CASE UNCHANGED vars
  <2>1. running' = running /\ meta' = meta /\ catalog' = catalog /\ seen' = seen
    BY <1>1 DEF vars
  <2> QED
    BY <2>1 DEF PdInv, RegionIdNeverReused
<1>2. CASE Next
  <2>1. Saved
    BY <1>2 DEF Next, Saved
  <2>2. Step
    BY <1>2 DEF Next
  <2>3. CASE \E s \in 0 .. MaxStore : RegisterStore(s) \/ StoreHeartbeat(s)
    BY <2>1, <2>3, RegisterStoreStep, StoreHeartbeatStep
  <2>4. CASE \E l \in StoreLists : BootstrapDefaultRegion(l) \/ BootstrapUnknownStore(l)
    BY <2>1, <2>4, BootstrapStep, BootstrapUnknownStep
  <2>5. CASE \E id \in 1 .. MaxRegion : \E k \in PdKey : SplitRegion(id, k)
    BY <2>1, <2>5, SplitRegionStep
  <2>6. CASE \E id \in 1 .. MaxRegion : \E s \in 1 .. MaxStore : AddPeer(id, s)
    BY <2>1, <2>6, AddPeerStep
  <2>7. CASE \E id \in 1 .. MaxRegion : \E p \in 1 .. MaxPeer :
               RemovePeer(id, p) \/ TransferLeader(id, p)
    BY <2>1, <2>7, RemovePeerStep, TransferLeaderStep
  <2>8. CASE Crash \/ Open
    BY <2>1, <2>8, CrashStep, OpenStep
  <2> QED
    BY <2>2, <2>3, <2>4, <2>5, <2>6, <2>7, <2>8 DEF Step
<1> QED
  BY <1>1, <1>2

LEMMA PdInvariant == Spec => []PdInv
<1>1. Init => PdInv
  BY PdInit
<1>2. PdInv /\ [Next]_vars => PdInv'
  BY PdStep
<1> QED
  BY <1>1, <1>2, PTL DEF Spec

\* Whether it runs or not, the memory of PD is sound for some history.
LEMMA MemoryIsSound ==
  ASSUME PdInv
  PROVE  \E saved : SoundMeta(meta, saved)
<1>1. CASE running
  BY <1>1 DEF PdInv
<1>2. CASE ~running
  <2>1. meta = NewMetadata
    BY <1>2 DEF PdInv
  <2>2. SoundMeta(NewMetadata, {})
    BY NewIsSound
  <2> QED
    BY <2>1, <2>2
<1> QED
  BY <1>1, <1>2 DEF PdInv

\* What the variables range over: metadata in memory and in the catalog, with a
\* start-key index from keys to region ids.
THEOREM TypeCorrect == Spec => []TypeOK
<1>1. PdInv => TypeOK
  <2> SUFFICES ASSUME PdInv PROVE TypeOK
    OBVIOUS
  <2>1. PICK saved : SoundMeta(meta, saved)
    BY MemoryIsSound
  <2>2. /\ DOMAIN meta = MetaFields /\ IsImage(meta) /\ Indexed(meta)
        /\ meta.byStart = [k \in DOMAIN meta.byStart |-> meta.byStart[k]]
    BY <2>1 DEF SoundMeta, Sound
  <2>3. \A i \in DOMAIN meta.regions : i \in Nat /\ meta.regions[i] \in RegionInfo
    BY <2>2 DEF IsImage
  <2>4. \A i \in DOMAIN meta.regions : meta.regions[i].start \in PdKey
    BY <2>3, RegionTypes
  <2>5. \A k \in DOMAIN meta.byStart : k \in PdKey /\ meta.byStart[k] \in Nat
    BY <2>2, <2>3, <2>4 DEF Indexed
  <2>6. /\ DOMAIN meta.byStart \subseteq PdKey
        /\ meta.byStart \in [DOMAIN meta.byStart -> Nat]
    BY <2>2, <2>5
  <2>7. IsImage(catalog.image)
    BY DEF PdInv, Sound
  <2> QED
    BY <2>2, <2>6, <2>7 DEF PdInv, TypeOK, MetaFields, ImageFields
<1> QED
  BY <1>1, PdInvariant, PTL

\* The regions of PD partition the key space, in memory and in the catalog,
\* after any sequence of splits, failed saves, crashes inside a save and reloads.
THEOREM RegionsPartition == Spec => []RegionsPartitionKeys
<1>1. PdInv => RegionsPartitionKeys
  <2> SUFFICES ASSUME PdInv PROVE RegionsPartitionKeys
    OBVIOUS
  <2>1. PartitionsKeys(meta)
    BY MemoryIsSound DEF SoundMeta, Sound
  <2>2. PartitionsKeys(catalog.image)
    BY DEF PdInv, Sound
  <2> QED
    BY <2>1, <2>2 DEF RegionsPartitionKeys
<1> QED
  BY <1>1, PdInvariant, PTL

\* Peer ids are unique in the cluster; the peers of a region are on different,
\* registered stores and PD's leader is one of them.
THEOREM PeersConsistent == Spec => []PeersAreConsistent
<1>1. PdInv => PeersAreConsistent
  <2> SUFFICES ASSUME PdInv PROVE PeersAreConsistent
    OBVIOUS
  <2>1. UniquePeers(meta) /\ Placed(meta)
    BY MemoryIsSound DEF SoundMeta, Sound
  <2> QED
    BY <2>1 DEF PeersAreConsistent, UniquePeers, Placed, PlacedOn
<1> QED
  BY <1>1, PdInvariant, PTL

\* A region id once saved is never saved again for another start key, although a
\* failed save and a crash hand the memory's ids out a second time.
THEOREM RegionIdsAreNotReused == Spec => []RegionIdNeverReused
<1>1. PdInv => RegionIdNeverReused
  BY DEF PdInv
<1> QED
  BY <1>1, PdInvariant, PTL

\* The lookup by key, through the start-key index, finds the region that has
\* the key.
THEOREM LookupIsExact == Spec => []LookupFindsOwner
<1>1. PdInv => LookupFindsOwner
  <2> SUFFICES ASSUME PdInv, NEW k \in PdKey, NEW i \in DOMAIN meta.regions,
                      ContainsKey(meta.regions[i], k)
               PROVE  GetRegionByKey(meta, k) = {i}
    BY DEF LookupFindsOwner
  <2> DEFINE starts == {s \in DOMAIN meta.byStart : s <= k}
             own    == meta.regions[i].start
  <2>1. PICK saved : SoundMeta(meta, saved)
    BY MemoryIsSound
  <2>2. IsImage(meta) /\ Indexed(meta) /\ PartitionsKeys(meta) /\ Allocated(meta)
    BY <2>1 DEF SoundMeta, Sound
  <2>3. \A j \in DOMAIN meta.regions :
          meta.regions[j].start \in PdKey /\ meta.regions[j].end \in PdKey
    BY <2>2, RegionTypes DEF IsImage
  <2>4. own \in starts
    BY <2>2 DEF Indexed, ContainsKey
  <2>5. starts \in SUBSET Nat /\ k \in Nat /\ \A s \in starts : s <= k
    BY <2>2, <2>3 DEF Indexed, PdKey
  <2>6. Max(starts) \in starts /\ \A y \in starts : Max(starts) >= y
    <3> HIDE DEF starts
    <3> QED
      BY <2>4, <2>5, MaxOfBoundedNats
  <2>7. PICK j \in DOMAIN meta.regions : meta.regions[j].start = Max(starts)
    BY <2>2, <2>6 DEF Indexed
  <2>8. ContainsKey(meta.regions[i], meta.regions[j].start)
    <3>1. /\ meta.regions[i].start <= meta.regions[j].start
          /\ meta.regions[j].start <= k
      BY <2>4, <2>6, <2>7
    <3> HIDE DEF starts
    <3> QED
      BY <2>3, <2>5, <3>1 DEF ContainsKey, PdKey
  <2>9. i = j
    <3>1. ContainsKey(meta.regions[j], meta.regions[j].start)
      BY <2>2 DEF Allocated
    <3> QED
      BY <2>2, <2>3, <2>8, <3>1 DEF PartitionsKeys
  <2>10. meta.byStart[Max(starts)] = i
    BY <2>2, <2>7, <2>9 DEF Indexed
  <2>11. GetRegionByKey(meta, k) =
           {id \in DOMAIN meta.regions :
              /\ starts # {} /\ id = meta.byStart[Max(starts)]
              /\ ContainsKey(meta.regions[id], k)}
    BY DEF GetRegionByKey
  <2> HIDE DEF starts
  <2> QED
    BY <2>4, <2>10, <2>11
<1> QED
  BY <1>1, PdInvariant, PTL
=============================================================================
