---------------------------- MODULE GatewayProofs ----------------------------
(***************************************************************************)
(* Theorems about Gateway, for every number of threads, gateways, keys,    *)
(* requests and faults: PD and the store agree on regions and peers if     *)
(* there is one administrator, and old routes do no harm if no two threads *)
(* share a gateway.                                                        *)
(***************************************************************************)
EXTENDS Gateway, SequenceTheorems, WellFoundedInduction, TLAPS

\* All administrative requests come from one thread, one after the other.
OneAdministrator == \A a, b \in Admin : a = b

\* No two threads share a gateway, and so none shares a cache.
UnsharedGateways == \A c, d \in Client : GatewayOf[c] = GatewayOf[d] => c = d

-----------------------------------------------------------------------------
\* PD.  What it has saved is what it will know after a restart, and what it knows
\* while it runs.

Fields == {"start", "end", "version", "confVer", "leader", "peers"}
PeerInfo == [id : Nat, store : Nat]

IsPdRegion(r) ==
  /\ DOMAIN r = Fields /\ r.start \in Nat /\ r.end \in Nat
  /\ r.peers \in Seq(PeerInfo)

DisjointRegions(regs) ==
  \A i, j \in DOMAIN regs : \A k \in Nat :
    ContainsKey(regs[i], k) /\ ContainsKey(regs[j], k) => i = j

CoverKeys(regs) == \A k \in Nat : \E i \in DOMAIN regs : ContainsKey(regs[i], k)

\* The ids of these peers are different and were allocated below n.
DistinctPeers(ps, n) ==
  /\ \A a, b \in DOMAIN ps : ps[a].id = ps[b].id => a = b
  /\ \A a \in DOMAIN ps : ps[a].id < n

\* Regions regs with the allocators at nextRegion = n and nextPeer = p.
SoundRegions(regs, n, p) ==
  /\ n \in Nat /\ n > 1 /\ p \in Nat /\ DOMAIN regs = 1 .. n - 1
  /\ \A i \in DOMAIN regs : IsPdRegion(regs[i])
  /\ DisjointRegions(regs) /\ CoverKeys(regs)
  /\ DistinctPeers(regs[1].peers, p)

Saved == pdCatalog.image

PdInv ==
  /\ pdRunning \in BOOLEAN
  /\ DOMAIN pdCatalog = {"state", "image"}
  /\ pdRunning => /\ pdCatalog.state = "full"
                  /\ DOMAIN meta = {"stores", "regions", "byStart",
                                    "nextStore", "nextRegion", "nextPeer"}
                  /\ PD!ImageOf(meta) = Saved
  /\ Saved = [stores |-> Saved.stores, regions |-> Saved.regions,
              nextStore |-> Saved.nextStore, nextRegion |-> Saved.nextRegion,
              nextPeer |-> Saved.nextPeer]
  /\ SoundRegions(Saved.regions, Saved.nextRegion, Saved.nextPeer)

-----------------------------------------------------------------------------
\* The store.

StoreFields == Fields \cup {"id"}

IsList(rs) == Len(rs) \in Nat /\ rs = [i \in 1 .. Len(rs) |-> rs[i]]

IsStoreRegion(r) ==
  DOMAIN r = StoreFields /\ r.id \in Nat /\ r.start \in Nat /\ r.end \in Nat

IsRegionList(rs) == IsList(rs) /\ \A i \in DOMAIN rs : IsStoreRegion(rs[i])

SplitFields == {"pc", "id", "key", "right", "moved"}

StoreInv ==
  /\ running \in BOOLEAN
  /\ DOMAIN catalog = {"state", "image"}
  /\ catalog.state \in {"full", "torn"}
  /\ IsRegionList(catalog.image)
  /\ running => regions = catalog.image
  /\ ~running => regions = <<>> /\ split = ST!NoSplit
  /\ DOMAIN split = SplitFields /\ (split.pc = "idle" <=> split = ST!NoSplit)
  /\ split # ST!NoSplit =>
       /\ split.key \in Nat /\ split.right \in Nat
       /\ \E i \in DOMAIN regions : regions[i].id = split.id

-----------------------------------------------------------------------------
\* Requests.

Route == [id : Nat, start : Nat, end : Nat]

Thread ==
  [pc : {"idle", "resolve", "fill", "call", "refresh", "pd", "store", "splitting",
         "clear", "done"},
   op : {"none", "kv", "split", "transfer", "add", "remove"},
   keys : Seq(Nat), id : Nat, arg : Nat, at : Nat, region : Nat,
   got : Route \cup {<<>>}, retried : BOOLEAN,
   result : {"none", "ok", "error", "stale", "refused"}]

\* A request for one key or for two, at one of its steps, without a result until
\* it is done; an administrative request, at one of its.
KvThread(t) ==
  /\ t.op = "kv" /\ Len(t.keys) \in {1, 2} /\ t.at \in 0 .. Len(t.keys)
  /\ t.pc \in {"resolve", "fill", "call", "refresh", "done"}
  /\ t.pc # "done" => t.result = "none"

AdminThread(t) ==
  /\ t.op \in {"split", "transfer", "add", "remove"}
  /\ t.pc \in {"pd", "store", "splitting", "clear", "done"}
  /\ t.result # "stale" /\ (t.pc = "splitting" => t.op = "split")

IsRequest(c, t) ==
  /\ t \in Thread /\ (t.pc = "fill" => t.got \in Route)
  /\ \/ t = IdleThread
     \/ c \notin Admin /\ KvThread(t)
     \/ c \in Admin /\ AdminThread(t)

RoutesTyped(routes) ==
  \A id \in DOMAIN routes :
    id \in Nat /\ routes[id].start \in Nat /\ routes[id].end \in Nat

TypeInv ==
  /\ th = [c \in Client |-> th[c]]
  /\ \A c \in Client : IsRequest(c, th[c])
  /\ cache = [g \in Gateways |-> cache[g]]
  /\ calm = [c \in Client |-> calm[c]]
  /\ \A g \in Gateways : RoutesTyped(cache[g])

-----------------------------------------------------------------------------
\* What a request knows.

\* The route e and PD's regions have no partial overlap: an old route is a region
\* that has since been split, or one that still is.
Aligned(e, regs) ==
  \A i \in DOMAIN regs : \A k, l \in Nat :
    ContainsKey(regs[i], k) /\ ContainsKey(regs[i], l) /\ ContainsKey(e, k)
      => ContainsKey(e, l)

\* The route e has all keys of r.
Covers(e, r) == \A k \in Nat : ContainsKey(r, k) => ContainsKey(e, k)

\* A route of region id that PD once gave: the region has since lost keys to the
\* right halves of its splits.
KnownRoute(e, id, regs) ==
  id \in DOMAIN regs /\ Covers(e, regs[id]) /\ Aligned(e, regs)

\* No region has both keys.
Apart(regs, k, l) ==
  \A i \in DOMAIN regs : ~(ContainsKey(regs[i], k) /\ ContainsKey(regs[i], l))

\* Region id of these ranges has the key.
Owns(ranges, id, k) ==
  \E x \in ranges : x[1] = id /\ x[2] <= k /\ (x[3] = Unbounded \/ k < x[3])

CacheInv ==
  \A g \in Gateways : \A id \in DOMAIN cache[g] :
    KnownRoute(cache[g][id], id, Saved.regions)

CalmInv == \A c \in Client : th[c].pc # "idle" /\ calm[c] => Agree

FirstKey(c) == th[c].keys[1]

\* While a Batch goes through its keys the route of the first one stays cached.
ResolvingInv(c) ==
  LET t == th[c]
      g == GatewayOf[c]
  IN  t.pc \in {"resolve", "fill"} =>
        /\ t.retried => t.at = 0
        /\ t.pc = "resolve" /\ t.retried => cache[g] = <<>>
        /\ t.at # 0 => /\ Cached(g, FirstKey(c)) # {}
                       /\ t.region = Min(Cached(g, FirstKey(c)))

\* PD's answer is a region that has the key and that is not in the cache, where no
\* region has it.
AnswerInv(c) ==
  LET t == th[c]
      k == KeyOf(t)
  IN  t.pc = "fill" =>
        /\ t.got \in Route /\ ContainsKey(t.got, k)
        /\ KnownRoute(t.got, t.got.id, Saved.regions)
        /\ Cached(GatewayOf[c], k) = {} /\ t.got.id \notin DOMAIN cache[GatewayOf[c]]
        /\ calm[c] => Owns(PdRanges, t.got.id, k)

OutcomeInv(c) ==
  LET t == th[c]
  IN  /\ t.pc = "call" /\ t.retried /\ calm[c] => Owns(PdRanges, t.region, FirstKey(c))
      /\ t.result = "stale" => ~calm[c]
      /\ t.op = "kv" /\ t.result = "refused" /\ calm[c] =>
           \E k \in Range(t.keys) : Apart(Saved.regions, FirstKey(c), k)

ThreadInv(c) == ResolvingInv(c) /\ AnswerInv(c) /\ OutcomeInv(c)

KvInv ==
  /\ TypeInv /\ PdInv /\ StoreInv /\ CacheInv /\ CalmInv
  /\ \A c \in Client : ThreadInv(c)

-----------------------------------------------------------------------------
\* What PD and the store agree on.

UniqueIds(rs) == \A i, j \in DOMAIN rs : rs[i].id = rs[j].id => i = j

\* The list rs has PD's regions regs.
SameRegions(rs, regs) ==
  /\ UniqueIds(rs)
  /\ \A i \in DOMAIN rs : /\ rs[i].id \in DOMAIN regs
                          /\ rs[i].start = regs[rs[i].id].start
                          /\ rs[i].end = regs[rs[i].id].end
  /\ \A id \in DOMAIN regs : \E i \in DOMAIN rs : rs[i].id = id

\* PD has split region id at key k, the right half is its last region n, and the
\* list rs has not.
OneSplitBehind(rs, regs, n, id, k) ==
  /\ UniqueIds(rs)
  /\ n \in DOMAIN regs /\ id \in DOMAIN regs \ {n}
  /\ regs[id].end = k /\ regs[n].start = k
  /\ \A i \in DOMAIN rs :
       /\ rs[i].id \in DOMAIN regs \ {n}
       /\ rs[i].start = regs[rs[i].id].start
       /\ rs[i].end = IF rs[i].id = id THEN regs[n].end ELSE regs[rs[i].id].end
  /\ \A j \in DOMAIN regs \ {n} : \E i \in DOMAIN rs : rs[i].id = j

\* The thread whose split PD has made and the store is to make, or is making.
SplitPending(t) ==
  \/ t.pc = "store" /\ t.op = "split"
  \/ t.pc = "splitting" /\ split # ST!NoSplit

LastRegion == Saved.nextRegion - 1

RangesInv ==
  /\ split # ST!NoSplit =>
       \E c \in Client : /\ th[c].pc = "splitting" /\ split.id = th[c].id
                         /\ split.key = th[c].arg
                         /\ "ranges" \notin broken => split.right = LastRegion
  /\ "ranges" \notin broken =>
       /\ \A c \in Client : SplitPending(th[c]) =>
            OneSplitBehind(catalog.image, Saved.regions, LastRegion, th[c].id, th[c].arg)
       /\ (\A c \in Client : th[c].pc # "splitting" /\ ~SplitPending(th[c])) =>
            SameRegions(catalog.image, Saved.regions)

\* The thread whose change of region 1 PD has made and the store is to make.
ChangePending(t) == t.pc = "store" /\ t.op \in {"add", "remove"} /\ t.id = 1

\* What the change does to the list ps of peers.
Changed(t, ps, qs) ==
  \/ t.op = "add" /\ qs = Append(ps, [id |-> t.region, store |-> t.arg])
  \/ t.op = "remove" /\ \E i \in DOMAIN ps : ps[i].id = t.arg /\ qs = RemoveAt(ps, i)

PeersInv ==
  broken = {} =>
    /\ running /\ 1 \in DOMAIN replicas /\ replicas[1] \in Seq(PeerInfo)
    /\ \A a, b \in DOMAIN replicas[1] : replicas[1][a].id = replicas[1][b].id => a = b
    /\ \A c \in Client : ChangePending(th[c]) =>
         Changed(th[c], replicas[1], Saved.regions[1].peers)
    /\ (\A c \in Client : ~ChangePending(th[c])) => replicas[1] = Saved.regions[1].peers

AdminInv == TypeInv /\ PdInv /\ StoreInv /\ RangesInv /\ PeersInv

-----------------------------------------------------------------------------
\* The least and the greatest element of a set of numbers.

\* Min of a nonempty set of naturals is its least element.
LEMMA MinOfNats ==
  ASSUME NEW S \in SUBSET Nat, S # {}
  PROVE  Min(S) \in S /\ \A y \in S : Min(S) <= y
<1>1. IsWellFoundedOn({ss \in Nat \X Nat : ss[1] < ss[2]}, Nat)
  BY NatLessThanWellFounded DEF OpToRel
<1>2. PICK x \in S : \A y \in S : ~(<<y, x>> \in {ss \in Nat \X Nat : ss[1] < ss[2]})
  BY <1>1, WFMin, Zenon
<1>3. \A y \in S : x \in Nat /\ y \in Nat /\ ~(y < x)
  BY <1>2
<1>4. \A y \in S : x <= y
  BY <1>3
<1> QED
  BY <1>4 DEF Min

\* Max of a nonempty set of naturals with an upper bound is its greatest element.
LEMMA MaxOfBoundedNats ==
  ASSUME NEW S \in SUBSET Nat, S # {}, NEW b \in Nat, \A s \in S : s <= b
  PROVE  Max(S) \in S /\ \A y \in S : Max(S) >= y
<1> DEFINE D == {b - s : s \in S}
<1>1. \A s \in S : b - s \in Nat
  OBVIOUS
<1>2. D \in SUBSET Nat /\ D # {}
  BY <1>1
<1>3. Min(D) \in D /\ \A d \in D : Min(D) <= d
  BY <1>2, MinOfNats
<1>4. PICK x \in S : \A y \in S : b - x <= b - y
  BY <1>3
<1>5. \A y \in S : x >= y
  BY <1>4
<1> QED
  BY <1>5 DEF Max

-----------------------------------------------------------------------------
\* PD's regions.

\* The regions regs have been split into regs2.
Refines(regs2, regs) ==
  /\ DOMAIN regs \subseteq DOMAIN regs2
  /\ \A i \in DOMAIN regs : Covers(regs[i], regs2[i])
  /\ \A j \in DOMAIN regs2 : \E i \in DOMAIN regs : Covers(regs[i], regs2[j])

LEMMA RefinesItself ==
  ASSUME NEW regs
  PROVE  Refines(regs, regs)
BY DEF Refines, Covers

LEMMA StaysAligned ==
  ASSUME NEW regs, NEW regs2, Refines(regs2, regs), NEW e, Aligned(e, regs)
  PROVE  Aligned(e, regs2)
BY DEF Refines, Aligned, Covers

LEMMA StaysKnown ==
  ASSUME NEW regs, NEW regs2, Refines(regs2, regs), NEW e, NEW id, KnownRoute(e, id, regs)
  PROVE  KnownRoute(e, id, regs2)
BY StaysAligned DEF Refines, KnownRoute, Covers

LEMMA StaysApart ==
  ASSUME NEW regs, NEW regs2, Refines(regs2, regs),
         NEW k \in Nat, NEW l \in Nat, Apart(regs, k, l)
  PROVE  Apart(regs2, k, l)
BY DEF Refines, Apart, Covers

\* A region of PD is a route without partial overlaps.
LEMMA RegionIsAligned ==
  ASSUME NEW regs, DisjointRegions(regs), NEW i \in DOMAIN regs,
         NEW e, e.start = regs[i].start, e.end = regs[i].end
  PROVE  Aligned(e, regs)
<1>1. \A k \in Nat : ContainsKey(e, k) <=> ContainsKey(regs[i], k)
  BY DEF ContainsKey
<1> QED
  BY <1>1 DEF Aligned, DisjointRegions

\* Peers and leaders change, ranges do not.
SameRange(r, q) == r.start = q.start /\ r.end = q.end

SameRanges(regs, regs2) ==
  DOMAIN regs2 = DOMAIN regs /\ \A i \in DOMAIN regs : SameRange(regs2[i], regs[i])

LEMMA SameRangesFacts ==
  ASSUME NEW regs, NEW regs2, SameRanges(regs, regs2)
  PROVE  /\ \A i \in DOMAIN regs : \A k \in Nat :
              ContainsKey(regs2[i], k) <=> ContainsKey(regs[i], k)
         /\ Refines(regs2, regs)
         /\ DisjointRegions(regs) => DisjointRegions(regs2)
         /\ CoverKeys(regs) => CoverKeys(regs2)
<1>1. DOMAIN regs2 = DOMAIN regs
  BY DEF SameRanges
<1>2. \A i \in DOMAIN regs : \A k \in Nat :
        ContainsKey(regs2[i], k) <=> ContainsKey(regs[i], k)
  BY DEF SameRanges, SameRange, ContainsKey
<1> QED
  BY <1>1, <1>2 DEF Refines, Covers, DisjointRegions, CoverKeys

\* A peer list below an allocator that has moved on.
LEMMA PeerTypes ==
  ASSUME NEW ps \in Seq(PeerInfo), NEW a \in DOMAIN ps
  PROVE  ps[a] \in PeerInfo /\ ps[a].id \in Nat
<1>1. ps[a] \in PeerInfo
  OBVIOUS
<1> QED
  BY <1>1 DEF PeerInfo

LEMMA RaisedAllocator ==
  ASSUME NEW ps \in Seq(PeerInfo), NEW p \in Nat, DistinctPeers(ps, p), NEW q \in Nat, q >= p
  PROVE  DistinctPeers(ps, q)
BY PeerTypes DEF DistinctPeers

\* What PutRegion makes of the regions.
Put(regs, id, r) == [i \in DOMAIN regs \cup {id} |-> IF i = id THEN r ELSE regs[i]]

LEMMA ReplaceRegion ==
  ASSUME NEW regs, NEW n, NEW p, SoundRegions(regs, n, p), NEW id \in DOMAIN regs,
         NEW r, IsPdRegion(r), SameRange(r, regs[id]), NEW q \in Nat, q >= p,
         id = 1 => DistinctPeers(r.peers, q), NEW regs2, regs2 = Put(regs, id, r)
  PROVE  /\ SoundRegions(regs2, n, q) /\ SameRanges(regs, regs2)
         /\ regs2[id] = r /\ \A i \in DOMAIN regs \ {id} : regs2[i] = regs[i]
<1>1. /\ DOMAIN regs2 = DOMAIN regs /\ regs2[id] = r
      /\ \A i \in DOMAIN regs \ {id} : regs2[i] = regs[i]
  BY DEF Put
<1>2. SameRanges(regs, regs2)
  BY <1>1 DEF SameRanges, SameRange
<1>3. DisjointRegions(regs2) /\ CoverKeys(regs2)
  BY <1>2, SameRangesFacts DEF SoundRegions
<1>4. /\ n \in Nat /\ n > 1 /\ p \in Nat /\ DOMAIN regs = 1 .. n - 1
      /\ DistinctPeers(regs[1].peers, p)
      /\ \A i \in DOMAIN regs : IsPdRegion(regs[i])
  BY DEF SoundRegions
<1>5. DistinctPeers(regs2[1].peers, q)
  <2>1. CASE id = 1
    BY <1>1, <2>1
  <2>2. CASE id # 1
    <3>1. regs2[1] = regs[1] /\ IsPdRegion(regs[1])
      BY <1>1, <1>4, <2>2
    <3> QED
      BY <3>1, <1>4, RaisedAllocator DEF IsPdRegion
  <2> QED
    BY <2>1, <2>2
<1>6. \A i \in DOMAIN regs2 : IsPdRegion(regs2[i])
  BY <1>1, <1>4
<1> QED
  BY <1>1, <1>2, <1>3, <1>4, <1>5, <1>6 DEF SoundRegions

\* Region id has become [start, k) and the new region n [k, end).
IsSplit(regs, n, id, k, regs2) ==
  /\ DOMAIN regs2 = DOMAIN regs \cup {n}
  /\ SameRange(regs2[id], [start |-> regs[id].start, end |-> k])
  /\ SameRange(regs2[n], [start |-> k, end |-> regs[id].end])
  /\ regs2[id].peers = regs[id].peers
  /\ \A i \in DOMAIN regs \ {id} : regs2[i] = regs[i]

LEMMA SplitRegions ==
  ASSUME NEW regs, NEW n, NEW p, SoundRegions(regs, n, p), NEW id \in DOMAIN regs,
         NEW k \in Nat, ContainsKey(regs[id], k), k # regs[id].start,
         NEW l, IsPdRegion(l), NEW r, IsPdRegion(r), NEW q \in Nat, q >= p,
         SameRange(l, [start |-> regs[id].start, end |-> k]), l.peers = regs[id].peers,
         SameRange(r, [start |-> k, end |-> regs[id].end]),
         NEW regs2, regs2 = Put(Put(regs, id, l), n, r)
  PROVE  /\ SoundRegions(regs2, n + 1, q) /\ Refines(regs2, regs)
         /\ IsSplit(regs, n, id, k, regs2) /\ n \notin DOMAIN regs
<1>1. /\ n \in Nat /\ n > 1 /\ p \in Nat /\ DOMAIN regs = 1 .. n - 1 /\ n \notin DOMAIN regs
      /\ DistinctPeers(regs[1].peers, p) /\ id # n
      /\ \A i \in DOMAIN regs : IsPdRegion(regs[i])
      /\ DisjointRegions(regs) /\ CoverKeys(regs)
  BY DEF SoundRegions
<1>2. /\ DOMAIN regs2 = DOMAIN regs \cup {n} /\ DOMAIN regs2 = 1 .. n
      /\ regs2[id] = l /\ regs2[n] = r
      /\ \A i \in DOMAIN regs \ {id} : regs2[i] = regs[i]
  <2>1. DOMAIN regs2 = DOMAIN regs \cup {n}
    BY DEF Put
  <2>2. DOMAIN regs \cup {n} = 1 .. n
    BY <1>1
  <2>3. regs2[n] = r
    BY <2>1 DEF Put
  <2>4. \A i \in DOMAIN regs : i # n /\ regs2[i] = IF i = id THEN l ELSE regs[i]
    BY <1>1, <2>1 DEF Put
  <2> QED
    BY <2>1, <2>2, <2>3, <2>4
<1>3. IsSplit(regs, n, id, k, regs2)
  BY <1>2 DEF IsSplit
<1>4. regs[id].start \in Nat /\ regs[id].end \in Nat /\ k > regs[id].start
  BY <1>1 DEF IsPdRegion, ContainsKey
<1>5. ASSUME NEW x \in Nat
      PROVE  /\ ContainsKey(l, x) <=> ContainsKey(regs[id], x) /\ x < k
             /\ ContainsKey(r, x) <=> ContainsKey(regs[id], x) /\ x >= k
  BY <1>4 DEF ContainsKey, SameRange, Unbounded
<1>6. Refines(regs2, regs)
  <2>1. ASSUME NEW j \in {id, n} PROVE Covers(regs[id], regs2[j])
    BY <1>2, <1>5 DEF Covers
  <2>2. ASSUME NEW j \in DOMAIN regs2 \ {id, n} PROVE Covers(regs[j], regs2[j])
    BY <1>2 DEF Covers
  <2> QED
    BY <1>1, <1>2, <2>1, <2>2 DEF Refines
<1>7. DisjointRegions(regs2)
  <2> SUFFICES ASSUME NEW i \in DOMAIN regs2, NEW j \in DOMAIN regs2, NEW x \in Nat,
                      ContainsKey(regs2[i], x), ContainsKey(regs2[j], x)
               PROVE  i = j
    BY DEF DisjointRegions
  <2>1. ASSUME NEW a \in DOMAIN regs2, ContainsKey(regs2[a], x)
        PROVE  LET b == IF a = n THEN id ELSE a
               IN  /\ b \in DOMAIN regs /\ ContainsKey(regs[b], x)
                   /\ a = id => x < k
                   /\ a = n => x >= k
    <3>1. CASE a = n
      BY <1>1, <1>2, <1>5, <2>1, <3>1
    <3>2. CASE a = id
      BY <1>1, <1>2, <1>5, <2>1, <3>2
    <3>3. CASE a \notin {id, n}
      BY <1>2, <2>1, <3>3
    <3> QED
      BY <3>1, <3>2, <3>3
  <2>2. (IF i = n THEN id ELSE i) = (IF j = n THEN id ELSE j)
    BY <2>1, <1>1 DEF DisjointRegions
  <2>3. ~(x < k /\ x >= k)
    OBVIOUS
  <2>4. /\ i = id => x < k
        /\ i = n => x >= k
        /\ j = id => x < k
        /\ j = n => x >= k
    BY <2>1
  <2> QED
    BY <1>1, <2>2, <2>3, <2>4
<1>8. CoverKeys(regs2)
  <2> SUFFICES ASSUME NEW x \in Nat PROVE \E i \in DOMAIN regs2 : ContainsKey(regs2[i], x)
    BY DEF CoverKeys
  <2>1. PICK i \in DOMAIN regs : ContainsKey(regs[i], x)
    BY <1>1 DEF CoverKeys
  <2>2. CASE i # id
    BY <1>2, <2>1, <2>2
  <2>3. CASE i = id /\ x < k
    BY <1>2, <1>5, <2>1, <2>3
  <2>4. CASE i = id /\ x >= k
    BY <1>2, <1>5, <2>1, <2>4
  <2> QED
    BY <2>2, <2>3, <2>4
<1>9. DistinctPeers(regs2[1].peers, q)
  <2>1. regs2[1].peers = regs[1].peers /\ IsPdRegion(regs[1])
    <3>1. 1 \in DOMAIN regs
      BY <1>1
    <3> QED
      BY <1>1, <1>2, <3>1
  <2> QED
    BY <1>1, <2>1, RaisedAllocator DEF IsPdRegion
<1>10. \A i \in DOMAIN regs2 : IsPdRegion(regs2[i])
  <2>1. ASSUME NEW i \in DOMAIN regs2 PROVE IsPdRegion(regs2[i])
    <3>1. CASE i = n
      BY <1>2, <3>1
    <3>2. CASE i = id
      BY <1>2, <3>2
    <3>3. CASE i \notin {n, id}
      BY <1>1, <1>2, <3>3
    <3> QED
      BY <3>1, <3>2, <3>3
  <2> QED
    BY <2>1
<1>11. n + 1 \in Nat /\ n + 1 > 1 /\ DOMAIN regs2 = 1 .. (n + 1) - 1
  BY <1>1, <1>2
<1> QED
  BY <1>1, <1>3, <1>6, <1>7, <1>8, <1>9, <1>10, <1>11 DEF SoundRegions

-----------------------------------------------------------------------------
\* The handlers of PD.

MetaFields == {"stores", "regions", "byStart", "nextStore", "nextRegion", "nextPeer"}

LEMMA RunningPd ==
  ASSUME PdInv, pdRunning
  PROVE  /\ DOMAIN meta = MetaFields /\ meta.regions = Saved.regions
         /\ meta.nextRegion = Saved.nextRegion /\ meta.nextPeer = Saved.nextPeer
         /\ SoundRegions(meta.regions, meta.nextRegion, meta.nextPeer)
<1>1. PD!ImageOf(meta) = Saved /\ DOMAIN meta = MetaFields
  BY DEF PdInv, MetaFields
<1>2. /\ meta.regions = Saved.regions /\ meta.nextRegion = Saved.nextRegion
      /\ meta.nextPeer = Saved.nextPeer
  BY <1>1 DEF PD!ImageOf
<1> QED
  BY <1>1, <1>2 DEF PdInv

\* The operators of Region and SequencesExt that PD and the store use.
LEMMA SharedOperators ==
  /\ \A r, k : PD!ContainsKey(r, k) <=> ContainsKey(r, k)
  /\ \A r, k : ST!ContainsKey(r, k) <=> ContainsKey(r, k)
  /\ \A s, i : PD!RemoveAt(s, i) = RemoveAt(s, i)
  /\ \A s, i : ST!RemoveAt(s, i) = RemoveAt(s, i)
  /\ \A S : ST!Min(S) = Min(S)
  /\ \A S : ST!Max(S) = Max(S)
BY DEF PD!ContainsKey, ST!ContainsKey, ContainsKey, PD!Unbounded, ST!Unbounded, Unbounded,
       PD!RemoveAt, ST!RemoveAt, RemoveAt, ST!Min, Min, ST!Max, Max

\* PD has saved m, or has died and left the catalog or truncated it.
PdSaves(m) ==
  /\ pdRunning' /\ meta' = m
  /\ pdCatalog' = [state |-> "full", image |-> PD!ImageOf(m)]

PdDies ==
  pdRunning' = FALSE /\ DOMAIN pdCatalog' = {"state", "image"} /\ Saved' = Saved

LEMMA PersistCases ==
  ASSUME PdInv, pdRunning, NEW m, PD!Persist(m)
  PROVE  PdSaves(m) \/ PdDies
<1>1. DOMAIN pdCatalog = {"state", "image"}
  BY DEF PdInv
<1> QED
  BY <1>1 DEF PD!Persist, PdSaves, PdDies, Saved

LEMMA PdDiesStep ==
  ASSUME PdInv, PdDies
  PROVE  PdInv' /\ Refines(Saved'.regions, Saved.regions)
BY RefinesItself DEF PdInv, PdDies

LEMMA PdSavesStep ==
  ASSUME PdInv, NEW m, PdSaves(m), DOMAIN m = MetaFields,
         SoundRegions(m.regions, m.nextRegion, m.nextPeer)
  PROVE  /\ PdInv' /\ Saved'.regions = m.regions
         /\ Saved'.nextRegion = m.nextRegion /\ Saved'.nextPeer = m.nextPeer
<1>1. /\ DOMAIN pdCatalog' = {"state", "image"} /\ pdCatalog'.state = "full"
      /\ Saved' = PD!ImageOf(m) /\ meta' = m /\ pdRunning' = TRUE
  BY DEF PdSaves, Saved, PdInv
<1>2. /\ Saved'.regions = m.regions
      /\ Saved'.nextRegion = m.nextRegion /\ Saved'.nextPeer = m.nextPeer
  BY <1>1 DEF PD!ImageOf
<1>3. DOMAIN meta' = {"stores", "regions", "byStart", "nextStore", "nextRegion", "nextPeer"}
  BY <1>1 DEF MetaFields
<1>4. PD!ImageOf(meta)' = Saved'
  BY <1>1 DEF PD!ImageOf
<1>5. Saved' = [stores |-> Saved'.stores, regions |-> Saved'.regions,
                nextStore |-> Saved'.nextStore, nextRegion |-> Saved'.nextRegion,
                nextPeer |-> Saved'.nextPeer]
  BY <1>1 DEF PD!ImageOf
<1> QED
  BY <1>1, <1>2, <1>3, <1>4, <1>5 DEF PdInv

LEMMA PutRegionFacts ==
  ASSUME NEW m, DOMAIN m = MetaFields, NEW id, NEW r, NEW n, n = PD!PutRegion(m, id, r)
  PROVE  /\ DOMAIN n = MetaFields /\ n.regions = Put(m.regions, id, r)
         /\ n.nextRegion = m.nextRegion /\ n.nextPeer = m.nextPeer
BY DEF PD!PutRegion, MetaFields, Put

\* What a request makes of the peers ps of its region when nextPeer is n.
PeersBy(t, ps, qs, n) ==
  \/ t.op = "transfer" /\ qs = ps
  \/ t.op = "add" /\ qs = Append(ps, [id |-> n, store |-> t.arg])
  \/ t.op = "remove" /\ \E i \in DOMAIN ps : ps[i].id = t.arg /\ qs = RemoveAt(ps, i)

\* What a handled request has done to the regions that PD has saved.
PdDid(t) ==
  /\ t.id \in DOMAIN Saved.regions
  /\ \/ /\ t.op = "split" /\ Saved'.nextRegion = Saved.nextRegion + 1
        /\ IsSplit(Saved.regions, Saved.nextRegion, t.id, t.arg, Saved'.regions)
     \/ /\ t.op # "split" /\ Saved'.nextRegion = Saved.nextRegion
        /\ SameRanges(Saved.regions, Saved'.regions)
        /\ \A i \in DOMAIN Saved.regions \ {t.id} :
             Saved'.regions[i].peers = Saved.regions[i].peers
        /\ PeersBy(t, Saved.regions[t.id].peers, Saved'.regions[t.id].peers, Saved.nextPeer)

PdStep(t) ==
  /\ PdInv' /\ Refines(Saved'.regions, Saved.regions)
  /\ pdRunning' => PdDid(t)
  /\ ~pdRunning' => Saved' = Saved

\* A request that puts one region back, with other peers or another leader.
LEMMA PutBackStep ==
  ASSUME PdInv, pdRunning, NEW t, t.op # "split", t.id \in DOMAIN meta.regions,
         NEW m, DOMAIN m = MetaFields, m.regions = meta.regions,
         m.nextRegion = meta.nextRegion, m.nextPeer \in Nat, m.nextPeer >= meta.nextPeer,
         NEW r, IsPdRegion(r), SameRange(r, meta.regions[t.id]),
         t.id = 1 => DistinctPeers(r.peers, m.nextPeer),
         PeersBy(t, meta.regions[t.id].peers, r.peers, meta.nextPeer),
         PD!Persist(PD!PutRegion(m, t.id, r))
  PROVE  PdStep(t)
<1> DEFINE n == PD!PutRegion(m, t.id, r)
<1>1. /\ DOMAIN n = MetaFields /\ n.regions = Put(meta.regions, t.id, r)
      /\ n.nextRegion = meta.nextRegion /\ n.nextPeer = m.nextPeer
  BY PutRegionFacts
<1>2. /\ SoundRegions(meta.regions, meta.nextRegion, meta.nextPeer)
      /\ meta.regions = Saved.regions /\ meta.nextRegion = Saved.nextRegion
      /\ meta.nextPeer = Saved.nextPeer
  BY RunningPd
<1> HIDE DEF n
<1>3. /\ SoundRegions(n.regions, n.nextRegion, n.nextPeer)
      /\ SameRanges(meta.regions, n.regions) /\ n.regions[t.id] = r
      /\ \A i \in DOMAIN meta.regions \ {t.id} : n.regions[i] = meta.regions[i]
  BY <1>1, <1>2, ReplaceRegion
<1>4. CASE PdSaves(n)
  <2>1. /\ PdInv' /\ Saved'.regions = n.regions
        /\ Saved'.nextRegion = n.nextRegion /\ pdRunning'
    BY <1>1, <1>3, <1>4, PdSavesStep DEF PdSaves
  <2>2. Refines(Saved'.regions, Saved.regions)
    BY <1>2, <1>3, <2>1, SameRangesFacts
  <2>3. PdDid(t)
    BY <1>1, <1>2, <1>3, <2>1 DEF PdDid
  <2> QED
    BY <2>1, <2>2, <2>3 DEF PdStep
<1>5. CASE PdDies
  BY <1>5, PdDiesStep DEF PdStep, PdDies
<1> QED
  BY <1>4, <1>5, PersistCases DEF n

LEMMA PdTransferStep ==
  ASSUME PdInv, pdRunning, NEW t, t.op = "transfer", PD!TransferLeader(t.id, t.arg)
  PROVE  PdStep(t)
<1> DEFINE q == meta.regions[t.id]
           r == [q EXCEPT !.leader = t.arg]
<1>1. t.id \in DOMAIN meta.regions /\ PD!Persist(PD!PutRegion(meta, t.id, r))
  BY DEF PD!TransferLeader, PD!HasPeer
<1>2. /\ DOMAIN meta = MetaFields
      /\ SoundRegions(meta.regions, meta.nextRegion, meta.nextPeer)
  BY RunningPd
<1>3. IsPdRegion(q) /\ (t.id = 1 => DistinctPeers(q.peers, meta.nextPeer))
      /\ meta.nextPeer \in Nat
  BY <1>1, <1>2 DEF SoundRegions
<1>4. IsPdRegion(r) /\ SameRange(r, q) /\ r.peers = q.peers
  <2> HIDE DEF q
  <2> QED
    BY <1>3 DEF IsPdRegion, Fields, SameRange
<1>5. PeersBy(t, q.peers, r.peers, meta.nextPeer)
  BY <1>4 DEF PeersBy
<1>6. meta.nextPeer >= meta.nextPeer
  BY <1>3
<1> HIDE DEF r
<1> QED
  BY <1>1, <1>2, <1>3, <1>4, <1>5, <1>6, PutBackStep

LEMMA AppendedPeer ==
  ASSUME NEW ps \in Seq(PeerInfo), NEW p \in Nat, NEW s \in Nat
  PROVE  LET qs == Append(ps, [id |-> p, store |-> s])
         IN  /\ qs \in Seq(PeerInfo)
             /\ DistinctPeers(ps, p) => DistinctPeers(qs, p + 1)
<1> DEFINE x == [id |-> p, store |-> s]
           qs == Append(ps, x)
<1>1. x \in PeerInfo /\ x.id = p
  BY DEF PeerInfo
<1> HIDE DEF x
<1>2. /\ qs \in Seq(PeerInfo) /\ DOMAIN qs = DOMAIN ps \cup {Len(ps) + 1}
      /\ qs[Len(ps) + 1] = x /\ \A a \in DOMAIN ps : qs[a] = ps[a]
  BY <1>1
<1> HIDE DEF qs
<1>3. ASSUME DistinctPeers(ps, p) PROVE DistinctPeers(qs, p + 1)
  <2>1. \A a \in DOMAIN ps : qs[a].id = ps[a].id /\ ps[a].id \in Nat /\ ps[a].id < p
    BY <1>2, <1>3, PeerTypes DEF DistinctPeers
  <2>2. qs[Len(ps) + 1].id = p
    BY <1>1, <1>2
  <2>3. \A a \in DOMAIN qs : qs[a].id < p + 1
    BY <1>2, <2>1, <2>2
  <2>4. \A a, b \in DOMAIN qs : qs[a].id = qs[b].id => a = b
    BY <1>2, <1>3, <2>1, <2>2 DEF DistinctPeers
  <2> QED
    BY <2>3, <2>4 DEF DistinctPeers
<1> QED
  BY <1>2, <1>3 DEF qs, x

LEMMA RemovedPeer ==
  ASSUME NEW ps \in Seq(PeerInfo), NEW i \in DOMAIN ps
  PROVE  LET qs == RemoveAt(ps, i)
         IN  /\ qs \in Seq(PeerInfo)
             /\ \A p : DistinctPeers(ps, p) => DistinctPeers(qs, p)
<1> DEFINE l == SubSeq(ps, 1, i - 1)
           t == SubSeq(ps, i + 1, Len(ps))
           qs == RemoveAt(ps, i)
           from(a) == IF a < i THEN a ELSE a + 1
<1>1. i \in 1 .. Len(ps) /\ Len(ps) \in Nat /\ DOMAIN ps = 1 .. Len(ps)
  OBVIOUS
<1>2. /\ l \in Seq(PeerInfo) /\ Len(l) = i - 1
      /\ \A a \in 1 .. i - 1 : l[a] = ps[a]
  BY <1>1
<1>3. /\ t \in Seq(PeerInfo) /\ Len(t) = Len(ps) - i
      /\ \A a \in 1 .. Len(ps) - i : t[a] = ps[i + a]
  BY <1>1
<1>4. qs = l \o t
  BY DEF RemoveAt
<1> HIDE DEF l, t, qs
<1>5. qs \in Seq(PeerInfo) /\ DOMAIN qs = 1 .. Len(ps) - 1
  <2>1. qs \in Seq(PeerInfo) /\ Len(qs) = Len(l) + Len(t)
    BY <1>2, <1>3, <1>4, ConcatProperties
  <2>2. Len(l) + Len(t) = Len(ps) - 1
    BY <1>1, <1>2, <1>3
  <2> QED
    BY <2>1, <2>2
<1>6. \A a \in 1 .. Len(l) + Len(t) :
        qs[a] = IF a <= Len(l) THEN l[a] ELSE t[a - Len(l)]
  BY <1>2, <1>3, <1>4, ConcatProperties
<1>7. ASSUME NEW a \in DOMAIN qs
      PROVE  from(a) \in DOMAIN ps /\ qs[a] = ps[from(a)]
  <2>1. CASE a < i
    <3>1. a \in 1 .. Len(l) /\ qs[a] = l[a]
      BY <1>1, <1>2, <1>3, <1>5, <1>6, <2>1
    <3> QED
      BY <1>1, <1>2, <2>1, <3>1
  <2>2. CASE ~(a < i)
    <3>1. a - Len(l) \in 1 .. Len(t) /\ qs[a] = t[a - Len(l)]
      <4>1. a \in 1 .. Len(l) + Len(t) /\ ~(a <= Len(l)) /\ a - Len(l) \in 1 .. Len(t)
        BY <1>1, <1>2, <1>3, <1>5, <2>2
      <4> QED
        BY <1>6, <4>1
    <3>2. i + (a - Len(l)) = a + 1 /\ a + 1 \in DOMAIN ps
      BY <1>1, <1>2, <1>5, <2>2
    <3> QED
      BY <1>1, <1>2, <1>3, <2>2, <3>1, <3>2
  <2> QED
    BY <2>1, <2>2
<1>8. \A a, b \in DOMAIN qs : from(a) = from(b) => a = b
  BY <1>1, <1>5
<1> HIDE DEF from
<1>9. ASSUME NEW p, DistinctPeers(ps, p) PROVE DistinctPeers(qs, p)
  BY <1>7, <1>8, <1>9 DEF DistinctPeers
<1> QED
  BY <1>5, <1>9 DEF qs

LEMMA PdAddStep ==
  ASSUME PdInv, pdRunning, NEW t, t.op = "add", t.arg \in Nat, PD!AddPeer(t.id, t.arg)
  PROVE  PdStep(t)
<1> DEFINE q == meta.regions[t.id]
           r == [q EXCEPT !.peers = Append(q.peers, [id |-> meta.nextPeer, store |-> t.arg]),
                          !.confVer = q.confVer + 1]
           m == [meta EXCEPT !.nextPeer = meta.nextPeer + 1]
<1>1. t.id \in DOMAIN meta.regions /\ PD!Persist(PD!PutRegion(m, t.id, r))
  BY DEF PD!AddPeer, PD!CanAddPeer
<1>2. /\ DOMAIN meta = MetaFields
      /\ SoundRegions(meta.regions, meta.nextRegion, meta.nextPeer)
  BY RunningPd
<1>3. /\ IsPdRegion(q) /\ (t.id = 1 => DistinctPeers(q.peers, meta.nextPeer))
      /\ meta.nextPeer \in Nat
  BY <1>1, <1>2 DEF SoundRegions
<1>4. /\ DOMAIN m = MetaFields /\ m.regions = meta.regions
      /\ m.nextRegion = meta.nextRegion /\ m.nextPeer = meta.nextPeer + 1
      /\ m.nextPeer \in Nat /\ m.nextPeer >= meta.nextPeer
  BY <1>2, <1>3 DEF MetaFields
<1> HIDE DEF m
<1>5. /\ SameRange(r, q) /\ DOMAIN r = Fields /\ r.start \in Nat /\ r.end \in Nat
      /\ r.peers = Append(q.peers, [id |-> meta.nextPeer, store |-> t.arg])
  <2> HIDE DEF q
  <2> QED
    BY <1>3 DEF IsPdRegion, Fields, SameRange
<1> HIDE DEF r
<1>6. IsPdRegion(r) /\ (t.id = 1 => DistinctPeers(r.peers, m.nextPeer))
  BY <1>3, <1>4, <1>5, AppendedPeer DEF IsPdRegion
<1>7. PeersBy(t, q.peers, r.peers, meta.nextPeer)
  BY <1>5 DEF PeersBy
<1> QED
  BY <1>1, <1>4, <1>5, <1>6, <1>7, PutBackStep

LEMMA PdRemoveStep ==
  ASSUME PdInv, pdRunning, NEW t, t.op = "remove", PD!RemovePeer(t.id, t.arg)
  PROVE  PdStep(t)
<1> DEFINE q == meta.regions[t.id]
<1>1. t.id \in DOMAIN meta.regions
  BY DEF PD!RemovePeer, PD!CanRemovePeer, PD!HasPeer
<1>2. PICK i \in DOMAIN q.peers :
        q.peers[i].id = t.arg /\ PD!Persist(PD!PutRegion(meta, t.id, PD!WithoutPeer(q, i)))
  BY DEF PD!RemovePeer, PD!FindPeer
<1> DEFINE r == PD!WithoutPeer(q, i)
<1>3. /\ DOMAIN meta = MetaFields
      /\ SoundRegions(meta.regions, meta.nextRegion, meta.nextPeer)
  BY RunningPd
<1>4. /\ IsPdRegion(q) /\ (t.id = 1 => DistinctPeers(q.peers, meta.nextPeer))
      /\ meta.nextPeer \in Nat /\ meta.nextPeer >= meta.nextPeer
  BY <1>1, <1>3 DEF SoundRegions
<1>5. /\ SameRange(r, q) /\ DOMAIN r = Fields /\ r.start \in Nat /\ r.end \in Nat
      /\ r.peers = RemoveAt(q.peers, i)
  <2> HIDE DEF q
  <2> QED
    BY <1>4, SharedOperators DEF IsPdRegion, Fields, SameRange, PD!WithoutPeer
<1>6. PD!Persist(PD!PutRegion(meta, t.id, r))
  BY <1>2
<1> HIDE DEF r
<1>7. IsPdRegion(r) /\ (t.id = 1 => DistinctPeers(r.peers, meta.nextPeer))
  BY <1>2, <1>4, <1>5, RemovedPeer DEF IsPdRegion
<1>8. PeersBy(t, q.peers, r.peers, meta.nextPeer)
  BY <1>2, <1>5 DEF PeersBy
<1> QED
  BY <1>1, <1>3, <1>4, <1>5, <1>6, <1>7, <1>8, PutBackStep

LEMMA PdSplitStep ==
  ASSUME PdInv, pdRunning, NEW t, t.op = "split", t.arg \in Nat, PD!SplitRegion(t.id, t.arg)
  PROVE  PdStep(t)
<1> DEFINE q == meta.regions[t.id]
           l == PD!LeftHalf(q, t.arg)
           r == PD!RightHalf(q, t.arg)
           m == [meta EXCEPT !.nextRegion = meta.nextRegion + 1,
                             !.nextPeer = meta.nextPeer + Len(q.peers)]
           n == PD!PutRegion(PD!PutRegion(m, t.id, l), meta.nextRegion, r)
<1>1. /\ t.id \in DOMAIN meta.regions /\ ContainsKey(q, t.arg) /\ t.arg # q.start
      /\ PD!Persist(n)
  BY SharedOperators DEF PD!SplitRegion, PD!CanSplit
<1>2. /\ DOMAIN meta = MetaFields /\ meta.regions = Saved.regions
      /\ meta.nextRegion = Saved.nextRegion
      /\ SoundRegions(meta.regions, meta.nextRegion, meta.nextPeer)
  BY RunningPd
<1>3. /\ IsPdRegion(q) /\ meta.nextPeer \in Nat /\ Len(q.peers) \in Nat
      /\ q.peers \in Seq(PeerInfo)
  BY <1>1, <1>2 DEF SoundRegions, IsPdRegion
<1>4. /\ DOMAIN m = MetaFields /\ m.regions = meta.regions
      /\ m.nextRegion = meta.nextRegion + 1 /\ m.nextPeer = meta.nextPeer + Len(q.peers)
  BY <1>2 DEF MetaFields
<1>5. m.nextPeer \in Nat /\ m.nextPeer >= meta.nextPeer
  BY <1>3, <1>4
<1>6. /\ DOMAIN n = MetaFields
      /\ n.regions = Put(Put(meta.regions, t.id, l), meta.nextRegion, r)
      /\ n.nextRegion = meta.nextRegion + 1 /\ n.nextPeer = m.nextPeer
  <2> HIDE DEF m, l, r
  <2> DEFINE o == PD!PutRegion(m, t.id, l)
  <2>1. /\ DOMAIN o = MetaFields /\ o.regions = Put(meta.regions, t.id, l)
        /\ o.nextRegion = m.nextRegion /\ o.nextPeer = m.nextPeer
    BY <1>4, PutRegionFacts
  <2> HIDE DEF o
  <2>2. /\ DOMAIN PD!PutRegion(o, meta.nextRegion, r) = MetaFields
        /\ PD!PutRegion(o, meta.nextRegion, r).regions = Put(o.regions, meta.nextRegion, r)
        /\ PD!PutRegion(o, meta.nextRegion, r).nextRegion = o.nextRegion
        /\ PD!PutRegion(o, meta.nextRegion, r).nextPeer = o.nextPeer
    BY <2>1, PutRegionFacts
  <2>3. n = PD!PutRegion(o, meta.nextRegion, r)
    BY DEF o
  <2> QED
    BY <1>4, <2>1, <2>2, <2>3
<1> HIDE DEF m, n
<1>7. /\ IsPdRegion(l) /\ l.peers = q.peers
      /\ SameRange(l, [start |-> q.start, end |-> t.arg])
  <2> HIDE DEF q
  <2> QED
    BY <1>3 DEF IsPdRegion, Fields, SameRange, PD!LeftHalf
<1>8. IsPdRegion(r) /\ SameRange(r, [start |-> t.arg, end |-> q.end])
  <2> DEFINE ps == [i \in 1 .. Len(q.peers) |->
                      [id |-> meta.nextPeer + i - 1, store |-> q.peers[i].store]]
  <2>1. /\ DOMAIN r = Fields /\ r.start = t.arg /\ r.end = q.end /\ r.peers = ps
    <3> HIDE DEF q
    <3> QED
      BY <1>3 DEF IsPdRegion, Fields, PD!RightHalf
  <2>2. ASSUME NEW i \in 1 .. Len(q.peers)
        PROVE  [id |-> meta.nextPeer + i - 1, store |-> q.peers[i].store] \in PeerInfo
    <3>1. q.peers[i] \in PeerInfo
      BY <1>3
    <3>2. meta.nextPeer + i - 1 \in Nat
      BY <1>3
    <3> QED
      BY <3>1, <3>2 DEF PeerInfo
  <2>3. ps \in [1 .. Len(q.peers) -> PeerInfo]
    BY <2>2
  <2>4. ps \in Seq(PeerInfo)
    <3> HIDE DEF ps
    <3> QED
      BY <1>3, <2>3
  <2> QED
    BY <1>3, <2>1, <2>4 DEF IsPdRegion, SameRange
<1> HIDE DEF l, r
<1>9. /\ SoundRegions(n.regions, n.nextRegion, n.nextPeer)
      /\ Refines(n.regions, meta.regions)
      /\ IsSplit(meta.regions, meta.nextRegion, t.id, t.arg, n.regions)
  BY <1>1, <1>2, <1>5, <1>6, <1>7, <1>8, SplitRegions
<1>10. CASE PdSaves(n)
  <2>1. /\ PdInv' /\ Saved'.regions = n.regions
        /\ Saved'.nextRegion = n.nextRegion /\ pdRunning'
    BY <1>6, <1>9, <1>10, PdSavesStep DEF PdSaves
  <2>2. Refines(Saved'.regions, Saved.regions)
    BY <1>2, <1>9, <2>1
  <2>3. PdDid(t)
    BY <1>1, <1>2, <1>6, <1>9, <2>1 DEF PdDid
  <2> QED
    BY <2>1, <2>2, <2>3 DEF PdStep
<1>11. CASE PdDies
  BY <1>11, PdDiesStep DEF PdStep, PdDies
<1> QED
  BY <1>1, <1>10, <1>11, PersistCases

LEMMA PdHandlesStep ==
  ASSUME PdInv, pdRunning, NEW t, t.arg \in Nat, PdHandles(t)
  PROVE  PdStep(t)
BY PdSplitStep, PdTransferStep, PdAddStep, PdRemoveStep DEF PdHandles

LEMMA PdCrashes ==
  ASSUME PdInv, PD!Crash
  PROVE  PdDies
BY DEF PD!Crash, PdDies, PdInv, Saved

LEMMA PdOpens ==
  ASSUME PdInv, PD!Open
  PROVE  PdInv' /\ Saved' = Saved /\ pdRunning' = TRUE
<1>1. /\ pdRunning' = TRUE /\ pdCatalog' = pdCatalog /\ pdCatalog.state = "full"
      /\ meta' = PD!LoadMetadata(Saved)
  BY DEF PD!Open, Saved
<1>2. /\ DOMAIN meta' = {"stores", "regions", "byStart", "nextStore", "nextRegion", "nextPeer"}
      /\ PD!ImageOf(meta)' = [stores |-> Saved.stores, regions |-> Saved.regions,
              nextStore |-> Saved.nextStore, nextRegion |-> Saved.nextRegion,
              nextPeer |-> Saved.nextPeer]
  BY <1>1 DEF PD!LoadMetadata, PD!ImageOf
<1>3. Saved' = Saved
  BY <1>1 DEF Saved
<1> QED
  BY <1>1, <1>2, <1>3 DEF PdInv

LEMMA PdRegisters ==
  ASSUME PdInv, RestartStore
  PROVE  /\ PdInv' /\ pdRunning /\ pdRunning' = TRUE /\ meta'.regions = meta.regions
         /\ Saved'.regions = Saved.regions /\ Saved'.nextRegion = Saved.nextRegion
         /\ Saved'.nextPeer = Saved.nextPeer
<1>1. pdRunning /\ pdRunning' = TRUE
  BY DEF RestartStore, PdInv
<1>2. /\ DOMAIN meta = MetaFields /\ meta.regions = Saved.regions
      /\ meta.nextRegion = Saved.nextRegion /\ meta.nextPeer = Saved.nextPeer
      /\ SoundRegions(meta.regions, meta.nextRegion, meta.nextPeer)
  BY <1>1, RunningPd
<1>3. /\ DOMAIN meta' = MetaFields /\ meta'.regions = meta.regions
      /\ meta'.nextRegion = meta.nextRegion /\ meta'.nextPeer = meta.nextPeer
  BY <1>2 DEF RestartStore, MetaFields
<1>4. PdSaves(meta')
  BY <1>1 DEF PdSaves, RestartStore, PD!ImageOf
<1> QED
  BY <1>1, <1>2, <1>3, <1>4, PdSavesStep

-----------------------------------------------------------------------------
\* The store's list of regions.

LEMMA ListDomain ==
  ASSUME NEW rs, IsList(rs)
  PROVE  DOMAIN rs = 1 .. Len(rs) /\ Len(rs) \in Nat
BY DEF IsList

LEMMA ListIsSeq ==
  ASSUME NEW rs, IsList(rs), NEW S, \A i \in DOMAIN rs : rs[i] \in S
  PROVE  rs \in Seq(S)
<1>1. DOMAIN rs = 1 .. Len(rs) /\ Len(rs) \in Nat
  BY ListDomain
<1>2. rs \in [1 .. Len(rs) -> S]
  BY <1>1 DEF IsList
<1> QED
  BY <1>1, <1>2

LEMMA SeqIsList ==
  ASSUME NEW S, NEW rs \in Seq(S)
  PROVE  IsList(rs)
BY LenProperties DEF IsList

LEMMA ListExcept ==
  ASSUME NEW rs, IsList(rs), NEW i, NEW r, NEW ts, ts = [rs EXCEPT ![i] = r]
  PROVE  /\ IsList(ts) /\ DOMAIN ts = DOMAIN rs /\ Len(ts) = Len(rs)
         /\ \A j \in DOMAIN rs : ts[j] = IF j = i THEN r ELSE rs[j]
<1> DEFINE S == {rs[j] : j \in DOMAIN rs} \cup {r}
<1>1. rs \in Seq(S) /\ DOMAIN rs = 1 .. Len(rs) /\ Len(rs) \in Nat
  BY ListIsSeq, ListDomain
<1>2. DOMAIN ts = DOMAIN rs /\ \A j \in DOMAIN rs : ts[j] = IF j = i THEN r ELSE rs[j]
  OBVIOUS
<1>3. ts \in [1 .. Len(rs) -> S]
  <2>1. ts = [j \in 1 .. Len(rs) |-> ts[j]]
    BY <1>1
  <2>2. \A j \in 1 .. Len(rs) : ts[j] \in S
    BY <1>1, <1>2
  <2> QED
    BY <2>1, <2>2
<1> HIDE DEF S
<1>4. ts \in Seq(S) /\ Len(ts) = Len(rs)
  BY <1>1, <1>3
<1> QED
  BY <1>2, <1>4, SeqIsList

Joined(rs, r) == rs \o <<r>>

LEMMA ListAppend ==
  ASSUME NEW rs, IsList(rs), NEW r
  PROVE  LET ts == Joined(rs, r)
         IN  /\ IsList(ts) /\ DOMAIN ts = DOMAIN rs \cup {Len(rs) + 1}
             /\ Len(rs) + 1 \notin DOMAIN rs /\ ts[Len(rs) + 1] = r
             /\ \A j \in DOMAIN rs : ts[j] = rs[j]
<1> DEFINE ts  == Joined(rs, r)
           one == <<r>>
           S   == {rs[j] : j \in DOMAIN rs} \cup {r}
<1>0. ts = rs \o one
  BY DEF Joined
<1>1. rs \in Seq(S) /\ DOMAIN rs = 1 .. Len(rs) /\ Len(rs) \in Nat
  BY ListIsSeq, ListDomain
<1>2. one \in Seq(S) /\ Len(one) = 1 /\ one[1] = r
  OBVIOUS
<1> HIDE DEF S, ts, one
<1>3. /\ ts \in Seq(S) /\ Len(ts) = Len(rs) + Len(one)
      /\ \A i \in 1 .. Len(rs) + Len(one) :
           ts[i] = IF i <= Len(rs) THEN rs[i] ELSE one[i - Len(rs)]
  BY <1>0, <1>1, <1>2, ConcatProperties
<1>4. IsList(ts) /\ DOMAIN ts = 1 .. Len(rs) + 1
  BY <1>2, <1>3, SeqIsList, ListDomain
<1>5. ts[Len(rs) + 1] = r
  BY <1>1, <1>2, <1>3
<1>6. \A j \in DOMAIN rs : ts[j] = rs[j]
  BY <1>1, <1>2, <1>3
<1> QED
  BY <1>1, <1>4, <1>5, <1>6 DEF ts

\* A list with the same ids and ranges.
KeepsRanges(rs, ts) ==
  /\ IsRegionList(ts) /\ DOMAIN ts = DOMAIN rs
  /\ \A i \in DOMAIN rs : ts[i].id = rs[i].id /\ SameRange(ts[i], rs[i])

LEMMA ExceptKeepsRanges ==
  ASSUME NEW rs, IsRegionList(rs), NEW i, NEW r, NEW ts, ts = [rs EXCEPT ![i] = r],
         i \in DOMAIN rs => IsStoreRegion(r) /\ r.id = rs[i].id /\ SameRange(r, rs[i])
  PROVE  KeepsRanges(rs, ts)
<1>1. /\ IsList(ts) /\ DOMAIN ts = DOMAIN rs
      /\ \A j \in DOMAIN rs : ts[j] = IF j = i THEN r ELSE rs[j]
  BY ListExcept DEF IsRegionList
<1>2. \A j \in DOMAIN rs : IsStoreRegion(ts[j]) /\ ts[j].id = rs[j].id /\ SameRange(ts[j], rs[j])
  BY <1>1 DEF IsRegionList, SameRange
<1> QED
  BY <1>1, <1>2 DEF KeepsRanges, IsRegionList

\* The two outcomes of Save.
StoreSaves(ts, cs) ==
  /\ running' = running /\ regions' = ts /\ replicas' = cs /\ split' = ST!NoSplit
  /\ catalog' = [state |-> "full", image |-> ts]

StoreDies ==
  /\ running' = FALSE /\ regions' = <<>> /\ split' = ST!NoSplit
  /\ DOMAIN catalog' = {"state", "image"} /\ catalog'.state \in {"full", "torn"}
  /\ catalog'.image = catalog.image

LEMMA SaveCases ==
  ASSUME StoreInv, NEW ts, NEW cs, NEW ls, ST!Save(ts, cs, ls)
  PROVE  StoreSaves(ts, cs) \/ StoreDies
<1>1. DOMAIN catalog = {"state", "image"}
  BY DEF StoreInv
<1>2. CASE /\ regions' = ts /\ replicas' = cs /\ leaderless' = ls /\ split' = ST!NoSplit
           /\ ST!Persist(ts)
  BY <1>2 DEF ST!Persist, StoreSaves
<1>3. CASE ST!Stop /\ catalog' = [catalog EXCEPT !.state = "torn"]
  BY <1>1, <1>3 DEF ST!Stop, StoreDies
<1> QED
  BY <1>2, <1>3 DEF ST!Save

LEMMA NoSplitFacts == DOMAIN ST!NoSplit = SplitFields /\ ST!NoSplit.pc = "idle"
BY DEF ST!NoSplit, SplitFields

LEMMA StoreSavesStep ==
  ASSUME StoreInv, running, NEW ts, NEW cs, StoreSaves(ts, cs), IsRegionList(ts)
  PROVE  StoreInv'
BY NoSplitFacts DEF StoreInv, StoreSaves

LEMMA StoreDiesStep ==
  ASSUME StoreInv, StoreDies
  PROVE  StoreInv'
BY NoSplitFacts DEF StoreInv, StoreDies

-----------------------------------------------------------------------------
\* The handlers of the store.

\* The replicas ps without the one that find_if finds.
WithoutFirst(ps, p) == ST!RemoveFirstMatch(ps, LAMBDA q : q.id = p)

\* A membership request at the store: the ranges stay.
ReplicasBy(t) ==
  \/ t.op = "transfer" /\ replicas' = replicas
  \/ /\ t.op = "add" /\ t.id \in DOMAIN replicas
     /\ replicas' = [replicas EXCEPT ![t.id] =
                       Append(replicas[t.id], [id |-> t.region, store |-> t.arg])]
  \/ /\ t.op = "remove" /\ t.id \in DOMAIN replicas
     /\ replicas' = [replicas EXCEPT ![t.id] = WithoutFirst(replicas[t.id], t.arg)]

StoreDid(t) ==
  /\ running' = TRUE /\ split' = ST!NoSplit
  /\ KeepsRanges(catalog.image, catalog'.image) /\ ReplicasBy(t)

\* The end of such a request: region i of the list is replaced by r.
LEMMA ManagedStep ==
  ASSUME StoreInv, running, NEW t, NEW i, NEW r, NEW ts, ts = [regions EXCEPT ![i] = r],
         i \in DOMAIN regions =>
           IsStoreRegion(r) /\ r.id = regions[i].id /\ SameRange(r, regions[i]),
         NEW cs, NEW ls, ST!Save(ts, cs, ls), replicas' = cs => ReplicasBy(t)
  PROVE  StoreInv' /\ (StoreDies \/ StoreDid(t))
<1>1. IsRegionList(regions) /\ regions = catalog.image
  BY DEF StoreInv
<1>2. KeepsRanges(regions, ts)
  BY <1>1, ExceptKeepsRanges
<1>3. CASE StoreSaves(ts, cs)
  <2>1. StoreInv'
    BY <1>2, <1>3, StoreSavesStep DEF KeepsRanges
  <2>2. StoreDid(t)
    <3>1. catalog'.image = ts /\ running' = TRUE /\ split' = ST!NoSplit /\ replicas' = cs
      BY <1>3 DEF StoreSaves, StoreInv
    <3> QED
      BY <1>1, <1>2, <3>1 DEF StoreDid
  <2> QED
    BY <2>1, <2>2
<1>4. CASE StoreDies
  BY <1>4, StoreDiesStep
<1> QED
  BY <1>3, <1>4, SaveCases

LEMMA RegionIsTyped ==
  ASSUME StoreInv, running, NEW i \in DOMAIN regions
  PROVE  IsStoreRegion(regions[i])
BY DEF StoreInv, IsRegionList

LEMMA StoreHandlesStep ==
  ASSUME StoreInv, NEW t, StoreHandles(t)
  PROVE  running /\ split = ST!NoSplit /\ StoreInv' /\ (StoreDies \/ StoreDid(t))
<1> DEFINE i == ST!Position(t.id)
           q == regions[i]
<1>1. CASE t.op = "transfer" /\ ST!TransferLeader(t.id, t.arg)
  <2> DEFINE r == [q EXCEPT !.leader = t.arg]
             ts == [regions EXCEPT ![i] = r]
  <2>1. running /\ split = ST!NoSplit /\ ST!Save(ts, replicas, leaderless \ {t.id})
    BY <1>1 DEF ST!TransferLeader, ST!Request
  <2> HIDE DEF i
  <2>2. i \in DOMAIN regions => IsStoreRegion(r) /\ r.id = regions[i].id /\ SameRange(r, regions[i])
    BY <2>1, RegionIsTyped DEF IsStoreRegion, StoreFields, Fields, SameRange
  <2>3. replicas' = replicas => ReplicasBy(t)
    BY <1>1 DEF ReplicasBy
  <2> HIDE DEF r, q
  <2> QED
    BY <2>1, <2>2, <2>3, ManagedStep
<1>2. CASE t.op = "add" /\ ST!AddPeer(t.id, t.arg, t.region)
  <2> DEFINE new == [id |-> t.region, store |-> t.arg]
             r == [q EXCEPT !.peers = Append(@, new), !.confVer = @ + 1]
             ts == [regions EXCEPT ![i] = r]
             cs == [replicas EXCEPT ![t.id] = Append(replicas[t.id], new)]
  <2>1. /\ running /\ split = ST!NoSplit /\ t.id \in DOMAIN replicas
        /\ ST!Save([regions EXCEPT ![i].peers = Append(@, new), ![i].confVer = @ + 1], cs,
                   leaderless)
    BY <1>2 DEF ST!AddPeer, ST!CanAddPeer, ST!Request
  <2>2. i \in DOMAIN regions => DOMAIN q = StoreFields
    BY <2>1, RegionIsTyped DEF IsStoreRegion
  <2> HIDE DEF i, new
  <2>3. [regions EXCEPT ![i].peers = Append(@, new), ![i].confVer = @ + 1] = ts
    <3>1. CASE i \in DOMAIN regions
      BY <2>2, <3>1 DEF StoreFields, Fields
    <3>2. CASE i \notin DOMAIN regions
      BY <3>2
    <3> QED
      BY <3>1, <3>2
  <2>4. i \in DOMAIN regions => IsStoreRegion(r) /\ r.id = regions[i].id /\ SameRange(r, regions[i])
    BY <2>1, RegionIsTyped DEF IsStoreRegion, StoreFields, Fields, SameRange
  <2>5. replicas' = cs => ReplicasBy(t)
    BY <1>2, <2>1 DEF ReplicasBy, new
  <2>6. ST!Save(ts, cs, leaderless)
    <3> HIDE DEF ts, cs
    <3> QED
      BY <2>1, <2>3
  <2> HIDE DEF r, q, cs
  <2> QED
    BY <2>1, <2>4, <2>5, <2>6, ManagedStep
<1>3. CASE t.op = "remove" /\ ST!RemovePeer(t.id, t.arg)
  <2> DEFINE rest == ST!SelectSeq(q.peers, LAMBDA x : x.id # t.arg)
             r == [q EXCEPT !.peers = rest, !.confVer = q.confVer + 1,
                            !.leader = IF q.leader = t.arg /\ rest # <<>> THEN rest[1].id
                                                                          ELSE q.leader]
             ts == [regions EXCEPT ![i] = r]
             left == WithoutFirst(replicas[t.id], t.arg)
             cs == [replicas EXCEPT ![t.id] = left]
  <2>1. running /\ split = ST!NoSplit /\ t.id \in DOMAIN replicas
    BY <1>3 DEF ST!RemovePeer, ST!CanRemovePeer, ST!HasPeer, ST!Request
  <2>2. ST!Save(ts, cs, leaderless)
    BY <1>3 DEF ST!RemovePeer, ST!Remaining, WithoutFirst
  <2>3. replicas' = cs => ReplicasBy(t)
    BY <1>3, <2>1 DEF ReplicasBy
  <2> HIDE DEF rest, cs, i
  <2>4. i \in DOMAIN regions => IsStoreRegion(r) /\ r.id = regions[i].id /\ SameRange(r, regions[i])
    BY <2>1, RegionIsTyped DEF IsStoreRegion, StoreFields, Fields, SameRange
  <2> HIDE DEF r, q
  <2> QED
    BY <2>1, <2>2, <2>3, <2>4, ManagedStep
<1> QED
  BY <1>1, <1>2, <1>3 DEF StoreHandles

\* Position finds a region that is there.
LEMMA PositionFinds ==
  ASSUME IsList(regions), NEW id, \E i \in DOMAIN regions : regions[i].id = id
  PROVE  ST!Position(id) \in DOMAIN regions /\ regions[ST!Position(id)].id = id
<1> DEFINE I == {j \in 1 .. Len(regions) : regions[j].id = id}
<1>1. ST!Position(id) = IF I # {} THEN ST!Min(I) ELSE 0
  BY DEF ST!Position, ST!SelectInSeq
<1>2. I # {} /\ I \in SUBSET Nat /\ DOMAIN regions = 1 .. Len(regions)
  BY ListDomain
<1>3. Min(I) \in I
  BY <1>2, MinOfNats
<1> QED
  BY <1>1, <1>2, <1>3, SharedOperators

SameTables == UNCHANGED <<running, regions, replicas, catalog>>
SameList   == UNCHANGED <<running, regions, catalog>>

LEMMA SplitStartsStep ==
  ASSUME StoreInv, NEW id, NEW k \in Nat, ST!SplitRegion(id, k)
  PROVE  /\ StoreInv' /\ SameTables /\ running /\ split = ST!NoSplit
         /\ split' # ST!NoSplit /\ split'.id = id /\ split'.key = k
         /\ split'.right = ST!NextRegionId
<1>1. /\ running /\ split = ST!NoSplit /\ ST!NextRegionId \in Nat /\ SameTables
      /\ \E i \in DOMAIN regions : regions[i].id = id
  BY DEF ST!SplitRegion, ST!Request, ST!CanSplit, ST!RegionId, ST!tables, SameTables
<1>2. /\ DOMAIN split' = SplitFields /\ split'.pc = "export" /\ split'.id = id
      /\ split'.key = k /\ split'.right = ST!NextRegionId
  BY DEF ST!SplitRegion, ST!NoSplit, SplitFields
<1>3. split'.pc # "idle" /\ split' # ST!NoSplit
  BY <1>2, NoSplitFacts
<1> QED
  BY <1>1, <1>2, <1>3 DEF StoreInv, SameTables

LEMMA SplitGoesOnStep ==
  ASSUME StoreInv, SplitGoesOn
  PROVE  /\ StoreInv' /\ SameTables /\ split # ST!NoSplit /\ split' # ST!NoSplit
         /\ split'.id = split.id /\ split'.key = split.key /\ split'.right = split.right
<1>1. /\ SameTables /\ split.pc \in {"export", "puts", "deletes"}
      /\ split'.pc \in {"puts", "deletes", "install"} /\ DOMAIN split' = SplitFields
      /\ split'.id = split.id /\ split'.key = split.key /\ split'.right = split.right
  BY DEF SplitGoesOn, ST!Export, ST!PutRight, ST!DeleteLeft, ST!tables, SameTables, StoreInv,
         SplitFields
<1>2. split # ST!NoSplit /\ split' # ST!NoSplit
  BY <1>1, NoSplitFacts
<1>3. running
  BY <1>2 DEF StoreInv
<1> QED
  BY <1>1, <1>2, <1>3 DEF StoreInv, SameTables

LEMMA SplitFailsStep ==
  ASSUME StoreInv, ST!SplitFails
  PROVE  StoreInv' /\ SameTables /\ split # ST!NoSplit /\ split' = ST!NoSplit
<1>1. SameTables /\ split.pc \in {"puts", "deletes"} /\ split' = ST!NoSplit
  BY DEF ST!SplitFails, ST!tables, SameTables
<1>2. split # ST!NoSplit
  BY <1>1, NoSplitFacts
<1> QED
  BY <1>1, <1>2, NoSplitFacts DEF StoreInv, SameTables

\* Region i of the list rs has been split and its right half is the last of ts.
Halved(rs, i, k, right, ts) ==
  /\ i \in DOMAIN rs
  /\ DOMAIN ts = DOMAIN rs \cup {Len(rs) + 1} /\ Len(rs) + 1 \notin DOMAIN rs
  /\ ts[i].id = rs[i].id /\ ts[i].start = rs[i].start /\ ts[i].end = k
  /\ ts[Len(rs) + 1].id = right /\ ts[Len(rs) + 1].start = k
  /\ ts[Len(rs) + 1].end = rs[i].end
  /\ \A j \in DOMAIN rs \ {i} : ts[j] = rs[j]

SplitInstalled ==
  /\ running' = TRUE /\ split' = ST!NoSplit
  /\ \E i \in DOMAIN catalog.image :
       /\ catalog.image[i].id = split.id
       /\ Halved(catalog.image, i, split.key, split.right, catalog'.image)
  /\ replicas' = [id \in DOMAIN replicas \cup {split.right} |->
                    IF id = split.right THEN ST!NewReplicas ELSE replicas[id]]

LEMMA InstallStep ==
  ASSUME StoreInv, ST!Install
  PROVE  /\ StoreInv' /\ running /\ split # ST!NoSplit
         /\ StoreDies \/ SplitInstalled
<1> DEFINE i == ST!Position(split.id)
           r == regions[i]
           a == ST!LeftRegion(r, split.key)
           b == ST!RightRegion(r, split.key, split.right)
           us == [regions EXCEPT ![i] = a]
           ts == Joined(us, b)
           cs == [id \in DOMAIN replicas \cup {split.right} |->
                    IF id = split.right THEN ST!NewReplicas ELSE replicas[id]]
<1>1. split.pc = "install" /\ ST!Save(ts, cs, leaderless)
  BY DEF ST!Install, Joined
<1>2. split # ST!NoSplit
  BY <1>1, NoSplitFacts
<1>3. /\ running /\ IsRegionList(regions) /\ regions = catalog.image
      /\ split.key \in Nat /\ split.right \in Nat
      /\ \E j \in DOMAIN regions : regions[j].id = split.id
  BY <1>2 DEF StoreInv
<1>4. i \in DOMAIN regions /\ r.id = split.id
  BY <1>3, PositionFinds DEF IsRegionList
<1>5. IsStoreRegion(r)
  BY <1>3, <1>4 DEF IsRegionList
<1> HIDE DEF i, r
<1>6. /\ IsStoreRegion(a) /\ a.id = r.id /\ a.start = r.start /\ a.end = split.key
  <2>1. /\ DOMAIN a = StoreFields /\ a.id = r.id /\ a.start = r.start /\ a.end = split.key
    BY <1>5 DEF ST!LeftRegion, IsStoreRegion, StoreFields, Fields
  <2> HIDE DEF a
  <2> QED
    BY <1>3, <1>5, <2>1 DEF IsStoreRegion
<1>7. /\ IsStoreRegion(b) /\ b.id = split.right /\ b.start = split.key /\ b.end = r.end
  <2>1. /\ DOMAIN b = StoreFields /\ b.id = split.right /\ b.start = split.key
        /\ b.end = r.end
    BY <1>5 DEF ST!RightRegion, IsStoreRegion, StoreFields, Fields
  <2> HIDE DEF b
  <2> QED
    BY <1>3, <1>5, <2>1 DEF IsStoreRegion
<1> HIDE DEF a, b, cs
<1>8. /\ IsList(us) /\ DOMAIN us = DOMAIN regions /\ Len(us) = Len(regions)
      /\ \A j \in DOMAIN regions : us[j] = IF j = i THEN a ELSE regions[j]
  BY <1>3, ListExcept DEF IsRegionList
<1> HIDE DEF us
<1>9. /\ IsList(ts) /\ DOMAIN ts = DOMAIN us \cup {Len(us) + 1}
      /\ Len(us) + 1 \notin DOMAIN us /\ ts[Len(us) + 1] = b
      /\ \A j \in DOMAIN us : ts[j] = us[j]
  BY <1>8, ListAppend
<1> HIDE DEF ts
<1>10. IsRegionList(ts)
  <2>1. \A j \in DOMAIN regions : IsStoreRegion(ts[j])
    BY <1>3, <1>6, <1>8, <1>9 DEF IsRegionList
  <2> QED
    BY <1>7, <1>8, <1>9, <2>1 DEF IsRegionList
<1>11. Halved(regions, i, split.key, split.right, ts)
  <2>1. ts[i] = a
    BY <1>4, <1>8, <1>9
  <2>2. \A j \in DOMAIN regions \ {i} : ts[j] = regions[j]
    BY <1>8, <1>9
  <2>3. /\ DOMAIN ts = DOMAIN regions \cup {Len(regions) + 1}
        /\ Len(regions) + 1 \notin DOMAIN regions /\ ts[Len(regions) + 1] = b
    BY <1>8, <1>9
  <2> QED
    BY <1>4, <1>6, <1>7, <2>1, <2>2, <2>3 DEF Halved, r
<1>12. CASE StoreSaves(ts, cs)
  <2>1. /\ running' = TRUE /\ split' = ST!NoSplit /\ replicas' = cs /\ catalog'.image = ts
    BY <1>3, <1>12 DEF StoreSaves
  <2>2. SplitInstalled
    BY <1>3, <1>4, <1>11, <2>1 DEF SplitInstalled, cs, r
  <2> QED
    BY <1>2, <1>3, <1>10, <1>12, <2>2, StoreSavesStep
<1>13. CASE StoreDies
  BY <1>2, <1>3, <1>13, StoreDiesStep
<1> QED
  BY <1>1, <1>12, <1>13, SaveCases

LEMMA StoreCrashes ==
  ASSUME StoreInv, ST!Crash
  PROVE  StoreDies
BY DEF ST!Crash, ST!Stop, StoreDies, StoreInv

LEMMA StoreStartsStep ==
  ASSUME StoreInv, ST!Start
  PROVE  /\ StoreInv' /\ ~running /\ running' = TRUE /\ catalog'.image = catalog.image
         /\ split = ST!NoSplit /\ split' = ST!NoSplit
<1>1. /\ ~running /\ running' = TRUE /\ regions' = catalog.image /\ split' = split
      /\ catalog' = [state |-> "full", image |-> regions']
  BY DEF ST!Start, ST!CanLoadCatalog, ST!LoadRegionCatalog, StoreInv
<1>2. catalog'.image = catalog.image /\ catalog'.state = "full"
      /\ DOMAIN catalog' = {"state", "image"}
  BY <1>1
<1> QED
  BY <1>1, <1>2, NoSplitFacts DEF StoreInv

LEMMA StoreUnchanged ==
  ASSUME StoreInv, SameList, split' = split
  PROVE  StoreInv'
BY DEF StoreInv, SameList

LEMMA TablesUnchanged ==
  ASSUME StoreInv, SameTables, split' = split
  PROVE  StoreInv'
BY StoreUnchanged DEF SameTables, SameList

-----------------------------------------------------------------------------
\* Threads and caches.

LEMMA GatewayIsOne ==
  ASSUME NEW c \in Client
  PROVE  GatewayOf[c] \in Gateways
BY DEF Gateways

LEMMA SetFacts ==
  ASSUME TypeInv, NEW c \in Client, NEW t, Set(c, t)
  PROVE  /\ th' = [d \in Client |-> th'[d]] /\ th'[c] = t
         /\ \A d \in Client \ {c} : th'[d] = th[d]
BY DEF TypeInv, Set

CalmStep == calm' = [c \in Client |-> th'[c].pc = "idle" \/ (calm[c] /\ Agree')]

LEMMA ClearFacts ==
  ASSUME TypeInv, NEW g \in Gateways, ClearRoutes(g)
  PROVE  /\ cache' = [h \in Gateways |-> cache'[h]] /\ cache'[g] = <<>>
         /\ \A h \in Gateways \ {g} : cache'[h] = cache[h]
         /\ \A h \in Gateways : RoutesTyped(cache'[h])
<1>1. /\ cache' = [h \in Gateways |-> cache'[h]] /\ cache'[g] = <<>>
      /\ \A h \in Gateways \ {g} : cache'[h] = cache[h]
  BY DEF TypeInv, ClearRoutes
<1>2. RoutesTyped(<<>>)
  BY DEF RoutesTyped
<1> QED
  BY <1>1, <1>2 DEF TypeInv

LEMMA PutFacts ==
  ASSUME TypeInv, NEW g \in Gateways, NEW e \in Route, PutRoute(g, e)
  PROVE  /\ cache' = [h \in Gateways |-> cache'[h]]
         /\ DOMAIN cache'[g] = DOMAIN cache[g] \cup {e.id} /\ cache'[g][e.id] = e
         /\ \A id \in DOMAIN cache[g] \ {e.id} : cache'[g][id] = cache[g][id]
         /\ \A h \in Gateways \ {g} : cache'[h] = cache[h]
         /\ \A h \in Gateways : RoutesTyped(cache'[h])
<1> DEFINE m == [id \in DOMAIN cache[g] \cup {e.id} |-> IF id = e.id THEN e ELSE cache[g][id]]
<1>1. cache' = [cache EXCEPT ![g] = m]
  BY DEF PutRoute
<1>2. /\ DOMAIN m = DOMAIN cache[g] \cup {e.id} /\ m[e.id] = e
      /\ \A id \in DOMAIN cache[g] \ {e.id} : m[id] = cache[g][id]
  OBVIOUS
<1> HIDE DEF m
<1>3. /\ cache' = [h \in Gateways |-> cache'[h]] /\ cache'[g] = m
      /\ \A h \in Gateways \ {g} : cache'[h] = cache[h]
  BY <1>1 DEF TypeInv
<1>4. e.id \in Nat /\ e.start \in Nat /\ e.end \in Nat
  BY DEF Route
<1>5. RoutesTyped(m)
  BY <1>2, <1>4 DEF TypeInv, RoutesTyped
<1> QED
  BY <1>2, <1>3, <1>5 DEF TypeInv

\* One thread has moved on, and the routes are still routes.
LEMMA TypedStep ==
  ASSUME TypeInv, CalmStep, NEW c \in Client, NEW t, Set(c, t), IsRequest(c, t),
         cache' = [g \in Gateways |-> cache'[g]],
         \A g \in Gateways : RoutesTyped(cache'[g])
  PROVE  TypeInv'
<1>1. /\ th' = [d \in Client |-> th'[d]] /\ th'[c] = t
      /\ \A d \in Client \ {c} : th'[d] = th[d]
  BY SetFacts
<1>2. \A d \in Client : IsRequest(d, th'[d])
  BY <1>1 DEF TypeInv
<1>3. calm' = [d \in Client |-> calm'[d]]
  BY DEF CalmStep
<1> QED
  BY <1>1, <1>2, <1>3 DEF TypeInv

LEMMA TypedUnchanged ==
  ASSUME TypeInv, CalmStep, th' = th, cache' = cache
  PROVE  TypeInv'
<1>1. calm' = [d \in Client |-> calm'[d]]
  BY DEF CalmStep
<1> QED
  BY <1>1 DEF TypeInv

LEMMA IdleTyped == IdleThread \in Thread
BY DEF IdleThread, Thread

\* The threads that are not administrators, and the administrator.
LEMMA RequestKind ==
  ASSUME TypeInv, NEW c \in Client
  PROVE  /\ th[c] \in Thread
         /\ th[c].pc = "idle" <=> th[c] = IdleThread
         /\ c \notin Admin /\ th[c].pc # "idle" => KvThread(th[c])
         /\ c \in Admin /\ th[c].pc # "idle" => AdminThread(th[c])
         /\ th[c].pc \in {"resolve", "fill", "call", "refresh"} => c \notin Admin
         /\ th[c].pc \in {"pd", "store", "splitting", "clear"} => c \in Admin
<1>1. IsRequest(c, th[c])
  BY DEF TypeInv
<1>2. IdleThread.pc = "idle"
  BY DEF IdleThread
<1> QED
  BY <1>1, <1>2 DEF IsRequest, KvThread, AdminThread

-----------------------------------------------------------------------------
\* The steps of a request, as records.

LEMMA DoneTyped ==
  ASSUME NEW t \in Thread, NEW r \in {"none", "ok", "error", "stale", "refused"}
  PROVE  /\ Done(t, r) \in Thread /\ Done(t, r).pc = "done" /\ Done(t, r).result = r
         /\ Done(t, r).op = t.op /\ Done(t, r).keys = t.keys /\ Done(t, r).at = t.at
         /\ Done(t, r).id = t.id /\ Done(t, r).arg = t.arg
BY DEF Done, Thread

LEMMA KvDone ==
  ASSUME NEW c \in Client, c \notin Admin, NEW t \in Thread, KvThread(t),
         NEW r \in {"none", "ok", "error", "stale", "refused"}
  PROVE  IsRequest(c, Done(t, r))
BY DoneTyped DEF IsRequest, KvThread

LEMMA AdminDone ==
  ASSUME NEW c \in Client, c \in Admin, NEW t \in Thread, AdminThread(t),
         NEW r \in {"none", "ok", "error", "refused"}
  PROVE  IsRequest(c, Done(t, r))
BY DoneTyped DEF IsRequest, AdminThread

LEMMA KeyFacts ==
  ASSUME NEW t \in Thread, KvThread(t)
  PROVE  /\ t.keys \in Seq(Nat) /\ t.at \in Nat /\ t.keys[1] \in Nat
         /\ KeyOf(t) \in Nat /\ KeyOf(t) \in Range(t.keys) /\ t.keys[1] \in Range(t.keys)
         /\ t.at = 0 => KeyOf(t) = t.keys[1]
         /\ \A k \in Range(t.keys) : k \in Nat
<1>1. t.keys \in Seq(Nat) /\ Len(t.keys) \in {1, 2} /\ t.at \in 0 .. Len(t.keys)
  BY DEF Thread, KvThread
<1>2. \A i \in 1 .. Len(t.keys) : t.keys[i] \in Nat /\ t.keys[i] \in Range(t.keys)
  BY <1>1 DEF Range
<1> QED
  BY <1>1, <1>2 DEF KeyOf, Range

LEMMA ResolvedFacts ==
  ASSUME NEW t \in Thread, KvThread(t), t.pc \in {"resolve", "fill"}, NEW id \in Nat,
         NEW u, u = Resolved(t, id)
  PROVE  /\ u \in Thread /\ KvThread(u) /\ u.pc \in {"resolve", "call", "done"}
         /\ u.keys = t.keys /\ u.retried = t.retried
         /\ u.pc = "resolve" => u.at # 0 /\ ~u.retried
         /\ u.pc # "done" => u.region = id /\ (t.at = 0 \/ t.region = id)
         /\ u.pc = "done" => u.result = "refused" /\ t.at # 0 /\ t.region # id
<1> DEFINE last == t.at = Len(t.keys) \/ Len(t.keys) = 1 \/ t.retried
<1>1. /\ Len(t.keys) \in {1, 2} /\ t.at \in 0 .. Len(t.keys) /\ t.op = "kv"
      /\ t.result = "none" /\ t.keys \in Seq(Nat) /\ t.region \in Nat
  BY DEF KvThread, Thread
<1>2. /\ ~last => t.at + 1 \in 0 .. Len(t.keys) /\ t.at + 1 \in Nat /\ t.at + 1 # 0 /\ ~t.retried
      /\ t.retried \in BOOLEAN
  BY <1>1 DEF Thread
<1> HIDE DEF last
<1>3. CASE t.at # 0 /\ t.region # id
  <2>1. u = [t EXCEPT !.pc = "done", !.result = "refused"]
    BY <1>3 DEF Resolved, Done
  <2>2. /\ u \in Thread /\ u.op = t.op /\ u.keys = t.keys /\ u.at = t.at
        /\ u.pc = "done" /\ u.retried = t.retried /\ u.result = "refused"
    BY <2>1 DEF Thread
  <2> QED
    BY <1>1, <1>3, <2>2 DEF KvThread
<1>4. CASE t.at # 0 /\ t.region = id /\ last
  <2>1. u = [t EXCEPT !.pc = "call"]
    BY <1>4 DEF Resolved, last
  <2>2. /\ u \in Thread /\ u.op = t.op /\ u.keys = t.keys /\ u.at = t.at
        /\ u.pc = "call" /\ u.retried = t.retried /\ u.result = t.result /\ u.region = t.region
    BY <2>1 DEF Thread
  <2> QED
    BY <1>1, <1>4, <2>2 DEF KvThread
<1>5. CASE t.at # 0 /\ t.region = id /\ ~last
  <2>1. u = [t EXCEPT !.pc = "resolve", !.at = t.at + 1]
    BY <1>5 DEF Resolved, last
  <2>2. /\ u \in Thread /\ u.op = t.op /\ u.keys = t.keys /\ u.at = t.at + 1
        /\ u.pc = "resolve" /\ u.retried = t.retried /\ u.result = t.result
        /\ u.region = t.region
    BY <1>2, <1>5, <2>1 DEF Thread
  <2> QED
    BY <1>1, <1>2, <1>5, <2>2 DEF KvThread
<1>6. CASE t.at = 0 /\ last
  <2>1. u = [t EXCEPT !.pc = "call", !.region = id]
    BY <1>6 DEF Resolved, last
  <2>2. /\ u \in Thread /\ u.op = t.op /\ u.keys = t.keys /\ u.at = t.at
        /\ u.pc = "call" /\ u.retried = t.retried /\ u.result = t.result /\ u.region = id
    BY <2>1 DEF Thread
  <2> QED
    BY <1>1, <1>6, <2>2 DEF KvThread
<1>7. CASE t.at = 0 /\ ~last
  <2>1. u = [t EXCEPT !.pc = "resolve", !.at = t.at + 1, !.region = id]
    BY <1>7 DEF Resolved, last
  <2>2. /\ u \in Thread /\ u.op = t.op /\ u.keys = t.keys /\ u.at = t.at + 1
        /\ u.pc = "resolve" /\ u.retried = t.retried /\ u.result = t.result /\ u.region = id
    BY <1>2, <1>7, <2>1 DEF Thread
  <2> QED
    BY <1>1, <1>2, <1>7, <2>2 DEF KvThread
<1> QED
  BY <1>3, <1>4, <1>5, <1>6, <1>7

-----------------------------------------------------------------------------
\* The steps of a thread that leave PD, the store's regions and the split alone.

NotManaging(t) == t.pc \notin {"store", "splitting"}

Aside(c) ==
  /\ TypeInv' /\ SameTables /\ split' = split /\ UNCHANGED <<pdVars, broken>>
  /\ NotManaging(th[c]) /\ NotManaging(th'[c])
  /\ \A d \in Client \ {c} : th'[d] = th[d]

\* The thread becomes t; the cache stays.
LEMMA AsideStep ==
  ASSUME TypeInv, CalmStep, NEW c \in Client, NEW t, Set(c, t), IsRequest(c, t),
         cache' = cache, SameTables, split' = split, UNCHANGED <<pdVars, broken>>,
         NotManaging(th[c]), NotManaging(t)
  PROVE  Aside(c)
<1>1. /\ cache' = [g \in Gateways |-> cache'[g]]
      /\ \A g \in Gateways : RoutesTyped(cache'[g])
  BY DEF TypeInv
<1> QED
  BY <1>1, TypedStep, SetFacts DEF Aside

LEMMA KvRequestAside ==
  ASSUME TypeInv, CalmStep, NEW c \in Client, NEW keys \in Seq(Nat), Len(keys) \in {1, 2},
         KvRequest(c, keys)
  PROVE  /\ Aside(c) /\ th[c].pc = "idle" /\ cache' = cache
         /\ th'[c].pc = "resolve" /\ th'[c].at = 0 /\ ~th'[c].retried /\ th'[c].result = "none"
<1> DEFINE t == [IdleThread EXCEPT !.pc = "resolve", !.op = "kv", !.keys = keys]
<1>1. /\ t \in Thread /\ t.pc = "resolve" /\ t.op = "kv" /\ t.keys = keys /\ t.at = 0
      /\ t.result = "none" /\ t.retried = FALSE
  BY DEF IdleThread, Thread
<1>2. /\ Set(c, t) /\ th[c].pc = "idle" /\ c \notin Admin /\ cache' = cache
      /\ UNCHANGED <<pdVars, broken>> /\ SameTables /\ split' = split
  BY DEF KvRequest, storeVars, SameTables
<1> HIDE DEF t
<1>3. IsRequest(c, t) /\ NotManaging(t) /\ NotManaging(th[c])
  BY <1>1, <1>2 DEF IsRequest, KvThread, NotManaging
<1>4. th'[c] = t
  BY <1>2, SetFacts
<1> QED
  BY <1>1, <1>2, <1>3, <1>4, AsideStep

LEMMA AdminRequestAside ==
  ASSUME TypeInv, CalmStep, NEW c \in Client, NEW op \in {"split", "transfer", "add", "remove"},
         NEW id \in Nat, NEW arg \in Nat, AdminRequest(c, op, id, arg)
  PROVE  /\ Aside(c) /\ c \in Admin /\ cache' = cache
         /\ th[c].pc = "idle" /\ th'[c].pc = "pd" /\ th'[c].result = "none"
<1> DEFINE t == [IdleThread EXCEPT !.pc = "pd", !.op = op, !.id = id, !.arg = arg]
<1>0. IdleThread \in Thread /\ IdleThread.result = "none"
  BY IdleTyped DEF IdleThread
<1>1. t \in Thread /\ t.pc = "pd" /\ t.op = op /\ t.result = "none"
  BY <1>0 DEF Thread
<1>2. /\ Set(c, t) /\ th[c].pc = "idle" /\ c \in Admin /\ cache' = cache
      /\ UNCHANGED <<pdVars, broken>> /\ SameTables /\ split' = split
  BY DEF AdminRequest, storeVars, SameTables
<1> HIDE DEF t
<1>3. IsRequest(c, t) /\ NotManaging(t) /\ NotManaging(th[c])
  BY <1>1, <1>2 DEF IsRequest, AdminThread, NotManaging
<1>4. th'[c] = t
  BY <1>2, SetFacts
<1> QED
  BY <1>1, <1>2, <1>3, <1>4, AsideStep

LEMMA CachedFacts ==
  ASSUME TypeInv, NEW g \in Gateways, NEW k
  PROVE  /\ Cached(g, k) \in SUBSET Nat
         /\ Cached(g, k) # {} => Min(Cached(g, k)) \in Cached(g, k)
<1>1. Cached(g, k) \in SUBSET Nat
  BY DEF TypeInv, RoutesTyped, Cached
<1> QED
  BY <1>1, MinOfNats

LEMMA ResolveCachedAside ==
  ASSUME TypeInv, CalmStep, NEW c \in Client, ResolveCached(c)
  PROVE  LET ids == Cached(GatewayOf[c], KeyOf(th[c]))
         IN  /\ Aside(c) /\ c \notin Admin /\ th[c].pc = "resolve" /\ KvThread(th[c])
             /\ cache' = cache /\ ids # {} /\ Min(ids) \in Nat
             /\ th'[c] = Resolved(th[c], Min(ids))
<1> DEFINE ids == Cached(GatewayOf[c], KeyOf(th[c]))
           u   == Resolved(th[c], Min(ids))
<1>1. /\ th[c].pc = "resolve" /\ ids # {} /\ Set(c, u) /\ cache' = cache
      /\ UNCHANGED <<pdVars, broken>> /\ SameTables /\ split' = split
  BY DEF ResolveCached, storeVars, SameTables
<1>2. Min(ids) \in Nat
  BY <1>1, CachedFacts, GatewayIsOne
<1>3. c \notin Admin /\ th[c] \in Thread /\ KvThread(th[c])
  BY <1>1, RequestKind
<1> HIDE DEF ids
<1>4. u \in Thread /\ KvThread(u) /\ u.pc \in {"resolve", "call", "done"}
  BY <1>1, <1>2, <1>3, ResolvedFacts
<1> HIDE DEF u
<1>5. IsRequest(c, u) /\ NotManaging(u) /\ NotManaging(th[c])
  BY <1>1, <1>3, <1>4 DEF IsRequest, NotManaging
<1>6. th'[c] = u
  BY <1>1, SetFacts
<1> QED
  BY <1>1, <1>2, <1>3, <1>5, <1>6, AsideStep DEF u, ids

\* PD's answer names one of its regions, which has the key.
LEMMA AskPdAside ==
  ASSUME TypeInv, PdInv, CalmStep, NEW c \in Client, AskPd(c)
  PROVE  /\ Aside(c) /\ c \notin Admin /\ th[c].pc = "resolve" /\ KvThread(th[c])
         /\ cache' = cache /\ Cached(GatewayOf[c], KeyOf(th[c])) = {}
         /\ \/ th'[c] = Done(th[c], "error")
            \/ /\ pdRunning /\ th'[c].pc = "fill"
               /\ th'[c].got \in Route /\ th'[c].got.id \in DOMAIN meta.regions
               /\ SameRange(th'[c].got, meta.regions[th'[c].got.id])
               /\ ContainsKey(meta.regions[th'[c].got.id], KeyOf(th[c]))
               /\ th'[c].at = th[c].at /\ th'[c].keys = th[c].keys
               /\ th'[c].retried = th[c].retried /\ th'[c].region = th[c].region
               /\ th'[c].result = "none"
<1> DEFINE t == th[c]
           k == KeyOf(t)
           e(id) == [id |-> id, start |-> meta.regions[id].start, end |-> meta.regions[id].end]
           f(id) == [t EXCEPT !.pc = "fill", !.got = e(id)]
<1>1. /\ t.pc = "resolve" /\ Cached(GatewayOf[c], k) = {} /\ cache' = cache
      /\ UNCHANGED <<pdVars, broken>> /\ SameTables /\ split' = split
      /\ \/ pdRunning /\ \E id \in PD!GetRegionByKey(meta, k) : Set(c, f(id))
         \/ Set(c, Done(t, "error"))
  BY DEF AskPd, storeVars, SameTables
<1>2. c \notin Admin /\ t \in Thread /\ KvThread(t) /\ NotManaging(t) /\ t.result = "none"
  BY <1>1, RequestKind DEF NotManaging, KvThread
<1>3. CASE Set(c, Done(t, "error"))
  <2>1. IsRequest(c, Done(t, "error")) /\ NotManaging(Done(t, "error"))
    BY <1>2, KvDone, DoneTyped DEF NotManaging
  <2>2. th'[c] = Done(t, "error")
    BY <1>3, SetFacts
  <2> QED
    BY <1>1, <1>2, <1>3, <2>1, <2>2, AsideStep
<1>4. CASE pdRunning /\ \E id \in PD!GetRegionByKey(meta, k) : Set(c, f(id))
  <2>1. PICK id \in PD!GetRegionByKey(meta, k) : Set(c, f(id))
    BY <1>4
  <2>2. id \in DOMAIN meta.regions /\ ContainsKey(meta.regions[id], k)
    BY SharedOperators DEF PD!GetRegionByKey
  <2>3. SoundRegions(meta.regions, meta.nextRegion, meta.nextPeer)
    BY <1>4, RunningPd
  <2>4. id \in Nat /\ meta.regions[id].start \in Nat /\ meta.regions[id].end \in Nat
    BY <2>2, <2>3 DEF SoundRegions, IsPdRegion
  <2>5. e(id) \in Route /\ e(id).id = id /\ SameRange(e(id), meta.regions[id])
    BY <2>4 DEF Route, SameRange
  <2> DEFINE u == f(id)
  <2> HIDE DEF t, e
  <2>6. /\ u \in Thread /\ u.pc = "fill" /\ u.got = e(id) /\ u.at = t.at /\ u.keys = t.keys
        /\ u.retried = t.retried /\ u.region = t.region /\ u.result = t.result /\ u.op = t.op
    BY <1>2, <2>5 DEF Thread
  <2>7. th'[c] = u
    BY <2>1, SetFacts
  <2>8. Set(c, u)
    BY <2>1
  <2> HIDE DEF u
  <2>9. IsRequest(c, u) /\ NotManaging(u)
    BY <1>1, <1>2, <2>5, <2>6 DEF IsRequest, KvThread, NotManaging
  <2>10. Aside(c)
    BY <1>1, <1>2, <2>8, <2>9, AsideStep DEF t
  <2> QED
    BY <1>1, <1>2, <1>4, <2>2, <2>5, <2>6, <2>7, <2>10 DEF t
<1> QED
  BY <1>1, <1>3, <1>4

LEMMA FillCacheAside ==
  ASSUME TypeInv, CalmStep, NEW c \in Client, FillCache(c)
  PROVE  LET t == th[c]
             s == [t EXCEPT !.got = <<>>]
         IN  /\ Aside(c) /\ c \notin Admin /\ t.pc = "fill" /\ KvThread(t)
             /\ t.got \in Route /\ PutRoute(GatewayOf[c], t.got)
             /\ th'[c] = Resolved(s, t.got.id)
             /\ s \in Thread /\ KvThread(s) /\ s.pc = "fill" /\ s.keys = t.keys
             /\ s.at = t.at /\ s.region = t.region /\ s.retried = t.retried
<1> DEFINE t == th[c]
           s == [t EXCEPT !.got = <<>>]
           u == Resolved(s, t.got.id)
<1>1. /\ t.pc = "fill" /\ PutRoute(GatewayOf[c], t.got) /\ Set(c, u)
      /\ UNCHANGED <<pdVars, broken>> /\ SameTables /\ split' = split
  BY DEF FillCache, storeVars, SameTables
<1>2. /\ c \notin Admin /\ t \in Thread /\ KvThread(t) /\ NotManaging(t)
      /\ t.got \in Route /\ t.got.id \in Nat
  <2>1. IsRequest(c, t)
    BY DEF TypeInv
  <2> QED
    BY <1>1, <2>1, RequestKind DEF IsRequest, NotManaging, Route
<1>3. /\ s \in Thread /\ s.pc = "fill" /\ s.keys = t.keys /\ s.op = t.op
      /\ s.at = t.at /\ s.region = t.region /\ s.retried = t.retried /\ s.result = t.result
  <2> HIDE DEF t
  <2> QED
    BY <1>1, <1>2 DEF Thread
<1>4. KvThread(s)
  <2> HIDE DEF s
  <2> QED
    BY <1>1, <1>2, <1>3 DEF KvThread
<1> HIDE DEF s
<1>5. u \in Thread /\ KvThread(u) /\ u.pc \in {"resolve", "call", "done"}
  BY <1>2, <1>3, <1>4, ResolvedFacts
<1>6. IsRequest(c, u) /\ NotManaging(u)
  <2> HIDE DEF u
  <2> QED
    BY <1>2, <1>5 DEF IsRequest, NotManaging
<1>7. th'[c] = u /\ \A d \in Client \ {c} : th'[d] = th[d]
  BY <1>1, SetFacts
<1>8. TypeInv'
  <2>1. /\ cache' = [h \in Gateways |-> cache'[h]]
        /\ \A h \in Gateways : RoutesTyped(cache'[h])
    BY <1>1, <1>2, PutFacts, GatewayIsOne
  <2> HIDE DEF u
  <2> QED
    BY <1>1, <1>6, <2>1, TypedStep
<1>9. Aside(c)
  <2> HIDE DEF u
  <2> QED
    BY <1>1, <1>2, <1>6, <1>7, <1>8 DEF Aside
<1> QED
  BY <1>1, <1>2, <1>3, <1>4, <1>7, <1>9 DEF s

\* What the store answers a client.
LEMMA CallStoreAside ==
  ASSUME TypeInv, CalmStep, NEW c \in Client, CallStore(c)
  PROVE  LET t == th[c]
         IN  /\ Aside(c) /\ c \notin Admin /\ t.pc = "call" /\ KvThread(t)
             /\ cache' = cache
             /\ \/ StaleRoute(t.region, t.keys[1]) /\ t.retried /\ th'[c] = Done(t, "stale")
                \/ ~t.retried /\ th'[c].pc = "refresh"
                \/ /\ ~StaleRoute(t.region, t.keys[1])
                   /\ \E k \in Range(t.keys) :
                        ST!FindRegionByKey(k) # ST!FindRegionByKey(t.keys[1])
                   /\ th'[c] = Done(t, "refused")
                \/ th'[c] = Done(t, "ok")
                \/ th'[c] = Done(t, "error")
<1> DEFINE t == th[c]
           w == [t EXCEPT !.pc = "refresh"]
<1>1. /\ t.pc = "call" /\ cache' = cache /\ UNCHANGED <<pdVars, broken>>
      /\ SameTables /\ split' = split
      /\ \/ StaleRoute(t.region, t.keys[1]) /\ Set(c, AfterStale(t))
         \/ /\ ~StaleRoute(t.region, t.keys[1])
            /\ \E k \in Range(t.keys) :
                 ST!FindRegionByKey(k) # ST!FindRegionByKey(t.keys[1])
            /\ Set(c, Done(t, "refused"))
         \/ Set(c, Done(t, "ok"))
         \/ Set(c, Done(t, "error"))
  BY DEF CallStore, storeVars, SameTables, ST!Write, ST!WriteFails, ST!tables
<1>2. c \notin Admin /\ t \in Thread /\ KvThread(t) /\ NotManaging(t)
  BY <1>1, RequestKind DEF NotManaging
<1>3. ASSUME NEW r \in {"stale", "refused", "ok", "error"}, Set(c, Done(t, r))
      PROVE  Aside(c) /\ th'[c] = Done(t, r)
  <2>1. IsRequest(c, Done(t, r)) /\ NotManaging(Done(t, r))
    BY <1>2, KvDone, DoneTyped DEF NotManaging
  <2> QED
    BY <1>1, <1>2, <1>3, <2>1, AsideStep, SetFacts
<1>4. ASSUME Set(c, w) PROVE Aside(c) /\ th'[c].pc = "refresh"
  <2> HIDE DEF t
  <2>1. /\ w \in Thread /\ w.pc = "refresh" /\ w.op = t.op /\ w.keys = t.keys
        /\ w.at = t.at /\ w.result = t.result
    BY <1>2 DEF Thread
  <2> HIDE DEF w
  <2>2. IsRequest(c, w) /\ NotManaging(w)
    BY <1>1, <1>2, <2>1 DEF IsRequest, KvThread, NotManaging
  <2>3. th'[c] = w
    BY <1>4, SetFacts
  <2> QED
    BY <1>1, <1>2, <1>4, <2>1, <2>2, <2>3, AsideStep DEF t
<1>5. CASE StaleRoute(t.region, t.keys[1]) /\ Set(c, AfterStale(t))
  <2>1. CASE t.retried
    <3>1. Set(c, Done(t, "stale"))
      BY <1>5, <2>1 DEF AfterStale
    <3> QED
      BY <1>1, <1>2, <1>3, <1>5, <2>1, <3>1
  <2>2. CASE ~t.retried
    <3>1. Set(c, w)
      BY <1>5, <2>2 DEF AfterStale
    <3> QED
      BY <1>1, <1>2, <1>4, <2>2, <3>1
  <2> QED
    BY <2>1, <2>2
<1>6. CASE /\ ~StaleRoute(t.region, t.keys[1])
           /\ \E k \in Range(t.keys) :
                ST!FindRegionByKey(k) # ST!FindRegionByKey(t.keys[1])
           /\ Set(c, Done(t, "refused"))
  BY <1>1, <1>2, <1>3, <1>6
<1>7. CASE Set(c, Done(t, "ok"))
  BY <1>1, <1>2, <1>3, <1>7
<1>8. CASE Set(c, Done(t, "error"))
  BY <1>1, <1>2, <1>3, <1>8
<1> QED
  BY <1>1, <1>5, <1>6, <1>7, <1>8

LEMMA CallFailsAside ==
  ASSUME TypeInv, CalmStep, NEW c \in Client, CallFails(c)
  PROVE  Aside(c) /\ c \notin Admin /\ th[c].pc = "call" /\ cache' = cache
         /\ th'[c] = Done(th[c], "error")
<1>1. /\ th[c].pc = "call" /\ cache' = cache /\ UNCHANGED <<pdVars, broken>>
      /\ SameTables /\ split' = split /\ Set(c, Done(th[c], "error"))
  BY DEF CallFails, storeVars, SameTables
<1>2. c \notin Admin /\ th[c] \in Thread /\ KvThread(th[c]) /\ NotManaging(th[c])
  BY <1>1, RequestKind DEF NotManaging
<1>3. IsRequest(c, Done(th[c], "error")) /\ NotManaging(Done(th[c], "error"))
  BY <1>2, KvDone, DoneTyped DEF NotManaging
<1> QED
  BY <1>1, <1>2, <1>3, AsideStep, SetFacts

\* The same for a step that clears the cache.
LEMMA ClearingStep ==
  ASSUME TypeInv, CalmStep, NEW c \in Client, NEW t, Set(c, t), IsRequest(c, t),
         ClearRoutes(GatewayOf[c]), SameTables, split' = split, UNCHANGED <<pdVars, broken>>,
         NotManaging(th[c]), NotManaging(t)
  PROVE  Aside(c)
<1>1. /\ cache' = [g \in Gateways |-> cache'[g]]
      /\ \A g \in Gateways : RoutesTyped(cache'[g])
  BY ClearFacts, GatewayIsOne
<1> QED
  BY <1>1, TypedStep, SetFacts DEF Aside

LEMMA RefreshAside ==
  ASSUME TypeInv, CalmStep, NEW c \in Client, Refresh(c)
  PROVE  /\ Aside(c) /\ c \notin Admin /\ th[c].pc = "refresh" /\ ClearRoutes(GatewayOf[c])
         /\ th'[c].pc = "resolve" /\ th'[c].at = 0 /\ th'[c].result = "none"
<1> DEFINE t == th[c]
           u == [t EXCEPT !.pc = "resolve", !.at = 0, !.retried = TRUE]
<1>1. /\ t.pc = "refresh" /\ ClearRoutes(GatewayOf[c]) /\ UNCHANGED <<pdVars, broken>>
      /\ SameTables /\ split' = split /\ Set(c, u)
  BY DEF Refresh, storeVars, SameTables
<1>2. c \notin Admin /\ t \in Thread /\ KvThread(t) /\ NotManaging(t)
  BY <1>1, RequestKind DEF NotManaging
<1>3. /\ u \in Thread /\ u.pc = "resolve" /\ u.op = t.op /\ u.keys = t.keys
      /\ u.at = 0 /\ u.result = t.result
  <2> HIDE DEF t
  <2> QED
    BY <1>2 DEF Thread
<1> HIDE DEF u
<1>4. IsRequest(c, u) /\ NotManaging(u) /\ u.result = "none"
  BY <1>1, <1>2, <1>3 DEF IsRequest, KvThread, NotManaging
<1>5. th'[c] = u
  BY <1>1, SetFacts
<1> QED
  BY <1>1, <1>2, <1>3, <1>4, <1>5, ClearingStep

LEMMA ClearCacheAside ==
  ASSUME TypeInv, CalmStep, NEW c \in Client, ClearCache(c)
  PROVE  /\ Aside(c) /\ c \in Admin /\ th[c].pc = "clear" /\ ClearRoutes(GatewayOf[c])
         /\ th'[c].pc = "done"
<1> DEFINE t == th[c]
           u == Done(t, t.result)
<1>1. /\ t.pc = "clear" /\ ClearRoutes(GatewayOf[c]) /\ UNCHANGED <<pdVars, broken>>
      /\ SameTables /\ split' = split /\ Set(c, u)
  BY DEF ClearCache, storeVars, SameTables
<1>2. c \in Admin /\ t \in Thread /\ AdminThread(t) /\ NotManaging(t)
  BY <1>1, RequestKind DEF NotManaging
<1>3. t.result \in {"none", "ok", "error", "refused"}
  BY <1>2 DEF AdminThread, Thread
<1>4. IsRequest(c, u) /\ u.pc = "done" /\ NotManaging(u)
  BY <1>2, <1>3, AdminDone, DoneTyped DEF NotManaging
<1>5. th'[c] = u
  BY <1>1, SetFacts
<1> QED
  BY <1>1, <1>2, <1>4, <1>5, ClearingStep

LEMMA ReturnAside ==
  ASSUME TypeInv, CalmStep, NEW c \in Client, Return(c)
  PROVE  Aside(c) /\ cache' = cache /\ th[c].pc = "done" /\ th'[c] = IdleThread
<1>1. /\ th[c].pc = "done" /\ cache' = cache /\ UNCHANGED <<pdVars, broken>>
      /\ SameTables /\ split' = split /\ Set(c, IdleThread)
  BY DEF Return, storeVars, SameTables
<1>2. IdleThread.pc = "idle"
  BY DEF IdleThread
<1>3. IsRequest(c, IdleThread) /\ NotManaging(IdleThread) /\ NotManaging(th[c])
  BY <1>1, <1>2, IdleTyped DEF IsRequest, NotManaging
<1> QED
  BY <1>1, <1>3, AsideStep, SetFacts

-----------------------------------------------------------------------------
\* The steps of an administrative request that change PD or the store.

LEMMA AdminStep ==
  ASSUME TypeInv, CalmStep, NEW c \in Client, NEW t, Set(c, t), IsRequest(c, t), cache' = cache
  PROVE  TypeInv' /\ th'[c] = t /\ \A d \in Client \ {c} : th'[d] = th[d]
<1>1. /\ cache' = [g \in Gateways |-> cache'[g]]
      /\ \A g \in Gateways : RoutesTyped(cache'[g])
  BY DEF TypeInv
<1> QED
  BY <1>1, TypedStep, SetFacts

\* The thread goes on to the store with the peer id that PD allocated.
GoesOn(t, u) ==
  u.pc = "store" /\ u.op = t.op /\ u.id = t.id /\ u.arg = t.arg /\ u.region = Saved.nextPeer

LEMMA CallPdStep ==
  ASSUME TypeInv, PdInv, StoreInv, CalmStep, NEW c \in Client, CallPd(c)
  PROVE  /\ TypeInv' /\ PdInv' /\ StoreInv' /\ SameTables /\ split' = split /\ cache' = cache
         /\ c \in Admin /\ th[c].pc = "pd" /\ AdminThread(th[c])
         /\ \A d \in Client \ {c} : th'[d] = th[d]
         /\ Refines(Saved'.regions, Saved.regions)
         /\ \/ PdDid(th[c]) /\ GoesOn(th[c], th'[c]) /\ broken' = broken
            \/ PdDid(th[c]) /\ th'[c].pc = "done" /\ broken' = broken \cup Breaks(th[c])
            \/ Saved' = Saved /\ th'[c].pc = "done" /\ broken' = broken
<1> DEFINE t == th[c]
           u == [t EXCEPT !.pc = "store", !.region = meta.nextPeer]
<1>1. /\ t.pc = "pd" /\ cache' = cache /\ SameTables /\ split' = split
  BY DEF CallPd, storeVars, SameTables
<1>2. c \in Admin /\ t \in Thread /\ AdminThread(t) /\ t.arg \in Nat
  BY <1>1, RequestKind DEF Thread
<1>3. StoreInv'
  BY <1>1, TablesUnchanged
<1>4. ASSUME NEW r \in {"refused", "error"}, Set(c, AfterPd(t, r))
      PROVE  /\ TypeInv' /\ th'[c].pc = "done" /\ \A d \in Client \ {c} : th'[d] = th[d]
  <2>1. AfterPd(t, r) = Done(t, r)
    BY DEF AfterPd
  <2>2. Set(c, Done(t, r)) /\ IsRequest(c, Done(t, r)) /\ Done(t, r).pc = "done"
    BY <1>2, <1>4, <2>1, AdminDone, DoneTyped
  <2> QED
    BY <1>1, <2>2, AdminStep
<1>5. CASE pdRunning /\ PdHandles(t) /\ pdRunning' /\ Set(c, AfterPd(t, "ok"))
           /\ broken' = broken
  <2>1. PdStep(t)
    BY <1>2, <1>5, PdHandlesStep
  <2>2. meta.nextPeer = Saved.nextPeer /\ meta.nextPeer \in Nat
    BY <1>5, RunningPd DEF SoundRegions
  <2>3. Set(c, u)
    BY <1>5 DEF AfterPd
  <2>4. u \in Thread /\ u.pc = "store" /\ u.op = t.op /\ u.id = t.id /\ u.arg = t.arg
        /\ u.region = meta.nextPeer /\ u.result = t.result
    <3> HIDE DEF t
    <3> QED
      BY <1>2, <2>2 DEF Thread
  <2> HIDE DEF u
  <2>5. IsRequest(c, u)
    BY <1>2, <2>4 DEF IsRequest, AdminThread
  <2>6. TypeInv' /\ th'[c] = u /\ \A d \in Client \ {c} : th'[d] = th[d]
    BY <1>1, <2>3, <2>5, AdminStep
  <2>7. GoesOn(t, th'[c])
    BY <2>2, <2>4, <2>6 DEF GoesOn
  <2> QED
    BY <1>1, <1>2, <1>3, <1>5, <2>1, <2>6, <2>7 DEF PdStep
<1>6. CASE pdRunning /\ PdHandles(t) /\ pdRunning' /\ Set(c, AfterPd(t, "error"))
           /\ broken' = broken \cup Breaks(t)
  <2>1. PdStep(t)
    BY <1>2, <1>6, PdHandlesStep
  <2> QED
    BY <1>1, <1>2, <1>3, <1>4, <1>6, <2>1 DEF PdStep
<1>7. CASE pdRunning /\ PdHandles(t) /\ ~pdRunning' /\ Set(c, AfterPd(t, "error"))
           /\ broken' = broken
  <2>1. PdStep(t)
    BY <1>2, <1>7, PdHandlesStep
  <2> QED
    BY <1>1, <1>2, <1>3, <1>4, <1>7, <2>1 DEF PdStep
<1>8. CASE /\ \E r \in {"refused", "error"} : Set(c, AfterPd(t, r))
           /\ UNCHANGED <<pdVars, broken>>
  <2>1. PdInv' /\ Saved' = Saved
    BY <1>8 DEF PdInv, pdVars, Saved, PD!ImageOf
  <2> QED
    BY <1>1, <1>2, <1>3, <1>4, <1>8, <2>1, RefinesItself
<1> QED
  BY <1>5, <1>6, <1>7, <1>8 DEF CallPd

\* The store has answered.
LEMMA AnsweredStep ==
  ASSUME TypeInv, CalmStep, NEW c \in Client, th[c].pc \in {"store", "splitting"},
         NEW r \in {"ok", "error", "refused"}, Answered(c, r), cache' = cache
  PROVE  /\ TypeInv' /\ th'[c].pc = "clear" /\ c \in Admin
         /\ \A d \in Client \ {c} : th'[d] = th[d]
         /\ r = "ok" => broken' = broken
         /\ r # "ok" => broken' = broken \cup Breaks(th[c])
<1> DEFINE t == th[c]
           u == AfterStore(t, r)
<1>1. c \in Admin /\ t \in Thread /\ AdminThread(t)
  BY RequestKind
<1>2. u \in Thread /\ u.pc = "clear" /\ u.result = r /\ u.op = t.op
  <2> HIDE DEF t
  <2> QED
    BY <1>1 DEF AfterStore, Thread
<1>3. Set(c, u)
  BY DEF Answered
<1> HIDE DEF u
<1>4. IsRequest(c, u)
  BY <1>1, <1>2 DEF IsRequest, AdminThread
<1> QED
  BY <1>1, <1>2, <1>3, <1>4, AdminStep DEF Answered

Splitting(t, u) == u.pc = "splitting" /\ u.op = t.op /\ u.id = t.id /\ u.arg = t.arg

LEMMA ManageStoreStep ==
  ASSUME TypeInv, StoreInv, CalmStep, NEW c \in Client, ManageStore(c)
  PROVE  /\ TypeInv' /\ StoreInv' /\ UNCHANGED pdVars /\ cache' = cache
         /\ c \in Admin /\ th[c].pc = "store" /\ AdminThread(th[c])
         /\ \A d \in Client \ {c} : th'[d] = th[d]
         /\ \/ /\ th[c].op = "split" /\ SameTables /\ running /\ split = ST!NoSplit
               /\ split' # ST!NoSplit /\ split'.id = th[c].id /\ split'.key = th[c].arg
               /\ split'.right = ST!NextRegionId
               /\ Splitting(th[c], th'[c]) /\ broken' = broken
            \/ /\ th[c].op # "split" /\ StoreDid(th[c]) /\ split = ST!NoSplit
               /\ th'[c].pc = "clear" /\ broken' \in {broken, broken \cup Breaks(th[c])}
            \/ /\ StoreDies \/ (SameList /\ split' = split)
               /\ th'[c].pc = "clear" /\ broken' = broken \cup Breaks(th[c])
<1> DEFINE t == th[c]
           u == [t EXCEPT !.pc = "splitting"]
<1>1. t.pc = "store" /\ cache' = cache /\ UNCHANGED pdVars
  BY DEF ManageStore
<1>2. c \in Admin /\ t \in Thread /\ AdminThread(t) /\ t.arg \in Nat
  BY <1>1, RequestKind DEF Thread
<1>3. CASE /\ t.op = "split" /\ ST!SplitRegion(t.id, t.arg)
           /\ Set(c, [t EXCEPT !.pc = "splitting"]) /\ UNCHANGED <<faults, broken>>
  <2>1. /\ StoreInv' /\ SameTables /\ running /\ split = ST!NoSplit
        /\ split' # ST!NoSplit /\ split'.id = t.id /\ split'.key = t.arg
        /\ split'.right = ST!NextRegionId
    BY <1>2, <1>3, SplitStartsStep
  <2>2. u \in Thread /\ u.pc = "splitting" /\ u.op = t.op /\ u.id = t.id /\ u.arg = t.arg
        /\ u.result = t.result
    <3> HIDE DEF t
    <3> QED
      BY <1>2 DEF Thread
  <2>3. Set(c, u)
    BY <1>3
  <2> HIDE DEF u
  <2>4. IsRequest(c, u)
    BY <1>2, <1>3, <2>2 DEF IsRequest, AdminThread
  <2>5. TypeInv' /\ th'[c] = u /\ \A d \in Client \ {c} : th'[d] = th[d]
    BY <1>1, <2>3, <2>4, AdminStep
  <2>6. Splitting(t, th'[c])
    BY <2>2, <2>5 DEF Splitting
  <2> QED
    BY <1>1, <1>2, <1>3, <2>1, <2>5, <2>6
<1>4. CASE StoreHandles(t) /\ StoreAnswers(c)
  <2>1. running /\ split = ST!NoSplit /\ StoreInv' /\ (StoreDies \/ StoreDid(t))
    BY <1>4, StoreHandlesStep
  <2>2. t.op # "split"
    BY <1>4 DEF StoreHandles
  <2>3. CASE StoreDies
    <3>1. Answered(c, "error")
      BY <1>4, <2>3 DEF StoreAnswers, StoreDies
    <3> QED
      BY <1>1, <1>2, <2>1, <2>3, <3>1, AnsweredStep
  <2>4. CASE StoreDid(t)
    <3>1. Answered(c, "ok") \/ Answered(c, "error")
      BY <1>4, <2>4 DEF StoreAnswers, StoreDid
    <3> QED
      BY <1>1, <1>2, <2>1, <2>2, <2>4, <3>1, AnsweredStep
  <2> QED
    BY <2>1, <2>3, <2>4
<1>5. CASE (Answered(c, "refused") \/ Answered(c, "error")) /\ UNCHANGED storeVars
  <2>1. SameList /\ split' = split
    BY <1>5 DEF storeVars, SameList
  <2> QED
    BY <1>1, <1>2, <1>5, <2>1, AnsweredStep, StoreUnchanged
<1>6. CASE ClusterFails(t) /\ Answered(c, "error")
  <2>1. SameList /\ split' = split
    BY <1>6 DEF ClusterFails, ST!ClusterFails, ST!RemovePeerFails, ST!tables, SameList
  <2> QED
    BY <1>1, <1>2, <1>6, <2>1, AnsweredStep, StoreUnchanged
<1> QED
  BY <1>3, <1>4, <1>5, <1>6 DEF ManageStore

LEMMA SplitEndsStep ==
  ASSUME TypeInv, StoreInv, CalmStep, NEW c \in Client, SplitEnds(c)
  PROVE  /\ TypeInv' /\ StoreInv' /\ UNCHANGED pdVars /\ cache' = cache /\ c \in Admin
         /\ th[c].pc = "splitting" /\ th[c].op = "split" /\ th'[c].pc = "clear"
         /\ \A d \in Client \ {c} : th'[d] = th[d]
         /\ \/ /\ SplitInstalled /\ split # ST!NoSplit
               /\ broken' \in {broken, broken \cup Breaks(th[c])}
            \/ /\ StoreDies \/ (SameTables /\ split' = ST!NoSplit)
               /\ broken' = broken \cup Breaks(th[c])
<1> DEFINE t == th[c]
<1>1. t.pc = "splitting" /\ cache' = cache /\ UNCHANGED pdVars
  BY DEF SplitEnds
<1>2. c \in Admin /\ t \in Thread /\ AdminThread(t) /\ t.op = "split"
  BY <1>1, RequestKind DEF AdminThread
<1>3. CASE ST!SplitFails /\ Answered(c, "error")
  <2>1. StoreInv' /\ SameTables /\ split' = ST!NoSplit
    BY <1>3, SplitFailsStep
  <2> QED
    BY <1>1, <1>2, <1>3, <2>1, AnsweredStep
<1>4. CASE ST!Install /\ StoreAnswers(c)
  <2>1. StoreInv' /\ running /\ split # ST!NoSplit /\ (StoreDies \/ SplitInstalled)
    BY <1>4, InstallStep
  <2>2. CASE StoreDies
    <3>1. Answered(c, "error")
      BY <1>4, <2>2 DEF StoreAnswers, StoreDies
    <3> QED
      BY <1>1, <1>2, <2>1, <2>2, <3>1, AnsweredStep
  <2>3. CASE SplitInstalled
    <3>1. Answered(c, "ok") \/ Answered(c, "error")
      BY <1>4, <2>3 DEF StoreAnswers, SplitInstalled
    <3> QED
      BY <1>1, <1>2, <2>1, <2>3, <3>1, AnsweredStep
  <2> QED
    BY <2>1, <2>2, <2>3
<1>5. CASE split = ST!NoSplit /\ Answered(c, "error") /\ UNCHANGED <<storeVars, faults>>
  <2>1. SameTables /\ split' = split
    BY <1>5 DEF storeVars, SameTables
  <2> QED
    BY <1>1, <1>2, <1>5, <2>1, AnsweredStep, TablesUnchanged
<1> QED
  BY <1>3, <1>4, <1>5 DEF SplitEnds

-----------------------------------------------------------------------------
\* Requests, one step of the system at a time.

\* A step changes the ranges of PD or of the store, and not both.
OneSide == PdRanges' = PdRanges \/ StoreRanges' = StoreRanges

LEMMA StillCalm ==
  ASSUME CalmInv, CalmStep, OneSide, NEW d \in Client,
         th[d].pc # "idle", th'[d].pc # "idle", calm'[d]
  PROVE  calm[d] /\ Agree /\ PdRanges' = PdRanges
<1>1. calm[d] /\ Agree'
  BY DEF CalmStep
<1>2. Agree
  BY <1>1 DEF CalmInv
<1> QED
  BY <1>1, <1>2 DEF Agree, OneSide

LEMMA CalmAgain ==
  ASSUME CalmStep
  PROVE  CalmInv'
BY DEF CalmStep, CalmInv

\* A request that is not a client's in progress has nothing to keep.
LEMMA IdleThreadInv ==
  ASSUME TypeInv', NEW d \in Client, th'[d].pc = "idle" \/ d \in Admin
  PROVE  ThreadInv(d)'
<1>1. IsRequest(d, th'[d])
  BY DEF TypeInv
<1>2. /\ th'[d].result # "stale" /\ (th'[d].op = "kv" => th'[d].result = "none")
      /\ th'[d].pc \notin {"resolve", "fill", "call", "refresh"}
  BY <1>1 DEF IsRequest, KvThread, AdminThread, IdleThread
<1> QED
  BY <1>2 DEF ThreadInv, ResolvingInv, AnswerInv, OutcomeInv

LEMMA SameCached ==
  ASSUME NEW g, cache'[g] = cache[g]
  PROVE  \A k : Cached(g, k)' = Cached(g, k)
BY DEF Cached

\* The requests of the other threads.
LEMMA OtherThread ==
  ASSUME TypeInv, TypeInv', CalmInv, CalmStep, OneSide, Refines(Saved'.regions, Saved.regions),
         NEW d \in Client, th'[d] = th[d], cache'[GatewayOf[d]] = cache[GatewayOf[d]],
         ThreadInv(d)
  PROVE  ThreadInv(d)'
<1> DEFINE t == th[d]
           g == GatewayOf[d]
<1>1. CASE t.pc = "idle"
  BY <1>1, IdleThreadInv
<1>2. CASE t.pc # "idle"
  <2>1. calm'[d] => calm[d] /\ PdRanges' = PdRanges
    BY <1>2, StillCalm
  <2>2. \A k : Cached(g, k)' = Cached(g, k)
    BY SameCached
  <2>3. ResolvingInv(d)'
    BY <2>2 DEF ThreadInv, ResolvingInv, FirstKey
  <2>4. AnswerInv(d)'
    BY <2>1, <2>2, StaysKnown DEF ThreadInv, AnswerInv, KeyOf
  <2>5. OutcomeInv(d)'
    <3>1. t.op = "kv" => KvThread(t) /\ t \in Thread
      BY <1>2, RequestKind DEF AdminThread
    <3>2. t.op = "kv" => FirstKey(d) \in Nat /\ \A k \in Range(t.keys) : k \in Nat
      BY <3>1, KeyFacts DEF FirstKey
    <3>3. t.op = "kv" /\ t.result = "refused" /\ calm'[d] =>
            \E k \in Range(t.keys) : Apart(Saved'.regions, FirstKey(d), k)
      BY <2>1, <3>2, StaysApart DEF ThreadInv, OutcomeInv
    <3> QED
      BY <2>1, <3>3 DEF ThreadInv, OutcomeInv, FirstKey
  <2> QED
    BY <2>3, <2>4, <2>5 DEF ThreadInv
<1> QED
  BY <1>1, <1>2

LEMMA CacheKept ==
  ASSUME CacheInv, Refines(Saved'.regions, Saved.regions), cache' = cache
  PROVE  CacheInv'
BY StaysKnown DEF CacheInv

LEMMA CacheCleared ==
  ASSUME TypeInv, CacheInv, Saved' = Saved, NEW g \in Gateways, ClearRoutes(g)
  PROVE  CacheInv'
BY ClearFacts DEF CacheInv

\* One thread's step.
LEMMA KvCompose ==
  ASSUME UnsharedGateways, KvInv, CalmStep, OneSide, NEW c \in Client,
         TypeInv', PdInv', StoreInv', CacheInv', Refines(Saved'.regions, Saved.regions),
         \A d \in Client \ {c} : th'[d] = th[d],
         \A g \in Gateways \ {GatewayOf[c]} : cache'[g] = cache[g],
         ThreadInv(c)'
  PROVE  KvInv'
<1>1. ASSUME NEW d \in Client \ {c} PROVE ThreadInv(d)'
  <2>1. GatewayOf[d] \in Gateways \ {GatewayOf[c]}
    BY GatewayIsOne DEF UnsharedGateways
  <2> QED
    BY <2>1, OtherThread DEF KvInv
<1>2. CalmInv'
  BY CalmAgain
<1> QED
  BY <1>1, <1>2 DEF KvInv

\* A step of no thread.
LEMMA KvAlone ==
  ASSUME KvInv, CalmStep, OneSide, TypeInv', PdInv', StoreInv',
         Refines(Saved'.regions, Saved.regions), th' = th, cache' = cache
  PROVE  KvInv'
<1>1. ASSUME NEW d \in Client PROVE ThreadInv(d)'
  BY OtherThread DEF KvInv
<1>2. CalmInv' /\ CacheInv'
  BY CalmAgain, CacheKept DEF KvInv
<1> QED
  BY <1>1, <1>2 DEF KvInv

LEMMA PdUnchanged ==
  ASSUME PdInv, UNCHANGED pdVars
  PROVE  PdInv' /\ Saved' = Saved /\ PdRanges' = PdRanges
BY DEF PdInv, pdVars, Saved, PdRanges, PD!ImageOf

LEMMA AsideKeeps ==
  ASSUME PdInv, StoreInv, NEW c \in Client, Aside(c)
  PROVE  /\ PdInv' /\ StoreInv' /\ Saved' = Saved /\ PdRanges' = PdRanges
         /\ OneSide /\ Refines(Saved'.regions, Saved.regions)
<1>1. UNCHANGED pdVars /\ SameTables /\ split' = split
  BY DEF Aside
<1> QED
  BY <1>1, PdUnchanged, TablesUnchanged, RefinesItself DEF OneSide

-----------------------------------------------------------------------------
\* The store's lookup, while PD and the store agree.

Having(k) == {j \in DOMAIN regions : ContainsKey(regions[j], k)}

LEMMA RegionsTyped ==
  ASSUME StoreInv
  PROVE  IsRegionList(regions) /\ DOMAIN regions \in SUBSET Nat /\ 0 \notin DOMAIN regions
<1>1. IsRegionList(regions)
  <2>1. CASE running
    BY <2>1 DEF StoreInv
  <2>2. CASE ~running
    BY <2>2 DEF StoreInv, IsRegionList, IsList
  <2> QED
    BY <2>1, <2>2
<1>2. DOMAIN regions = 1 .. Len(regions) /\ Len(regions) \in Nat
  BY <1>1, ListDomain DEF IsRegionList
<1> QED
  BY <1>1, <1>2

LEMMA FindFacts ==
  ASSUME StoreInv, NEW k
  PROVE  /\ ST!FindRegionByKey(k) = IF Having(k) # {} THEN Min(Having(k)) ELSE 0
         /\ Having(k) # {} => ST!FindRegionByKey(k) \in Having(k)
         /\ ST!FindRegionByKey(k) # 0 => ST!FindRegionByKey(k) \in Having(k)
<1> DEFINE I == {j \in 1 .. Len(regions) : ST!ContainsKey(regions[j], k)}
<1>1. ST!FindRegionByKey(k) = IF I # {} THEN ST!Min(I) ELSE 0
  BY DEF ST!FindRegionByKey, ST!SelectInSeq
<1>2. DOMAIN regions = 1 .. Len(regions)
  BY RegionsTyped, ListDomain DEF IsRegionList
<1>3. I = Having(k)
  BY <1>2, SharedOperators DEF Having
<1>4. Having(k) \in SUBSET Nat /\ 0 \notin Having(k)
  BY RegionsTyped DEF Having
<1>5. Having(k) # {} => Min(Having(k)) \in Having(k)
  BY <1>4, MinOfNats
<1> QED
  BY <1>1, <1>3, <1>5, SharedOperators

LEMMA AgreedRegions ==
  ASSUME PdInv, StoreInv, Agree
  PROVE  /\ \A j \in DOMAIN regions : /\ regions[j].id \in DOMAIN Saved.regions
                                      /\ SameRange(regions[j], Saved.regions[regions[j].id])
         /\ \A id \in DOMAIN Saved.regions : \E j \in DOMAIN regions : regions[j].id = id
         /\ DisjointRegions(Saved.regions) /\ CoverKeys(Saved.regions)
         /\ meta.regions = Saved.regions
<1>1. meta.regions = Saved.regions /\ SoundRegions(Saved.regions, Saved.nextRegion, Saved.nextPeer)
  BY RunningPd DEF Agree
<1>2. ASSUME NEW j \in DOMAIN regions
      PROVE  /\ regions[j].id \in DOMAIN Saved.regions
             /\ SameRange(regions[j], Saved.regions[regions[j].id])
  <2>1. <<regions[j].id, regions[j].start, regions[j].end>> \in PdRanges
    BY DEF Agree, StoreRanges
  <2>2. PICK id \in DOMAIN meta.regions :
          <<regions[j].id, regions[j].start, regions[j].end>>
            = <<id, meta.regions[id].start, meta.regions[id].end>>
    BY <2>1 DEF PdRanges
  <2> QED
    BY <1>1, <2>2 DEF SameRange
<1>3. ASSUME NEW id \in DOMAIN Saved.regions PROVE \E j \in DOMAIN regions : regions[j].id = id
  <2>1. <<id, meta.regions[id].start, meta.regions[id].end>> \in StoreRanges
    BY <1>1 DEF Agree, PdRanges
  <2> QED
    BY <2>1 DEF StoreRanges
<1> QED
  BY <1>1, <1>2, <1>3 DEF SoundRegions

\* The store's regions that have k are PD's region i.
LEMMA AgreedHaving ==
  ASSUME PdInv, StoreInv, Agree, NEW k \in Nat, NEW i \in DOMAIN Saved.regions,
         ContainsKey(Saved.regions[i], k)
  PROVE  Having(k) = {j \in DOMAIN regions : regions[j].id = i} /\ Having(k) # {}
<1>1. ASSUME NEW j \in DOMAIN regions
      PROVE  ContainsKey(regions[j], k) <=> regions[j].id = i
  <2>1. /\ regions[j].id \in DOMAIN Saved.regions
        /\ SameRange(regions[j], Saved.regions[regions[j].id])
    BY AgreedRegions
  <2>2. ContainsKey(regions[j], k) <=> ContainsKey(Saved.regions[regions[j].id], k)
    BY <2>1 DEF SameRange, ContainsKey
  <2> QED
    BY <2>1, <2>2, AgreedRegions DEF DisjointRegions
<1> QED
  BY <1>1, AgreedRegions DEF Having

LEMMA OwnerIsNotStale ==
  ASSUME PdInv, StoreInv, Agree, NEW id, NEW k \in Nat, Owns(PdRanges, id, k)
  PROVE  ~StaleRoute(id, k)
<1>1. id \in DOMAIN Saved.regions /\ ContainsKey(Saved.regions[id], k)
  <2>1. PICK x \in PdRanges : x[1] = id /\ x[2] <= k /\ (x[3] = Unbounded \/ k < x[3])
    BY DEF Owns
  <2>2. PICK i \in DOMAIN meta.regions : x = <<i, meta.regions[i].start, meta.regions[i].end>>
    BY DEF PdRanges
  <2>3. x[1] = i /\ x[2] = meta.regions[i].start /\ x[3] = meta.regions[i].end
    BY <2>2
  <2> QED
    BY <2>1, <2>3, AgreedRegions DEF ContainsKey
<1>2. Having(k) # {} /\ \A j \in Having(k) : regions[j].id = id
  BY <1>1, AgreedHaving
<1>3. ST!FindRegionByKey(k) \in Having(k) /\ 0 \notin Having(k)
  BY <1>2, FindFacts, RegionsTyped DEF Having
<1> QED
  BY <1>2, <1>3 DEF StaleRoute

LEMMA ApartMeansTwoRegions ==
  ASSUME PdInv, StoreInv, Agree, NEW k \in Nat, NEW l \in Nat
  PROVE  Apart(Saved.regions, k, l) <=> ST!FindRegionByKey(k) # ST!FindRegionByKey(l)
<1>1. PICK i \in DOMAIN Saved.regions : ContainsKey(Saved.regions[i], k)
  BY AgreedRegions DEF CoverKeys
<1>2. PICK j \in DOMAIN Saved.regions : ContainsKey(Saved.regions[j], l)
  BY AgreedRegions DEF CoverKeys
<1>3. Apart(Saved.regions, k, l) <=> i # j
  BY <1>1, <1>2, AgreedRegions DEF Apart, DisjointRegions
<1>4. /\ Having(k) = {x \in DOMAIN regions : regions[x].id = i} /\ Having(k) # {}
      /\ Having(l) = {x \in DOMAIN regions : regions[x].id = j} /\ Having(l) # {}
  BY <1>1, <1>2, AgreedHaving
<1>5. /\ ST!FindRegionByKey(k) = Min(Having(k)) /\ ST!FindRegionByKey(k) \in Having(k)
      /\ ST!FindRegionByKey(l) = Min(Having(l)) /\ ST!FindRegionByKey(l) \in Having(l)
  BY <1>4, FindFacts
<1>6. CASE i = j
  BY <1>3, <1>4, <1>5, <1>6
<1>7. CASE i # j
  BY <1>3, <1>4, <1>5, <1>7
<1> QED
  BY <1>6, <1>7

\* Keys of one region have the same cached routes.
LEMMA SameRoutes ==
  ASSUME TypeInv, CacheInv, NEW g \in Gateways, NEW k \in Nat, NEW l \in Nat,
         ~Apart(Saved.regions, k, l)
  PROVE  Cached(g, k) = Cached(g, l)
<1>1. PICK i \in DOMAIN Saved.regions :
        ContainsKey(Saved.regions[i], k) /\ ContainsKey(Saved.regions[i], l)
  BY DEF Apart
<1>2. \A id \in DOMAIN cache[g] : Aligned(cache[g][id], Saved.regions)
  BY DEF CacheInv, KnownRoute
<1>3. \A id \in DOMAIN cache[g] : ContainsKey(cache[g][id], k) <=> ContainsKey(cache[g][id], l)
  BY <1>1, <1>2 DEF Aligned
<1> QED
  BY <1>3 DEF Cached

-----------------------------------------------------------------------------
\* The steps of a client's request keep KvInv.

LEMMA AsideCompose ==
  ASSUME UnsharedGateways, KvInv, CalmStep, NEW c \in Client, Aside(c), CacheInv',
         \A g \in Gateways \ {GatewayOf[c]} : cache'[g] = cache[g], ThreadInv(c)'
  PROVE  KvInv'
<1>1. /\ PdInv' /\ StoreInv' /\ OneSide /\ Refines(Saved'.regions, Saved.regions)
  BY AsideKeeps DEF KvInv
<1>2. TypeInv' /\ \A d \in Client \ {c} : th'[d] = th[d]
  BY DEF Aside
<1> QED
  BY <1>1, <1>2, KvCompose

\* The same for a step that leaves the cache alone.
LEMMA PlainCompose ==
  ASSUME UnsharedGateways, KvInv, CalmStep, NEW c \in Client, Aside(c), cache' = cache,
         ThreadInv(c)'
  PROVE  KvInv'
<1>1. CacheInv'
  BY AsideKeeps, CacheKept DEF KvInv
<1> QED
  BY <1>1, AsideCompose

LEMMA KvRequestKeeps ==
  ASSUME UnsharedGateways, KvInv, CalmStep, NEW c \in Client, NEW keys \in Seq(Nat),
         Len(keys) \in {1, 2}, KvRequest(c, keys)
  PROVE  KvInv'
<1>1. /\ Aside(c) /\ cache' = cache
      /\ th'[c].pc = "resolve" /\ th'[c].at = 0 /\ ~th'[c].retried /\ th'[c].result = "none"
  BY KvRequestAside DEF KvInv
<1>2. ThreadInv(c)'
  BY <1>1 DEF ThreadInv, ResolvingInv, AnswerInv, OutcomeInv
<1> QED
  BY <1>1, <1>2, PlainCompose

LEMMA AdminRequestKeeps ==
  ASSUME UnsharedGateways, KvInv, CalmStep, NEW c \in Client,
         NEW op \in {"split", "transfer", "add", "remove"}, NEW id \in Nat, NEW arg \in Nat,
         AdminRequest(c, op, id, arg)
  PROVE  KvInv'
<1>1. Aside(c) /\ cache' = cache /\ c \in Admin
  BY AdminRequestAside DEF KvInv
<1>2. ThreadInv(c)'
  BY <1>1, IdleThreadInv DEF Aside
<1> QED
  BY <1>1, <1>2, PlainCompose

\* A request that ends, neither with a stale route nor refused.
LEMMA EndsWell ==
  ASSUME TypeInv, NEW c \in Client, NEW r \in {"ok", "error"}, th'[c] = Done(th[c], r)
  PROVE  ThreadInv(c)'
<1>1. th'[c].pc = "done" /\ th'[c].result = r
  BY DoneTyped, RequestKind
<1> QED
  BY <1>1 DEF ThreadInv, ResolvingInv, AnswerInv, OutcomeInv

LEMMA ResolveCachedKeeps ==
  ASSUME UnsharedGateways, KvInv, CalmStep, NEW c \in Client, ResolveCached(c)
  PROVE  KvInv'
<1> DEFINE t   == th[c]
           g   == GatewayOf[c]
           ids == Cached(g, KeyOf(t))
           u   == th'[c]
<1>1. /\ TypeInv /\ CacheInv /\ g \in Gateways /\ ThreadInv(c)
  BY GatewayIsOne DEF KvInv
<1>2. /\ Aside(c) /\ t.pc = "resolve" /\ KvThread(t) /\ t \in Thread /\ cache' = cache
      /\ ids # {} /\ Min(ids) \in Nat /\ u = Resolved(t, Min(ids))
  BY <1>1, ResolveCachedAside, RequestKind
<1>3. /\ u.pc \in {"resolve", "call", "done"} /\ u.keys = t.keys /\ u.retried = t.retried
      /\ u.pc = "resolve" => u.at # 0 /\ ~u.retried
      /\ u.pc # "done" => u.region = Min(ids) /\ (t.at = 0 \/ t.region = Min(ids))
      /\ u.pc = "done" => u.result = "refused" /\ t.at # 0 /\ t.region # Min(ids)
      /\ KvThread(u)
  BY <1>2, ResolvedFacts
<1>4. ~t.retried
  <2>1. t.retried => cache[g] = <<>>
    BY <1>1, <1>2 DEF ThreadInv, ResolvingInv
  <2>2. cache[g] = <<>> => ids = {}
    BY DEF Cached
  <2> QED
    BY <1>2, <2>1, <2>2
<1>5. t.at # 0 => Cached(g, t.keys[1]) # {} /\ t.region = Min(Cached(g, t.keys[1]))
  BY <1>1, <1>2 DEF ThreadInv, ResolvingInv, FirstKey
<1>6. \A k : Cached(g, k)' = Cached(g, k)
  BY <1>2, SameCached
<1>7. ResolvingInv(c)'
  <2>1. ASSUME u.pc = "resolve"
        PROVE  Cached(g, t.keys[1]) # {} /\ u.region = Min(Cached(g, t.keys[1]))
    <3>1. CASE t.at = 0
      BY <1>2, <1>3, <2>1, <3>1, KeyFacts
    <3>2. CASE t.at # 0
      BY <1>3, <1>5, <2>1, <3>2
    <3> QED
      BY <3>1, <3>2
  <2> QED
    BY <1>3, <1>6, <2>1 DEF ResolvingInv, FirstKey
<1>8. OutcomeInv(c)'
  <2>1. u.pc = "call" => ~u.retried
    BY <1>3, <1>4
  <2>2. u.result # "stale" /\ (u.pc # "done" => u.result = "none")
    BY <1>3 DEF KvThread
  <2>3. ASSUME u.pc = "done" PROVE \E k \in Range(t.keys) : Apart(Saved.regions, t.keys[1], k)
    <3>1. Cached(g, t.keys[1]) # ids
      BY <1>3, <1>5, <2>3
    <3>2. t.keys[1] \in Nat /\ KeyOf(t) \in Nat /\ KeyOf(t) \in Range(t.keys)
      BY <1>2, KeyFacts
    <3>3. Apart(Saved.regions, t.keys[1], KeyOf(t))
      BY <1>1, <3>1, <3>2, SameRoutes
    <3> QED
      BY <3>2, <3>3
  <2>4. Saved' = Saved
    BY <1>2, AsideKeeps DEF KvInv
  <2> QED
    BY <1>3, <2>1, <2>2, <2>3, <2>4 DEF OutcomeInv, FirstKey
<1>9. AnswerInv(c)'
  BY <1>3 DEF AnswerInv
<1> QED
  BY <1>2, <1>7, <1>8, <1>9, PlainCompose DEF ThreadInv

LEMMA AskPdKeeps ==
  ASSUME UnsharedGateways, KvInv, CalmStep, NEW c \in Client, AskPd(c)
  PROVE  KvInv'
<1> DEFINE t == th[c]
           g == GatewayOf[c]
           u == th'[c]
           k == KeyOf(t)
<1>1. TypeInv /\ PdInv /\ StoreInv /\ CacheInv /\ g \in Gateways /\ ThreadInv(c)
  BY GatewayIsOne DEF KvInv
<1>2. /\ Aside(c) /\ cache' = cache /\ t.pc = "resolve" /\ KvThread(t) /\ t \in Thread
      /\ Cached(g, k) = {}
      /\ \/ u = Done(t, "error")
         \/ /\ pdRunning /\ u.pc = "fill"
            /\ u.got \in Route /\ u.got.id \in DOMAIN meta.regions
            /\ SameRange(u.got, meta.regions[u.got.id])
            /\ ContainsKey(meta.regions[u.got.id], k)
            /\ u.at = t.at /\ u.keys = t.keys /\ u.retried = t.retried
            /\ u.region = t.region /\ u.result = "none"
  BY <1>1, AskPdAside, RequestKind
<1>3. CASE u = Done(t, "error")
  BY <1>1, <1>2, <1>3, EndsWell, PlainCompose
<1>4. CASE u # Done(t, "error")
  <2> DEFINE e == u.got
  <2>1. k \in Nat /\ KeyOf(u) = k
    BY <1>2, <1>4, KeyFacts DEF KeyOf
  <2>2. meta.regions = Saved.regions /\ DisjointRegions(Saved.regions)
    BY <1>1, <1>2, <1>4, RunningPd DEF SoundRegions
  <2>3. \A x \in Nat : ContainsKey(e, x) <=> ContainsKey(Saved.regions[e.id], x)
    BY <1>2, <1>4, <2>2 DEF SameRange, ContainsKey
  <2>4. ContainsKey(e, k) /\ KnownRoute(e, e.id, Saved.regions)
    BY <1>2, <1>4, <2>1, <2>2, <2>3, RegionIsAligned DEF KnownRoute, Covers, SameRange
  <2>5. e.id \notin DOMAIN cache[g]
    <3>1. ASSUME e.id \in DOMAIN cache[g] PROVE FALSE
      <4>1. ContainsKey(cache[g][e.id], k)
        BY <1>1, <1>2, <1>4, <2>1, <2>2, <3>1 DEF CacheInv, KnownRoute, Covers
      <4> QED
        BY <1>2, <3>1, <4>1 DEF Cached
    <3> QED
      BY <3>1
  <2>6. Owns(PdRanges, e.id, k)
    <3> DEFINE x == <<e.id, meta.regions[e.id].start, meta.regions[e.id].end>>
    <3>1. x \in PdRanges
      BY <1>2, <1>4 DEF PdRanges
    <3>2. x[1] = e.id /\ x[2] <= k /\ (x[3] = Unbounded \/ k < x[3])
      BY <1>2, <1>4 DEF ContainsKey
    <3> HIDE DEF x
    <3> QED
      BY <3>1, <3>2 DEF Owns
  <2>7. Saved' = Saved /\ PdRanges' = PdRanges /\ (\A x : Cached(g, x)' = Cached(g, x))
    BY <1>1, <1>2, AsideKeeps, SameCached
  <2>8. ResolvingInv(c)'
    BY <1>1, <1>2, <1>4, <2>7 DEF ThreadInv, ResolvingInv, FirstKey
  <2>9. AnswerInv(c)'
    BY <1>2, <1>4, <2>1, <2>4, <2>5, <2>6, <2>7 DEF AnswerInv
  <2>10. OutcomeInv(c)'
    BY <1>2, <1>4 DEF OutcomeInv
  <2> QED
    BY <1>2, <2>8, <2>9, <2>10, PlainCompose DEF ThreadInv
<1> QED
  BY <1>3, <1>4

LEMMA FillCacheKeeps ==
  ASSUME UnsharedGateways, KvInv, CalmStep, NEW c \in Client, FillCache(c)
  PROVE  KvInv'
<1> DEFINE t == th[c]
           g == GatewayOf[c]
           k == KeyOf(t)
           e == t.got
           s == [t EXCEPT !.got = <<>>]
           u == th'[c]
<1>1. TypeInv /\ PdInv /\ StoreInv /\ CacheInv /\ CalmInv /\ g \in Gateways /\ ThreadInv(c)
  BY GatewayIsOne DEF KvInv
<1>2. /\ Aside(c) /\ t.pc = "fill" /\ KvThread(t) /\ t \in Thread
      /\ e \in Route /\ e.id \in Nat /\ PutRoute(g, e)
      /\ u = Resolved(s, e.id) /\ s \in Thread /\ KvThread(s) /\ s.pc = "fill"
      /\ s.keys = t.keys /\ s.at = t.at /\ s.region = t.region /\ s.retried = t.retried
  BY <1>1, FillCacheAside, RequestKind DEF Route
<1> HIDE DEF s
<1>3. /\ u.pc \in {"resolve", "call", "done"} /\ u.keys = t.keys /\ u.retried = t.retried
      /\ u.pc = "resolve" => u.at # 0 /\ ~u.retried
      /\ u.pc # "done" => u.region = e.id /\ (t.at = 0 \/ t.region = e.id)
      /\ u.pc = "done" => u.result = "refused" /\ t.at # 0 /\ t.region # e.id
      /\ KvThread(u)
  BY <1>2, ResolvedFacts
<1>4. /\ ContainsKey(e, k) /\ KnownRoute(e, e.id, Saved.regions)
      /\ Cached(g, k) = {} /\ e.id \notin DOMAIN cache[g]
      /\ calm[c] => Owns(PdRanges, e.id, k)
  BY <1>1, <1>2 DEF ThreadInv, AnswerInv
<1>5. /\ t.retried => t.at = 0
      /\ t.at # 0 => Cached(g, t.keys[1]) # {} /\ t.region = Min(Cached(g, t.keys[1]))
  BY <1>1, <1>2 DEF ThreadInv, ResolvingInv, FirstKey
<1>6. /\ DOMAIN cache'[g] = DOMAIN cache[g] \cup {e.id} /\ cache'[g][e.id] = e
      /\ \A id \in DOMAIN cache[g] \ {e.id} : cache'[g][id] = cache[g][id]
      /\ \A h \in Gateways \ {g} : cache'[h] = cache[h]
  BY <1>1, <1>2, PutFacts
<1>7. Saved' = Saved /\ PdRanges' = PdRanges /\ OneSide
  BY <1>1, <1>2, AsideKeeps
<1>8. CacheInv'
  BY <1>1, <1>4, <1>6, <1>7 DEF CacheInv
<1>9. t.at # 0 => t.region # e.id
  BY <1>1, <1>4, <1>5, CachedFacts DEF Cached
<1>10. ResolvingInv(c)'
  <2>1. ASSUME u.pc = "resolve"
        PROVE  Cached(g, t.keys[1])' # {} /\ u.region = Min(Cached(g, t.keys[1])')
    <3>1. t.at = 0 /\ k = t.keys[1] /\ u.region = e.id
      BY <1>2, <1>3, <1>9, <2>1, KeyFacts
    <3>2. ASSUME NEW x, x = k PROVE Cached(g, x)' = {e.id}
      BY <1>4, <1>6, <3>2 DEF Cached
    <3>3. {e.id} \in SUBSET Nat /\ {e.id} # {}
      BY <1>2
    <3>4. Min({e.id}) \in {e.id}
      BY <3>3, MinOfNats
    <3> QED
      BY <1>3, <3>1, <3>2, <3>4
  <2> QED
    BY <1>3, <2>1 DEF ResolvingInv, FirstKey
<1>11. AnswerInv(c)'
  BY <1>3 DEF AnswerInv
<1>12. OutcomeInv(c)'
  <2>1. ASSUME u.pc = "call", u.retried, calm'[c] PROVE Owns(PdRanges', u.region, t.keys[1])
    <3>1. t.at = 0 /\ k = t.keys[1] /\ u.region = e.id
      BY <1>2, <1>3, <1>5, <2>1, KeyFacts
    <3>2. calm[c]
      BY <1>1, <1>2, <1>7, <2>1, StillCalm
    <3> QED
      BY <1>4, <1>7, <3>1, <3>2
  <2>2. u.result # "stale" /\ (u.pc # "done" => u.result = "none")
    BY <1>3 DEF KvThread
  <2>3. ASSUME u.pc = "done" PROVE \E x \in Range(t.keys) : Apart(Saved.regions, t.keys[1], x)
    <3>1. Cached(g, t.keys[1]) # Cached(g, k)
      BY <1>3, <1>4, <1>5, <2>3
    <3>2. t.keys[1] \in Nat /\ k \in Nat /\ k \in Range(t.keys)
      BY <1>2, KeyFacts
    <3>3. Apart(Saved.regions, t.keys[1], k)
      BY <1>1, <3>1, <3>2, SameRoutes
    <3> QED
      BY <3>2, <3>3
  <2> QED
    BY <1>3, <1>7, <2>1, <2>2, <2>3 DEF OutcomeInv, FirstKey
<1> QED
  BY <1>2, <1>6, <1>8, <1>10, <1>11, <1>12, AsideCompose DEF ThreadInv

LEMMA CallStoreKeeps ==
  ASSUME UnsharedGateways, KvInv, CalmStep, NEW c \in Client, CallStore(c)
  PROVE  KvInv'
<1> DEFINE t == th[c]
           u == th'[c]
           f == t.keys[1]
<1>1. TypeInv /\ PdInv /\ StoreInv /\ CalmInv /\ ThreadInv(c)
  BY DEF KvInv
<1>2. /\ Aside(c) /\ t.pc = "call" /\ KvThread(t) /\ t \in Thread /\ cache' = cache
      /\ \/ StaleRoute(t.region, f) /\ t.retried /\ u = Done(t, "stale")
         \/ ~t.retried /\ u.pc = "refresh"
         \/ /\ \E k \in Range(t.keys) : ST!FindRegionByKey(k) # ST!FindRegionByKey(f)
            /\ u = Done(t, "refused")
         \/ u = Done(t, "ok")
         \/ u = Done(t, "error")
  BY <1>1, CallStoreAside, RequestKind
<1>3. f \in Nat /\ \A k \in Range(t.keys) : k \in Nat
  BY <1>2, KeyFacts
<1>4. Saved' = Saved /\ PdRanges' = PdRanges /\ OneSide
  BY <1>1, <1>2, AsideKeeps
<1>5. u.pc # "idle"  /\ calm'[c] => calm[c] /\ Agree
  BY <1>1, <1>2, <1>4, StillCalm
<1>6. CASE StaleRoute(t.region, f) /\ t.retried /\ u = Done(t, "stale")
  <2>1. u.pc = "done" /\ u.result = "stale"
    BY <1>2, <1>6, DoneTyped
  <2>2. ~calm'[c]
    <3>1. ASSUME calm'[c] PROVE FALSE
      <4>1. calm[c] /\ Agree
        BY <1>5, <2>1, <3>1
      <4>2. Owns(PdRanges, t.region, f)
        BY <1>1, <1>2, <1>6, <4>1 DEF ThreadInv, OutcomeInv, FirstKey
      <4> QED
        BY <1>1, <1>3, <1>6, <4>1, <4>2, OwnerIsNotStale
    <3> QED
      BY <3>1
  <2>3. ThreadInv(c)'
    BY <2>1, <2>2 DEF ThreadInv, ResolvingInv, AnswerInv, OutcomeInv
  <2> QED
    BY <1>2, <2>3, PlainCompose
<1>7. CASE ~t.retried /\ u.pc = "refresh"
  <2>1. u.result = "none"
    <3>1. TypeInv'
      BY <1>2 DEF Aside
    <3>2. IsRequest(c, u)
      BY <3>1 DEF TypeInv
    <3> QED
      BY <1>7, <3>2 DEF IsRequest, KvThread, AdminThread, IdleThread
  <2>2. ThreadInv(c)'
    BY <1>7, <2>1 DEF ThreadInv, ResolvingInv, AnswerInv, OutcomeInv
  <2> QED
    BY <1>2, <2>2, PlainCompose
<1>8. CASE /\ \E k \in Range(t.keys) : ST!FindRegionByKey(k) # ST!FindRegionByKey(f)
           /\ u = Done(t, "refused")
  <2>1. u.pc = "done" /\ u.result = "refused" /\ u.keys = t.keys
    BY <1>2, <1>8, DoneTyped
  <2>2. ASSUME calm'[c] PROVE \E k \in Range(t.keys) : Apart(Saved.regions, f, k)
    <3>1. Agree
      BY <1>5, <2>1, <2>2
    <3>2. PICK k \in Range(t.keys) : ST!FindRegionByKey(k) # ST!FindRegionByKey(f)
      BY <1>8
    <3>3. Apart(Saved.regions, f, k)
      BY <1>1, <1>3, <3>1, <3>2, ApartMeansTwoRegions
    <3> QED
      BY <3>3
  <2>3. ThreadInv(c)'
    BY <1>4, <2>1, <2>2 DEF ThreadInv, ResolvingInv, AnswerInv, OutcomeInv, FirstKey
  <2> QED
    BY <1>2, <2>3, PlainCompose
<1>9. CASE u = Done(t, "ok") \/ u = Done(t, "error")
  BY <1>1, <1>2, <1>9, EndsWell, PlainCompose
<1> QED
  BY <1>2, <1>6, <1>7, <1>8, <1>9

LEMMA CallFailsKeeps ==
  ASSUME UnsharedGateways, KvInv, CalmStep, NEW c \in Client, CallFails(c)
  PROVE  KvInv'
<1>1. TypeInv
  BY DEF KvInv
<1>2. Aside(c) /\ cache' = cache /\ th'[c] = Done(th[c], "error")
  BY <1>1, CallFailsAside
<1> QED
  BY <1>1, <1>2, EndsWell, PlainCompose

LEMMA RefreshKeeps ==
  ASSUME UnsharedGateways, KvInv, CalmStep, NEW c \in Client, Refresh(c)
  PROVE  KvInv'
<1>1. TypeInv /\ PdInv /\ StoreInv /\ CacheInv /\ GatewayOf[c] \in Gateways
  BY GatewayIsOne DEF KvInv
<1>2. /\ Aside(c) /\ ClearRoutes(GatewayOf[c])
      /\ th'[c].pc = "resolve" /\ th'[c].at = 0 /\ th'[c].result = "none"
  BY <1>1, RefreshAside
<1>3. /\ cache'[GatewayOf[c]] = <<>>
      /\ \A g \in Gateways \ {GatewayOf[c]} : cache'[g] = cache[g]
  BY <1>1, <1>2, ClearFacts
<1>4. CacheInv'
  BY <1>1, <1>2, AsideKeeps, CacheCleared
<1>5. ThreadInv(c)'
  BY <1>2, <1>3 DEF ThreadInv, ResolvingInv, AnswerInv, OutcomeInv
<1> QED
  BY <1>2, <1>3, <1>4, <1>5, AsideCompose

LEMMA ClearCacheKeeps ==
  ASSUME UnsharedGateways, KvInv, CalmStep, NEW c \in Client, ClearCache(c)
  PROVE  KvInv'
<1>1. TypeInv /\ PdInv /\ StoreInv /\ CacheInv /\ GatewayOf[c] \in Gateways
  BY GatewayIsOne DEF KvInv
<1>2. Aside(c) /\ ClearRoutes(GatewayOf[c]) /\ c \in Admin
  BY <1>1, ClearCacheAside
<1>3. \A g \in Gateways \ {GatewayOf[c]} : cache'[g] = cache[g]
  BY <1>1, <1>2, ClearFacts
<1>4. CacheInv'
  BY <1>1, <1>2, AsideKeeps, CacheCleared
<1>5. ThreadInv(c)'
  BY <1>2, IdleThreadInv DEF Aside
<1> QED
  BY <1>2, <1>3, <1>4, <1>5, AsideCompose

LEMMA ReturnKeeps ==
  ASSUME UnsharedGateways, KvInv, CalmStep, NEW c \in Client, Return(c)
  PROVE  KvInv'
<1>1. Aside(c) /\ cache' = cache /\ th'[c] = IdleThread
  BY ReturnAside DEF KvInv
<1>2. th'[c].pc = "idle" /\ TypeInv'
  BY <1>1 DEF Aside, IdleThread
<1>3. ThreadInv(c)'
  BY <1>2, IdleThreadInv
<1> QED
  BY <1>1, <1>3, PlainCompose

-----------------------------------------------------------------------------
\* The steps of administrative requests, and of the processes, keep KvInv.

LEMMA CallPdKeeps ==
  ASSUME UnsharedGateways, KvInv, CalmStep, NEW c \in Client, CallPd(c)
  PROVE  KvInv'
<1>1. /\ TypeInv' /\ PdInv' /\ StoreInv' /\ SameTables /\ cache' = cache /\ c \in Admin
      /\ \A d \in Client \ {c} : th'[d] = th[d]
      /\ Refines(Saved'.regions, Saved.regions)
  BY CallPdStep DEF KvInv
<1>2. OneSide
  BY <1>1 DEF SameTables, OneSide, StoreRanges
<1>3. CacheInv' /\ ThreadInv(c)'
  BY <1>1, CacheKept, IdleThreadInv DEF KvInv
<1> QED
  BY <1>1, <1>2, <1>3, KvCompose

\* A step of the store.
LEMMA StoreStepKeeps ==
  ASSUME UnsharedGateways, KvInv, CalmStep, NEW c \in Client, TypeInv', StoreInv',
         UNCHANGED pdVars, cache' = cache, c \in Admin,
         \A d \in Client \ {c} : th'[d] = th[d]
  PROVE  KvInv'
<1>1. PdInv' /\ Saved' = Saved /\ OneSide
  BY PdUnchanged DEF KvInv, OneSide
<1>2. Refines(Saved'.regions, Saved.regions)
  BY <1>1, RefinesItself
<1>3. CacheInv' /\ ThreadInv(c)'
  BY <1>2, CacheKept, IdleThreadInv DEF KvInv
<1> QED
  BY <1>1, <1>2, <1>3, KvCompose

LEMMA SplitGoesOnKeeps ==
  ASSUME KvInv, CalmStep, SplitGoesOn
  PROVE  KvInv'
<1>1. StoreInv' /\ UNCHANGED pdVars /\ th' = th /\ cache' = cache
  BY SplitGoesOnStep DEF KvInv, SplitGoesOn
<1>2. PdInv' /\ Saved' = Saved /\ OneSide /\ TypeInv'
  BY <1>1, PdUnchanged, TypedUnchanged DEF KvInv, OneSide
<1> QED
  BY <1>1, <1>2, RefinesItself, KvAlone

LEMMA PdFailsKeeps ==
  ASSUME KvInv, CalmStep, PdFails
  PROVE  KvInv'
<1>1. UNCHANGED storeVars /\ th' = th /\ cache' = cache /\ (PD!Crash \/ PD!Open)
  BY DEF PdFails
<1>2. SameTables /\ split' = split
  BY <1>1 DEF storeVars, SameTables
<1>3. StoreInv' /\ OneSide /\ TypeInv'
  BY <1>1, <1>2, TablesUnchanged, TypedUnchanged DEF KvInv, OneSide, SameTables, StoreRanges
<1>4. PdInv' /\ Refines(Saved'.regions, Saved.regions)
  BY <1>1, PdCrashes, PdDiesStep, PdOpens, RefinesItself DEF KvInv
<1> QED
  BY <1>1, <1>3, <1>4, KvAlone

LEMMA StoreFailsKeeps ==
  ASSUME KvInv, CalmStep, StoreFails
  PROVE  KvInv'
<1>1. UNCHANGED pdVars /\ th' = th /\ cache' = cache /\ ST!Crash
  BY DEF StoreFails
<1>2. PdInv' /\ Saved' = Saved /\ OneSide /\ TypeInv'
  BY <1>1, PdUnchanged, TypedUnchanged DEF KvInv, OneSide
<1>3. StoreInv'
  BY <1>1, StoreCrashes, StoreDiesStep DEF KvInv
<1> QED
  BY <1>1, <1>2, <1>3, RefinesItself, KvAlone

LEMMA RestartStoreKeeps ==
  ASSUME KvInv, CalmStep, RestartStore
  PROVE  KvInv'
<1>1. th' = th /\ cache' = cache /\ ST!Start
  BY DEF RestartStore
<1>2. PdInv' /\ meta'.regions = meta.regions /\ Saved'.regions = Saved.regions
  BY PdRegisters DEF KvInv
<1>3. StoreInv' /\ TypeInv' /\ OneSide
  BY <1>1, <1>2, StoreStartsStep, TypedUnchanged DEF KvInv, OneSide, PdRanges
<1> QED
  BY <1>1, <1>2, <1>3, RefinesItself, KvAlone

-----------------------------------------------------------------------------
\* Initial states, and the theorems about clients.

LEMMA NewReplicasFacts ==
  /\ ST!NewReplicas \in Seq(PeerInfo)
  /\ DistinctPeers(ST!NewReplicas, StoreCount + 1)
  /\ \A a, b \in DOMAIN ST!NewReplicas : ST!NewReplicas[a].id = ST!NewReplicas[b].id => a = b
<1>1. StoreCount \in Nat
  BY GatewayAssumption
<1> DEFINE x(i) == [id |-> i, store |-> i]
           ps   == [i \in 1 .. StoreCount |-> x(i)]
<1>2. \A i \in 1 .. StoreCount : x(i) \in PeerInfo /\ x(i).id = i
  BY <1>1 DEF PeerInfo
<1>3. ps = ST!NewReplicas
  BY DEF ST!NewReplicas
<1> HIDE DEF x
<1>4. ps \in [1 .. StoreCount -> PeerInfo] /\ \A i \in DOMAIN ps : ps[i].id = i
  BY <1>2
<1> HIDE DEF ps
<1>5. ps \in Seq(PeerInfo) /\ DOMAIN ps = 1 .. StoreCount
  BY <1>1, <1>4
<1> QED
  BY <1>1, <1>3, <1>4, <1>5 DEF DistinctPeers

LEMMA InitPd ==
  ASSUME Init
  PROVE  /\ PdInv /\ Saved.nextRegion = 2 /\ DOMAIN Saved.regions = {1}
         /\ Saved.regions[1].start = 0 /\ Saved.regions[1].end = Unbounded
         /\ Saved.regions[1].peers = ST!NewReplicas
<1> DEFINE stores == [PD!NewMetadata EXCEPT !.stores = 1 .. MaxStore,
                                            !.nextStore = MaxStore + 1]
           m == [stores EXCEPT !.nextRegion = 2, !.nextPeer = StoreCount + 1]
           r == [start |-> 0, end |-> Unbounded, version |-> 1, confVer |-> 1,
                 leader |-> 1, peers |-> ST!NewReplicas]
<1>1. meta = PD!PutRegion(m, 1, r) /\ pdRunning = TRUE
      /\ pdCatalog = [state |-> "full", image |-> PD!ImageOf(meta)]
  BY DEF Init
<1>2. /\ DOMAIN m = MetaFields /\ m.regions = <<>> /\ m.nextRegion = 2
      /\ m.nextPeer = StoreCount + 1
  BY DEF PD!NewMetadata, MetaFields
<1>3. /\ DOMAIN r = Fields /\ r.start = 0 /\ r.end = Unbounded /\ r.peers = ST!NewReplicas
  BY DEF Fields
<1> HIDE DEF m, r
<1>4. /\ DOMAIN meta = MetaFields /\ meta.regions = Put(<<>>, 1, r)
      /\ meta.nextRegion = 2 /\ meta.nextPeer = StoreCount + 1
  BY <1>1, <1>2, PutRegionFacts
<1>5. DOMAIN meta.regions = {1} /\ meta.regions[1] = r
  BY <1>4 DEF Put
<1>6. /\ DOMAIN pdCatalog = {"state", "image"} /\ pdCatalog.state = "full"
      /\ Saved = PD!ImageOf(meta)
  BY <1>1 DEF Saved
<1>7. /\ Saved.regions = meta.regions /\ Saved.nextRegion = 2
      /\ Saved.nextPeer = StoreCount + 1
      /\ Saved = [stores |-> Saved.stores, regions |-> Saved.regions,
                  nextStore |-> Saved.nextStore, nextRegion |-> Saved.nextRegion,
                  nextPeer |-> Saved.nextPeer]
  BY <1>4, <1>6 DEF PD!ImageOf
<1>8. IsPdRegion(r)
  BY <1>3, NewReplicasFacts DEF IsPdRegion, Unbounded
<1>9. \A k \in Nat : ContainsKey(r, k)
  BY <1>3 DEF ContainsKey
<1>10. DisjointRegions(meta.regions) /\ CoverKeys(meta.regions)
  BY <1>5, <1>9 DEF DisjointRegions, CoverKeys
<1>11. StoreCount + 1 \in Nat /\ DOMAIN meta.regions = 1 .. 2 - 1
  BY <1>5, GatewayAssumption
<1>12. SoundRegions(meta.regions, 2, StoreCount + 1)
  BY <1>3, <1>5, <1>8, <1>10, <1>11, NewReplicasFacts DEF SoundRegions
<1> QED
  BY <1>1, <1>3, <1>4, <1>5, <1>6, <1>7, <1>12 DEF PdInv, MetaFields

LEMMA InitStore ==
  ASSUME Init
  PROVE  /\ StoreInv /\ running /\ split = ST!NoSplit /\ catalog.image = <<ST!DefaultRegion>>
         /\ replicas = <<ST!NewReplicas>>
<1>1. /\ running = TRUE /\ regions = <<ST!DefaultRegion>> /\ split = ST!NoSplit
      /\ catalog = [state |-> "full", image |-> regions] /\ replicas = <<ST!NewReplicas>>
  BY DEF Init
<1>2. IsStoreRegion(ST!DefaultRegion)
  BY DEF ST!DefaultRegion, IsStoreRegion, StoreFields, Fields, ST!Unbounded
<1>3. IsRegionList(regions)
  BY <1>1, <1>2 DEF IsRegionList, IsList
<1> QED
  BY <1>1, <1>3, NoSplitFacts DEF StoreInv

LEMMA InitTyped ==
  ASSUME Init
  PROVE  TypeInv /\ CacheInv /\ (\A c \in Client : th[c] = IdleThread)
<1>1. /\ th = [c \in Client |-> IdleThread] /\ cache = [g \in Gateways |-> <<>>]
      /\ calm = [c \in Client |-> TRUE]
  BY DEF Init
<1>2. \A c \in Client : IsRequest(c, IdleThread)
  BY IdleTyped DEF IsRequest, IdleThread
<1> QED
  BY <1>1, <1>2 DEF TypeInv, CacheInv, RoutesTyped

LEMMA InitKv ==
  ASSUME Init
  PROVE  KvInv
<1>1. TypeInv /\ CacheInv /\ (\A c \in Client : th[c] = IdleThread) /\ PdInv /\ StoreInv
  BY InitTyped, InitPd, InitStore
<1>2. IdleThread.pc = "idle" /\ IdleThread.result = "none"
  BY DEF IdleThread
<1> QED
  BY <1>1, <1>2 DEF KvInv, CalmInv, ThreadInv, ResolvingInv, AnswerInv, OutcomeInv

\* The requests that arrive.
LEMMA ArriveCases ==
  ASSUME NEW c \in Client, Arrive(c)
  PROVE  \/ \E keys \in Seq(Nat) : Len(keys) \in {1, 2} /\ KvRequest(c, keys)
         \/ \E op \in {"split", "transfer", "add", "remove"} : \E id, arg \in Nat :
              AdminRequest(c, op, id, arg)
<1>1. CASE \E k \in 1 .. MaxKey : KvRequest(c, <<k>>)
  <2>1. PICK k \in 1 .. MaxKey : KvRequest(c, <<k>>)
    BY <1>1
  <2>2. <<k>> \in Seq(Nat) /\ Len(<<k>>) = 1
    OBVIOUS
  <2> QED
    BY <2>1, <2>2
<1>2. CASE \E k \in 2 .. MaxKey : KvRequest(c, <<k - 1, k>>)
  <2>1. PICK k \in 2 .. MaxKey : KvRequest(c, <<k - 1, k>>)
    BY <1>2
  <2>2. <<k - 1, k>> \in Seq(Nat) /\ Len(<<k - 1, k>>) = 2
    OBVIOUS
  <2> QED
    BY <2>1, <2>2
<1>3. CASE \E id \in 1 .. MaxRegion :
             \/ \E k \in 1 .. MaxKey : AdminRequest(c, "split", id, k)
             \/ \E s \in 1 .. MaxStore : AdminRequest(c, "add", id, s)
             \/ \E p \in 1 .. MaxStore + 1 : AdminRequest(c, "transfer", id, p)
                                               \/ AdminRequest(c, "remove", id, p)
  BY <1>3
<1> QED
  BY <1>1, <1>2, <1>3 DEF Arrive

LEMMA KvStep ==
  ASSUME UnsharedGateways, KvInv, [Next]_vars
  PROVE  KvInv'
<1>1. CASE UNCHANGED vars
  <2>1. /\ UNCHANGED pdVars /\ SameTables /\ split' = split
        /\ cache' = cache /\ th' = th /\ calm' = calm
    BY <1>1 DEF vars, storeVars, SameTables
  <2>2. PdInv' /\ StoreInv' /\ Saved' = Saved /\ PdRanges' = PdRanges
    BY <2>1, PdUnchanged, TablesUnchanged DEF KvInv
  <2>3. TypeInv' /\ CacheInv'
    BY <2>1, <2>2 DEF KvInv, TypeInv, CacheInv
  <2>4. CalmInv'
    BY <2>1, <2>2 DEF KvInv, CalmInv, Agree, StoreRanges, SameTables, pdVars
  <2>5. ASSUME NEW c \in Client PROVE ThreadInv(c)'
    <3>1. \A k : Cached(GatewayOf[c], k)' = Cached(GatewayOf[c], k)
      BY <2>1, SameCached
    <3> QED
      BY <2>1, <2>2, <3>1 DEF KvInv, ThreadInv, ResolvingInv, AnswerInv, OutcomeInv, FirstKey
  <2> QED
    BY <2>2, <2>3, <2>4, <2>5 DEF KvInv
<1>2. CASE Next
  <2>1. CalmStep
    BY <1>2 DEF Next, CalmStep
  <2>2. ASSUME NEW c \in Client, Arrive(c) PROVE KvInv'
    BY <2>1, <2>2, ArriveCases, KvRequestKeeps, AdminRequestKeeps
  <2>3. ASSUME NEW c \in Client, Work(c) PROVE KvInv'
    <3>1. CASE ResolveCached(c) \/ AskPd(c) \/ FillCache(c) \/ CallStore(c) \/ CallFails(c)
               \/ Refresh(c) \/ ClearCache(c) \/ Return(c)
      BY <2>1, <3>1, ResolveCachedKeeps, AskPdKeeps, FillCacheKeeps, CallStoreKeeps,
         CallFailsKeeps, RefreshKeeps, ClearCacheKeeps, ReturnKeeps
    <3>2. CASE CallPd(c)
      BY <2>1, <3>2, CallPdKeeps
    <3>3. CASE ManageStore(c)
      <4>1. TypeInv /\ StoreInv
        BY DEF KvInv
      <4> QED
        BY <2>1, <3>3, <4>1, ManageStoreStep, StoreStepKeeps
    <3>4. CASE SplitEnds(c)
      <4>1. TypeInv /\ StoreInv
        BY DEF KvInv
      <4> QED
        BY <2>1, <3>4, <4>1, SplitEndsStep, StoreStepKeeps
    <3> QED
      BY <2>3, <3>1, <3>2, <3>3, <3>4 DEF Work
  <2> QED
    BY <1>2, <2>1, <2>2, <2>3, SplitGoesOnKeeps, PdFailsKeeps, StoreFailsKeeps,
       RestartStoreKeeps DEF Next
<1> QED
  BY <1>1, <1>2

LEMMA KvInvImplies ==
  ASSUME KvInv
  PROVE  OneRefreshIsEnough /\ RefusedBatchSpansRegions
<1>1. OneRefreshIsEnough
  BY DEF KvInv, ThreadInv, OutcomeInv, OneRefreshIsEnough
<1>2. ASSUME NEW c \in Client, th[c].op = "kv", th[c].result = "refused", calm[c]
      PROVE  \E k \in Range(th[c].keys) :
               ST!FindRegionByKey(k) # ST!FindRegionByKey(th[c].keys[1])
  <2>1. TypeInv /\ PdInv /\ StoreInv /\ CalmInv /\ ThreadInv(c)
    BY DEF KvInv
  <2>2. th[c].pc # "idle" /\ th[c] \in Thread /\ KvThread(th[c])
    BY <1>2, <2>1, RequestKind DEF IdleThread, AdminThread
  <2>3. Agree
    BY <1>2, <2>1, <2>2 DEF CalmInv
  <2>4. PICK k \in Range(th[c].keys) : Apart(Saved.regions, th[c].keys[1], k)
    BY <1>2, <2>1 DEF ThreadInv, OutcomeInv, FirstKey
  <2>5. k \in Nat /\ th[c].keys[1] \in Nat
    BY <2>2, KeyFacts
  <2> QED
    BY <2>1, <2>3, <2>4, <2>5, ApartMeansTwoRegions
<1> QED
  BY <1>1, <1>2 DEF RefusedBatchSpansRegions

\* However old a gateway's cache is, a request whose PD and store agreed all the
\* while is never answered with a stale route: ResolveRoute after ClearRoutes has
\* the region's id from PD, and the store's ValidateRoute accepts it.
THEOREM OneRefresh == ASSUME UnsharedGateways PROVE Spec => []OneRefreshIsEnough
<1>1. Init => KvInv
  BY InitKv
<1>2. KvInv /\ [Next]_vars => KvInv'
  BY KvStep
<1>3. KvInv => OneRefreshIsEnough
  BY KvInvImplies
<1> QED
  BY <1>1, <1>2, <1>3, PTL DEF Spec

\* A Batch that the gateway, or the store, refuses has keys in two regions, if PD
\* and the store agreed while it ran: routes from an old cache never overlap a
\* region in part.
THEOREM RefusedBatch == ASSUME UnsharedGateways PROVE Spec => []RefusedBatchSpansRegions
<1>1. Init => KvInv
  BY InitKv
<1>2. KvInv /\ [Next]_vars => KvInv'
  BY KvStep
<1>3. KvInv => RefusedBatchSpansRegions
  BY KvInvImplies
<1> QED
  BY <1>1, <1>2, <1>3, PTL DEF Spec

-----------------------------------------------------------------------------
\* PD and the store.  With one administrator at most one thread is between its two
\* calls, and what the invariant says of all threads it says of that one.

OthersAside(c) == \A d \in Client \ {c} : NotManaging(th[d])

RangesFor(c) ==
  LET t == th[c]
  IN  /\ split # ST!NoSplit =>
           /\ t.pc = "splitting" /\ split.id = t.id /\ split.key = t.arg
           /\ "ranges" \notin broken => split.right = LastRegion
      /\ "ranges" \notin broken =>
           /\ SplitPending(t) =>
                OneSplitBehind(catalog.image, Saved.regions, LastRegion, t.id, t.arg)
           /\ t.pc # "splitting" /\ ~SplitPending(t) =>
                SameRegions(catalog.image, Saved.regions)

PeersFor(c) ==
  broken = {} =>
    /\ running /\ 1 \in DOMAIN replicas /\ replicas[1] \in Seq(PeerInfo)
    /\ \A a, b \in DOMAIN replicas[1] : replicas[1][a].id = replicas[1][b].id => a = b
    /\ ChangePending(th[c]) => Changed(th[c], replicas[1], Saved.regions[1].peers)
    /\ ~ChangePending(th[c]) => replicas[1] = Saved.regions[1].peers

LEMMA SoleAdministrator ==
  ASSUME OneAdministrator, TypeInv, NEW c \in Client, c \in Admin
  PROVE  OthersAside(c)
BY RequestKind DEF OneAdministrator, OthersAside, NotManaging

LEMMA ForOne ==
  ASSUME NEW c \in Client, OthersAside(c)
  PROVE  (RangesInv => RangesFor(c)) /\ (PeersInv => PeersFor(c))
<1>1. ASSUME NEW d \in Client, d # c
      PROVE  /\ th[d].pc # "splitting" /\ ~SplitPending(th[d]) /\ ~ChangePending(th[d])
  BY <1>1 DEF OthersAside, NotManaging, SplitPending, ChangePending
<1>2. ASSUME RangesInv PROVE RangesFor(c)
  BY <1>1, <1>2 DEF RangesInv, RangesFor
<1>3. ASSUME PeersInv PROVE PeersFor(c)
  BY <1>1, <1>3 DEF PeersInv, PeersFor
<1> QED
  BY <1>2, <1>3

LEMMA ForAll ==
  ASSUME NEW c \in Client, OthersAside(c), \A d \in Client \ {c} : th'[d] = th[d],
         RangesFor(c)', PeersFor(c)'
  PROVE  RangesInv' /\ PeersInv'
<1>1. ASSUME NEW d \in Client, d # c
      PROVE  /\ th'[d].pc # "splitting" /\ ~SplitPending(th[d])' /\ ~ChangePending(th[d])'
  BY <1>1 DEF OthersAside, NotManaging, SplitPending, ChangePending
<1>2. RangesInv'
  BY <1>1 DEF RangesInv, RangesFor
<1>3. PeersInv'
  BY <1>1 DEF PeersInv, PeersFor
<1> QED
  BY <1>2, <1>3

-----------------------------------------------------------------------------
\* Splits of lists.

LEMMA SplitBehind ==
  ASSUME NEW rs, NEW regs, SameRegions(rs, regs), NEW n, n \notin DOMAIN regs,
         NEW id \in DOMAIN regs, NEW k, NEW regs2, IsSplit(regs, n, id, k, regs2)
  PROVE  OneSplitBehind(rs, regs2, n, id, k)
<1>1. /\ DOMAIN regs2 = DOMAIN regs \cup {n} /\ DOMAIN regs2 \ {n} = DOMAIN regs
      /\ regs2[id].start = regs[id].start /\ regs2[id].end = k
      /\ regs2[n].start = k /\ regs2[n].end = regs[id].end
      /\ \A i \in DOMAIN regs \ {id} : regs2[i] = regs[i]
  BY DEF IsSplit, SameRange
<1> QED
  BY <1>1 DEF SameRegions, OneSplitBehind

LEMMA SplitCaughtUp ==
  ASSUME NEW rs, NEW regs, NEW n, NEW id, NEW k, OneSplitBehind(rs, regs, n, id, k),
         NEW i, rs[i].id = id, NEW ts, Halved(rs, i, k, n, ts)
  PROVE  SameRegions(ts, regs)
<1> DEFINE l == Len(rs) + 1
<1>1. /\ i \in DOMAIN rs /\ DOMAIN ts = DOMAIN rs \cup {l} /\ l \notin DOMAIN rs
      /\ ts[i].id = id /\ ts[i].start = rs[i].start /\ ts[i].end = k
      /\ ts[l].id = n /\ ts[l].start = k /\ ts[l].end = rs[i].end
      /\ \A j \in DOMAIN rs \ {i} : ts[j] = rs[j]
  BY DEF Halved
<1> HIDE DEF l
<1>2. /\ n \in DOMAIN regs /\ id \in DOMAIN regs \ {n}
      /\ regs[id].end = k /\ regs[n].start = k /\ rs[i].end = regs[n].end
      /\ rs[i].start = regs[id].start
      /\ UniqueIds(rs) /\ \A j \in DOMAIN rs : rs[j].id \in DOMAIN regs \ {n}
  BY <1>1 DEF OneSplitBehind
<1>3. \A j \in DOMAIN rs : ts[j].id = rs[j].id
  BY <1>1
<1>4. UniqueIds(ts)
  BY <1>1, <1>2, <1>3 DEF UniqueIds
<1>5. ASSUME NEW j \in DOMAIN ts
      PROVE  /\ ts[j].id \in DOMAIN regs
             /\ ts[j].start = regs[ts[j].id].start /\ ts[j].end = regs[ts[j].id].end
  <2>1. CASE j = l
    BY <1>1, <1>2, <2>1
  <2>2. CASE j = i
    BY <1>1, <1>2, <2>2
  <2>3. CASE j \notin {i, l}
    <3>1. j \in DOMAIN rs /\ ts[j] = rs[j] /\ rs[j].id # id
      BY <1>1, <1>2, <2>3 DEF UniqueIds
    <3> QED
      BY <3>1 DEF OneSplitBehind
  <2> QED
    BY <2>1, <2>2, <2>3
<1>6. \A x \in DOMAIN regs : \E j \in DOMAIN ts : ts[j].id = x
  BY <1>1, <1>3 DEF OneSplitBehind
<1> QED
  BY <1>4, <1>5, <1>6 DEF SameRegions

LEMMA KeptRegions ==
  ASSUME NEW rs, NEW regs, SameRegions(rs, regs)
  PROVE  /\ \A ts : KeepsRanges(rs, ts) => SameRegions(ts, regs)
         /\ \A regs2 : SameRanges(regs, regs2) => SameRegions(rs, regs2)
<1>1. ASSUME NEW ts, KeepsRanges(rs, ts) PROVE SameRegions(ts, regs)
  BY <1>1 DEF KeepsRanges, SameRange, SameRegions, UniqueIds
<1>2. ASSUME NEW regs2, SameRanges(regs, regs2) PROVE SameRegions(rs, regs2)
  BY <1>2 DEF SameRanges, SameRange, SameRegions
<1> QED
  BY <1>1, <1>2

\* The store numbers the right half as PD has.
LEMMA SameNumber ==
  ASSUME PdInv, StoreInv, running, NEW id, NEW k,
         OneSplitBehind(catalog.image, Saved.regions, LastRegion, id, k)
  PROVE  ST!NextRegionId = LastRegion
<1> DEFINE S == {regions[j].id : j \in DOMAIN regions}
           n == Saved.nextRegion
<1>1. regions = catalog.image /\ n \in Nat /\ n > 1 /\ DOMAIN Saved.regions = 1 .. n - 1
  BY DEF StoreInv, PdInv, SoundRegions
<1> HIDE DEF n
<1>2. id \in 1 .. n - 1 /\ id # n - 1
  BY <1>1 DEF OneSplitBehind, LastRegion, n
<1>3. S = 1 .. n - 2
  <2>1. \A j \in DOMAIN regions : regions[j].id \in 1 .. n - 1 /\ regions[j].id # n - 1
    BY <1>1 DEF OneSplitBehind, LastRegion, n
  <2>2. \A x \in 1 .. n - 2 : \E j \in DOMAIN regions : regions[j].id = x
    <3>1. \A x \in 1 .. n - 2 : x \in (1 .. n - 1) \ {n - 1}
      BY <1>1
    <3> QED
      BY <1>1, <3>1 DEF OneSplitBehind, LastRegion, n
  <2>3. \A x \in 1 .. n - 1 : x # n - 1 => x \in 1 .. n - 2
    BY <1>1
  <2> QED
    BY <2>1, <2>2, <2>3
<1> HIDE DEF S
<1>4. n - 2 \in S /\ S \in SUBSET Nat /\ (\A x \in S : x <= n - 2) /\ n - 2 \in Nat
  BY <1>1, <1>2, <1>3
<1>5. Max(S) \in S /\ \A y \in S : Max(S) >= y
  BY <1>4, MaxOfBoundedNats
<1>6. Max(S) = n - 2
  <2>1. Max(S) \in Nat /\ Max(S) <= n - 2 /\ Max(S) >= n - 2
    BY <1>4, <1>5
  <2> QED
    BY <1>1, <2>1
<1>7. ST!NextRegionId = Max(S) + 1
  BY SharedOperators DEF ST!NextRegionId, S
<1> QED
  BY <1>1, <1>6, <1>7 DEF LastRegion, n

\* The store erases the peer that PD has removed.
LEMMA SameRemoved ==
  ASSUME NEW ps \in Seq(PeerInfo), \A a, b \in DOMAIN ps : ps[a].id = ps[b].id => a = b,
         NEW i \in DOMAIN ps, NEW p, ps[i].id = p
  PROVE  WithoutFirst(ps, p) = RemoveAt(ps, i)
<1> DEFINE I == {j \in 1 .. Len(ps) : ps[j].id = p}
<1>1. DOMAIN ps = 1 .. Len(ps) /\ Len(ps) \in Nat
  OBVIOUS
<1>2. I = {i} /\ I \in SUBSET Nat /\ I # {}
  BY <1>1
<1>3. Min(I) = i
  BY <1>2, MinOfNats
<1>4. WithoutFirst(ps, p) = ST!RemoveAt(ps, IF I # {} THEN ST!Min(I) ELSE 0)
  BY <1>1 DEF WithoutFirst, ST!RemoveFirstMatch, ST!SelectInSeq
<1> HIDE DEF I
<1> QED
  BY <1>2, <1>3, <1>4, SharedOperators

-----------------------------------------------------------------------------
\* The steps, one by one.

LEMMA AsideAdmin ==
  ASSUME AdminInv, NEW c \in Client, Aside(c)
  PROVE  AdminInv'
<1>1. /\ PdInv' /\ StoreInv' /\ Saved' = Saved /\ TypeInv'
      /\ SameTables /\ split' = split /\ broken' = broken
      /\ NotManaging(th[c]) /\ NotManaging(th'[c])
      /\ \A d \in Client \ {c} : th'[d] = th[d]
  BY AsideKeeps DEF AdminInv, Aside
<1>2. LastRegion' = LastRegion /\ catalog' = catalog /\ running' = running /\ replicas' = replicas
  BY <1>1 DEF LastRegion, SameTables
<1>3. ~SplitPending(th[c]) /\ ~SplitPending(th[c])' /\ ~ChangePending(th[c]) /\ ~ChangePending(th[c])'
      /\ th[c].pc # "splitting" /\ th'[c].pc # "splitting"
  BY <1>1 DEF NotManaging, SplitPending, ChangePending
<1>4. ASSUME NEW d \in Client
      PROVE  /\ SplitPending(th[d])' <=> SplitPending(th[d])
             /\ ChangePending(th[d])' <=> ChangePending(th[d])
             /\ th'[d].pc = "splitting" <=> th[d].pc = "splitting"
             /\ th[d].pc = "splitting" \/ SplitPending(th[d]) \/ ChangePending(th[d])
                  => th'[d] = th[d]
  <2>1. CASE d = c
    BY <1>3, <2>1
  <2>2. CASE d # c
    BY <1>1, <2>2 DEF SplitPending, ChangePending
  <2> QED
    BY <2>1, <2>2
<1>5. RangesInv'
  <2>1. RangesInv
    BY DEF AdminInv
  <2> QED
    BY <1>1, <1>2, <1>4, <2>1 DEF RangesInv
<1>6. PeersInv'
  <2>1. PeersInv
    BY DEF AdminInv
  <2> QED
    BY <1>1, <1>2, <1>4, <2>1 DEF PeersInv, Changed
<1> QED
  BY <1>1, <1>5, <1>6 DEF AdminInv

LEMMA BreaksFacts ==
  ASSUME NEW t, NEW B, B = broken \cup Breaks(t)
  PROVE  /\ B # {} /\ (t.op = "split" => "ranges" \in B)
         /\ "ranges" \notin B => "ranges" \notin broken
BY DEF Breaks

\* A thread that is at PD has no split under way.
LEMMA CallPdAdmin ==
  ASSUME OneAdministrator, AdminInv, CalmStep, NEW c \in Client, CallPd(c)
  PROVE  AdminInv'
<1>1. /\ TypeInv' /\ PdInv' /\ StoreInv' /\ SameTables /\ split' = split
      /\ c \in Admin /\ th[c].pc = "pd" /\ AdminThread(th[c])
      /\ \A d \in Client \ {c} : th'[d] = th[d]
      /\ \/ PdDid(th[c]) /\ GoesOn(th[c], th'[c]) /\ broken' = broken
         \/ PdDid(th[c]) /\ th'[c].pc = "done" /\ broken' = broken \cup Breaks(th[c])
         \/ Saved' = Saved /\ th'[c].pc = "done" /\ broken' = broken
  BY CallPdStep DEF AdminInv
<1>2. OthersAside(c) /\ RangesFor(c) /\ PeersFor(c)
  BY <1>1, SoleAdministrator, ForOne DEF AdminInv
<1>3. /\ split = ST!NoSplit /\ split' = ST!NoSplit
      /\ ~SplitPending(th[c]) /\ ~ChangePending(th[c])
      /\ "ranges" \notin broken => SameRegions(catalog.image, Saved.regions)
      /\ catalog' = catalog /\ running' = running /\ replicas' = replicas
  BY <1>1, <1>2 DEF RangesFor, SplitPending, ChangePending, SameTables
<1>4. /\ Saved.nextRegion \in Nat /\ DOMAIN Saved.regions = 1 .. Saved.nextRegion - 1
      /\ 1 \in DOMAIN Saved.regions /\ Saved.nextRegion \notin DOMAIN Saved.regions
  BY DEF AdminInv, PdInv, SoundRegions
<1>5. CASE Saved' = Saved /\ th'[c].pc = "done" /\ broken' = broken
  <2>1. RangesFor(c)' /\ PeersFor(c)'
    BY <1>2, <1>3, <1>5 DEF RangesFor, PeersFor, SplitPending, ChangePending
  <2> QED
    BY <1>1, <1>2, <2>1, ForAll DEF AdminInv
<1>6. ASSUME PdDid(th[c]), th[c].op = "split"
      PROVE  /\ LastRegion' = Saved.nextRegion
             /\ "ranges" \notin broken => OneSplitBehind(catalog'.image, Saved'.regions,
                                            LastRegion', th[c].id, th[c].arg)
             /\ Saved'.regions[1].peers = Saved.regions[1].peers
  <2>1. /\ th[c].id \in DOMAIN Saved.regions /\ Saved'.nextRegion = Saved.nextRegion + 1
        /\ IsSplit(Saved.regions, Saved.nextRegion, th[c].id, th[c].arg, Saved'.regions)
    BY <1>6 DEF PdDid
  <2>2. LastRegion' = Saved.nextRegion
    BY <1>4, <2>1 DEF LastRegion
  <2>3. Saved'.regions[1].peers = Saved.regions[1].peers
    BY <1>4, <2>1 DEF IsSplit
  <2>4. "ranges" \notin broken => OneSplitBehind(catalog.image, Saved'.regions,
                                    Saved.nextRegion, th[c].id, th[c].arg)
    BY <1>3, <1>4, <2>1, SplitBehind
  <2> QED
    BY <1>3, <2>2, <2>3, <2>4
<1>7. ASSUME PdDid(th[c]), th[c].op # "split"
      PROVE  /\ "ranges" \notin broken => SameRegions(catalog'.image, Saved'.regions)
             /\ th[c].id # 1 => Saved'.regions[1].peers = Saved.regions[1].peers
             /\ th[c].id = 1 => PeersBy(th[c], Saved.regions[1].peers, Saved'.regions[1].peers,
                                        Saved.nextPeer)
  <2>1. /\ SameRanges(Saved.regions, Saved'.regions)
        /\ \A i \in DOMAIN Saved.regions \ {th[c].id} :
             Saved'.regions[i].peers = Saved.regions[i].peers
        /\ PeersBy(th[c], Saved.regions[th[c].id].peers, Saved'.regions[th[c].id].peers,
                   Saved.nextPeer)
    BY <1>7 DEF PdDid
  <2> QED
    BY <1>3, <1>4, <2>1, KeptRegions
<1>8. CASE PdDid(th[c]) /\ GoesOn(th[c], th'[c]) /\ broken' = broken
  <2>1. /\ th'[c].pc = "store" /\ th'[c].op = th[c].op /\ th'[c].id = th[c].id
        /\ th'[c].arg = th[c].arg /\ th'[c].region = Saved.nextPeer
    BY <1>8 DEF GoesOn
  <2>2. CASE th[c].op = "split"
    <3>1. RangesFor(c)'
      BY <1>3, <1>6, <1>8, <2>1, <2>2 DEF RangesFor, SplitPending
    <3>2. PeersFor(c)'
      BY <1>2, <1>3, <1>6, <1>8, <2>1, <2>2 DEF PeersFor, ChangePending
    <3> QED
      BY <1>1, <1>2, <3>1, <3>2, ForAll DEF AdminInv
  <2>3. CASE th[c].op # "split"
    <3>1. RangesFor(c)'
      BY <1>3, <1>7, <1>8, <2>1, <2>3 DEF RangesFor, SplitPending
    <3>2. ASSUME broken = {}, ChangePending(th[c])'
          PROVE  Changed(th[c], replicas[1], Saved.regions[1].peers)'
      <4>1. th[c].id = 1 /\ th[c].op \in {"add", "remove"}
            /\ PeersBy(th[c], replicas[1], Saved'.regions[1].peers, Saved.nextPeer)
        BY <1>2, <1>3, <1>7, <1>8, <2>1, <2>3, <3>2 DEF ChangePending, PeersFor
      <4> QED
        BY <1>3, <2>1, <4>1 DEF Changed, PeersBy
    <3>3. ASSUME broken = {}, ~ChangePending(th[c])'
          PROVE  replicas'[1] = Saved'.regions[1].peers
      <4>1. th[c].id # 1 \/ th[c].op \notin {"add", "remove"}
        BY <2>1, <3>3 DEF ChangePending
      <4> QED
        BY <1>2, <1>3, <1>7, <1>8, <2>3, <3>3, <4>1 DEF PeersFor, PeersBy
    <3>4. PeersFor(c)'
      BY <1>2, <1>3, <1>8, <3>2, <3>3 DEF PeersFor
    <3> QED
      BY <1>1, <1>2, <3>1, <3>4, ForAll DEF AdminInv
  <2> QED
    BY <2>2, <2>3
<1>9. CASE PdDid(th[c]) /\ th'[c].pc = "done" /\ broken' = broken \cup Breaks(th[c])
  <2>1. PeersFor(c)'
    BY <1>9, BreaksFacts DEF PeersFor
  <2>2. "ranges" \notin broken' => SameRegions(catalog'.image, Saved'.regions)
    BY <1>7, <1>9, BreaksFacts
  <2>3. RangesFor(c)'
    BY <1>3, <1>9, <2>2 DEF RangesFor, SplitPending
  <2> QED
    BY <1>1, <1>2, <2>1, <2>3, ForAll DEF AdminInv
<1> QED
  BY <1>1, <1>5, <1>8, <1>9

\* The store's peers of region 1 are those that PD had put down before.
LEMMA SavedPeersFacts ==
  ASSUME PdInv, NEW ps, ps = Saved.regions[1].peers
  PROVE  ps \in Seq(PeerInfo) /\ \A a, b \in DOMAIN ps : ps[a].id = ps[b].id => a = b
<1>1. 1 \in DOMAIN Saved.regions /\ IsPdRegion(Saved.regions[1])
      /\ DistinctPeers(Saved.regions[1].peers, Saved.nextPeer)
  BY DEF PdInv, SoundRegions
<1> QED
  BY <1>1 DEF IsPdRegion, DistinctPeers

LEMMA MembersAdmin ==
  ASSUME PdInv, NEW c \in Client, th[c].pc = "store", th[c].op # "split", PeersFor(c),
         ReplicasBy(th[c]), broken = {}
  PROVE  1 \in DOMAIN replicas' /\ replicas'[1] = Saved.regions[1].peers
<1> DEFINE t == th[c]
           qs == Saved.regions[1].peers
<1>1. /\ 1 \in DOMAIN replicas /\ replicas[1] \in Seq(PeerInfo)
      /\ \A a, b \in DOMAIN replicas[1] : replicas[1][a].id = replicas[1][b].id => a = b
      /\ ChangePending(t) => Changed(t, replicas[1], qs)
      /\ ~ChangePending(t) => replicas[1] = qs
  BY DEF PeersFor
<1> HIDE DEF qs
<1>2. CASE t.op = "transfer" /\ replicas' = replicas
  BY <1>1, <1>2 DEF ChangePending, qs
<1>3. CASE /\ t.op = "add" /\ t.id \in DOMAIN replicas
           /\ replicas' = [replicas EXCEPT ![t.id] =
                             Append(replicas[t.id], [id |-> t.region, store |-> t.arg])]
  <2>1. CASE t.id = 1
    <3>1. qs = Append(replicas[1], [id |-> t.region, store |-> t.arg])
      BY <1>1, <1>3, <2>1 DEF ChangePending, Changed
    <3> QED
      BY <1>1, <1>3, <2>1, <3>1 DEF qs
  <2>2. CASE t.id # 1
    BY <1>1, <1>3, <2>2 DEF ChangePending, qs
  <2> QED
    BY <2>1, <2>2
<1>4. CASE /\ t.op = "remove" /\ t.id \in DOMAIN replicas
           /\ replicas' = [replicas EXCEPT ![t.id] = WithoutFirst(replicas[t.id], t.arg)]
  <2>1. CASE t.id = 1
    <3>1. PICK i \in DOMAIN replicas[1] : replicas[1][i].id = t.arg /\ qs = RemoveAt(replicas[1], i)
      BY <1>1, <1>4, <2>1 DEF ChangePending, Changed
    <3>2. WithoutFirst(replicas[1], t.arg) = qs
      BY <1>1, <3>1, SameRemoved
    <3> QED
      BY <1>1, <1>4, <2>1, <3>2 DEF qs
  <2>2. CASE t.id # 1
    BY <1>1, <1>4, <2>2 DEF ChangePending, qs
  <2> QED
    BY <2>1, <2>2
<1> QED
  BY <1>2, <1>3, <1>4 DEF ReplicasBy

LEMMA ManageStoreAdmin ==
  ASSUME OneAdministrator, AdminInv, CalmStep, NEW c \in Client, ManageStore(c)
  PROVE  AdminInv'
<1>1. /\ TypeInv' /\ StoreInv' /\ UNCHANGED pdVars
      /\ c \in Admin /\ th[c].pc = "store" /\ AdminThread(th[c])
      /\ \A d \in Client \ {c} : th'[d] = th[d]
      /\ \/ /\ th[c].op = "split" /\ SameTables /\ running /\ split = ST!NoSplit
            /\ split' # ST!NoSplit /\ split'.id = th[c].id /\ split'.key = th[c].arg
            /\ split'.right = ST!NextRegionId
            /\ Splitting(th[c], th'[c]) /\ broken' = broken
         \/ /\ th[c].op # "split" /\ StoreDid(th[c]) /\ split = ST!NoSplit
            /\ th'[c].pc = "clear" /\ broken' \in {broken, broken \cup Breaks(th[c])}
         \/ /\ StoreDies \/ (SameList /\ split' = split)
            /\ th'[c].pc = "clear" /\ broken' = broken \cup Breaks(th[c])
  BY ManageStoreStep DEF AdminInv
<1>2. OthersAside(c) /\ RangesFor(c) /\ PeersFor(c)
  BY <1>1, SoleAdministrator, ForOne DEF AdminInv
<1>3. PdInv' /\ Saved' = Saved /\ LastRegion' = LastRegion
  BY <1>1, PdUnchanged DEF AdminInv, LastRegion
<1>4. split = ST!NoSplit
  BY <1>1, <1>2 DEF RangesFor
<1>5. /\ "ranges" \notin broken /\ th[c].op # "split" =>
           SameRegions(catalog.image, Saved.regions)
      /\ "ranges" \notin broken /\ th[c].op = "split" =>
           OneSplitBehind(catalog.image, Saved.regions, LastRegion, th[c].id, th[c].arg)
  BY <1>1, <1>2 DEF RangesFor, SplitPending
<1>6. CASE /\ th[c].op = "split" /\ SameTables /\ running
           /\ split' # ST!NoSplit /\ split'.id = th[c].id /\ split'.key = th[c].arg
           /\ split'.right = ST!NextRegionId
           /\ Splitting(th[c], th'[c]) /\ broken' = broken
  <2>1. /\ th'[c].pc = "splitting" /\ th'[c].op = "split" /\ th'[c].id = th[c].id
        /\ th'[c].arg = th[c].arg /\ catalog' = catalog /\ running' = running
        /\ replicas' = replicas
    BY <1>6 DEF Splitting, SameTables
  <2>2. "ranges" \notin broken => split'.right = LastRegion
    BY <1>5, <1>6, SameNumber DEF AdminInv
  <2>3. RangesFor(c)'
    BY <1>3, <1>5, <1>6, <2>1, <2>2 DEF RangesFor
  <2>4. PeersFor(c)'
    BY <1>2, <1>3, <1>6, <2>1 DEF PeersFor, ChangePending
  <2> QED
    BY <1>1, <1>2, <1>3, <2>3, <2>4, ForAll DEF AdminInv
<1>7. CASE /\ th[c].op # "split" /\ StoreDid(th[c])
           /\ th'[c].pc = "clear" /\ broken' \in {broken, broken \cup Breaks(th[c])}
  <2>1. /\ running' = TRUE /\ split' = ST!NoSplit
        /\ KeepsRanges(catalog.image, catalog'.image) /\ ReplicasBy(th[c])
    BY <1>7 DEF StoreDid
  <2>2. "ranges" \notin broken' => SameRegions(catalog'.image, Saved'.regions)
    BY <1>3, <1>5, <1>7, <2>1, KeptRegions
  <2>3. RangesFor(c)'
    BY <1>7, <2>1, <2>2 DEF RangesFor, SplitPending
  <2>4. broken' = {} => /\ 1 \in DOMAIN replicas'
                        /\ replicas'[1] = Saved.regions[1].peers
    BY <1>1, <1>2, <1>7, <2>1, MembersAdmin DEF AdminInv
  <2>5. PeersFor(c)'
    BY <1>3, <1>7, <2>1, <2>4, SavedPeersFacts DEF PeersFor, ChangePending, AdminInv
  <2> QED
    BY <1>1, <1>2, <1>3, <2>3, <2>5, ForAll DEF AdminInv
<1>8. CASE /\ StoreDies \/ (SameList /\ split' = split)
           /\ th'[c].pc = "clear" /\ broken' = broken \cup Breaks(th[c])
  <2>1. catalog'.image = catalog.image /\ split' = ST!NoSplit
    BY <1>4, <1>8 DEF StoreDies, SameList
  <2>2. PeersFor(c)'
    BY <1>8, BreaksFacts DEF PeersFor
  <2>3. "ranges" \notin broken' => SameRegions(catalog'.image, Saved'.regions)
    BY <1>3, <1>5, <1>8, <2>1, BreaksFacts
  <2>4. RangesFor(c)'
    BY <1>8, <2>1, <2>3 DEF RangesFor, SplitPending
  <2> QED
    BY <1>1, <1>2, <1>3, <2>2, <2>4, ForAll DEF AdminInv
<1> QED
  BY <1>1, <1>6, <1>7, <1>8

LEMMA SplitEndsAdmin ==
  ASSUME OneAdministrator, AdminInv, CalmStep, NEW c \in Client, SplitEnds(c)
  PROVE  AdminInv'
<1>1. /\ TypeInv' /\ StoreInv' /\ UNCHANGED pdVars /\ c \in Admin
      /\ th[c].pc = "splitting" /\ th[c].op = "split" /\ th'[c].pc = "clear"
      /\ \A d \in Client \ {c} : th'[d] = th[d]
      /\ \/ /\ SplitInstalled /\ split # ST!NoSplit
            /\ broken' \in {broken, broken \cup Breaks(th[c])}
         \/ /\ StoreDies \/ (SameTables /\ split' = ST!NoSplit)
            /\ broken' = broken \cup Breaks(th[c])
  BY SplitEndsStep DEF AdminInv
<1>2. OthersAside(c) /\ RangesFor(c) /\ PeersFor(c)
  BY <1>1, SoleAdministrator, ForOne DEF AdminInv
<1>3. PdInv' /\ Saved' = Saved
  BY <1>1, PdUnchanged DEF AdminInv
<1>4. split' = ST!NoSplit
  BY <1>1 DEF SplitInstalled, StoreDies
<1>5. CASE broken' = broken \cup Breaks(th[c])
  <2>1. RangesFor(c)' /\ PeersFor(c)'
    BY <1>1, <1>4, <1>5, BreaksFacts DEF RangesFor, PeersFor
  <2> QED
    BY <1>1, <1>2, <1>3, <2>1, ForAll DEF AdminInv
<1>6. CASE SplitInstalled /\ split # ST!NoSplit /\ broken' = broken
  <2>1. PICK i \in DOMAIN catalog.image :
          /\ catalog.image[i].id = split.id
          /\ Halved(catalog.image, i, split.key, split.right, catalog'.image)
    BY <1>6 DEF SplitInstalled
  <2>2. "ranges" \notin broken =>
          /\ OneSplitBehind(catalog.image, Saved.regions, LastRegion, split.id, split.key)
          /\ split.right = LastRegion
    BY <1>1, <1>2, <1>6 DEF RangesFor, SplitPending
  <2>3. "ranges" \notin broken => SameRegions(catalog'.image, Saved.regions)
    BY <2>1, <2>2, SplitCaughtUp
  <2>4. RangesFor(c)'
    BY <1>1, <1>3, <1>4, <1>6, <2>3 DEF RangesFor, SplitPending
  <2>5. ASSUME broken = {}
        PROVE  running' /\ 1 \in DOMAIN replicas' /\ replicas'[1] = replicas[1]
    <3>1. split.right # 1
      <4>1. /\ LastRegion \in DOMAIN Saved.regions /\ split.id \in DOMAIN Saved.regions
            /\ split.id # LastRegion
        BY <2>2, <2>5 DEF OneSplitBehind
      <4>2. Saved.nextRegion \in Nat /\ DOMAIN Saved.regions = 1 .. Saved.nextRegion - 1
        BY DEF AdminInv, PdInv, SoundRegions
      <4> QED
        BY <2>2, <2>5, <4>1, <4>2 DEF LastRegion
    <3>2. 1 \in DOMAIN replicas
      BY <1>2, <2>5 DEF PeersFor
    <3> QED
      BY <1>6, <3>1, <3>2 DEF SplitInstalled
  <2>6. PeersFor(c)'
    <3>1. ~ChangePending(th[c]) /\ ~ChangePending(th[c])'
      BY <1>1 DEF ChangePending
    <3> QED
      BY <1>2, <1>3, <1>6, <2>5, <3>1 DEF PeersFor
  <2> QED
    BY <1>1, <1>2, <1>3, <2>4, <2>6, ForAll DEF AdminInv
<1> QED
  BY <1>1, <1>5, <1>6

\* Steps of no thread.
LEMMA SplitGoesOnAdmin ==
  ASSUME AdminInv, CalmStep, SplitGoesOn
  PROVE  AdminInv'
<1>1. UNCHANGED pdVars /\ th' = th /\ cache' = cache /\ broken' = broken
  BY DEF SplitGoesOn
<1>2. /\ StoreInv' /\ SameTables /\ split # ST!NoSplit /\ split' # ST!NoSplit
      /\ split'.id = split.id /\ split'.key = split.key /\ split'.right = split.right
  BY SplitGoesOnStep DEF AdminInv
<1>3. TypeInv' /\ PdInv' /\ Saved' = Saved /\ LastRegion' = LastRegion
  BY <1>1, TypedUnchanged, PdUnchanged DEF AdminInv, LastRegion
<1>4. \A c \in Client : SplitPending(th[c])' <=> SplitPending(th[c])
  BY <1>1, <1>2 DEF SplitPending
<1>5. RangesInv'
  <2>1. RangesInv
    BY DEF AdminInv
  <2> QED
    BY <1>1, <1>2, <1>3, <1>4, <2>1 DEF RangesInv, SameTables
<1>6. PeersInv'
  <2>1. PeersInv
    BY DEF AdminInv
  <2> QED
    BY <1>1, <1>2, <1>3, <2>1 DEF PeersInv, SameTables, ChangePending, Changed
<1> QED
  BY <1>2, <1>3, <1>5, <1>6 DEF AdminInv

\* A step that keeps the regions and the allocators PD has saved, the store and
\* every thread.
LEMMA SameSavedAdmin ==
  ASSUME AdminInv, TypeInv', PdInv', SameTables, split' = split, th' = th, broken' = broken,
         Saved' = Saved
  PROVE  AdminInv'
<1>1. StoreInv'
  BY TablesUnchanged DEF AdminInv
<1>2. LastRegion' = LastRegion /\ catalog' = catalog /\ running' = running /\ replicas' = replicas
  BY DEF LastRegion, SameTables
<1>3. RangesInv'
  <2>1. RangesInv
    BY DEF AdminInv
  <2> QED
    BY <1>2, <2>1 DEF RangesInv, SplitPending
<1>4. PeersInv'
  <2>1. PeersInv
    BY DEF AdminInv
  <2> QED
    BY <1>2, <2>1 DEF PeersInv, ChangePending, Changed
<1> QED
  BY <1>1, <1>3, <1>4 DEF AdminInv

LEMMA PdFailsAdmin ==
  ASSUME AdminInv, CalmStep, PdFails
  PROVE  AdminInv'
<1>1. SameTables /\ split' = split /\ th' = th /\ cache' = cache /\ broken' = broken
  BY DEF PdFails, storeVars, SameTables
<1>2. TypeInv'
  BY <1>1, TypedUnchanged DEF AdminInv
<1>3. PdInv' /\ Saved' = Saved
  <2>1. PdInv
    BY DEF AdminInv
  <2>2. CASE PD!Crash
    BY <2>1, <2>2, PdCrashes, PdDiesStep DEF PdDies
  <2>3. CASE PD!Open
    BY <2>1, <2>3, PdOpens
  <2> QED
    BY <2>2, <2>3 DEF PdFails
<1> QED
  BY <1>1, <1>2, <1>3, SameSavedAdmin

LEMMA StoreFailsAdmin ==
  ASSUME AdminInv, CalmStep, StoreFails
  PROVE  AdminInv'
<1>1. /\ UNCHANGED pdVars /\ th' = th /\ cache' = cache
      /\ broken' = broken \cup {"peers"} /\ ST!Crash
  BY DEF StoreFails
<1>2. StoreDies /\ StoreInv'
  BY <1>1, StoreCrashes, StoreDiesStep DEF AdminInv
<1>3. catalog'.image = catalog.image /\ split' = ST!NoSplit
  BY <1>2 DEF StoreDies
<1>4. TypeInv' /\ PdInv' /\ Saved' = Saved /\ LastRegion' = LastRegion
  BY <1>1, TypedUnchanged, PdUnchanged DEF AdminInv, LastRegion
<1>5. RangesInv'
  <2>1. RangesInv
    BY DEF AdminInv
  <2>2. "ranges" \notin broken' <=> "ranges" \notin broken
    BY <1>1
  <2>3. \A c \in Client :
          /\ SplitPending(th[c])' => SplitPending(th[c])
          /\ th[c].pc # "splitting" /\ ~SplitPending(th[c])' => ~SplitPending(th[c])
    BY <1>1, <1>3 DEF SplitPending
  <2> QED
    BY <1>1, <1>3, <1>4, <2>1, <2>2, <2>3 DEF RangesInv
<1>6. PeersInv'
  BY <1>1 DEF PeersInv
<1> QED
  BY <1>2, <1>4, <1>5, <1>6 DEF AdminInv

\* The store can only start when it has died, and then its peers are given up.
LEMMA RestartStoreAdmin ==
  ASSUME AdminInv, CalmStep, RestartStore
  PROVE  AdminInv'
<1>1. th' = th /\ cache' = cache /\ broken' = broken /\ ST!Start
  BY DEF RestartStore
<1>2. /\ PdInv' /\ Saved'.regions = Saved.regions /\ Saved'.nextRegion = Saved.nextRegion
  BY PdRegisters DEF AdminInv
<1>3. /\ StoreInv' /\ ~running /\ catalog'.image = catalog.image
      /\ split = ST!NoSplit /\ split' = ST!NoSplit
  BY <1>1, StoreStartsStep DEF AdminInv
<1>4. TypeInv' /\ LastRegion' = LastRegion
  BY <1>1, <1>2, TypedUnchanged DEF AdminInv, LastRegion
<1>5. RangesInv'
  <2>1. RangesInv
    BY DEF AdminInv
  <2>2. \A c \in Client : SplitPending(th[c])' <=> SplitPending(th[c])
    BY <1>1, <1>3 DEF SplitPending
  <2> QED
    BY <1>1, <1>2, <1>3, <1>4, <2>1, <2>2 DEF RangesInv
<1>6. PeersInv'
  <2>1. broken # {}
    BY <1>3 DEF AdminInv, PeersInv
  <2> QED
    BY <1>1, <2>1 DEF PeersInv
<1> QED
  BY <1>2, <1>3, <1>4, <1>5, <1>6 DEF AdminInv

-----------------------------------------------------------------------------
\* The theorems about administrative requests.

LEMMA InitAdmin ==
  ASSUME Init
  PROVE  AdminInv
<1>1. TypeInv /\ (\A c \in Client : th[c] = IdleThread) /\ PdInv /\ StoreInv /\ broken = {}
  BY InitTyped, InitPd, InitStore DEF Init
<1>2. /\ DOMAIN Saved.regions = {1} /\ Saved.regions[1].start = 0
      /\ Saved.regions[1].end = Unbounded /\ Saved.regions[1].peers = ST!NewReplicas
      /\ running /\ split = ST!NoSplit /\ catalog.image = <<ST!DefaultRegion>>
      /\ replicas = <<ST!NewReplicas>>
  BY InitPd, InitStore
<1>3. \A c \in Client : th[c].pc = "idle"
  BY <1>1 DEF IdleThread
<1>4. ST!DefaultRegion.id = 1 /\ ST!DefaultRegion.start = 0 /\ ST!DefaultRegion.end = Unbounded
  BY DEF ST!DefaultRegion, ST!Unbounded, Unbounded
<1>5. SameRegions(catalog.image, Saved.regions)
  BY <1>2, <1>4 DEF SameRegions, UniqueIds
<1>6. RangesInv
  BY <1>2, <1>3, <1>5 DEF RangesInv, SplitPending
<1>7. PeersInv
  <2>1. 1 \in DOMAIN replicas /\ replicas[1] = ST!NewReplicas
    BY <1>2
  <2> QED
    BY <1>2, <1>3, <2>1, NewReplicasFacts DEF PeersInv, ChangePending
<1> QED
  BY <1>1, <1>6, <1>7 DEF AdminInv

LEMMA AdminKept ==
  ASSUME OneAdministrator, AdminInv, [Next]_vars
  PROVE  AdminInv'
<1>1. TypeInv /\ PdInv /\ StoreInv
  BY DEF AdminInv
<1>2. CASE UNCHANGED vars
  <2>1. /\ UNCHANGED pdVars /\ SameTables /\ split' = split
        /\ cache' = cache /\ th' = th /\ calm' = calm /\ broken' = broken
    BY <1>2 DEF vars, storeVars, SameTables
  <2>2. TypeInv' /\ PdInv' /\ Saved' = Saved
    BY <1>1, <2>1, PdUnchanged DEF TypeInv
  <2> QED
    BY <2>1, <2>2, SameSavedAdmin
<1>3. CASE Next
  <2>1. CalmStep
    BY <1>3 DEF Next, CalmStep
  <2>2. ASSUME NEW c \in Client, Arrive(c) PROVE AdminInv'
    BY <1>1, <2>1, <2>2, ArriveCases, KvRequestAside, AdminRequestAside, AsideAdmin
  <2>3. ASSUME NEW c \in Client, Work(c) PROVE AdminInv'
    <3>1. CASE ResolveCached(c) \/ AskPd(c) \/ FillCache(c) \/ CallStore(c) \/ CallFails(c)
               \/ Refresh(c) \/ ClearCache(c) \/ Return(c)
      <4>1. Aside(c)
        BY <1>1, <2>1, <3>1, ResolveCachedAside, AskPdAside, FillCacheAside, CallStoreAside,
           CallFailsAside, RefreshAside, ClearCacheAside, ReturnAside
      <4> QED
        BY <4>1, AsideAdmin
    <3>2. CASE CallPd(c) \/ ManageStore(c) \/ SplitEnds(c)
      BY <2>1, <3>2, CallPdAdmin, ManageStoreAdmin, SplitEndsAdmin
    <3> QED
      BY <2>3, <3>1, <3>2 DEF Work
  <2> QED
    BY <1>3, <2>1, <2>2, <2>3, SplitGoesOnAdmin, PdFailsAdmin, StoreFailsAdmin,
       RestartStoreAdmin DEF Next
<1> QED
  BY <1>2, <1>3

LEMMA AdminInvImplies ==
  ASSUME AdminInv
  PROVE  RangesAgree /\ PeersAgree
<1>1. ~Managing => \A c \in Client : /\ th[c].pc # "splitting" /\ ~SplitPending(th[c])
                                     /\ ~ChangePending(th[c])
  BY DEF Managing, SplitPending, ChangePending
<1>2. pdRunning => meta.regions = Saved.regions
  BY RunningPd DEF AdminInv
<1>3. ASSUME "ranges" \notin broken, ~Managing, pdRunning, running
      PROVE  PdRanges = StoreRanges
  <2>1. SameRegions(regions, meta.regions)
    BY <1>1, <1>2, <1>3 DEF AdminInv, StoreInv, RangesInv
  <2> QED
    BY <2>1 DEF SameRegions, PdRanges, StoreRanges
<1>4. ASSUME broken = {}, ~Managing, pdRunning
      PROVE  replicas[1] = meta.regions[1].peers
  BY <1>1, <1>2, <1>4 DEF AdminInv, PeersInv
<1> QED
  BY <1>3, <1>4 DEF RangesAgree, PeersAgree

\* With one administrator, and whatever calls are lost and whichever process dies
\* and comes back: unless a split failed half-way, the ids and ranges that
\* PdMetadataStore and MultiRegionCluster give to the regions are the same whenever
\* no request is between its two calls.
THEOREM RangesStayEqual == ASSUME OneAdministrator PROVE Spec => []RangesAgree
<1>1. Init => AdminInv
  BY InitAdmin
<1>2. AdminInv /\ [Next]_vars => AdminInv'
  BY AdminKept
<1>3. AdminInv => RangesAgree
  BY AdminInvImplies
<1> QED
  BY <1>1, <1>2, <1>3, PTL DEF Spec

\* With one administrator, and unless a change failed half-way or the store died:
\* the replicas of the first region's cluster are the peers PD lists, in PD's order.
THEOREM PeersStayEqual == ASSUME OneAdministrator PROVE Spec => []PeersAgree
<1>1. Init => AdminInv
  BY InitAdmin
<1>2. AdminInv /\ [Next]_vars => AdminInv'
  BY AdminKept
<1>3. AdminInv => PeersAgree
  BY AdminInvImplies
<1> QED
  BY <1>1, <1>2, <1>3, PTL DEF Spec
=============================================================================
