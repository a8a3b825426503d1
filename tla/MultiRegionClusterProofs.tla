---------------------- MODULE MultiRegionClusterProofs ----------------------
(***************************************************************************)
(* Theorems about MultiRegionCluster, for every number of keys, regions,   *)
(* peers and requests.                                                     *)
(***************************************************************************)
EXTENDS MultiRegionCluster, SequenceTheorems, WellFoundedInduction, TLAPS

-----------------------------------------------------------------------------
\* The least and the greatest element of a set of numbers.

\* Min of a nonempty set of naturals is its least element.
LEMMA MinOfNats ==
  ASSUME NEW S \in SUBSET Nat, S # {}
  PROVE  Min(S) \in S /\ \A y \in S : Min(S) <= y
<1>1. IsWellFoundedOn({ss \in Nat \X Nat : ss[1] < ss[2]}, Nat)
  BY NatLessThanWellFounded DEF OpToRel
<1>2. PICK x \in S : \A y \in S : ~(<<y, x>> \in {ss \in Nat \X Nat : ss[1] < ss[2]})
  BY <1>1, WFMin, Zenon
<1>3. \A y \in S : x \in Nat /\ y \in Nat /\ ~(y < x)
  BY <1>2
<1>4. \A y \in S : x <= y
  BY <1>3
<1> QED
  BY <1>4 DEF Min

\* Max of a nonempty set of naturals with an upper bound is its greatest element.
LEMMA MaxOfBoundedNats ==
  ASSUME NEW S \in SUBSET Nat, S # {}, NEW b \in Nat, \A s \in S : s <= b
  PROVE  Max(S) \in S /\ \A y \in S : Max(S) >= y
<1> DEFINE D == {b - s : s \in S}
<1>1. \A s \in S : b - s \in Nat
  OBVIOUS
<1>2. D \in SUBSET Nat /\ D # {}
  BY <1>1
<1>3. Min(D) \in D /\ \A d \in D : Min(D) <= d
  BY <1>2, MinOfNats
<1>4. PICK x \in S : \A y \in S : b - x <= b - y
  BY <1>3
<1>5. \A y \in S : x >= y
  BY <1>4
<1> QED
  BY <1>5 DEF Max

-----------------------------------------------------------------------------

RegionFields == {"id", "start", "end", "version", "confVer", "leader", "peers"}

-----------------------------------------------------------------------------
\* The inductive invariant of the list of regions.

IsList(rs) == Len(rs) \in Nat /\ rs = [i \in 1 .. Len(rs) |-> rs[i]]

IsRegion(r) ==
  /\ DOMAIN r = RegionFields
  /\ r.id \in RegionId /\ r.start \in Nat /\ r.end \in Nat

Ids(rs) == {rs[i].id : i \in DOMAIN rs}

UniqueIds(rs) == \A i, j \in DOMAIN rs : rs[i].id = rs[j].id => i = j

PartitionsKeys(rs) ==
  \A k \in UserKey : \E i \in DOMAIN rs :
    \A j \in DOMAIN rs : ContainsKey(rs[j], k) <=> i = j

\* A list of regions as Bootstrap loads it and every request leaves it.
IsTable(rs) ==
  /\ IsList(rs) /\ rs # <<>>
  /\ \A i \in DOMAIN rs : IsRegion(rs[i])
  /\ UniqueIds(rs) /\ PartitionsKeys(rs)

\* A split works on region i of the list rs: its key is inside the region, and
\* the id of the right half is new.
Splits(s, rs, i) ==
  /\ s.pc \in {"export", "puts", "deletes", "install"}
  /\ DOMAIN s = DOMAIN NoSplit
  /\ i \in DOMAIN rs /\ rs[i].id = s.id
  /\ s.key \in UserKey /\ ContainsKey(rs[i], s.key)
  /\ s.right \in RegionId \ Ids(rs)

ListInv ==
  /\ running \in BOOLEAN
  /\ DOMAIN catalog = {"state", "image"} /\ catalog.state \in {"none", "full", "torn"}
  /\ catalog.image = <<>> \/ IsTable(catalog.image)
  /\ catalog.state = "full" => IsTable(catalog.image)
  /\ running => /\ catalog.state = "full" /\ regions = catalog.image
                /\ DOMAIN replicas = Ids(regions)
  /\ ~running => regions = <<>> /\ split = NoSplit
  /\ split # NoSplit => \E i \in DOMAIN regions : Splits(split, regions, i)

-----------------------------------------------------------------------------
\* The inductive invariant of the data.  W has the last acknowledged write of
\* each key, Q the reasons to doubt it, S the keys that may have stray copies.

\* Directory rs[j].id has no key outside the region that is not a stray and the
\* last write of every key inside that is not in doubt, save for the keys in G.
Base(rs, G, D, W, Q, S) ==
  \A j \in DOMAIN rs, k \in UserKey :
    /\ ~ContainsKey(rs[j], k) /\ k \notin S => D[rs[j].id][k] = NoValue
    /\ ContainsKey(rs[j], k) /\ Q[k] = {} /\ k \notin G => D[rs[j].id][k] = W[k]

\* What a failed write may still do: its keys are in doubt where they are read,
\* and outside it brings no key back that is not known to stray.
Late(rs, P, Q, S) ==
  \A j \in DOMAIN rs : \A cmd \in P[rs[j].id] : \A k \in DOMAIN cmd :
    /\ k \notin S => cmd[k] = NoValue
    /\ ContainsKey(rs[j], k) => Q[k] # {}

\* The keys that the split of region i has deleted but not handed over.
Gone(rs, s, i) == {k \in UserKey : s.pc = "install" /\ Migrates(rs[i], s.key, k)}

\* What the two directories hold at each step of the split of region i.
Moving(rs, s, i, D, P, W, Q, S) ==
  /\ P[s.right] = {}
  /\ s.pc \in {"export", "puts"} => \A k \in UserKey : D[s.right][k] = NoValue
  /\ s.pc \in {"deletes", "install"} => \A k \in UserKey : D[s.right][k] = s.moved[k]
  /\ s.pc \in {"puts", "deletes", "install"} => \A k \in UserKey :
       /\ ~Migrates(rs[i], s.key, k) => s.moved[k] = NoValue
       /\ Migrates(rs[i], s.key, k) /\ Q[k] = {} => s.moved[k] = W[k]
       /\ Migrates(rs[i], s.key, k) /\ k \notin S /\ s.moved[k] = NoValue =>
            D[s.id][k] = NoValue
  /\ s.pc = "install" => \A k \in UserKey :
       Migrates(rs[i], s.key, k) /\ (Q[k] = {} \/ k \notin S) => D[s.id][k] = NoValue

DataTypes ==
  /\ DOMAIN data = RegionId /\ \A id \in RegionId : DOMAIN data[id] = UserKey
  /\ DOMAIN pending = RegionId
  /\ \A id \in RegionId : \A cmd \in pending[id] : DOMAIN cmd \subseteq UserKey
  /\ DOMAIN acked = UserKey /\ DOMAIN doubts = UserKey

DataInv ==
  /\ DataTypes
  /\ split = NoSplit /\ catalog.state # "torn" =>
       /\ Base(LoadRegionCatalog, {}, data, acked, doubts, strays)
       /\ Late(LoadRegionCatalog, pending, doubts, strays)
  /\ \A i \in DOMAIN regions : Splits(split, regions, i) =>
       /\ Base(regions, Gone(regions, split, i), data, acked, doubts, strays)
       /\ Late(regions, pending, doubts, strays)
       /\ Moving(regions, split, i, data, pending, acked, doubts, strays)

\* Fewer keys are vouched for.
Weaker(Q, S, Q2, S2) ==
  S \subseteq S2 /\ DOMAIN Q2 = UserKey /\ \A k \in UserKey : Q2[k] = {} => Q[k] = {}

\* What a step that acknowledges nothing does to the histories.
Fades == acked' = acked /\ Weaker(doubts, strays, doubts', strays')

-----------------------------------------------------------------------------
\* Lists of regions.

LEMMA ListDomain ==
  ASSUME NEW rs, IsList(rs)
  PROVE  DOMAIN rs = 1 .. Len(rs) /\ Len(rs) \in Nat
BY DEF IsList

LEMMA ListIsSeq ==
  ASSUME NEW rs, IsList(rs), NEW S, \A i \in DOMAIN rs : rs[i] \in S
  PROVE  rs \in Seq(S)
<1>1. DOMAIN rs = 1 .. Len(rs) /\ Len(rs) \in Nat
  BY ListDomain
<1>2. rs \in [1 .. Len(rs) -> S]
  BY <1>1 DEF IsList
<1> QED
  BY <1>1, <1>2

LEMMA SeqIsList ==
  ASSUME NEW S, NEW rs \in Seq(S)
  PROVE  IsList(rs)
BY LenProperties DEF IsList

\* ts is rs with r in place i.
ReplacedAt(rs, i, r, ts) ==
  /\ IsList(ts) /\ DOMAIN ts = DOMAIN rs /\ Len(ts) = Len(rs)
  /\ ts[i] = r /\ \A j \in DOMAIN rs \ {i} : ts[j] = rs[j]

LEMMA ListExcept ==
  ASSUME NEW rs, IsList(rs), NEW i \in DOMAIN rs, NEW r
  PROVE  ReplacedAt(rs, i, r, [rs EXCEPT ![i] = r])
<1> DEFINE S  == {rs[j] : j \in DOMAIN rs} \cup {r}
           ts == [rs EXCEPT ![i] = r]
<1>1. rs \in Seq(S) /\ i \in 1 .. Len(rs)
  BY ListIsSeq, ListDomain
<1>2. r \in S
  OBVIOUS
<1> HIDE DEF S
<1>3. ts \in Seq(S) /\ Len(ts) = Len(rs)
  BY <1>1, <1>2, ExceptSeq
<1>4. IsList(ts)
  <2> HIDE DEF ts
  <2> QED
    BY <1>3, SeqIsList
<1> QED
  BY <1>3, <1>4 DEF ReplacedAt

\* ts is rs with r added at the end, in place n.
AddedTo(rs, r, ts, n) ==
  /\ IsList(ts) /\ DOMAIN ts = DOMAIN rs \cup {n} /\ n \notin DOMAIN rs
  /\ ts[n] = r /\ \A j \in DOMAIN rs : ts[j] = rs[j]

LEMMA ListAppend ==
  ASSUME NEW rs, IsList(rs), NEW r
  PROVE  AddedTo(rs, r, rs \o <<r>>, Len(rs) + 1)
<1> DEFINE S  == {rs[j] : j \in DOMAIN rs} \cup {r}
           ts == rs \o <<r>>
<1>1. rs \in Seq(S) /\ DOMAIN rs = 1 .. Len(rs) /\ Len(rs) \in Nat
  BY ListIsSeq, ListDomain
<1>2. <<r>> \in Seq(S) /\ Len(<<r>>) = 1 /\ <<r>>[1] = r
  OBVIOUS
<1> HIDE DEF S
<1>3. /\ ts \in Seq(S) /\ Len(ts) = Len(rs) + Len(<<r>>)
      /\ \A i \in 1 .. Len(rs) + Len(<<r>>) :
           ts[i] = IF i <= Len(rs) THEN rs[i] ELSE <<r>>[i - Len(rs)]
  BY <1>1, <1>2, ConcatProperties
<1> HIDE DEF ts
<1>4. IsList(ts) /\ DOMAIN ts = 1 .. Len(rs) + 1
  BY <1>2, <1>3, SeqIsList, ListDomain
<1>5. ts[Len(rs) + 1] = r
  BY <1>1, <1>2, <1>3
<1>6. \A j \in DOMAIN rs : ts[j] = rs[j]
  BY <1>1, <1>2, <1>3
<1>7. AddedTo(rs, r, ts, Len(rs) + 1)
  BY <1>1, <1>4, <1>5, <1>6 DEF AddedTo
<1> QED
  BY <1>7 DEF ts

\* Position and FindRegionByKey find the one region there is.
LEMMA PositionOf ==
  ASSUME IsTable(regions), NEW i \in DOMAIN regions
  PROVE  Position(regions[i].id) = i
<1> DEFINE I == {j \in 1 .. Len(regions) : regions[j].id = regions[i].id}
<1>1. Position(regions[i].id) = IF I # {} THEN Min(I) ELSE 0
  BY DEF Position, SelectInSeq
<1>2. I = {i}
  BY ListDomain DEF IsTable, UniqueIds
<1>3. Min({i}) = i
  BY DEF Min
<1> QED
  BY <1>1, <1>2, <1>3

LEMMA FindOf ==
  ASSUME IsTable(regions), NEW k \in UserKey, NEW i \in DOMAIN regions,
         ContainsKey(regions[i], k)
  PROVE  FindRegionByKey(k) = i
<1> DEFINE I == {j \in 1 .. Len(regions) : ContainsKey(regions[j], k)}
<1>1. FindRegionByKey(k) = IF I # {} THEN Min(I) ELSE 0
  BY DEF FindRegionByKey, SelectInSeq
<1>2. I = {i}
  BY ListDomain DEF IsTable, PartitionsKeys
<1>3. Min({i}) = i
  BY DEF Min
<1> QED
  BY <1>1, <1>2, <1>3

SameRange(r, q) == r.id = q.id /\ r.start = q.start /\ r.end = q.end

\* A region changes in everything but its id and range.
LEMMA TableExcept ==
  ASSUME NEW rs, IsTable(rs), NEW i \in DOMAIN rs,
         NEW r, IsRegion(r), SameRange(r, rs[i]), NEW ts, ReplacedAt(rs, i, r, ts)
  PROVE  /\ IsTable(ts) /\ Ids(ts) = Ids(rs) /\ DOMAIN ts = DOMAIN rs
         /\ \A j \in DOMAIN rs : SameRange(ts[j], rs[j])
<1>1. IsList(ts) /\ DOMAIN ts = DOMAIN rs /\ ts # <<>>
  <2>1. IsList(ts) /\ DOMAIN ts = DOMAIN rs
    BY DEF ReplacedAt
  <2> QED
    BY <2>1
<1>2. ts[i] = r /\ \A j \in DOMAIN rs \ {i} : ts[j] = rs[j]
  BY DEF ReplacedAt
<1>3. \A j \in DOMAIN rs : IsRegion(ts[j]) /\ SameRange(ts[j], rs[j])
  BY <1>2 DEF IsTable, SameRange
<1>4. Ids(ts) = Ids(rs) /\ UniqueIds(ts)
  BY <1>1, <1>3 DEF Ids, UniqueIds, SameRange, IsTable
<1>5. \A j \in DOMAIN rs, k \in UserKey : ContainsKey(ts[j], k) <=> ContainsKey(rs[j], k)
  BY <1>3 DEF SameRange, ContainsKey
<1>6. PartitionsKeys(ts)
  BY <1>1, <1>5 DEF PartitionsKeys, IsTable
<1> QED
  BY <1>1, <1>3, <1>4, <1>6 DEF IsTable

\* The ranges of the two halves of a region.
LEMMA HalvesOf ==
  ASSUME NEW r, IsRegion(r), NEW key \in UserKey, ContainsKey(r, key),
         NEW right \in RegionId
  PROVE  LET a == LeftRegion(r, key)
             b == RightRegion(r, key, right)
         IN  /\ IsRegion(a) /\ IsRegion(b) /\ a.id = r.id /\ b.id = right
             /\ \A k \in UserKey :
                  /\ ContainsKey(a, k) <=> ContainsKey(r, k) /\ k < key
                  /\ ContainsKey(b, k) <=> ContainsKey(r, k) /\ k >= key
<1> DEFINE a == LeftRegion(r, key)
           b == RightRegion(r, key, right)
<1>0. key \in Nat \ {0} /\ UserKey \subseteq Nat
  BY MultiAssumption DEF UserKey
<1>1. DOMAIN a = RegionFields /\ a.id = r.id /\ a.start = r.start /\ a.end = key
  BY DEF IsRegion, RegionFields, LeftRegion
<1>2. DOMAIN b = RegionFields /\ b.id = right /\ b.start = key /\ b.end = r.end
  BY DEF IsRegion, RegionFields, RightRegion
<1> HIDE DEF a, b
<1>3. IsRegion(a) /\ IsRegion(b)
  BY <1>0, <1>1, <1>2 DEF IsRegion
<1>4. r.start \in Nat /\ r.end \in Nat
  BY DEF IsRegion
<1>5. ASSUME NEW k \in UserKey
      PROVE  /\ ContainsKey(a, k) <=> ContainsKey(r, k) /\ k < key
             /\ ContainsKey(b, k) <=> ContainsKey(r, k) /\ k >= key
  BY <1>0, <1>1, <1>2, <1>4 DEF ContainsKey, Unbounded
<1> QED
  BY <1>1, <1>2, <1>3, <1>5 DEF a, b

\* ts is the list rs with the halves of region i in its place and at the end.
Halved(rs, s, i, ts, n) ==
  /\ IsTable(ts) /\ Ids(ts) = Ids(rs) \cup {s.right}
  /\ DOMAIN ts = DOMAIN rs \cup {n} /\ n \notin DOMAIN rs
  /\ ts[i] = LeftRegion(rs[i], s.key) /\ ts[n] = RightRegion(rs[i], s.key, s.right)
  /\ \A j \in DOMAIN rs \ {i} : ts[j] = rs[j]

LEMMA TableSplit ==
  ASSUME NEW rs, IsTable(rs), NEW s, NEW i \in DOMAIN rs, Splits(s, rs, i),
         NEW us, ReplacedAt(rs, i, LeftRegion(rs[i], s.key), us),
         NEW ts, NEW n, AddedTo(us, RightRegion(rs[i], s.key, s.right), ts, n)
  PROVE  Halved(rs, s, i, ts, n)
<1> DEFINE a == LeftRegion(rs[i], s.key)
           b == RightRegion(rs[i], s.key, s.right)
<1>0. /\ IsList(ts) /\ DOMAIN ts = DOMAIN rs \cup {n} /\ n \notin DOMAIN rs
      /\ ts[i] = a /\ ts[n] = b /\ \A j \in DOMAIN rs \ {i} : ts[j] = rs[j]
  BY DEF ReplacedAt, AddedTo
<1>1. /\ IsRegion(a) /\ IsRegion(b) /\ a.id = rs[i].id /\ b.id = s.right
      /\ \A k \in UserKey :
           /\ ContainsKey(a, k) <=> ContainsKey(rs[i], k) /\ k < s.key
           /\ ContainsKey(b, k) <=> ContainsKey(rs[i], k) /\ k >= s.key
  BY HalvesOf DEF Splits, IsTable
<1> HIDE DEF a, b
<1>2. ts # <<>>
  BY <1>0
<1>3. \A j \in DOMAIN ts : IsRegion(ts[j])
  BY <1>0, <1>1 DEF IsTable
<1>4. Ids(ts) = Ids(rs) \cup {s.right}
  <2>1. \A j \in DOMAIN rs : ts[j].id = rs[j].id
    BY <1>0, <1>1
  <2> QED
    BY <1>0, <2>1, <1>1 DEF Ids
<1>5. UniqueIds(ts)
  <2>1. \A j \in DOMAIN rs : ts[j].id = rs[j].id /\ rs[j].id # s.right
    BY <1>0, <1>1 DEF Splits, Ids
  <2>2. ts[n].id = s.right
    BY <1>0, <1>1
  <2> QED
    BY <1>0, <2>1, <2>2 DEF UniqueIds, IsTable
<1>6. PartitionsKeys(ts)
  <2> SUFFICES ASSUME NEW k \in UserKey
               PROVE  \E m \in DOMAIN ts : \A j \in DOMAIN ts : ContainsKey(ts[j], k) <=> m = j
    BY DEF PartitionsKeys
  <2>0. k \in Nat /\ s.key \in Nat
    BY <1>0, MultiAssumption DEF UserKey, Splits
  <2>1. PICK m \in DOMAIN rs : \A j \in DOMAIN rs : ContainsKey(rs[j], k) <=> m = j
    BY DEF IsTable, PartitionsKeys
  <2>2. \A j \in DOMAIN rs \ {i} : ContainsKey(ts[j], k) <=> m = j
    BY <1>0, <2>1
  <2>3. /\ ContainsKey(ts[i], k) <=> m = i /\ k < s.key
        /\ ContainsKey(ts[n], k) <=> m = i /\ k >= s.key
    BY <1>0, <2>1, <1>1
  <2>4. k < s.key <=> ~(k >= s.key)
    BY <2>0
  <2>5. CASE k < s.key \/ m # i
    <3>1. ~ContainsKey(ts[n], k)
      BY <1>0, <2>3, <2>4, <2>5, Zenon
    <3>2. ContainsKey(ts[i], k) <=> m = i
      BY <1>0, <2>3, <2>5, Zenon
    <3>3. ASSUME NEW j \in DOMAIN ts PROVE ContainsKey(ts[j], k) <=> m = j
      <4>1. CASE j = n
        BY <1>0, <3>1, <4>1, Zenon
      <4>2. CASE j # n /\ j # i
        BY <1>0, <2>2, <4>2, Zenon
      <4>3. CASE j = i
        BY <1>0, <3>2, <4>3, Zenon
      <4> QED
        BY <1>0, <4>1, <4>2, <4>3
    <3> QED
      BY <1>0, <3>3, Zenon
  <2>6. CASE k >= s.key /\ m = i
    <3>1. ContainsKey(ts[n], k) /\ ~ContainsKey(ts[i], k)
      BY <1>0, <2>3, <2>4, <2>6, Zenon
    <3>2. ASSUME NEW j \in DOMAIN ts PROVE ContainsKey(ts[j], k) <=> n = j
      <4>1. CASE j = n
        BY <1>0, <3>1, <4>1, Zenon
      <4>2. CASE j # n /\ j # i
        BY <1>0, <2>2, <2>6, <4>2, Zenon
      <4>3. CASE j = i
        BY <1>0, <3>1, <4>3, Zenon
      <4> QED
        BY <1>0, <4>1, <4>2, <4>3
    <3> QED
      BY <1>0, <3>2, Zenon
  <2> QED
    BY <1>0, <2>4, <2>5, <2>6
<1> QED
  BY <1>0, <1>2, <1>3, <1>4, <1>5, <1>6 DEF IsTable, Halved, a, b

-----------------------------------------------------------------------------
\* The ends of requests.

LEMMA RunningFacts ==
  ASSUME ListInv, running
  PROVE  /\ IsTable(regions) /\ catalog.state = "full" /\ catalog.image = regions
         /\ DOMAIN replicas = Ids(regions) /\ LoadRegionCatalog = regions
BY DEF ListInv, LoadRegionCatalog

\* The two outcomes of Save.
LEMMA SaveCases ==
  ASSUME NEW ts, NEW cs, NEW ls, DOMAIN catalog = {"state", "image"}, Save(ts, cs, ls)
  PROVE  /\ split' = NoSplit /\ DOMAIN catalog' = {"state", "image"}
         /\ \/ /\ running' = running /\ regions' = ts /\ replicas' = cs
               /\ catalog'.state = "full" /\ catalog'.image = ts
            \/ /\ running' = FALSE /\ regions' = <<>>
               /\ catalog'.state = "torn" /\ catalog'.image = catalog.image
<1>1. CASE /\ regions' = ts /\ replicas' = cs /\ split' = NoSplit /\ Persist(ts)
  BY <1>1 DEF Persist
<1>2. CASE Stop /\ catalog' = [catalog EXCEPT !.state = "torn"]
  BY <1>2 DEF Stop
<1> QED
  BY <1>1, <1>2 DEF Save

LEMMA SaveList ==
  ASSUME ListInv, running, NEW ts, NEW cs, NEW ls, Save(ts, cs, ls),
         IsTable(ts), DOMAIN cs = Ids(ts)
  PROVE  ListInv'
<1>1. DOMAIN catalog = {"state", "image"}
  BY DEF ListInv
<1>2. CASE /\ running' = running /\ regions' = ts /\ replicas' = cs
           /\ catalog'.state = "full" /\ catalog'.image = ts
  <2>1. split' = NoSplit /\ DOMAIN catalog' = {"state", "image"}
    BY <1>1, SaveCases
  <2> QED
    BY <1>2, <2>1 DEF ListInv
<1>3. CASE /\ running' = FALSE /\ regions' = <<>>
           /\ catalog'.state = "torn" /\ catalog'.image = catalog.image
  <2>1. split' = NoSplit /\ DOMAIN catalog' = {"state", "image"}
    BY <1>1, SaveCases
  <2> QED
    BY <1>3, <2>1 DEF ListInv
<1>4. \/ /\ running' = running /\ regions' = ts /\ replicas' = cs
         /\ catalog'.state = "full" /\ catalog'.image = ts
      \/ /\ running' = FALSE /\ regions' = <<>>
         /\ catalog'.state = "torn" /\ catalog'.image = catalog.image
  BY <1>1, SaveCases
<1> QED
  BY <1>2, <1>3, <1>4

LEMMA IdleIsNoSplit ==
  ASSUME NEW rs, NEW i
  PROVE  ~Splits(NoSplit, rs, i)
BY DEF Splits, NoSplit

LEMMA BaseWeaker ==
  ASSUME NEW rs, NEW G, NEW D, NEW W, NEW Q, NEW S, NEW Q2, NEW S2,
         Weaker(Q, S, Q2, S2), Base(rs, G, D, W, Q, S)
  PROVE  Base(rs, G, D, W, Q2, S2)
BY DEF Base, Weaker

LEMMA LateWeaker ==
  ASSUME NEW rs, NEW P, NEW Q, NEW S, NEW Q2, NEW S2, Weaker(Q, S, Q2, S2),
         \A j \in DOMAIN rs : \A cmd \in P[rs[j].id] : DOMAIN cmd \subseteq UserKey,
         Late(rs, P, Q, S)
  PROVE  Late(rs, P, Q2, S2)
BY DEF Late, Weaker

\* The pending commands of the regions of a list are about user keys.
LEMMA PendingKeys ==
  ASSUME DataTypes, NEW rs, IsTable(rs)
  PROVE  \A j \in DOMAIN rs : \A cmd \in pending[rs[j].id] : DOMAIN cmd \subseteq UserKey
BY DEF DataTypes, IsTable, IsRegion

\* A step after which no split is under way and the list is ts.
LEMMA SettledData ==
  ASSUME DataTypes', split' = NoSplit, NEW ts,
         \/ catalog'.state = "torn"
         \/ /\ catalog'.state = "full" /\ catalog'.image = ts
            /\ Base(ts, {}, data', acked', doubts', strays')
            /\ Late(ts, pending', doubts', strays')
  PROVE  DataInv'
<1>1. \A i \in DOMAIN regions' : ~Splits(split, regions, i)'
  BY IdleIsNoSplit
<1>2. ASSUME catalog'.state # "torn" PROVE (LoadRegionCatalog)' = ts
  BY <1>2 DEF LoadRegionCatalog
<1> QED
  BY <1>1, <1>2 DEF DataInv

LEMMA SaveData ==
  ASSUME ListInv, DataInv, running, NEW ts, NEW cs, NEW ls, Save(ts, cs, ls),
         files' = files, DOMAIN doubts' = UserKey, acked' = acked,
         Base(ts, {}, data, acked, doubts', strays'), Late(ts, pending, doubts', strays')
  PROVE  DataInv'
<1>1. DOMAIN catalog = {"state", "image"}
  BY DEF ListInv
<1>2. split' = NoSplit
  BY <1>1, SaveCases
<1>3. data' = data /\ pending' = pending
  BY DEF files
<1>4. DataTypes'
  BY <1>3 DEF DataInv, DataTypes
<1>5. catalog'.state = "torn" \/ (catalog'.state = "full" /\ catalog'.image = ts)
  BY <1>1, SaveCases
<1>6. /\ Base(ts, {}, data', acked', doubts', strays')
      /\ Late(ts, pending', doubts', strays')
  BY <1>3
<1> QED
  BY <1>2, <1>4, <1>5, <1>6, SettledData

\* A directory holds a region under whatever name its range is listed.
LEMMA BaseSame ==
  ASSUME NEW rs, NEW ts, NEW D, NEW P, NEW W, NEW Q, NEW S, DOMAIN ts = DOMAIN rs,
         \A j \in DOMAIN rs : SameRange(ts[j], rs[j]),
         Base(rs, {}, D, W, Q, S), Late(rs, P, Q, S)
  PROVE  Base(ts, {}, D, W, Q, S) /\ Late(ts, P, Q, S)
<1>1. \A j \in DOMAIN rs : ts[j].id = rs[j].id
  BY DEF SameRange
<1>2. \A j \in DOMAIN rs : \A k : ContainsKey(ts[j], k) <=> ContainsKey(rs[j], k)
  BY DEF SameRange, ContainsKey
<1>3. Base(ts, {}, D, W, Q, S)
  BY <1>1, <1>2 DEF Base
<1>4. Late(ts, P, Q, S)
  BY <1>1, <1>2 DEF Late
<1> QED
  BY <1>3, <1>4

LEMMA IdleData ==
  ASSUME ListInv, DataInv, Request
  PROVE  /\ Base(regions, {}, data, acked, doubts, strays)
         /\ Late(regions, pending, doubts, strays)
         /\ IsTable(regions)
BY RunningFacts DEF DataInv, Request

\* A request that changes region i in everything but its id and range.
LEMMA ManageStep ==
  ASSUME ListInv, Request, NEW i \in DOMAIN regions, NEW r, IsRegion(r),
         SameRange(r, regions[i]), NEW ts, ReplacedAt(regions, i, r, ts),
         NEW cs, NEW ls, DOMAIN cs = DOMAIN replicas, Save(ts, cs, ls),
         files' = files, Fades
  PROVE  ListInv' /\ (DataInv => DataInv')
<1>1. running /\ IsTable(regions) /\ DOMAIN replicas = Ids(regions)
  BY RunningFacts DEF Request
<1>2. /\ IsTable(ts) /\ Ids(ts) = Ids(regions) /\ DOMAIN ts = DOMAIN regions
      /\ \A j \in DOMAIN regions : SameRange(ts[j], regions[j])
  BY <1>1, TableExcept
<1>3. ListInv'
  BY <1>1, <1>2, SaveList
<1>4. ASSUME DataInv PROVE DataInv'
  <2>1. /\ Base(regions, {}, data, acked, doubts, strays)
        /\ Late(regions, pending, doubts, strays)
    BY <1>4, IdleData
  <2>2. Base(ts, {}, data, acked, doubts, strays) /\ Late(ts, pending, doubts, strays)
    BY <1>2, <2>1, BaseSame
  <2>3. /\ Base(ts, {}, data, acked, doubts', strays')
        /\ Late(ts, pending, doubts', strays')
    BY <1>2, <1>4, <2>2, BaseWeaker, LateWeaker, PendingKeys DEF Fades, DataInv
  <2> QED
    BY <1>1, <1>4, <2>3, SaveData DEF Fades, Weaker
<1> QED
  BY <1>3, <1>4

\* A region of replicas is in the list.
LEMMA RegionOf ==
  ASSUME ListInv, running, NEW id \in DOMAIN replicas
  PROVE  /\ Position(id) \in DOMAIN regions /\ IsRegion(regions[Position(id)])
         /\ regions[Position(id)].id = id
<1>1. IsTable(regions) /\ DOMAIN replicas = Ids(regions)
  BY RunningFacts
<1>2. PICK i \in DOMAIN regions : regions[i].id = id
  BY <1>1 DEF Ids
<1>3. Position(id) = i
  BY <1>1, <1>2, PositionOf
<1> QED
  BY <1>1, <1>2, <1>3 DEF IsTable

LEMMA TransferLeaderStep ==
  ASSUME ListInv, NEW id, NEW p, TransferLeader(id, p), Fades
  PROVE  ListInv' /\ (DataInv => DataInv')
<1> DEFINE i == Position(id)
           r == [regions[i] EXCEPT !.leader = p]
           ts == [regions EXCEPT ![i] = r]
<1>1. Request /\ id \in DOMAIN replicas /\ files' = files
  BY DEF TransferLeader, HasPeer
<1>2. i \in DOMAIN regions /\ IsRegion(regions[i]) /\ IsList(regions)
  BY <1>1, RegionOf, RunningFacts DEF Request, IsTable
<1>3. Save(ts, replicas, leaderless \ {id})
  BY DEF TransferLeader
<1>4. IsRegion(r) /\ SameRange(r, regions[i])
  BY <1>2 DEF IsRegion, SameRange, RegionFields
<1> HIDE DEF i, r
<1>5. ReplacedAt(regions, i, r, ts)
  BY <1>2, ListExcept
<1> HIDE DEF ts
<1> QED
  BY <1>1, <1>2, <1>3, <1>4, <1>5, ManageStep

LEMMA AddPeerStep ==
  ASSUME ListInv, NEW id, NEW s, NEW p, AddPeer(id, s, p), Fades
  PROVE  ListInv' /\ (DataInv => DataInv')
<1> DEFINE i == Position(id)
           new == [id |-> p, store |-> s]
           r == [regions[i] EXCEPT !.peers = Append(@, new), !.confVer = @ + 1]
           ts == [regions EXCEPT ![i] = r]
           cs == [replicas EXCEPT ![id] = Append(@, new)]
<1>1. Request /\ id \in DOMAIN replicas /\ files' = files
  BY DEF AddPeer, CanAddPeer
<1>2. i \in DOMAIN regions /\ IsRegion(regions[i]) /\ IsList(regions)
  BY <1>1, RegionOf, RunningFacts DEF Request, IsTable
<1>3. Save(ts, cs, leaderless)
  <2>1. Save([regions EXCEPT ![i].peers = Append(@, new), ![i].confVer = @ + 1], cs,
             leaderless)
    BY DEF AddPeer
  <2>2. [regions EXCEPT ![i].peers = Append(@, new), ![i].confVer = @ + 1] = ts
    BY <1>2 DEF IsRegion, RegionFields
  <2> HIDE DEF ts, cs, i, new
  <2> QED
    BY <2>1, <2>2
<1>4. IsRegion(r) /\ SameRange(r, regions[i])
  BY <1>2 DEF IsRegion, SameRange, RegionFields
<1>5. DOMAIN cs = DOMAIN replicas
  OBVIOUS
<1> HIDE DEF i, r, cs
<1>6. ReplacedAt(regions, i, r, ts)
  BY <1>2, ListExcept
<1> HIDE DEF ts
<1> QED
  BY <1>1, <1>2, <1>3, <1>4, <1>5, <1>6, ManageStep

LEMMA RemovePeerStep ==
  ASSUME ListInv, NEW id, NEW p, RemovePeer(id, p), Fades
  PROVE  ListInv' /\ (DataInv => DataInv')
<1> DEFINE i == Position(id)
           q == regions[i]
           rest == SelectSeq(q.peers, LAMBDA x : x.id # p)
           r == [q EXCEPT !.peers = rest, !.confVer = q.confVer + 1,
                          !.leader = IF q.leader = p /\ rest # <<>> THEN rest[1].id
                                                                    ELSE q.leader]
           ts == [regions EXCEPT ![i] = r]
           left == RemoveFirstMatch(replicas[id], LAMBDA x : x.id = p)
           cs == [replicas EXCEPT ![id] = left]
<1>1. Request /\ id \in DOMAIN replicas /\ files' = files
  BY DEF RemovePeer, CanRemovePeer, HasPeer
<1>2. i \in DOMAIN regions /\ IsRegion(q) /\ IsList(regions)
  BY <1>1, RegionOf, RunningFacts DEF Request, IsTable
<1>3. Save(ts, cs, leaderless)
  BY DEF RemovePeer, Remaining
<1> HIDE DEF rest, left
<1>4. IsRegion(r) /\ SameRange(r, regions[i])
  BY <1>2 DEF IsRegion, SameRange, RegionFields
<1>5. DOMAIN cs = DOMAIN replicas
  OBVIOUS
<1> HIDE DEF i, r, cs, q
<1>6. ReplacedAt(regions, i, r, ts)
  BY <1>2, ListExcept
<1> HIDE DEF ts
<1> QED
  BY <1>1, <1>2, <1>3, <1>4, <1>5, <1>6, ManageStep

-----------------------------------------------------------------------------
\* Steps that leave the list and the catalog alone.

SameTables == UNCHANGED <<running, regions, replicas, catalog>>

LEMMA SameList ==
  ASSUME ListInv, SameTables, running,
         split' # NoSplit => \E i \in DOMAIN regions : Splits(split', regions, i)
  PROVE  ListInv'
BY DEF ListInv, SameTables

\* The one region that a split works on.
LEMMA SplitRegionOf ==
  ASSUME ListInv, split.pc # "idle"
  PROVE  /\ running /\ split # NoSplit /\ Position(split.id) \in DOMAIN regions
         /\ Splits(split, regions, Position(split.id))
         /\ \A i \in DOMAIN regions : Splits(split, regions, i) => i = Position(split.id)
<1>1. split # NoSplit
  BY DEF NoSplit
<1>2. running
  BY <1>1 DEF ListInv
<1>3. PICK i \in DOMAIN regions : Splits(split, regions, i)
  BY <1>1 DEF ListInv
<1>4. IsTable(regions)
  BY <1>2, RunningFacts
<1>5. \A j \in DOMAIN regions : Splits(split, regions, j) => j = Position(split.id)
  BY <1>4, PositionOf DEF Splits
<1> QED
  BY <1>1, <1>2, <1>3, <1>5

\* The split goes on to another of its steps.
LEMMA SplitGoesOn ==
  ASSUME ListInv, SameTables, split.pc # "idle", DOMAIN split' = DOMAIN split,
         split'.pc \in {"export", "puts", "deletes", "install"},
         split'.id = split.id, split'.key = split.key, split'.right = split.right
  PROVE  /\ ListInv'
         /\ \A i \in DOMAIN regions' :
              Splits(split, regions, i)' => i = Position(split.id)
<1>1. /\ running /\ Position(split.id) \in DOMAIN regions
      /\ Splits(split, regions, Position(split.id))
      /\ \A i \in DOMAIN regions : Splits(split, regions, i) => i = Position(split.id)
  BY SplitRegionOf
<1>2. \A i \in DOMAIN regions : Splits(split, regions, i) => Splits(split', regions, i)
  BY DEF Splits
<1>3. ListInv'
  BY <1>1, <1>2, SameList
<1>4. split'.pc # "idle" /\ split' # NoSplit
  BY DEF NoSplit
<1>5. ASSUME NEW i \in DOMAIN regions, Splits(split', regions, i)
      PROVE  i = Position(split.id)
  <2>1. IsTable(regions) /\ regions[i].id = split.id
    BY <1>1, <1>5, RunningFacts DEF Splits
  <2> QED
    BY <2>1, PositionOf
<1> QED
  BY <1>3, <1>5 DEF SameTables

LEMMA NewIdIsNew ==
  ASSUME IsTable(regions), NextRegionId \in RegionId
  PROVE  NextRegionId \in RegionId \ Ids(regions)
<1> DEFINE S == {regions[j].id : j \in DOMAIN regions}
<1>1. S \in SUBSET Nat /\ \A x \in S : x <= MaxRegion
  BY MultiAssumption DEF IsTable, IsRegion, RegionId
<1>2. S # {}
  <2>1. DOMAIN regions # {}
    BY ListDomain DEF IsTable, IsList
  <2> QED
    BY <2>1
<1>3. Max(S) \in S /\ \A y \in S : Max(S) >= y
  BY <1>1, <1>2, MaxOfBoundedNats, MultiAssumption
<1> HIDE DEF S
<1>4. Max(S) + 1 \notin S
  <2>1. Max(S) \in Nat
    BY <1>1, <1>3
  <2> QED
    BY <1>3, <2>1
<1> QED
  BY <1>4 DEF NextRegionId, Ids, S

LEMMA SplitRegionStep ==
  ASSUME ListInv, NEW id, NEW k \in UserKey, SplitRegion(id, k)
  PROVE  ListInv'
<1>1. running /\ IsTable(regions)
  BY RunningFacts DEF SplitRegion, Request
<1>2. PICK i \in DOMAIN regions : regions[i].id = id /\ ContainsKey(regions[i], k)
  BY DEF SplitRegion, CanSplit
<1>3. NextRegionId \in RegionId \ Ids(regions)
  BY <1>1, NewIdIsNew DEF SplitRegion
<1>4. /\ split'.pc = "export" /\ split'.id = id /\ split'.key = k
      /\ split'.right = NextRegionId /\ DOMAIN split' = DOMAIN NoSplit
  BY DEF SplitRegion, NoSplit
<1>5. Splits(split', regions, i)
  BY <1>2, <1>3, <1>4 DEF Splits
<1>6. SameTables
  BY DEF SplitRegion, SameTables, tables
<1> QED
  BY <1>1, <1>5, <1>6, SameList

LEMMA SplitFailsList ==
  ASSUME ListInv, SplitFails
  PROVE  ListInv'
<1>1. split.pc # "idle" /\ SameTables /\ split' = NoSplit
  BY DEF SplitFails, SameTables, tables
<1> QED
  BY <1>1, SplitRegionOf, SameList

LEMMA WriteList ==
  ASSUME ListInv, NEW x, Write(x) \/ WriteFails(x) \/ ComesUp(x) \/ ClusterFails(x)
  PROVE  ListInv'
<1>1. SameTables /\ running /\ split' = split
  BY DEF Write, WriteFails, ComesUp, ClusterFails, Request, SameTables, tables
<1> QED
  BY <1>1, SameList DEF ListInv

LEMMA RemovePeerFailsList ==
  ASSUME ListInv, NEW id, NEW p, RemovePeerFails(id, p)
  PROVE  ListInv'
<1>1. /\ UNCHANGED <<running, regions, catalog, split>>
      /\ DOMAIN replicas' = DOMAIN replicas
  BY DEF RemovePeerFails, Remaining
<1> QED
  BY <1>1 DEF ListInv

LEMMA ProgressList ==
  ASSUME ListInv, Export \/ PutRight \/ DeleteLeft
  PROVE  ListInv'
<1>1. /\ SameTables /\ split.pc \in {"export", "puts", "deletes"}
  BY DEF Export, PutRight, DeleteLeft, SameTables, tables
<1>2. split.pc # "idle"
  BY <1>1
<1>3. DOMAIN split = {"pc", "id", "key", "right", "moved"}
  BY <1>2, SplitRegionOf DEF Splits, NoSplit
<1>4. /\ DOMAIN split' = DOMAIN split /\ split'.pc \in {"export", "puts", "deletes", "install"}
      /\ split'.id = split.id /\ split'.key = split.key /\ split'.right = split.right
  BY <1>3 DEF Export, PutRight, DeleteLeft
<1> QED
  BY <1>1, <1>2, <1>4, SplitGoesOn

-----------------------------------------------------------------------------
\* The end of a split, starts and crashes.

\* What Install makes of the list.
Installed(ts, n) == Halved(regions, split, Position(split.id), ts, n)

LEMMA InstallFacts ==
  ASSUME ListInv, Install
  PROVE  /\ running /\ split.pc = "install" /\ files' = files
         /\ \E ts, n, cs :
              Installed(ts, n) /\ Save(ts, cs, leaderless) /\ DOMAIN cs = DOMAIN replicas \cup {split.right}
<1> DEFINE i == Position(split.id)
           a == LeftRegion(regions[i], split.key)
           b == RightRegion(regions[i], split.key, split.right)
           us == [regions EXCEPT ![i] = a]
           ts == us \o <<b>>
           n == Len(us) + 1
           cs == [id \in DOMAIN replicas \cup {split.right} |->
                    IF id = split.right THEN NewReplicas ELSE replicas[id]]
<1>1. split.pc = "install" /\ files' = files /\ Save(ts, cs, leaderless)
  BY DEF Install
<1>2. running /\ i \in DOMAIN regions /\ Splits(split, regions, i)
  BY <1>1, SplitRegionOf
<1>3. IsTable(regions) /\ IsList(regions)
  BY <1>2, RunningFacts DEF IsTable
<1>4. DOMAIN cs = DOMAIN replicas \cup {split.right}
  OBVIOUS
<1> HIDE DEF i, cs
<1>5. ReplacedAt(regions, i, a, us)
  BY <1>2, <1>3, ListExcept
<1> HIDE DEF us
<1>6. AddedTo(us, b, ts, n)
  <2>1. IsList(us)
    BY <1>5 DEF ReplacedAt
  <2> QED
    BY <2>1, ListAppend
<1> HIDE DEF ts, n
<1>7. Halved(regions, split, i, ts, n)
  BY <1>2, <1>3, <1>5, <1>6, TableSplit
<1>8. Installed(ts, n)
  BY <1>7 DEF Installed, i
<1> QED
  BY <1>1, <1>2, <1>4, <1>8

LEMMA InstallList ==
  ASSUME ListInv, Install
  PROVE  ListInv'
<1>1. PICK ts, n, cs :
        Installed(ts, n) /\ Save(ts, cs, leaderless) /\ DOMAIN cs = DOMAIN replicas \cup {split.right}
  BY InstallFacts
<1>2. running /\ DOMAIN replicas = Ids(regions)
  BY InstallFacts, RunningFacts
<1>3. IsTable(ts) /\ DOMAIN cs = Ids(ts)
  BY <1>1, <1>2 DEF Installed, Halved
<1> QED
  BY <1>1, <1>2, <1>3, SaveList

LEMMA DefaultTable == IsTable(<<DefaultRegion>>)
<1> DEFINE rs == <<DefaultRegion>>
<1>1. IsList(rs) /\ rs # <<>> /\ DOMAIN rs = {1} /\ rs[1] = DefaultRegion
  BY DEF IsList
<1>2. IsRegion(DefaultRegion)
  BY MultiAssumption DEF IsRegion, RegionFields, DefaultRegion, RegionId, Unbounded
<1>3. \A k \in UserKey : ContainsKey(DefaultRegion, k)
  BY MultiAssumption DEF ContainsKey, DefaultRegion, UserKey, Unbounded
<1> HIDE DEF rs
<1>4. UniqueIds(rs) /\ PartitionsKeys(rs)
  BY <1>1, <1>3 DEF UniqueIds, PartitionsKeys
<1>5. IsTable(rs)
  BY <1>1, <1>2, <1>4 DEF IsTable
<1> QED
  BY <1>5 DEF rs

LEMMA LoadedTable ==
  ASSUME ListInv, CanLoadCatalog
  PROVE  IsTable(LoadRegionCatalog)
BY DefaultTable DEF ListInv, CanLoadCatalog, LoadRegionCatalog

LEMMA StartFacts ==
  ASSUME ListInv, Start
  PROVE  /\ running' = TRUE /\ split' = NoSplit /\ files' = files
         /\ regions' = LoadRegionCatalog /\ IsTable(regions')
         /\ DOMAIN replicas' = Ids(regions')
         /\ catalog' = [state |-> "full", image |-> regions']
         /\ CanLoadCatalog
<1>1. ~running /\ split = NoSplit /\ CanLoadCatalog /\ split' = split
  BY DEF Start, ListInv
<1>2. IsTable(regions')
  BY <1>1, LoadedTable DEF Start
<1>3. {r.id : r \in Range(regions')} = Ids(regions')
  BY DEF Ids, Range
<1> QED
  BY <1>1, <1>2, <1>3 DEF Start

LEMMA StartList ==
  ASSUME ListInv, Start
  PROVE  ListInv'
<1>1. /\ running' = TRUE /\ split' = NoSplit /\ IsTable(regions')
      /\ DOMAIN replicas' = Ids(regions')
      /\ DOMAIN catalog' = {"state", "image"}
      /\ catalog'.state = "full" /\ catalog'.image = regions'
  BY StartFacts
<1> QED
  BY <1>1 DEF ListInv

LEMMA StartDiesList ==
  ASSUME ListInv, StartDies
  PROVE  ListInv'
BY DEF ListInv, StartDies

LEMMA CrashList ==
  ASSUME ListInv, Crash
  PROVE  ListInv'
BY DEF ListInv, Crash, Stop

LEMMA ListInit ==
  ASSUME Init
  PROVE  ListInv
BY DEF Init, ListInv

-----------------------------------------------------------------------------
\* Steps of the data.

LEMMA CommandKeys ==
  ASSUME NEW cmd \in Commands
  PROVE  DOMAIN cmd \subseteq UserKey
<1>1. PICK ks \in {{k} : k \in UserKey} \cup {{k, k + 1} : k \in 1 .. MaxKey - 1} :
        cmd \in [ks -> Value \cup {NoValue}]
  BY DEF Commands
<1>2. ks \subseteq UserKey
  <2>1. CASE ks \in {{k} : k \in UserKey}
    BY <2>1
  <2>2. CASE ks \in {{k, k + 1} : k \in 1 .. MaxKey - 1}
    <3>1. PICK k \in 1 .. MaxKey - 1 : ks = {k, k + 1}
      BY <2>2
    <3>2. k \in UserKey /\ k + 1 \in UserKey
      BY MultiAssumption DEF UserKey
    <3> QED
      BY <3>1, <3>2
  <2> QED
    BY <1>1, <2>1, <2>2
<1> QED
  BY <1>1, <1>2

\* A directory after a command, and the others.
LEMMA MutateOne ==
  ASSUME NEW D, DOMAIN D = RegionId, \A x \in RegionId : DOMAIN D[x] = UserKey,
         NEW id \in RegionId, NEW cmd
  PROVE  LET E == [D EXCEPT ![id] = Mutate(@, cmd)]
         IN  /\ DOMAIN E = RegionId /\ \A x \in RegionId : DOMAIN E[x] = UserKey
             /\ \A x \in RegionId \ {id} : E[x] = D[x]
             /\ \A k \in UserKey : E[id][k] = IF k \in DOMAIN cmd THEN cmd[k] ELSE D[id][k]
BY DEF Mutate

\* A step in which a split goes on.
LEMMA SplitData ==
  ASSUME SameTables, split'.pc # "idle", DataTypes', NEW i,
         \A j \in DOMAIN regions' : Splits(split, regions, j)' => j = i,
         Base(regions, Gone(regions, split', i), data', acked', doubts', strays'),
         Late(regions, pending', doubts', strays'),
         Moving(regions, split', i, data', pending', acked', doubts', strays')
  PROVE  DataInv'
<1>1. split' # NoSplit /\ regions' = regions
  BY DEF NoSplit, SameTables
<1> QED
  BY <1>1 DEF DataInv

\* What a split relies on while it moves the keys.
LEMMA SplitFacts ==
  ASSUME ListInv, DataInv, split.pc # "idle", NEW i, i = Position(split.id)
  PROVE  /\ Base(regions, Gone(regions, split, i), data, acked, doubts, strays)
         /\ Late(regions, pending, doubts, strays)
         /\ Moving(regions, split, i, data, pending, acked, doubts, strays)
         /\ i \in DOMAIN regions /\ Splits(split, regions, i) /\ IsTable(regions)
         /\ DOMAIN split = {"pc", "id", "key", "right", "moved"}
         /\ regions[i].id = split.id /\ split.id \in RegionId
         /\ split.right \in RegionId /\ split.right # split.id
         /\ \A j \in DOMAIN regions : regions[j].id # split.right /\ regions[j].id \in RegionId
         /\ \A j \in DOMAIN regions \ {i} : regions[j].id # split.id
<1>1. i \in DOMAIN regions /\ Splits(split, regions, i) /\ running
  BY SplitRegionOf
<1>2. IsTable(regions)
  BY <1>1, RunningFacts
<1>3. /\ Base(regions, Gone(regions, split, i), data, acked, doubts, strays)
      /\ Late(regions, pending, doubts, strays)
      /\ Moving(regions, split, i, data, pending, acked, doubts, strays)
  BY <1>1 DEF DataInv
<1>4. \A j \in DOMAIN regions : regions[j].id \in RegionId
  BY <1>2 DEF IsTable, IsRegion
<1>5. /\ DOMAIN split = {"pc", "id", "key", "right", "moved"} /\ regions[i].id = split.id
      /\ split.right \in RegionId /\ \A j \in DOMAIN regions : regions[j].id # split.right
  BY <1>1 DEF Splits, NoSplit, Ids
<1>6. \A j \in DOMAIN regions \ {i} : regions[j].id # split.id
  BY <1>1, <1>2, <1>5 DEF IsTable, UniqueIds
<1> QED
  BY <1>1, <1>2, <1>3, <1>4, <1>5, <1>6

LEMMA MovingWeaker ==
  ASSUME NEW rs, NEW s, NEW i, NEW D, NEW P, NEW W, NEW Q, NEW S, NEW Q2, NEW S2,
         Weaker(Q, S, Q2, S2), Moving(rs, s, i, D, P, W, Q, S)
  PROVE  Moving(rs, s, i, D, P, W, Q2, S2)
BY DEF Moving, Weaker

LEMMA SplitRegionData ==
  ASSUME ListInv, DataInv, NEW id, NEW k \in UserKey, SplitRegion(id, k), Fades
  PROVE  DataInv'
<1>1. /\ running /\ IsTable(regions) /\ SameTables /\ Request
  BY RunningFacts DEF SplitRegion, Request, SameTables, tables
<1>2. PICK i \in DOMAIN regions : regions[i].id = id /\ ContainsKey(regions[i], k)
  BY DEF SplitRegion, CanSplit
<1>3. NextRegionId \in RegionId \ Ids(regions)
  BY <1>1, NewIdIsNew DEF SplitRegion
<1>4. split'.pc = "export" /\ split'.id = id /\ split'.right = NextRegionId
  BY DEF SplitRegion, NoSplit
<1>5. /\ DOMAIN data = RegionId /\ \A x \in RegionId : DOMAIN data[x] = UserKey
      /\ DOMAIN pending = RegionId
      /\ \A x \in RegionId : \A cmd \in pending[x] : DOMAIN cmd \subseteq UserKey
      /\ DOMAIN acked = UserKey
  BY DEF DataInv, DataTypes
<1>6. /\ DOMAIN data' = RegionId /\ data'[NextRegionId] = Empty
      /\ \A x \in RegionId \ {NextRegionId} : data'[x] = data[x]
  BY <1>3, <1>5 DEF SplitRegion, ResetRight
<1>7. /\ DOMAIN pending' = RegionId /\ pending'[NextRegionId] = {}
      /\ \A x \in RegionId \ {NextRegionId} : pending'[x] = pending[x]
  BY <1>3, <1>5 DEF SplitRegion
<1>8. DataTypes'
  <2>1. \A x \in RegionId : DOMAIN data'[x] = UserKey
    BY <1>5, <1>6 DEF Empty
  <2>2. \A x \in RegionId : \A cmd \in pending'[x] : DOMAIN cmd \subseteq UserKey
    BY <1>5, <1>7
  <2> QED
    BY <1>5, <1>6, <1>7, <2>1, <2>2 DEF DataTypes, Fades, Weaker
<1>9. ASSUME NEW j \in DOMAIN regions', Splits(split, regions, j)' PROVE j = i
  BY <1>1, <1>2, <1>4, <1>9 DEF Splits, SameTables, IsTable, UniqueIds
<1>10. \A j \in DOMAIN regions : /\ data'[regions[j].id] = data[regions[j].id]
                                 /\ pending'[regions[j].id] = pending[regions[j].id]
  BY <1>1, <1>3, <1>6, <1>7 DEF Ids, IsTable, IsRegion
<1>11. /\ Base(regions, {}, data, acked, doubts', strays')
       /\ Late(regions, pending, doubts', strays')
  <2>1. /\ Base(regions, {}, data, acked, doubts, strays)
        /\ Late(regions, pending, doubts, strays)
    BY <1>1, IdleData
  <2> QED
    BY <1>1, <2>1, BaseWeaker, LateWeaker, PendingKeys DEF Fades, DataInv
<1>12. Base(regions, Gone(regions, split', i), data', acked', doubts', strays')
  BY <1>10, <1>11 DEF Base, Fades
<1>13. Late(regions, pending', doubts', strays')
  BY <1>10, <1>11 DEF Late
<1>14. \A x \in UserKey : data'[split'.right][x] = NoValue
  BY <1>4, <1>6 DEF Empty
<1>15. Moving(regions, split', i, data', pending', acked', doubts', strays')
  BY <1>4, <1>7, <1>14 DEF Moving
<1>16. split'.pc # "idle"
  BY <1>4
<1> QED
  BY <1>1, <1>8, <1>9, <1>12, <1>13, <1>15, <1>16, SplitData

\* What Doubt does to the histories.
LEMMA DoubtFades ==
  ASSUME DataTypes, NEW ks, NEW why, Doubt(ks, why), strays \subseteq strays'
  PROVE  /\ Weaker(doubts, strays, doubts', strays')
         /\ \A k \in UserKey \cap ks : why \in doubts'[k]
BY DEF DataTypes, Doubt, Weaker

\* The next value of strays.
StraysNext == strays' = strays \cup {k \in UserKey : doubts'[k] \ {"cut short"} # {}}

LEMMA StraysGrow ==
  ASSUME StraysNext
  PROVE  strays \subseteq strays'
BY DEF StraysNext

LEMMA ExportData ==
  ASSUME ListInv, DataInv, Export, acked' = acked, StraysNext,
         Doubt(IF split.id \in leaderless THEN Kept \ Reserved ELSE {}, "leaderless")
  PROVE  DataInv'
<1> DEFINE i == Position(split.id)
           ks == IF split.id \in leaderless THEN Kept \ Reserved ELSE {}
<1>1. /\ split.pc = "export" /\ split.pc # "idle" /\ SameTables
      /\ data' = data /\ pending' = pending
  BY DEF Export, SameTables, tables, files
<1>2. /\ Base(regions, Gone(regions, split, i), data, acked, doubts, strays)
      /\ Late(regions, pending, doubts, strays)
      /\ Moving(regions, split, i, data, pending, acked, doubts, strays)
      /\ DOMAIN split = {"pc", "id", "key", "right", "moved"}
      /\ regions[i].id = split.id /\ IsTable(regions) /\ i \in DOMAIN regions
  BY <1>1, SplitFacts
<1>3. DataTypes
  BY DEF DataInv
<1>4. Weaker(doubts, strays, doubts', strays') /\ \A k \in UserKey \cap ks : "leaderless" \in doubts'[k]
  BY <1>3, DoubtFades, StraysGrow
<1>5. /\ split'.pc = "puts" /\ DOMAIN split' = DOMAIN split /\ split'.id = split.id
      /\ split'.key = split.key /\ split'.right = split.right
      /\ split'.moved = [k \in UserKey |->
           IF Migrates(regions[i], split.key, k) /\ split.id \notin leaderless
           THEN data[split.id][k] ELSE NoValue]
  BY <1>2 DEF Export, Exported
<1>6. ASSUME NEW k \in UserKey, Migrates(regions[i], split.key, k),
             split.id \in leaderless, data[split.id][k] # NoValue
      PROVE  doubts'[k] # {} /\ k \in strays'
  <2>1. k \in ks
    BY <1>6 DEF Kept, MovingHalf, Migrates
  <2>2. "leaderless" \in doubts'[k]
    BY <1>4, <2>1
  <2>3. k \in {x \in UserKey : doubts'[x] \ {"cut short"} # {}}
    <3> HIDE DEF i, ks
    <3>1. "leaderless" \in doubts'[k] \ {"cut short"}
      BY <2>2
    <3> QED
      BY <1>6, <3>1
  <2> HIDE DEF i, ks
  <2> QED
    BY <2>2, <2>3 DEF StraysNext
<1> HIDE DEF i, ks
<1>7. \A j \in DOMAIN regions' : Splits(split, regions, j)' => j = i
  BY <1>1, <1>5, SplitGoesOn DEF i
<1>8. /\ Base(regions, Gone(regions, split, i), data, acked, doubts', strays')
      /\ Late(regions, pending, doubts', strays')
      /\ Moving(regions, split, i, data, pending, acked, doubts', strays')
  BY <1>2, <1>3, <1>4, BaseWeaker, LateWeaker, MovingWeaker, PendingKeys
<1>9. Base(regions, Gone(regions, split', i), data', acked', doubts', strays')
  <2>1. Gone(regions, split, i) = {} /\ Gone(regions, split', i) = {}
    BY <1>1, <1>5 DEF Gone
  <2> QED
    BY <1>1, <1>8, <2>1
<1>10. Moving(regions, split', i, data', pending', acked', doubts', strays')
  <2>1. /\ pending'[split'.right] = {}
        /\ \A k \in UserKey : data'[split'.right][k] = NoValue
    BY <1>1, <1>5, <1>8 DEF Moving
  <2>2. ASSUME NEW k \in UserKey
        PROVE  /\ ~Migrates(regions[i], split.key, k) => split'.moved[k] = NoValue
               /\ Migrates(regions[i], split.key, k) /\ doubts'[k] = {} =>
                    split'.moved[k] = acked[k]
               /\ Migrates(regions[i], split.key, k) /\ k \notin strays'
                    /\ split'.moved[k] = NoValue => data[split.id][k] = NoValue
    <3>1. ContainsKey(regions[i], k) /\ doubts'[k] = {} => data[split.id][k] = acked[k]
      <4>1. k \notin Gone(regions, split, i)
        BY <1>1 DEF Gone
      <4> QED
        BY <1>2, <1>8, <4>1 DEF Base
    <3>2. split'.moved[k] = IF Migrates(regions[i], split.key, k) /\ split.id \notin leaderless
                            THEN data[split.id][k] ELSE NoValue
      BY <1>5
    <3>3. Migrates(regions[i], split.key, k) => ContainsKey(regions[i], k)
      BY DEF Migrates
    <3> QED
      BY <1>6, <3>1, <3>2, <3>3
  <2> QED
    BY <1>1, <1>5, <2>1, <2>2 DEF Moving
<1>11. DataTypes' /\ split'.pc # "idle"
  BY <1>1, <1>3, <1>4, <1>5 DEF DataTypes, Weaker
<1> QED
  BY <1>1, <1>7, <1>8, <1>9, <1>10, <1>11, SplitData

LEMMA UnchangedFades ==
  ASSUME DataTypes, doubts' = doubts, StraysNext
  PROVE  Weaker(doubts, strays, doubts', strays')
BY DEF DataTypes, Weaker, StraysNext

\* A batch of a split: what it makes of the directory.
LEMMA BatchFacts ==
  ASSUME DataTypes, NEW id \in RegionId, NEW cmd, Batch(id, cmd)
  PROVE  /\ DOMAIN data' = RegionId /\ \A x \in RegionId : DOMAIN data'[x] = UserKey
         /\ \A x \in RegionId \ {id} : data'[x] = data[x] /\ pending'[x] = pending[x]
         /\ \A k \in UserKey : data'[id][k] = IF k \in DOMAIN cmd THEN cmd[k] ELSE data[id][k]
         /\ DOMAIN pending' = RegionId /\ pending'[id] \subseteq pending[id]
<1>1. /\ DOMAIN data = RegionId /\ \A x \in RegionId : DOMAIN data[x] = UserKey
      /\ DOMAIN pending = RegionId
  BY DEF DataTypes
<1>2. CASE DOMAIN cmd = {}
  <2>1. data' = data /\ pending' = pending
    BY <1>2 DEF Batch, files
  <2> QED
    BY <1>1, <1>2, <2>1
<1>3. CASE DOMAIN cmd # {}
  <2>1. /\ data' = [data EXCEPT ![id] = Mutate(@, cmd)]
        /\ pending' = [pending EXCEPT ![id] = {}]
    BY <1>3 DEF Batch, Commits
  <2>2. /\ DOMAIN pending' = RegionId /\ pending'[id] = {}
        /\ \A x \in RegionId \ {id} : pending'[x] = pending[x]
    BY <1>1, <2>1
  <2> QED
    BY <1>1, <2>1, <2>2, MutateOne
<1> QED
  BY <1>2, <1>3

LEMMA PutRightData ==
  ASSUME ListInv, DataInv, PutRight, acked' = acked, doubts' = doubts, StraysNext
  PROVE  DataInv'
<1> DEFINE i == Position(split.id)
<1>1. split.pc = "puts" /\ split.pc # "idle" /\ SameTables /\ Batch(split.right, Puts)
  BY DEF PutRight, SameTables, tables
<1> HIDE DEF i
<1>2. /\ Base(regions, Gone(regions, split, i), data, acked, doubts, strays)
      /\ Late(regions, pending, doubts, strays)
      /\ Moving(regions, split, i, data, pending, acked, doubts, strays)
      /\ DOMAIN split = {"pc", "id", "key", "right", "moved"}
      /\ regions[i].id = split.id /\ split.id \in RegionId /\ IsTable(regions)
      /\ split.right \in RegionId /\ split.right # split.id
      /\ \A j \in DOMAIN regions : regions[j].id # split.right /\ regions[j].id \in RegionId
  BY <1>1, SplitFacts DEF i
<1>3. /\ split'.pc = "deletes" /\ DOMAIN split' = DOMAIN split /\ split'.id = split.id
      /\ split'.key = split.key /\ split'.right = split.right /\ split'.moved = split.moved
  BY <1>2 DEF PutRight
<1>4. \A j \in DOMAIN regions' : Splits(split, regions, j)' => j = i
  BY <1>1, <1>3, SplitGoesOn DEF i
<1>5. DataTypes
  BY DEF DataInv
<1>6. /\ DOMAIN data' = RegionId /\ \A x \in RegionId : DOMAIN data'[x] = UserKey
      /\ \A x \in RegionId \ {split.right} : data'[x] = data[x] /\ pending'[x] = pending[x]
      /\ \A k \in UserKey : data'[split.right][k] =
           IF k \in DOMAIN Puts THEN Puts[k] ELSE data[split.right][k]
      /\ DOMAIN pending' = RegionId /\ pending'[split.right] \subseteq pending[split.right]
  BY <1>1, <1>2, <1>5, BatchFacts
<1>7. \A k \in UserKey : data'[split.right][k] = split.moved[k]
  <2>1. \A k \in UserKey : data[split.right][k] = NoValue
    BY <1>1, <1>2 DEF Moving
  <2> QED
    BY <1>6, <2>1 DEF Moved, Puts
<1>8. \A j \in DOMAIN regions : /\ data'[regions[j].id] = data[regions[j].id]
                                /\ pending'[regions[j].id] = pending[regions[j].id]
  BY <1>2, <1>6
<1>9. Weaker(doubts, strays, doubts', strays')
  BY <1>5, UnchangedFades
<1>10. /\ Base(regions, Gone(regions, split, i), data, acked, doubts', strays')
       /\ Late(regions, pending, doubts', strays')
       /\ Moving(regions, split, i, data, pending, acked, doubts', strays')
  BY <1>2, <1>5, <1>9, BaseWeaker, LateWeaker, MovingWeaker, PendingKeys
<1>11. Base(regions, Gone(regions, split', i), data', acked', doubts', strays')
  <2>1. Gone(regions, split, i) = {} /\ Gone(regions, split', i) = {}
    BY <1>1, <1>3 DEF Gone
  <2> QED
    BY <1>8, <1>10, <2>1 DEF Base
<1>12. Late(regions, pending', doubts', strays')
  BY <1>8, <1>10 DEF Late
<1>13. Moving(regions, split', i, data', pending', acked', doubts', strays')
  <2>1. pending'[split.right] = {} /\ data'[split.id] = data[split.id]
    BY <1>2, <1>6 DEF Moving
  <2> QED
    BY <1>1, <1>3, <1>7, <1>10, <2>1 DEF Moving
<1>14. DataTypes' /\ split'.pc # "idle"
  <2>1. \A x \in RegionId : pending'[x] \subseteq pending[x]
    BY <1>2, <1>6
  <2> QED
    BY <1>3, <1>5, <1>6, <2>1 DEF DataTypes
<1> QED
  BY <1>1, <1>4, <1>11, <1>12, <1>13, <1>14, SplitData

LEMMA DeleteLeftData ==
  ASSUME ListInv, DataInv, DeleteLeft, acked' = acked, doubts' = doubts, StraysNext
  PROVE  DataInv'
<1> DEFINE i == Position(split.id)
<1>1. split.pc = "deletes" /\ split.pc # "idle" /\ SameTables /\ Batch(split.id, Deletes)
  BY DEF DeleteLeft, SameTables, tables
<1> HIDE DEF i
<1>2. /\ Base(regions, Gone(regions, split, i), data, acked, doubts, strays)
      /\ Late(regions, pending, doubts, strays)
      /\ Moving(regions, split, i, data, pending, acked, doubts, strays)
      /\ DOMAIN split = {"pc", "id", "key", "right", "moved"}
      /\ i \in DOMAIN regions
      /\ regions[i].id = split.id /\ split.id \in RegionId /\ IsTable(regions)
      /\ split.right \in RegionId /\ split.right # split.id
      /\ \A j \in DOMAIN regions : regions[j].id # split.right /\ regions[j].id \in RegionId
      /\ \A j \in DOMAIN regions \ {i} : regions[j].id # split.id
  BY <1>1, SplitFacts DEF i
<1>3. /\ split'.pc = "install" /\ DOMAIN split' = DOMAIN split /\ split'.id = split.id
      /\ split'.key = split.key /\ split'.right = split.right /\ split'.moved = split.moved
  BY <1>2 DEF DeleteLeft
<1>4. \A j \in DOMAIN regions' : Splits(split, regions, j)' => j = i
  BY <1>1, <1>3, SplitGoesOn DEF i
<1>5. DataTypes
  BY DEF DataInv
<1>6. /\ DOMAIN data' = RegionId /\ \A x \in RegionId : DOMAIN data'[x] = UserKey
      /\ \A x \in RegionId \ {split.id} : data'[x] = data[x] /\ pending'[x] = pending[x]
      /\ \A k \in UserKey : data'[split.id][k] =
           IF k \in DOMAIN Deletes THEN Deletes[k] ELSE data[split.id][k]
      /\ DOMAIN pending' = RegionId /\ pending'[split.id] \subseteq pending[split.id]
  BY <1>1, <1>2, <1>5, BatchFacts
<1>7. \A k \in UserKey : data'[split.id][k] =
        IF split.moved[k] # NoValue THEN NoValue ELSE data[split.id][k]
  BY <1>6 DEF Moved, Deletes
<1>8. Weaker(doubts, strays, doubts', strays')
  BY <1>5, UnchangedFades
<1>9. /\ Base(regions, Gone(regions, split, i), data, acked, doubts', strays')
      /\ Late(regions, pending, doubts', strays')
      /\ Moving(regions, split, i, data, pending, acked, doubts', strays')
  BY <1>2, <1>5, <1>8, BaseWeaker, LateWeaker, MovingWeaker, PendingKeys
<1>10. \A x \in RegionId : pending'[x] \subseteq pending[x]
  BY <1>2, <1>6
<1>11. Late(regions, pending', doubts', strays')
  BY <1>2, <1>9, <1>10 DEF Late
<1>12. ASSUME NEW k \in UserKey
       PROVE  /\ ~Migrates(regions[i], split.key, k) => split.moved[k] = NoValue
              /\ Migrates(regions[i], split.key, k) /\ doubts'[k] = {} =>
                   split.moved[k] = acked[k] /\ data[split.id][k] = acked[k]
              /\ Migrates(regions[i], split.key, k) /\ k \notin strays'
                   /\ split.moved[k] = NoValue => data[split.id][k] = NoValue
              /\ data[split.right][k] = split.moved[k]
  <2>1. k \notin Gone(regions, split, i)
    BY <1>1 DEF Gone
  <2>2. Migrates(regions[i], split.key, k) => ContainsKey(regions[i], k)
    BY DEF Migrates
  <2>3. ContainsKey(regions[i], k) /\ doubts'[k] = {} => data[split.id][k] = acked[k]
    BY <1>2, <1>9, <2>1 DEF Base
  <2> QED
    BY <1>1, <1>9, <2>2, <2>3 DEF Moving
<1>13. Base(regions, Gone(regions, split', i), data', acked', doubts', strays')
  <2> SUFFICES ASSUME NEW j \in DOMAIN regions, NEW k \in UserKey
               PROVE  /\ ~ContainsKey(regions[j], k) /\ k \notin strays' =>
                           data'[regions[j].id][k] = NoValue
                      /\ ContainsKey(regions[j], k) /\ doubts'[k] = {}
                           /\ k \notin Gone(regions, split', i) =>
                           data'[regions[j].id][k] = acked[k]
    BY DEF Base
  <2>1. k \notin Gone(regions, split, i)
    BY <1>1 DEF Gone
  <2>2. /\ ~ContainsKey(regions[j], k) /\ k \notin strays' => data[regions[j].id][k] = NoValue
        /\ ContainsKey(regions[j], k) /\ doubts'[k] = {} => data[regions[j].id][k] = acked[k]
    BY <1>9, <2>1 DEF Base
  <2>3. CASE j # i
    <3>1. data'[regions[j].id] = data[regions[j].id]
      BY <1>2, <1>6, <2>3
    <3> QED
      BY <2>2, <3>1
  <2>4. CASE j = i
    <3>1. k \notin Gone(regions, split', i) => split.moved[k] = NoValue
      BY <1>3, <1>12 DEF Gone
    <3>2. data'[regions[j].id][k] = IF split.moved[k] # NoValue THEN NoValue
                                    ELSE data[regions[j].id][k]
      BY <1>2, <1>7, <2>4
    <3> QED
      BY <2>2, <3>1, <3>2
  <2> QED
    BY <2>3, <2>4
<1>14. Moving(regions, split', i, data', pending', acked', doubts', strays')
  <2>1. pending'[split.right] = {} /\ data'[split.right] = data[split.right]
    BY <1>2, <1>6 DEF Moving
  <2> QED
    BY <1>3, <1>7, <1>12, <2>1 DEF Moving
<1>15. DataTypes' /\ split'.pc # "idle"
  BY <1>3, <1>5, <1>6, <1>10 DEF DataTypes
<1> QED
  BY <1>1, <1>4, <1>11, <1>13, <1>14, <1>15, SplitData

\* A split is given up: the list stays as it is.
LEMMA SplitFailsData ==
  ASSUME ListInv, DataInv, SplitFails, acked' = acked, StraysNext,
         Doubt(IF split.pc = "deletes" THEN Moved ELSE {}, "cut short")
  PROVE  DataInv'
<1> DEFINE i == Position(split.id)
           ks == IF split.pc = "deletes" THEN Moved ELSE {}
<1>1. /\ split.pc \in {"puts", "deletes"} /\ split.pc # "idle" /\ SameTables
      /\ data' = data /\ split' = NoSplit
      /\ \/ split.pc = "puts" /\ Rejects(split.right, Puts)
         \/ split.pc = "deletes" /\ Rejects(split.id, Deletes)
  BY DEF SplitFails, SameTables, tables, Rejects
<1>2. /\ Base(regions, Gone(regions, split, i), data, acked, doubts, strays)
      /\ Late(regions, pending, doubts, strays)
      /\ i \in DOMAIN regions
      /\ regions[i].id = split.id /\ split.id \in RegionId /\ IsTable(regions)
      /\ split.right \in RegionId
      /\ \A j \in DOMAIN regions : regions[j].id # split.right /\ regions[j].id \in RegionId
  BY <1>1, SplitFacts
<1>3. DataTypes
  BY DEF DataInv
<1>4. /\ Weaker(doubts, strays, doubts', strays')
      /\ \A k \in UserKey \cap ks : "cut short" \in doubts'[k]
  BY <1>3, DoubtFades, StraysGrow
<1>5. split.pc = "deletes" => \A k \in Moved : k \in UserKey /\ doubts'[k] # {}
  BY <1>4 DEF Moved
<1> HIDE DEF i, ks
<1>6. /\ Base(regions, Gone(regions, split, i), data, acked, doubts', strays')
      /\ Late(regions, pending, doubts', strays')
  BY <1>2, <1>3, <1>4, BaseWeaker, LateWeaker, PendingKeys
<1>7. Base(regions, {}, data', acked', doubts', strays')
  <2>1. Gone(regions, split, i) = {}
    BY <1>1 DEF Gone
  <2> QED
    BY <1>1, <1>6, <2>1
<1>8. /\ DOMAIN pending' = RegionId
      /\ \A id \in RegionId : \A cmd \in pending'[id] :
           \/ cmd \in pending[id]
           \/ id = split.right /\ cmd = Puts
           \/ id = split.id /\ cmd = Deletes /\ split.pc = "deletes"
  <2>0. DOMAIN pending = RegionId
    BY <1>3 DEF DataTypes
  <2>1. CASE pending' = pending
    BY <2>0, <2>1
  <2>2. CASE split.pc = "puts" /\ pending' = [pending EXCEPT ![split.right] = @ \cup {Puts}]
    BY <1>2, <2>0, <2>2
  <2>3. CASE split.pc = "deletes" /\ pending' = [pending EXCEPT ![split.id] = @ \cup {Deletes}]
    BY <1>2, <2>0, <2>3
  <2> QED
    BY <1>1, <2>1, <2>2, <2>3 DEF Rejects
<1>9. Late(regions, pending', doubts', strays')
  <2> SUFFICES ASSUME NEW j \in DOMAIN regions, NEW cmd \in pending'[regions[j].id],
                      NEW k \in DOMAIN cmd
               PROVE  /\ k \notin strays' => cmd[k] = NoValue
                      /\ ContainsKey(regions[j], k) => doubts'[k] # {}
    BY DEF Late
  <2>1. CASE cmd \in pending[regions[j].id]
    BY <1>6, <2>1 DEF Late
  <2>2. CASE cmd = Deletes /\ split.pc = "deletes"
    BY <1>5, <2>2 DEF Deletes
  <2> QED
    BY <1>2, <1>8, <2>1, <2>2
<1>10. DataTypes'
  <2>1. DOMAIN Puts \subseteq UserKey /\ DOMAIN Deletes \subseteq UserKey
    BY DEF Puts, Deletes, Moved
  <2> QED
    BY <1>1, <1>3, <1>4, <1>8, <2>1 DEF DataTypes, Weaker
<1>11. catalog'.state = "full" /\ catalog'.image = regions
  BY <1>1, SplitRegionOf, RunningFacts DEF SameTables
<1> QED
  BY <1>1, <1>7, <1>9, <1>10, <1>11, SettledData

LEMMA CrashData ==
  ASSUME ListInv, DataInv, Crash, acked' = acked, StraysNext,
         Doubt(IF split.pc = "install" THEN Moved ELSE {}, "cut short")
  PROVE  DataInv'
<1> DEFINE i == Position(split.id)
           ks == IF split.pc = "install" THEN Moved ELSE {}
<1>1. /\ running /\ split' = NoSplit /\ data' = data /\ pending' = pending
      /\ catalog' = catalog
  BY DEF Crash, Stop, files
<1>2. DataTypes
  BY DEF DataInv
<1>3. /\ Weaker(doubts, strays, doubts', strays')
      /\ \A k \in UserKey \cap ks : "cut short" \in doubts'[k]
  BY <1>2, DoubtFades, StraysGrow
<1>4. split.pc = "install" => \A k \in UserKey : doubts'[k] = {} => split.moved[k] = NoValue
  BY <1>3 DEF Moved
<1> HIDE DEF ks
<1>5. /\ IsTable(regions) /\ catalog.state = "full" /\ catalog.image = regions
  BY <1>1, RunningFacts
<1>6. /\ Base(regions, {}, data, acked, doubts', strays')
      /\ Late(regions, pending, doubts', strays')
  <2>1. CASE split = NoSplit
    <3>1. /\ Base(regions, {}, data, acked, doubts, strays)
          /\ Late(regions, pending, doubts, strays)
      BY <1>1, <2>1, IdleData DEF Request
    <3> QED
      BY <1>2, <1>3, <1>5, <3>1, BaseWeaker, LateWeaker, PendingKeys
  <2>2. CASE split # NoSplit
    <3>1. split.pc # "idle"
      BY <2>2 DEF ListInv, Splits
    <3>2. /\ Base(regions, Gone(regions, split, i), data, acked, doubts, strays)
          /\ Late(regions, pending, doubts, strays)
          /\ Moving(regions, split, i, data, pending, acked, doubts, strays)
          /\ i \in DOMAIN regions /\ regions[i].id = split.id
      BY <3>1, SplitFacts
    <3> HIDE DEF i
    <3>3. /\ Base(regions, Gone(regions, split, i), data, acked, doubts', strays')
          /\ Late(regions, pending, doubts', strays')
          /\ Moving(regions, split, i, data, pending, acked, doubts', strays')
      BY <1>2, <1>3, <1>5, <3>2, BaseWeaker, LateWeaker, MovingWeaker, PendingKeys
    <3>4. ASSUME NEW k \in Gone(regions, split, i), doubts'[k] = {}
          PROVE  data[split.id][k] = acked[k]
      <4>1. k \in UserKey /\ split.pc = "install" /\ Migrates(regions[i], split.key, k)
        BY DEF Gone
      <4>2. split.moved[k] = acked[k] /\ data[split.id][k] = NoValue
        BY <3>3, <3>4, <4>1 DEF Moving
      <4> QED
        BY <1>4, <3>4, <4>1, <4>2
    <3>5. ASSUME NEW j \in DOMAIN regions, NEW k \in Gone(regions, split, i),
                 ContainsKey(regions[j], k)
          PROVE  j = i
      <4>1. k \in UserKey /\ ContainsKey(regions[i], k)
        BY DEF Gone, Migrates
      <4> QED
        BY <1>5, <3>2, <3>5, <4>1 DEF IsTable, PartitionsKeys
    <3>6. Base(regions, {}, data, acked, doubts', strays')
      <4> SUFFICES ASSUME NEW j \in DOMAIN regions, NEW k \in UserKey
                   PROVE  /\ ~ContainsKey(regions[j], k) /\ k \notin strays' =>
                               data[regions[j].id][k] = NoValue
                          /\ ContainsKey(regions[j], k) /\ doubts'[k] = {} =>
                               data[regions[j].id][k] = acked[k]
        BY DEF Base
      <4>1. CASE k \in Gone(regions, split, i)
        <5>1. ~ContainsKey(regions[j], k) /\ k \notin strays' => data[regions[j].id][k] = NoValue
          BY <3>3 DEF Base
        <5> QED
          BY <3>2, <3>4, <3>5, <4>1, <5>1
      <4>2. CASE k \notin Gone(regions, split, i)
        BY <3>3, <4>2 DEF Base
      <4> QED
        BY <4>1, <4>2
    <3> QED
      BY <3>3, <3>6
  <2> QED
    BY <2>1, <2>2
<1>7. DataTypes'
  BY <1>1, <1>2, <1>3 DEF DataTypes, Weaker
<1> QED
  BY <1>1, <1>5, <1>6, <1>7, SettledData

LEMMA InstallData ==
  ASSUME ListInv, DataInv, Install, acked' = acked, StraysNext,
         Doubt(Kept \cap Reserved, "reserved")
  PROVE  DataInv'
<1> DEFINE i == Position(split.id)
<1>1. running /\ split.pc = "install" /\ split.pc # "idle" /\ files' = files
  BY InstallFacts
<1>2. PICK ts, n, cs :
        /\ Installed(ts, n) /\ Save(ts, cs, leaderless)
        /\ DOMAIN cs = DOMAIN replicas \cup {split.right}
  BY InstallFacts
<1>3. /\ Base(regions, Gone(regions, split, i), data, acked, doubts, strays)
      /\ Late(regions, pending, doubts, strays)
      /\ Moving(regions, split, i, data, pending, acked, doubts, strays)
      /\ i \in DOMAIN regions /\ Splits(split, regions, i) /\ IsTable(regions)
      /\ IsRegion(regions[i]) /\ regions[i].id = split.id
  BY <1>1, SplitFacts DEF IsTable
<1>4. /\ DOMAIN ts = DOMAIN regions \cup {n} /\ n \notin DOMAIN regions
      /\ ts[i] = LeftRegion(regions[i], split.key)
      /\ ts[n] = RightRegion(regions[i], split.key, split.right)
      /\ \A j \in DOMAIN regions \ {i} : ts[j] = regions[j]
  BY <1>2 DEF Installed, Halved
<1>5. DataTypes
  BY DEF DataInv
<1>6. /\ Weaker(doubts, strays, doubts', strays')
      /\ \A k \in UserKey \cap (Kept \cap Reserved) : "reserved" \in doubts'[k]
  BY <1>5, DoubtFades, StraysGrow
<1>7. ASSUME NEW k \in Reserved, k \in UserKey, ContainsKey(regions[i], k), k >= split.key,
             doubts'[k] = {} \/ k \notin strays'
      PROVE  data[split.id][k] = NoValue
  <2>1. k \in Kept => "reserved" \in doubts'[k] \ {"cut short"}
    BY <1>6, <1>7
  <2>2. k \in Kept => doubts'[k] # {} /\ k \in strays'
    BY <1>7, <2>1 DEF StraysNext
  <2> QED
    BY <1>7, <2>2 DEF Kept, MovingHalf
<1> HIDE DEF i
<1>8. /\ Base(regions, Gone(regions, split, i), data, acked, doubts', strays')
      /\ Late(regions, pending, doubts', strays')
      /\ Moving(regions, split, i, data, pending, acked, doubts', strays')
  BY <1>3, <1>5, <1>6, BaseWeaker, LateWeaker, MovingWeaker, PendingKeys
<1>9. /\ ts[i].id = split.id /\ ts[n].id = split.right
      /\ \A k \in UserKey :
           /\ ContainsKey(ts[i], k) <=> ContainsKey(regions[i], k) /\ k < split.key
           /\ ContainsKey(ts[n], k) <=> ContainsKey(regions[i], k) /\ k >= split.key
  BY <1>3, <1>4, HalvesOf DEF Splits
<1>10. \A k \in UserKey : k < split.key <=> ~(k >= split.key)
  BY <1>3, MultiAssumption DEF Splits, UserKey
<1>11. ASSUME NEW k \in UserKey
       PROVE  /\ ContainsKey(ts[n], k) =>
                   (Migrates(regions[i], split.key, k) \/ k \in Reserved)
              /\ Migrates(regions[i], split.key, k) => ContainsKey(ts[n], k)
              /\ Migrates(regions[i], split.key, k) => ContainsKey(regions[i], k)
                                                         /\ k >= split.key /\ k \notin Reserved
              /\ k \in Gone(regions, split, i) <=> Migrates(regions[i], split.key, k)
  BY <1>1, <1>9 DEF Migrates, Gone
<1>12. Base(ts, {}, data, acked, doubts', strays')
  <2> SUFFICES ASSUME NEW j \in DOMAIN ts, NEW k \in UserKey
               PROVE  /\ ~ContainsKey(ts[j], k) /\ k \notin strays' =>
                           data[ts[j].id][k] = NoValue
                      /\ ContainsKey(ts[j], k) /\ doubts'[k] = {} =>
                           data[ts[j].id][k] = acked[k]
    BY DEF Base
  <2>1. CASE j # i /\ j # n
    <3>1. j \in DOMAIN regions /\ ts[j] = regions[j]
      BY <1>4, <2>1
    <3>2. ContainsKey(regions[j], k) => ~ContainsKey(regions[i], k)
      BY <1>3, <2>1, <3>1 DEF IsTable, PartitionsKeys
    <3>3. ContainsKey(regions[j], k) => k \notin Gone(regions, split, i)
      BY <1>11, <3>2
    <3> QED
      BY <1>8, <3>1, <3>3 DEF Base
  <2>2. CASE j = i
    <3>1. /\ ~ContainsKey(regions[i], k) /\ k \notin strays' => data[split.id][k] = NoValue
          /\ ContainsKey(regions[i], k) /\ doubts'[k] = {} /\ k \notin Gone(regions, split, i)
               => data[split.id][k] = acked[k]
      BY <1>3, <1>8 DEF Base
    <3>2. Migrates(regions[i], split.key, k) /\ k \notin strays' => data[split.id][k] = NoValue
      BY <1>1, <1>8 DEF Moving
    <3>3. ContainsKey(regions[i], k) /\ k >= split.key =>
            Migrates(regions[i], split.key, k) \/ k \in Reserved
      BY DEF Migrates
    <3> QED
      BY <1>7, <1>9, <1>10, <1>11, <2>2, <3>1, <3>2, <3>3
  <2>3. CASE j = n
    <3>1. /\ data[split.right][k] = split.moved[k]
          /\ ~Migrates(regions[i], split.key, k) => split.moved[k] = NoValue
          /\ Migrates(regions[i], split.key, k) /\ doubts'[k] = {} => split.moved[k] = acked[k]
      BY <1>1, <1>8 DEF Moving
    <3>2. ContainsKey(regions[i], k) /\ doubts'[k] = {} /\ k \notin Gone(regions, split, i)
               => data[split.id][k] = acked[k]
      BY <1>3, <1>8 DEF Base
    <3>3. k \in Reserved => ~Migrates(regions[i], split.key, k)
      BY DEF Migrates
    <3>4. ContainsKey(ts[n], k) /\ k \in Reserved /\ doubts'[k] = {} => acked[k] = NoValue
      BY <1>7, <1>9, <1>11, <3>2, <3>3
    <3> QED
      BY <1>9, <1>11, <2>3, <3>1, <3>3, <3>4
  <2> QED
    BY <2>1, <2>2, <2>3
<1>13. Late(ts, pending, doubts', strays')
  <2> SUFFICES ASSUME NEW j \in DOMAIN ts, NEW cmd \in pending[ts[j].id], NEW k \in DOMAIN cmd
               PROVE  /\ k \notin strays' => cmd[k] = NoValue
                      /\ ContainsKey(ts[j], k) => doubts'[k] # {}
    BY DEF Late
  <2>1. CASE j # i /\ j # n
    <3>1. j \in DOMAIN regions /\ ts[j] = regions[j]
      BY <1>4, <2>1
    <3> QED
      BY <1>8, <3>1 DEF Late
  <2>2. CASE j = i
    <3>1. cmd \in pending[regions[i].id]
      BY <1>3, <1>9, <2>2
    <3>2. k \in UserKey
      BY <1>3, <1>5, <3>1, PendingKeys
    <3>3. ContainsKey(ts[i], k) => ContainsKey(regions[i], k)
      BY <1>9, <3>2
    <3> QED
      BY <1>3, <1>8, <2>2, <3>1, <3>3 DEF Late
  <2>3. CASE j = n
    BY <1>8, <1>9, <2>3 DEF Moving
  <2> QED
    BY <2>1, <2>2, <2>3
<1>14. DOMAIN doubts' = UserKey
  BY <1>6 DEF Weaker
<1> QED
  BY <1>1, <1>2, <1>12, <1>13, <1>14, SaveData

LEMMA StartData ==
  ASSUME ListInv, DataInv, Start, acked' = acked, doubts' = doubts, StraysNext
  PROVE  DataInv'
<1>1. /\ split = NoSplit /\ split' = NoSplit /\ catalog.state # "torn"
      /\ data' = data /\ pending' = pending
      /\ regions' = LoadRegionCatalog /\ IsTable(regions')
      /\ catalog'.state = "full" /\ catalog'.image = regions'
  BY StartFacts DEF Start, CanLoadCatalog, files
<1>2. DataTypes
  BY DEF DataInv
<1>3. Weaker(doubts, strays, doubts', strays')
  BY <1>2, UnchangedFades
<1>4. /\ Base(regions', {}, data, acked, doubts, strays)
      /\ Late(regions', pending, doubts, strays)
  BY <1>1 DEF DataInv
<1>5. /\ Base(regions', {}, data, acked, doubts', strays')
      /\ Late(regions', pending, doubts', strays')
  BY <1>1, <1>2, <1>3, <1>4, BaseWeaker, LateWeaker, PendingKeys
<1>6. DataTypes'
  BY <1>1, <1>2 DEF DataTypes
<1> QED
  BY <1>1, <1>5, <1>6, SettledData

LEMMA StartDiesData ==
  ASSUME ListInv, DataInv, StartDies, acked' = acked, doubts' = doubts
  PROVE  DataInv'
<1>1. /\ split' = NoSplit /\ data' = data /\ pending' = pending /\ catalog'.state = "torn"
  BY DEF StartDies, ListInv, files
<1>2. DataTypes'
  BY <1>1 DEF DataInv, DataTypes
<1> QED
  BY <1>1, <1>2, SettledData

-----------------------------------------------------------------------------
\* Writes, beside a split or not.

\* Of a step on the directories while the tables and the split stay as they are.
LEMMA RunningData ==
  ASSUME ListInv, DataInv, running, SameTables, split' = split, DataTypes',
         \A G : Base(regions, G, data, acked, doubts, strays)
                  /\ Late(regions, pending, doubts, strays) =>
                  Base(regions, G, data', acked', doubts', strays'),
         Late(regions, pending, doubts, strays) => Late(regions, pending', doubts', strays'),
         \A i \in DOMAIN regions :
           Splits(split, regions, i) /\ Late(regions, pending, doubts, strays)
             /\ Moving(regions, split, i, data, pending, acked, doubts, strays)
             => Moving(regions, split, i, data', pending', acked', doubts', strays')
  PROVE  DataInv'
<1>1. regions' = regions /\ catalog' = catalog /\ LoadRegionCatalog = regions
  BY RunningFacts DEF SameTables
<1>2. (LoadRegionCatalog)' = regions
  BY <1>1 DEF LoadRegionCatalog
<1>3. ASSUME split = NoSplit, catalog.state # "torn"
      PROVE  /\ Base(regions, {}, data', acked', doubts', strays')
             /\ Late(regions, pending', doubts', strays')
  BY <1>1, <1>3 DEF DataInv
<1>4. ASSUME NEW i \in DOMAIN regions, Splits(split, regions, i)
      PROVE  /\ Base(regions, Gone(regions, split, i), data', acked', doubts', strays')
             /\ Late(regions, pending', doubts', strays')
             /\ Moving(regions, split, i, data', pending', acked', doubts', strays')
  BY <1>4 DEF DataInv
<1> QED
  BY <1>1, <1>2, <1>3, <1>4 DEF DataInv

\* A key of a command is in the one region that the command goes to.
LEMMA TargetFacts ==
  ASSUME ListInv, running, NEW cmd, DOMAIN cmd \subseteq UserKey,
         NEW i \in DOMAIN regions, Targets(cmd, i)
  PROVE  \A k \in DOMAIN cmd : \A j \in DOMAIN regions : ContainsKey(regions[j], k) <=> j = i
<1>1. IsTable(regions)
  BY RunningFacts
<1> TAKE k \in DOMAIN cmd
<1>2. PICK m \in DOMAIN regions : \A j \in DOMAIN regions : ContainsKey(regions[j], k) <=> m = j
  BY <1>1 DEF IsTable, PartitionsKeys
<1>3. FindRegionByKey(k) = m
  BY <1>1, <1>2, FindOf
<1> QED
  BY <1>2, <1>3 DEF Targets

\* The region of a split among those of the list.
LEMMA SplittingFacts ==
  ASSUME ListInv, running, NEW i \in DOMAIN regions, Splits(split, regions, i)
  PROVE  /\ i = Position(split.id) /\ split.id = regions[i].id
         /\ \A j \in DOMAIN regions : /\ regions[j].id # split.right
                                      /\ regions[j].id = split.id => j = i
<1>1. IsTable(regions) /\ split.id = regions[i].id
  BY RunningFacts DEF Splits
<1>2. i = Position(split.id)
  BY <1>1, PositionOf
<1> QED
  BY <1>1, <1>2 DEF IsTable, UniqueIds, Splits, Ids

LEMMA WriteData ==
  ASSUME ListInv, DataInv, NEW cmd \in Commands, Write(cmd), WriteDoubts(cmd),
         acked' = Mutate(acked, cmd), StraysNext
  PROVE  DataInv'
<1>1. running /\ SameTables /\ split' = split
  BY DEF Write, SameTables, tables
<1>2. PICK m \in DOMAIN regions : Targets(cmd, m) /\ Commits(regions[m].id, cmd)
  BY DEF Write
<1> DEFINE id == regions[m].id
<1>3. /\ IsTable(regions) /\ id \in RegionId
      /\ \A j \in DOMAIN regions : regions[j].id \in RegionId /\ (regions[j].id = id => j = m)
  BY <1>1, RunningFacts DEF IsTable, IsRegion, UniqueIds
<1>4. DOMAIN cmd \subseteq UserKey
  BY CommandKeys
<1>5. \A k \in DOMAIN cmd : \A j \in DOMAIN regions : ContainsKey(regions[j], k) <=> j = m
  BY <1>1, <1>2, <1>4, TargetFacts
<1>6. DataTypes
  BY DEF DataInv
<1>7. /\ DOMAIN data' = RegionId /\ \A x \in RegionId : DOMAIN data'[x] = UserKey
      /\ \A x \in RegionId \ {id} : data'[x] = data[x]
      /\ \A k \in UserKey : data'[id][k] = IF k \in DOMAIN cmd THEN cmd[k] ELSE data[id][k]
  BY <1>2, <1>3, <1>6, MutateOne DEF Commits, DataTypes
<1>8. /\ DOMAIN pending' = RegionId /\ pending'[id] = {}
      /\ \A x \in RegionId \ {id} : pending'[x] = pending[x]
  BY <1>2, <1>3, <1>6 DEF Commits, DataTypes
<1>9. /\ DOMAIN acked' = UserKey
      /\ \A k \in UserKey : acked'[k] = IF k \in DOMAIN cmd THEN cmd[k] ELSE acked[k]
  BY <1>6 DEF Mutate, DataTypes
<1>10. /\ DOMAIN doubts' = UserKey /\ strays \subseteq strays'
       /\ \A k \in UserKey \ DOMAIN cmd : doubts'[k] = doubts[k]
       /\ \A k \in DOMAIN cmd \cap Exposed : doubts'[k] # {} /\ k \in strays'
  <2>1. \A k \in DOMAIN cmd \cap Exposed : doubts'[k] = {"overlap"}
    BY <1>4 DEF WriteDoubts
  <2>2. "overlap" \in {"overlap"} \ {"cut short"}
    OBVIOUS
  <2> QED
    BY <1>4, <2>1, <2>2 DEF WriteDoubts, StraysNext
<1> HIDE DEF id
<1>11. ASSUME NEW G, Base(regions, G, data, acked, doubts, strays)
       PROVE  Base(regions, G, data', acked', doubts', strays')
  <2> SUFFICES ASSUME NEW j \in DOMAIN regions, NEW k \in UserKey
               PROVE  /\ ~ContainsKey(regions[j], k) /\ k \notin strays' =>
                           data'[regions[j].id][k] = NoValue
                      /\ ContainsKey(regions[j], k) /\ doubts'[k] = {} /\ k \notin G =>
                           data'[regions[j].id][k] = acked'[k]
    BY DEF Base
  <2>1. /\ ~ContainsKey(regions[j], k) /\ k \notin strays => data[regions[j].id][k] = NoValue
        /\ ContainsKey(regions[j], k) /\ doubts[k] = {} /\ k \notin G =>
             data[regions[j].id][k] = acked[k]
    BY <1>11 DEF Base
  <2>2. CASE k \notin DOMAIN cmd
    <3>1. data'[regions[j].id][k] = data[regions[j].id][k]
      BY <1>3, <1>7, <2>2
    <3> QED
      BY <1>9, <1>10, <2>1, <2>2, <3>1
  <2>3. CASE k \in DOMAIN cmd /\ j # m
    <3>1. data'[regions[j].id] = data[regions[j].id]
      BY <1>3, <1>7, <2>3
    <3> QED
      BY <1>5, <1>10, <2>1, <2>3, <3>1
  <2>4. CASE k \in DOMAIN cmd /\ j = m
    <3>1. data'[regions[j].id][k] = cmd[k] /\ acked'[k] = cmd[k]
      BY <1>7, <1>9, <2>4 DEF id
    <3> QED
      BY <1>5, <2>4, <3>1
  <2> QED
    BY <2>2, <2>3, <2>4
<1>12. ASSUME Late(regions, pending, doubts, strays)
       PROVE  Late(regions, pending', doubts', strays')
  <2> SUFFICES ASSUME NEW j \in DOMAIN regions, NEW c \in pending'[regions[j].id],
                      NEW k \in DOMAIN c
               PROVE  /\ k \notin strays' => c[k] = NoValue
                      /\ ContainsKey(regions[j], k) => doubts'[k] # {}
    BY DEF Late
  <2>1. regions[j].id # id /\ j # m /\ c \in pending[regions[j].id]
    BY <1>3, <1>8 DEF id
  <2>2. k \in UserKey
    BY <1>3, <1>6, <2>1, PendingKeys
  <2>3. k \in DOMAIN cmd => ~ContainsKey(regions[j], k)
    BY <1>5, <2>1
  <2>4. (k \notin strays => c[k] = NoValue) /\ (ContainsKey(regions[j], k) => doubts[k] # {})
    BY <1>12, <2>1 DEF Late
  <2> QED
    BY <1>10, <2>2, <2>3, <2>4
<1>13. ASSUME NEW i \in DOMAIN regions, Splits(split, regions, i),
              Moving(regions, split, i, data, pending, acked, doubts, strays)
       PROVE  Moving(regions, split, i, data', pending', acked', doubts', strays')
  <2>1. /\ i = Position(split.id) /\ split.id = regions[i].id
        /\ split.right # id /\ split.right \in RegionId
    BY <1>1, <1>13, SplittingFacts DEF id, Splits
  <2>2. data'[split.right] = data[split.right] /\ pending'[split.right] = pending[split.right]
    BY <1>7, <1>8, <2>1
  <2>3. ASSUME NEW k \in DOMAIN cmd, Migrates(regions[i], split.key, k),
               split.pc \in {"puts", "deletes", "install"}
        PROVE  k \in UserKey /\ doubts'[k] # {} /\ k \in strays'
    <3>1. k \in UserKey /\ k \in Exposed
      BY <1>4, <2>1, <2>3 DEF Exposed, MovingHalf, Migrates
    <3> QED
      BY <1>10, <2>3, <3>1
  <2>4. ASSUME NEW k \in UserKey \ DOMAIN cmd
        PROVE  data'[split.id][k] = data[split.id][k]
    BY <1>3, <1>7, <2>1
  <2>5. ASSUME NEW k \in UserKey, split.pc \in {"puts", "deletes", "install"}
        PROVE  /\ ~Migrates(regions[i], split.key, k) => split.moved[k] = NoValue
               /\ Migrates(regions[i], split.key, k) /\ doubts'[k] = {} =>
                    split.moved[k] = acked'[k]
               /\ Migrates(regions[i], split.key, k) /\ k \notin strays'
                    /\ split.moved[k] = NoValue => data'[split.id][k] = NoValue
    <3>1. /\ ~Migrates(regions[i], split.key, k) => split.moved[k] = NoValue
          /\ Migrates(regions[i], split.key, k) /\ doubts[k] = {} => split.moved[k] = acked[k]
          /\ Migrates(regions[i], split.key, k) /\ k \notin strays
               /\ split.moved[k] = NoValue => data[split.id][k] = NoValue
      BY <1>13, <2>5 DEF Moving
    <3>2. CASE k \in DOMAIN cmd
      BY <2>3, <2>5, <3>1, <3>2
    <3>3. CASE k \notin DOMAIN cmd
      BY <1>9, <1>10, <2>4, <3>1, <3>3
    <3> QED
      BY <3>2, <3>3
  <2>6. ASSUME NEW k \in UserKey, split.pc = "install", Migrates(regions[i], split.key, k),
               doubts'[k] = {} \/ k \notin strays'
        PROVE  data'[split.id][k] = NoValue
    <3>1. k \notin DOMAIN cmd
      BY <2>3, <2>6
    <3>2. doubts[k] = {} \/ k \notin strays
      BY <1>10, <2>6, <3>1
    <3> QED
      BY <1>13, <2>4, <2>6, <3>1, <3>2 DEF Moving
  <2> HIDE DEF Migrates
  <2> QED
    BY <1>13, <2>2, <2>5, <2>6 DEF Moving
<1>14. DataTypes'
  BY <1>6, <1>7, <1>8, <1>9, <1>10 DEF DataTypes
<1> QED
  BY <1>1, <1>11, <1>12, <1>13, <1>14, RunningData

\* A failed write: its keys are in doubt and may stray from now on.
LEMMA WriteFailsData ==
  ASSUME ListInv, DataInv, NEW cmd \in Commands, WriteFails(cmd),
         Doubt(DOMAIN cmd, "failed"), acked' = acked, StraysNext
  PROVE  DataInv'
<1>1. running /\ SameTables /\ split' = split
  BY DEF WriteFails, SameTables, tables
<1>2. PICK m \in DOMAIN regions : Targets(cmd, m) /\ Rejects(regions[m].id, cmd)
  BY DEF WriteFails
<1>3. IsTable(regions) /\ \A j \in DOMAIN regions : regions[j].id \in RegionId
  BY <1>1, RunningFacts DEF IsTable, IsRegion
<1>4. DOMAIN cmd \subseteq UserKey /\ DataTypes /\ data' = data
  BY <1>2, CommandKeys DEF DataInv, Rejects
<1>5. /\ Weaker(doubts, strays, doubts', strays')
      /\ \A k \in UserKey \cap DOMAIN cmd : "failed" \in doubts'[k]
  BY <1>4, DoubtFades, StraysGrow
<1>6. \A k \in DOMAIN cmd : doubts'[k] # {} /\ k \in strays'
  <2> TAKE k \in DOMAIN cmd
  <2>1. "failed" \in doubts'[k] \ {"cut short"} /\ k \in UserKey
    BY <1>4, <1>5
  <2> QED
    BY <2>1 DEF StraysNext
<1>7. /\ DOMAIN pending' = RegionId
      /\ \A x \in RegionId : \A c \in pending'[x] : c \in pending[x] \/ c = cmd
      /\ \A x \in RegionId \ {regions[m].id} : pending'[x] = pending[x]
  BY <1>2, <1>3, <1>4 DEF Rejects, DataTypes
<1>8. ASSUME NEW G, Base(regions, G, data, acked, doubts, strays)
      PROVE  Base(regions, G, data', acked', doubts', strays')
  BY <1>4, <1>5, <1>8, BaseWeaker
<1>9. ASSUME Late(regions, pending, doubts, strays)
      PROVE  Late(regions, pending', doubts', strays')
  <2>1. Late(regions, pending, doubts', strays')
    BY <1>3, <1>4, <1>5, <1>9, LateWeaker, PendingKeys
  <2> QED
    BY <1>3, <1>6, <1>7, <2>1 DEF Late
<1>10. ASSUME NEW i \in DOMAIN regions, Splits(split, regions, i),
              Moving(regions, split, i, data, pending, acked, doubts, strays)
       PROVE  Moving(regions, split, i, data', pending', acked', doubts', strays')
  <2>1. Moving(regions, split, i, data, pending, acked, doubts', strays')
    BY <1>5, <1>10, MovingWeaker
  <2>2. split.right \in RegionId \ {regions[m].id}
    BY <1>10 DEF Splits, Ids
  <2> QED
    BY <1>4, <1>7, <2>1, <2>2 DEF Moving
<1>11. DataTypes'
  BY <1>4, <1>5, <1>7 DEF DataTypes, Weaker
<1> QED
  BY <1>1, <1>8, <1>9, <1>10, <1>11, RunningData

\* The entry of a failed write takes effect.
LEMMA ComesUpData ==
  ASSUME ListInv, DataInv, NEW id \in RegionId, ComesUp(id), acked' = acked,
         doubts' = doubts, StraysNext
  PROVE  DataInv'
<1>1. running /\ SameTables /\ split' = split
  BY DEF ComesUp, SameTables, tables
<1>2. PICK cmd \in pending[id] : /\ data' = [data EXCEPT ![id] = Mutate(@, cmd)]
                                 /\ pending' = [pending EXCEPT ![id] = @ \ {cmd}]
  BY DEF ComesUp
<1>3. IsTable(regions) /\ \A j \in DOMAIN regions : regions[j].id \in RegionId
  BY <1>1, RunningFacts DEF IsTable, IsRegion
<1>4. DataTypes /\ DOMAIN cmd \subseteq UserKey
  BY DEF DataInv, DataTypes
<1>5. /\ DOMAIN data' = RegionId /\ \A x \in RegionId : DOMAIN data'[x] = UserKey
      /\ \A x \in RegionId \ {id} : data'[x] = data[x]
      /\ \A k \in UserKey : data'[id][k] = IF k \in DOMAIN cmd THEN cmd[k] ELSE data[id][k]
  BY <1>2, <1>4, MutateOne DEF DataTypes
<1>6. /\ DOMAIN pending' = RegionId
      /\ \A x \in RegionId : pending'[x] \subseteq pending[x]
  BY <1>2, <1>4 DEF DataTypes
<1>7. Weaker(doubts, strays, doubts', strays')
  BY <1>4, UnchangedFades
<1>8. ASSUME NEW j \in DOMAIN regions, Late(regions, pending, doubts', strays'),
             regions[j].id = id, NEW k \in DOMAIN cmd
      PROVE  /\ k \notin strays' => cmd[k] = NoValue
             /\ ContainsKey(regions[j], k) => doubts'[k] # {}
  BY <1>8 DEF Late
<1>9. ASSUME NEW G, Base(regions, G, data, acked, doubts, strays),
             Late(regions, pending, doubts, strays)
      PROVE  Base(regions, G, data', acked', doubts', strays')
  <2>1. /\ Base(regions, G, data, acked, doubts', strays')
        /\ Late(regions, pending, doubts', strays')
    BY <1>3, <1>4, <1>7, <1>9, BaseWeaker, LateWeaker, PendingKeys
  <2> SUFFICES ASSUME NEW j \in DOMAIN regions, NEW k \in UserKey
               PROVE  /\ ~ContainsKey(regions[j], k) /\ k \notin strays' =>
                           data'[regions[j].id][k] = NoValue
                      /\ ContainsKey(regions[j], k) /\ doubts'[k] = {} /\ k \notin G =>
                           data'[regions[j].id][k] = acked[k]
    BY DEF Base
  <2>2. /\ ~ContainsKey(regions[j], k) /\ k \notin strays' => data[regions[j].id][k] = NoValue
        /\ ContainsKey(regions[j], k) /\ doubts'[k] = {} /\ k \notin G =>
             data[regions[j].id][k] = acked[k]
    BY <2>1 DEF Base
  <2>3. CASE regions[j].id # id \/ k \notin DOMAIN cmd
    <3>1. data'[regions[j].id][k] = data[regions[j].id][k]
      BY <1>3, <1>5, <2>3
    <3> QED
      BY <2>2, <3>1
  <2>4. CASE regions[j].id = id /\ k \in DOMAIN cmd
    <3>1. data'[regions[j].id][k] = cmd[k]
      BY <1>5, <2>4
    <3> QED
      BY <1>8, <2>1, <2>4, <3>1
  <2> QED
    BY <2>3, <2>4
<1>10. ASSUME Late(regions, pending, doubts, strays)
       PROVE  Late(regions, pending', doubts', strays')
  <2>1. Late(regions, pending, doubts', strays')
    BY <1>3, <1>4, <1>7, <1>10, LateWeaker, PendingKeys
  <2> QED
    BY <1>3, <1>6, <2>1 DEF Late
<1>11. ASSUME NEW i \in DOMAIN regions, Splits(split, regions, i),
              Late(regions, pending, doubts, strays),
              Moving(regions, split, i, data, pending, acked, doubts, strays)
       PROVE  Moving(regions, split, i, data', pending', acked', doubts', strays')
  <2>1. /\ Moving(regions, split, i, data, pending, acked, doubts', strays')
        /\ Late(regions, pending, doubts', strays')
    BY <1>3, <1>4, <1>7, <1>11, MovingWeaker, LateWeaker, PendingKeys
  <2>2. /\ split.right \in RegionId /\ split.id = regions[i].id /\ pending[split.right] = {}
    BY <1>11 DEF Splits, Moving
  <2>3. split.right # id
    BY <2>2
  <2>4. pending'[split.right] = {} /\ data'[split.right] = data[split.right]
    BY <1>5, <1>6, <2>2, <2>3
  <2>5. ASSUME NEW k \in UserKey, data[split.id][k] = NoValue,
               Migrates(regions[i], split.key, k), doubts'[k] = {} \/ k \notin strays'
        PROVE  data'[split.id][k] = NoValue
    <3>1. ContainsKey(regions[i], k)
      BY <2>5 DEF Migrates
    <3>2. CASE split.id = id /\ k \in DOMAIN cmd
      BY <1>5, <1>8, <2>1, <2>2, <2>5, <3>1, <3>2
    <3>3. CASE split.id # id \/ k \notin DOMAIN cmd
      BY <1>3, <1>5, <2>2, <2>5, <3>3
    <3> QED
      BY <3>2, <3>3
  <2> QED
    BY <2>1, <2>4, <2>5 DEF Moving
<1>12. DataTypes'
  BY <1>4, <1>5, <1>6 DEF DataTypes
<1> QED
  BY <1>1, <1>9, <1>10, <1>11, <1>12, RunningData

LEMMA DataInit ==
  ASSUME Init
  PROVE  DataInv
<1>1. DataTypes
  BY DEF Init, DataTypes, Empty
<1>2. LoadRegionCatalog = <<DefaultRegion>> /\ DefaultRegion.id = 1 /\ 1 \in RegionId
  BY MultiAssumption DEF Init, LoadRegionCatalog, DefaultRegion, RegionId
<1>3. \A k \in UserKey : ContainsKey(DefaultRegion, k)
  BY MultiAssumption DEF ContainsKey, DefaultRegion, UserKey, Unbounded
<1>4. data[1] = Empty /\ acked = Empty /\ pending[1] = {}
  BY <1>2 DEF Init
<1> HIDE DEF DefaultRegion
<1>5. /\ Base(<<DefaultRegion>>, {}, data, acked, doubts, strays)
      /\ Late(<<DefaultRegion>>, pending, doubts, strays)
  BY <1>2, <1>3, <1>4 DEF Base, Late
<1>6. \A i \in DOMAIN regions : ~Splits(split, regions, i)
  BY IdleIsNoSplit DEF Init
<1> QED
  BY <1>1, <1>2, <1>5, <1>6 DEF DataInv

-----------------------------------------------------------------------------
\* Every step, and the theorems.

\* A request that is refused after the cluster has given up.
LEMMA RefusedData ==
  ASSUME ListInv, DataInv, files' = files, Fades,
         UNCHANGED <<running, regions, catalog, split>>
  PROVE  DataInv'
<1>1. /\ data' = data /\ pending' = pending /\ regions' = regions /\ catalog' = catalog
      /\ split' = split /\ acked' = acked /\ (LoadRegionCatalog)' = LoadRegionCatalog
  BY DEF files, Fades, LoadRegionCatalog
<1>2. DataTypes /\ DataTypes'
  BY <1>1 DEF DataInv, DataTypes, Fades, Weaker
<1>3. ASSUME split = NoSplit, catalog.state # "torn"
      PROVE  /\ Base(LoadRegionCatalog, {}, data, acked, doubts', strays')
             /\ Late(LoadRegionCatalog, pending, doubts', strays')
  <2>1. /\ Base(LoadRegionCatalog, {}, data, acked, doubts, strays)
        /\ Late(LoadRegionCatalog, pending, doubts, strays)
    BY <1>3 DEF DataInv
  <2>2. IsTable(LoadRegionCatalog)
    BY <1>3, LoadedTable DEF CanLoadCatalog
  <2> QED
    BY <1>2, <2>1, <2>2, BaseWeaker, LateWeaker, PendingKeys DEF Fades
<1>4. ASSUME NEW i \in DOMAIN regions, Splits(split, regions, i)
      PROVE  /\ Base(regions, Gone(regions, split, i), data, acked, doubts', strays')
             /\ Late(regions, pending, doubts', strays')
             /\ Moving(regions, split, i, data, pending, acked, doubts', strays')
  <2>1. /\ Base(regions, Gone(regions, split, i), data, acked, doubts, strays)
        /\ Late(regions, pending, doubts, strays)
        /\ Moving(regions, split, i, data, pending, acked, doubts, strays)
    BY <1>4 DEF DataInv
  <2>2. IsTable(regions)
    BY <1>4 DEF ListInv, Splits
  <2> QED
    BY <1>2, <2>1, <2>2, BaseWeaker, LateWeaker, MovingWeaker, PendingKeys DEF Fades
<1> QED
  BY <1>1, <1>2, <1>3, <1>4 DEF DataInv

LEMMA ManageSteps ==
  ASSUME ListInv, Manage, Fades
  PROVE  ListInv' /\ (DataInv => DataInv')
<1>1. ASSUME NEW id \in RegionId, NEW k \in UserKey, SplitRegion(id, k)
      PROVE  ListInv' /\ (DataInv => DataInv')
  BY <1>1, SplitRegionStep, SplitRegionData
<1>2. ASSUME NEW id \in RegionId, NEW p \in 1 .. MaxPeer,
             TransferLeader(id, p) \/ AddPeer(id, p, p) \/ RemovePeer(id, p)
      PROVE  ListInv' /\ (DataInv => DataInv')
  BY <1>2, TransferLeaderStep, AddPeerStep, RemovePeerStep
<1>3. ASSUME NEW id \in RegionId, ClusterFails(id)
      PROVE  ListInv' /\ (DataInv => DataInv')
  <2>1. files' = files /\ UNCHANGED <<running, regions, catalog, split>>
    BY <1>3 DEF ClusterFails, tables
  <2> QED
    BY <1>3, <2>1, WriteList, RefusedData
<1>4. ASSUME NEW id \in RegionId, NEW p \in 1 .. MaxPeer, RemovePeerFails(id, p)
      PROVE  ListInv' /\ (DataInv => DataInv')
  <2>1. files' = files /\ UNCHANGED <<running, regions, catalog, split>>
    BY <1>4 DEF RemovePeerFails
  <2> QED
    BY <1>4, <2>1, RemovePeerFailsList, RefusedData
<1> QED
  BY <1>1, <1>2, <1>3, <1>4 DEF Manage

LEMMA InternalList ==
  ASSUME ListInv, Internal
  PROVE  ListInv'
BY StartList, StartDiesList, CrashList, ProgressList, SplitFailsList, InstallList, WriteList
   DEF Internal

LEMMA InternalData ==
  ASSUME ListInv, DataInv, Internal, acked' = acked, StraysNext
  PROVE  DataInv'
<1>1. CASE Export /\ Doubt(IF split.id \in leaderless THEN Kept \ Reserved ELSE {}, "leaderless")
  BY <1>1, ExportData
<1>2. CASE SplitFails /\ Doubt(IF split.pc = "deletes" THEN Moved ELSE {}, "cut short")
  BY <1>2, SplitFailsData
<1>3. CASE Crash /\ Doubt(IF split.pc = "install" THEN Moved ELSE {}, "cut short")
  BY <1>3, CrashData
<1>4. CASE Install /\ Doubt(Kept \cap Reserved, "reserved")
  BY <1>4, InstallData
<1>5. CASE (Start \/ StartDies \/ PutRight \/ DeleteLeft) /\ doubts' = doubts
  BY <1>5, StartData, StartDiesData, PutRightData, DeleteLeftData
<1>6. CASE (\E id \in RegionId : ComesUp(id)) /\ doubts' = doubts
  BY <1>6, ComesUpData
<1> QED
  BY <1>1, <1>2, <1>3, <1>4, <1>5, <1>6 DEF Internal

LEMMA StoreInit ==
  ASSUME Init
  PROVE  ListInv /\ DataInv
BY ListInit, DataInit

LEMMA StoreNext ==
  ASSUME ListInv, DataInv, [Next]_vars
  PROVE  ListInv' /\ DataInv'
<1>1. CASE Internal /\ acked' = acked /\ StraysNext
  BY <1>1, InternalList, InternalData
<1>2. CASE Manage /\ acked' = acked /\ doubts' = doubts /\ StraysNext
  <2>1. Fades
    BY <1>2, UnchangedFades DEF DataInv, Fades
  <2> QED
    BY <1>2, <2>1, ManageSteps
<1>3. ASSUME NEW cmd \in Commands, Write(cmd), WriteDoubts(cmd),
             acked' = Mutate(acked, cmd), StraysNext
      PROVE  ListInv' /\ DataInv'
  BY <1>3, WriteList, WriteData
<1>4. ASSUME NEW cmd \in Commands, WriteFails(cmd), Doubt(DOMAIN cmd, "failed"),
             acked' = acked, StraysNext
      PROVE  ListInv' /\ DataInv'
  BY <1>4, WriteList, WriteFailsData
<1>5. CASE UNCHANGED vars
  <2>1. ListInv'
    BY <1>5 DEF vars, ListInv
  <2>2. Fades /\ files' = files /\ UNCHANGED <<running, regions, catalog, split>>
    BY <1>5 DEF vars, files, Fades, Weaker, DataInv, DataTypes
  <2> QED
    BY <2>1, <2>2, RefusedData
<1>6. CASE Next
  <2>1. StraysNext
    BY <1>6 DEF Next, StraysNext
  <2> QED
    BY <1>1, <1>2, <1>3, <1>4, <1>6, <2>1 DEF Next
<1> QED
  BY <1>5, <1>6

\* The regions of a store process always partition the keys, in memory and in
\* regions.catalog: through splits that fail or are cut short by a crash, writes
\* that meet a split, membership changes and restarts (SplitRegion,
\* PersistRegionCatalog, LoadRegionCatalog).
THEOREM RegionsCoverKeys == Spec => []RegionsPartition
<1>1. Init => ListInv /\ DataInv
  BY StoreInit
<1>2. ListInv /\ DataInv /\ [Next]_vars => (ListInv /\ DataInv)'
  BY StoreNext
<1>3. ListInv => RegionsPartition
  BY DEF ListInv, RegionsPartition, IsTable, PartitionsKeys
<1> QED
  BY <1>1, <1>2, <1>3, PTL DEF Spec

\* No cluster holds a key outside its region's range, wherever a split fails or
\* the process dies and whatever runs beside it, unless the key was in a failed
\* write, was written while a split had already exported it, or was left behind
\* by a split for its prefix or for want of a leader.
THEOREM DataStaysWithinRange == Spec => []DataWithinRange
<1>1. Init => ListInv /\ DataInv
  BY StoreInit
<1>2. ListInv /\ DataInv /\ [Next]_vars => (ListInv /\ DataInv)'
  BY StoreNext
<1>3. ListInv /\ DataInv => DataWithinRange
  <2> SUFFICES ASSUME ListInv, DataInv, Settled,
                      NEW i \in DOMAIN regions, NEW k \in UserKey \ strays,
                      data[regions[i].id][k] # NoValue
               PROVE  ContainsKey(regions[i], k)
    BY DEF DataWithinRange
  <2>1. Base(regions, {}, data, acked, doubts, strays)
    BY IdleData DEF Settled, Request
  <2> QED
    BY <2>1 DEF Base
<1> QED
  BY <1>1, <1>2, <1>3, PTL DEF Spec

\* A Get returns the last acknowledged write of its key, whatever splits, deaths,
\* restarts, membership changes and failed writes came since, unless one of the
\* five things happened to the key that the histories name (Put, Get,
\* SplitRegion); for three of them a configuration shows that it can be lost.
THEOREM LastWriteIsRead == Spec => []ReadsLastWrite
<1>1. Init => ListInv /\ DataInv
  BY StoreInit
<1>2. ListInv /\ DataInv /\ [Next]_vars => (ListInv /\ DataInv)'
  BY StoreNext
<1>3. ListInv /\ DataInv => ReadsLastWrite
  <2> SUFFICES ASSUME ListInv, DataInv, Settled, NEW k \in UserKey, doubts[k] = {}
               PROVE  FindRegionByKey(k) # 0 /\ Get(k) = acked[k]
    BY DEF ReadsLastWrite, ReadsDespite
  <2>1. Base(regions, {}, data, acked, doubts, strays)
    BY IdleData DEF Settled, Request
  <2>2. IsTable(regions)
    BY RunningFacts DEF Settled
  <2>3. PICK i \in DOMAIN regions : ContainsKey(regions[i], k)
    BY <2>2 DEF IsTable, PartitionsKeys
  <2>4. FindRegionByKey(k) = i /\ i # 0
    BY <2>2, <2>3, FindOf, ListDomain DEF IsTable
  <2>5. data[regions[i].id][k] = acked[k]
    BY <2>1, <2>3 DEF Base
  <2> QED
    BY <2>4, <2>5 DEF Get
<1> QED
  BY <1>1, <1>2, <1>3, PTL DEF Spec
=============================================================================
