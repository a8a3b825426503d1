------------------------- MODULE StoreStartupProofs -------------------------
(***************************************************************************)
(* Theorems about StoreStartup, for every number of stores, whatever fails *)
(* and however often.                                                      *)
(***************************************************************************)
EXTENDS StoreStartup, FiniteSetTheorems, TLAPS

-----------------------------------------------------------------------------
\* InOrder lists every element of a finite set of numbers, and nothing else.

\* How many elements of S are below x.
Rank(S, x) == Cardinality({y \in S : y < x})

LEMMA RankBounds ==
  ASSUME NEW S \in SUBSET Int, IsFiniteSet(S), NEW x \in S
  PROVE  Rank(S, x) \in 0 .. Cardinality(S) - 1
<1> DEFINE B == {y \in S : y < x}
<1>1. B \in SUBSET S /\ B # S
  OBVIOUS
<1>2. IsFiniteSet(B) /\ Cardinality(B) <= Cardinality(S) /\ Cardinality(B) # Cardinality(S)
  BY <1>1, FS_Subset
<1>3. Cardinality(B) \in Nat /\ Cardinality(S) \in Nat
  BY <1>2, FS_CardinalityType
<1> QED
  BY <1>2, <1>3 DEF Rank

LEMMA RankIncreases ==
  ASSUME NEW S \in SUBSET Int, IsFiniteSet(S), NEW x \in S, NEW z \in S, x < z
  PROVE  Rank(S, x) < Rank(S, z)
<1> DEFINE B == {y \in S : y < x}
           C == {y \in S : y < z}
<1>1. C \in SUBSET S /\ B \in SUBSET C /\ x \in C /\ x \notin B
  <2>1. x \in Int /\ z \in Int
    OBVIOUS
  <2>2. \A y \in S : y \in Int /\ (y < x => y < z)
    BY <2>1
  <2>3. B \in SUBSET C
    BY <2>2
  <2> QED
    BY <2>1, <2>3
<1>2. IsFiniteSet(C)
  BY <1>1, FS_Subset
<1>3. IsFiniteSet(B) /\ Cardinality(B) <= Cardinality(C) /\ Cardinality(B) # Cardinality(C)
  <2>1. B # C
    BY <1>1
  <2> QED
    BY <1>1, <1>2, <2>1, FS_Subset
<1>4. Cardinality(B) \in Nat /\ Cardinality(C) \in Nat
  BY <1>2, <1>3, FS_CardinalityType
<1> QED
  BY <1>3, <1>4 DEF Rank

LEMMA RankIsInjective ==
  ASSUME NEW S \in SUBSET Int, IsFiniteSet(S), NEW x \in S, NEW z \in S,
         Rank(S, x) = Rank(S, z)
  PROVE  x = z
<1>1. Rank(S, x) \in Int /\ x \in Int /\ z \in Int
  BY RankBounds, FS_CardinalityType
<1>2. ~(x < z)
  BY <1>1, RankIncreases
<1>3. ~(z < x)
  BY <1>1, RankIncreases
<1> QED
  BY <1>1, <1>2, <1>3

\* Every rank below the size of S is taken: there are as many ranks as elements.
LEMMA RankIsTaken ==
  ASSUME NEW S \in SUBSET Int, IsFiniteSet(S), NEW i \in 1 .. Cardinality(S)
  PROVE  \E x \in S : Rank(S, x) = i - 1
<1> DEFINE n == Cardinality(S)
           R == [x \in S |-> Rank(S, x)]
           D == 0 .. n - 1
           I == {R[x] : x \in S}
<1>1. n \in Nat
  BY FS_CardinalityType
<1>2. IsFiniteSet(D) /\ Cardinality(D) = n
  <2>1. /\ IsFiniteSet(0 .. n - 1)
        /\ Cardinality(0 .. n - 1) = IF 0 > n - 1 THEN 0 ELSE n - 1 - 0 + 1
    <3> HIDE DEF n
    <3>1. 0 \in Int /\ n - 1 \in Int
      BY <1>1
    <3> QED
      BY <3>1, FS_Interval
  <2> HIDE DEF n
  <2> QED
    BY <1>1, <2>1
<1>3. I \in SUBSET D
  BY RankBounds
<1>4. R \in Bijection(S, I)
  <2>1. R \in [S -> I] /\ \A y \in I : \E x \in S : R[x] = y
    OBVIOUS
  <2>2. \A x, z \in S : R[x] = R[z] => x = z
    BY RankIsInjective
  <2> QED
    BY <2>1, <2>2 DEF Bijection, Injection, Surjection, IsInjective
<1>5. Cardinality(I) = n
  BY <1>4, FS_Bijection DEF ExistsBijection
<1>6. I = D
  BY <1>2, <1>3, <1>5, FS_Subset
<1>7. i - 1 \in D
  BY <1>1
<1> QED
  BY <1>6, <1>7

LEMMA InOrderFacts ==
  ASSUME NEW S \in SUBSET Int, IsFiniteSet(S)
  PROVE  /\ DOMAIN InOrder(S) = 1 .. Cardinality(S)
         /\ {InOrder(S)[i] : i \in DOMAIN InOrder(S)} = S
         /\ InOrder(S) \in Seq(S)
         /\ Len(InOrder(S)) = Cardinality(S)
<1> DEFINE n == Cardinality(S)
           l == InOrder(S)
           at(i) == CHOOSE x \in S : Rank(S, x) = i - 1
<1>1. n \in Nat
  BY FS_CardinalityType
<1>2. l = [i \in 1 .. n |-> at(i)]
  BY DEF InOrder, Rank
<1>3. \A i \in 1 .. n : l[i] \in S /\ Rank(S, l[i]) = i - 1
  BY <1>2, RankIsTaken
<1>4. DOMAIN l = 1 .. n
  BY <1>2
<1>5. ASSUME NEW x \in S PROVE \E i \in 1 .. n : l[i] = x
  <2>1. Rank(S, x) \in 0 .. n - 1
    BY RankBounds
  <2> DEFINE i == Rank(S, x) + 1
  <2>2. i \in 1 .. n /\ i - 1 = Rank(S, x)
    BY <2>1, <1>1
  <2>3. l[i] \in S /\ Rank(S, l[i]) = Rank(S, x)
    <3> HIDE DEF i, l, n
    <3> QED
      BY <2>2, <1>3
  <2>4. PICK z \in S : z = l[i]
    BY <2>3
  <2>5. Rank(S, z) = Rank(S, x)
    BY <2>3, <2>4
  <2>6. z = x
    BY <2>5, RankIsInjective
  <2> QED
    BY <2>2, <2>4, <2>6
<1>6. {l[i] : i \in 1 .. n} = S
  BY <1>3, <1>5
<1>7. l \in Seq(S) /\ Len(l) = n
  <2>1. l \in [1 .. n -> S]
    BY <1>2, <1>3
  <2> QED
    BY <2>1, <1>1
<1> QED
  BY <1>4, <1>6, <1>7

-----------------------------------------------------------------------------
\* Types.  A region map may be empty, as PD's is at first; a process is past its
\* polls only with regions, and before the last poll only with enough stores.

MetaFields  == {"stores", "regions", "byStart", "nextStore", "nextRegion", "nextPeer"}
ImageFields == {"stores", "regions", "nextStore", "nextRegion", "nextPeer"}
ProcFields  == {"pc", "tries", "id", "listed", "stores", "regions"}

IsMap(f) == f = [x \in DOMAIN f |-> f[x]]

\* The stores and regions that PD has in memory and on disk.
IsData(m) == m.stores \in SUBSET (0 .. MaxStore) /\ IsMap(m.regions) /\ m.nextStore \in Nat

IsMeta(m) == DOMAIN m = MetaFields /\ IsData(m)

IsCatalog(c) ==
  /\ DOMAIN c = {"state", "image"} /\ DOMAIN c.image = ImageFields /\ IsData(c.image)

Started == {"bootstrap", "serving"}

IsProc(s) ==
  /\ DOMAIN s = ProcFields
  /\ s.tries \in Nat /\ s.id \in 0 .. MaxStore
  /\ s.listed \in SUBSET (0 .. MaxStore) /\ s.stores \in SUBSET (0 .. MaxStore)
  /\ IsMap(s.regions)
  /\ s.pc \in {"stores", "regions", "default"} \cup Started => s.tries <= StatusTries
  /\ s.pc = "default" => s.tries < StatusTries /\ Enough(s)
  /\ s.pc \in Started => s.regions # <<>>
  /\ s.pc \in Started /\ s.tries < StatusTries => Enough(s)

\* A PD that is down has died.
PdType == /\ running \in BOOLEAN /\ faults \in Nat /\ (~running => faults # 0)
          /\ IsMeta(meta) /\ IsCatalog(catalog)

ProcType == /\ proc = [p \in Process |-> proc[p]]
            /\ \A p \in Process : IsProc(proc[p])

TypeInv == PdType /\ ProcType

LEMMA EmptyMap ==
  ASSUME NEW f, IsMap(f)
  PROVE  f = <<>> <=> DOMAIN f = {}
BY DEF IsMap

LEMMA NewIsMeta == IsMeta(PD!NewMetadata) /\ IsData(PD!ImageOf(PD!NewMetadata))
BY DEF IsMeta, IsData, IsMap, MetaFields, PD!NewMetadata, PD!ImageOf

LEMMA ImageIsData ==
  ASSUME NEW m, IsMeta(m)
  PROVE  /\ DOMAIN PD!ImageOf(m) = ImageFields /\ IsData(PD!ImageOf(m))
         /\ IsCatalog([state |-> "full", image |-> PD!ImageOf(m)])
BY DEF IsMeta, IsData, PD!ImageOf, ImageFields, IsCatalog

LEMMA LoadIsMeta ==
  ASSUME NEW c, IsCatalog(c)
  PROVE  /\ IsMeta(PD!LoadMetadata(c.image))
         /\ PD!LoadMetadata(c.image).stores = c.image.stores
         /\ PD!LoadMetadata(c.image).regions = c.image.regions
BY DEF IsMeta, IsData, PD!LoadMetadata, MetaFields, IsCatalog

LEMMA TornIsCatalog ==
  ASSUME NEW c, IsCatalog(c)
  PROVE  /\ IsCatalog([c EXCEPT !.state = "torn"])
         /\ [c EXCEPT !.state = "torn"].image = c.image
BY DEF IsCatalog, IsData

\* The metadata that RegisterStore builds.
Registered(id) ==
  LET s == IF id = 0 THEN meta.nextStore ELSE id
      m == IF s >= meta.nextStore THEN [meta EXCEPT !.nextStore = s + 1] ELSE meta
  IN  PD!PutStore(m, s)

LEMMA RegisterStoreFacts ==
  ASSUME IsMeta(meta), NEW id \in 0 .. MaxStore, PD!RegisterStore(id)
  PROVE  LET s == IF id = 0 THEN meta.nextStore ELSE id
         IN  /\ running /\ PD!Persist(Registered(id)) /\ IsMeta(Registered(id))
             /\ s \in 0 .. MaxStore
             /\ Registered(id).stores = meta.stores \cup {s}
             /\ Registered(id).regions = meta.regions
<1> DEFINE s == IF id = 0 THEN meta.nextStore ELSE id
           m == IF s >= meta.nextStore THEN [meta EXCEPT !.nextStore = s + 1] ELSE meta
<1>1. running /\ s <= MaxStore /\ PD!Persist(PD!PutStore(m, s))
  BY DEF PD!RegisterStore
<1>2. s \in 0 .. MaxStore /\ s \in Nat
  BY <1>1, StartupAssumption DEF IsMeta, IsData
<1> HIDE DEF s
<1>3. IsMeta(m) /\ m.stores = meta.stores /\ m.regions = meta.regions
  BY <1>2 DEF IsMeta, IsData, MetaFields
<1> HIDE DEF m
<1>4. /\ IsMeta(PD!PutStore(m, s)) /\ PD!PutStore(m, s).stores = meta.stores \cup {s}
      /\ PD!PutStore(m, s).regions = meta.regions
  BY <1>2, <1>3 DEF IsMeta, IsData, MetaFields, PD!PutStore
<1>5. Registered(id) = PD!PutStore(m, s)
  BY DEF Registered, m, s
<1> QED
  BY <1>1, <1>2, <1>4, <1>5 DEF s

\* The region that BootstrapDefaultRegion makes of a list, and the metadata with it.
DefaultRegion(list) ==
  LET ps == [i \in 1 .. Len(list) |-> [id |-> meta.nextPeer + i - 1, store |-> list[i]]]
  IN  [start |-> 0, end |-> Unbounded, version |-> 1, confVer |-> 1,
       leader |-> ps[1].id, peers |-> ps]

WithDefaultRegion(list) ==
  PD!PutRegion([meta EXCEPT !.nextRegion = meta.nextRegion + 1,
                            !.nextPeer = meta.nextPeer + Len(list)],
               meta.nextRegion, DefaultRegion(list))

LEMMA BootstrapFacts ==
  ASSUME IsMeta(meta), NEW list, PD!BootstrapDefaultRegion(list)
  PROVE  /\ running /\ DOMAIN meta.regions = {}
         /\ PD!Persist(WithDefaultRegion(list)) /\ IsMeta(WithDefaultRegion(list))
         /\ WithDefaultRegion(list).stores = meta.stores
         /\ WithDefaultRegion(list).regions =
              [i \in {meta.nextRegion} |-> DefaultRegion(list)]
<1> DEFINE r == DefaultRegion(list)
           m == [meta EXCEPT !.nextRegion = meta.nextRegion + 1,
                             !.nextPeer = meta.nextPeer + Len(list)]
           w == PD!PutRegion(m, meta.nextRegion, r)
<1>1. running /\ DOMAIN meta.regions = {} /\ PD!Persist(w)
  BY DEF PD!BootstrapDefaultRegion, PD!NoRegion, DefaultRegion, PD!Unbounded, Unbounded
<1>2. w = WithDefaultRegion(list)
  BY DEF WithDefaultRegion
<1> HIDE DEF r
<1>3. /\ DOMAIN m = MetaFields /\ m.stores = meta.stores /\ m.regions = meta.regions
      /\ m.nextStore = meta.nextStore
  BY DEF IsMeta, MetaFields
<1> HIDE DEF m
<1>4. /\ DOMAIN w = MetaFields /\ w.stores = meta.stores /\ w.nextStore = meta.nextStore
      /\ w.regions = [i \in {meta.nextRegion} |-> r]
  BY <1>1, <1>3 DEF PD!PutRegion, MetaFields
<1> HIDE DEF w
<1>5. IsMeta(w)
  BY <1>4 DEF IsMeta, IsData, IsMap
<1> QED
  BY <1>1, <1>2, <1>4, <1>5 DEF r

LEMMA DefaultRegionStores ==
  ASSUME NEW S \in SUBSET Int, IsFiniteSet(S)
  PROVE  LET r == DefaultRegion(InOrder(S))
         IN  {r.peers[j].store : j \in DOMAIN r.peers} = S
<1> DEFINE l == InOrder(S)
           r == DefaultRegion(l)
<1>1. DOMAIN l = 1 .. Len(l) /\ {l[i] : i \in DOMAIN l} = S
  BY InOrderFacts
<1> HIDE DEF l
<1>2. r.peers = [i \in 1 .. Len(l) |-> [id |-> meta.nextPeer + i - 1, store |-> l[i]]]
  BY DEF DefaultRegion
<1> HIDE DEF r
<1>3. DOMAIN r.peers = DOMAIN l /\ \A j \in DOMAIN l : r.peers[j].store = l[j]
  BY <1>1, <1>2
<1>4. {r.peers[j].store : j \in DOMAIN r.peers} = {l[i] : i \in DOMAIN l}
  BY <1>3
<1> QED
  BY <1>1, <1>4 DEF r, l

\* Lists of stores are finite sets of numbers.
LEMMA StoresAreFinite ==
  ASSUME NEW S \in SUBSET (0 .. MaxStore)
  PROVE  S \in SUBSET Int /\ IsFiniteSet(S) /\ Cardinality(S) \in Nat
<1>1. IsFiniteSet(0 .. MaxStore)
  BY FS_Interval, StartupAssumption
<1>2. IsFiniteSet(S)
  BY <1>1, FS_Subset
<1> QED
  BY <1>2, FS_CardinalityType

\* A process in its polls.
Polling(s) ==
  /\ DOMAIN s = ProcFields
  /\ s.tries \in Nat /\ s.tries <= StatusTries /\ s.id \in 0 .. MaxStore
  /\ s.listed \in SUBSET (0 .. MaxStore) /\ s.stores \in SUBSET (0 .. MaxStore)
  /\ IsMap(s.regions)

\* What a process knows stays as it is.
SameKnowledge(s, n) ==
  n.id = s.id /\ n.listed = s.listed /\ n.stores = s.stores /\ n.regions = s.regions

LEMMA NextPollFacts ==
  ASSUME NEW s, Polling(s)
  PROVE  /\ IsProc(NextPoll(s)) /\ SameKnowledge(s, NextPoll(s))
         /\ NextPoll(s).pc \in {"stores", "bootstrap", "exited"}
         /\ NextPoll(s).pc = "exited" => s.regions = <<>> /\ s.tries = StatusTries
<1> DEFINE n == NextPoll(s)
<1>1. /\ DOMAIN n = ProcFields /\ SameKnowledge(s, n)
      /\ n.tries = IF s.tries = StatusTries THEN s.tries ELSE s.tries + 1
      /\ n.pc = IF s.tries + 1 < StatusTries THEN "stores"
                ELSE IF s.regions # <<>> THEN "bootstrap"
                ELSE IF s.tries + 1 = StatusTries THEN "stores" ELSE "exited"
  BY DEF Polling, NextPoll, SameKnowledge, ProcFields
<1> HIDE DEF n
<1>2. n.tries \in Nat /\ n.tries <= StatusTries
  BY <1>1, StartupAssumption DEF Polling
<1>3. n.pc \in {"stores", "bootstrap", "exited"}
  BY <1>1
<1>4. n.pc = "bootstrap" => s.regions # <<>> /\ ~(n.tries < StatusTries)
  BY <1>1, StartupAssumption DEF Polling
<1>5. n.pc = "exited" => s.regions = <<>> /\ s.tries = StatusTries
  BY <1>1, StartupAssumption DEF Polling
<1>6. IsProc(n)
  BY <1>1, <1>2, <1>3, <1>4 DEF IsProc, SameKnowledge, Polling, Started
<1> QED
  BY <1>1, <1>3, <1>5, <1>6 DEF n

LEMMA AfterStatusFacts ==
  ASSUME NEW s, Polling(s)
  PROVE  /\ IsProc(AfterStatus(s)) /\ SameKnowledge(s, AfterStatus(s))
         /\ AfterStatus(s).pc \in {"stores", "default", "bootstrap", "exited"}
         /\ AfterStatus(s).pc = "exited" => s.regions = <<>>
<1>1. CASE s.tries < StatusTries /\ Enough(s)
  <2> DEFINE n == [s EXCEPT !.pc = IF s.regions = <<>> THEN "default" ELSE "bootstrap"]
  <2>1. AfterStatus(s) = n
    BY <1>1 DEF AfterStatus
  <2>2. /\ DOMAIN n = ProcFields /\ SameKnowledge(s, n) /\ n.tries = s.tries
        /\ n.pc = IF s.regions = <<>> THEN "default" ELSE "bootstrap"
    BY DEF Polling, SameKnowledge, ProcFields
  <2> HIDE DEF n
  <2>3. Enough(n)
    BY <1>1, <2>2 DEF Enough, SameKnowledge
  <2>4. IsProc(n)
    BY <1>1, <2>2, <2>3 DEF IsProc, SameKnowledge, Polling, Started
  <2> QED
    BY <2>1, <2>2, <2>4
<1>2. CASE ~(s.tries < StatusTries /\ Enough(s))
  <2>1. AfterStatus(s) = NextPoll(s)
    BY <1>2 DEF AfterStatus
  <2> QED
    BY <2>1, NextPollFacts
<1> QED
  BY <1>1, <1>2

LEMMA BecomeFacts ==
  ASSUME ProcType, NEW p \in Process, NEW s, Become(p, s)
  PROVE  /\ proc' = [q \in Process |-> proc'[q]]
         /\ proc'[p] = s /\ \A q \in Process \ {p} : proc'[q] = proc[q]
BY DEF ProcType, Become

LEMMA BecomeType ==
  ASSUME ProcType, NEW p \in Process, NEW s, IsProc(s), Become(p, s)
  PROVE  ProcType'
<1>1. \A q \in Process : IsProc(proc'[q])
  BY BecomeFacts DEF ProcType
<1> QED
  BY <1>1, BecomeFacts DEF ProcType

LEMMA PersistType ==
  ASSUME PdType, NEW m, IsMeta(m), PD!Persist(m)
  PROVE  running' \in BOOLEAN /\ IsMeta(meta') /\ IsCatalog(catalog')
BY NewIsMeta, ImageIsData, TornIsCatalog DEF PdType, PD!Persist

LEMMA DownIsProc == IsProc(Down)
BY StartupAssumption DEF IsProc, Down, ProcFields, IsMap, Started

-----------------------------------------------------------------------------
\* What a step does to PD.

\* PD executes a handler that builds m: it saves m and answers, or there is a fault.
PdMoves(m) ==
  /\ running /\ PD!Persist(m)
  /\ \/ /\ running' /\ catalog' = [state |-> "full", image |-> PD!ImageOf(meta')]
        /\ UNCHANGED faults
     \/ Fault

PdStays == UNCHANGED <<running, meta, catalog>> /\ (UNCHANGED faults \/ Fault)

LEMMA PdMovesType ==
  ASSUME PdType, NEW m, IsMeta(m), PdMoves(m)
  PROVE  PdType'
<1>1. running' \in BOOLEAN /\ IsMeta(meta') /\ IsCatalog(catalog')
  BY PersistType DEF PdMoves
<1>2. faults' \in Nat /\ (~running' => faults' # 0)
  BY DEF PdType, PdMoves, Fault
<1> QED
  BY <1>1, <1>2 DEF PdType

LEMMA PdStaysType ==
  ASSUME PdType, PdStays
  PROVE  PdType'
BY DEF PdType, PdStays, Fault

LEMMA PdStepType ==
  ASSUME PdType, PdStep
  PROVE  PdType' /\ UNCHANGED proc
<1>1. CASE PD!Crash /\ Fault /\ UNCHANGED proc
  <2>1. running' = FALSE /\ meta' = PD!NewMetadata /\ UNCHANGED catalog
    BY <1>1 DEF PD!Crash
  <2>2. faults' \in Nat /\ faults' # 0
    BY <1>1 DEF PdType, Fault
  <2>3. IsMeta(meta')
    BY <2>1, NewIsMeta
  <2> QED
    BY <1>1, <2>1, <2>2, <2>3 DEF PdType
<1>2. CASE PD!Open /\ UNCHANGED <<proc, faults>>
  <2>1. running' = TRUE /\ meta' = PD!LoadMetadata(catalog.image) /\ UNCHANGED catalog
    BY <1>2 DEF PD!Open
  <2>2. IsMeta(meta')
    BY <2>1, LoadIsMeta DEF PdType
  <2> QED
    BY <1>2, <2>1, <2>2 DEF PdType
<1> QED
  BY <1>1, <1>2 DEF PdStep

\* The refusal of a list with an unknown store changes the allocators only.
LEMMA BootstrapUnknownFacts ==
  ASSUME PdType, NEW list, PD!BootstrapUnknownStore(list), UNCHANGED faults
  PROVE  /\ PdType' /\ running /\ UNCHANGED <<running, catalog>>
         /\ meta'.stores = meta.stores /\ meta'.regions = meta.regions
         /\ DOMAIN meta.regions = {} /\ ~(PD!Range(list) \subseteq meta.stores)
<1>1. /\ running /\ UNCHANGED <<running, catalog>> /\ DOMAIN meta.regions = {}
      /\ ~(PD!Range(list) \subseteq meta.stores)
  BY DEF PD!BootstrapUnknownStore, PD!NoRegion
<1>2. PICK a, b : meta' = [meta EXCEPT !.nextRegion = a, !.nextPeer = b]
  BY DEF PD!BootstrapUnknownStore
<1>3. /\ DOMAIN meta' = MetaFields /\ meta'.stores = meta.stores
      /\ meta'.regions = meta.regions /\ meta'.nextStore = meta.nextStore
  BY <1>2 DEF PdType, IsMeta, MetaFields
<1>4. IsMeta(meta')
  BY <1>3 DEF PdType, IsMeta, IsData
<1> QED
  BY <1>1, <1>3, <1>4 DEF PdType

LEMMA ReadFacts ==
  /\ ReadAnswered => PdStays
  /\ Unanswered(Reads) => PdStays
BY DEF ReadAnswered, Reads, Unanswered, PdStays

\* The effects of the two calls that change PD.
LEMMA RegisterCall ==
  ASSUME PdType, NEW id \in 0 .. MaxStore,
         Answered(PD!RegisterStore(id)) \/ Unanswered(PD!RegisterStore(id))
  PROVE  \/ /\ PD!RegisterStore(id) /\ PdMoves(Registered(id))
            /\ IsMeta(Registered(id)) /\ Registered(id).regions = meta.regions
            /\ Registered(id).stores =
                 meta.stores \cup {IF id = 0 THEN meta.nextStore ELSE id}
            /\ (IF id = 0 THEN meta.nextStore ELSE id) \in 0 .. MaxStore
         \/ PdStays
<1>1. CASE PD!RegisterStore(id)
           /\ (Fault \/ (running' /\ UNCHANGED faults
                          /\ catalog' = [state |-> "full", image |-> PD!ImageOf(meta')]))
  <2>1. IsMeta(meta)
    BY DEF PdType
  <2> QED
    BY <1>1, <2>1, RegisterStoreFacts DEF PdMoves
<1>2. CASE UNCHANGED <<running, meta, catalog>> /\ (UNCHANGED faults \/ Fault)
  BY <1>2 DEF PdStays
<1> QED
  BY <1>1, <1>2 DEF Answered, Unanswered

\* PD makes the region of the list, or stays as it is.
BootstrapMoves(list) ==
  /\ PD!BootstrapDefaultRegion(list) /\ PdMoves(WithDefaultRegion(list))
  /\ IsMeta(WithDefaultRegion(list)) /\ DOMAIN meta.regions = {}
  /\ WithDefaultRegion(list).stores = meta.stores
  /\ WithDefaultRegion(list).regions = [i \in {meta.nextRegion} |-> DefaultRegion(list)]

LEMMA BootstrapCall ==
  ASSUME PdType, NEW list,
         LET A == PD!BootstrapDefaultRegion(list)
         IN  \/ Answered(A) \/ (~PD!NoRegion /\ ReadAnswered)
             \/ Unanswered(A \/ (~PD!NoRegion /\ Reads))
  PROVE  BootstrapMoves(list) \/ PdStays
<1>1. CASE PD!BootstrapDefaultRegion(list)
           /\ (Fault \/ (running' /\ UNCHANGED faults
                          /\ catalog' = [state |-> "full", image |-> PD!ImageOf(meta')]))
  <2>1. IsMeta(meta)
    BY DEF PdType
  <2> QED
    BY <1>1, <2>1, BootstrapFacts DEF PdMoves, BootstrapMoves
<1>2. CASE UNCHANGED <<running, meta, catalog>> /\ (UNCHANGED faults \/ Fault)
  BY <1>2 DEF PdStays
<1> QED
  BY <1>1, <1>2 DEF Answered, Unanswered, Reads, ReadAnswered

-----------------------------------------------------------------------------
\* What a step does to its process: s before, n after.

LEMMA LaunchFacts ==
  ASSUME TypeInv, NEW p \in Process, Launch(p)
  PROVE  LET n == proc'[p]
         IN  /\ PdStays /\ Become(p, n) /\ IsProc(n)
             /\ n.pc = "register" /\ n.id = StoreId[p] /\ n.listed = {} /\ n.stores = {}
             /\ n.regions = <<>>
<1> DEFINE n == [Down EXCEPT !.pc = "register", !.id = StoreId[p]]
<1>1. Become(p, n) /\ PdStays
  BY DEF Launch, PdStays
<1>2. proc'[p] = n
  BY <1>1, BecomeFacts DEF TypeInv
<1>3. /\ DOMAIN n = ProcFields /\ n.pc = "register" /\ n.id = StoreId[p] /\ n.tries = 0
      /\ n.listed = {} /\ n.stores = {} /\ n.regions = <<>>
  BY DEF Down, ProcFields
<1> HIDE DEF n
<1>4. IsMap(n.regions) /\ n.id \in 0 .. MaxStore
  BY <1>3, StartupAssumption DEF IsMap
<1>5. IsProc(n)
  BY <1>3, <1>4 DEF IsProc, Started
<1> QED
  BY <1>1, <1>2, <1>3, <1>5

LEMMA KillFacts ==
  ASSUME TypeInv, NEW p \in Process, Kill(p)
  PROVE  PdStays /\ Become(p, Down) /\ proc'[p] = Down
<1>1. Become(p, Down) /\ PdStays
  BY DEF Kill, PdStays
<1> QED
  BY <1>1, BecomeFacts DEF TypeInv

\* Registration: the process has been answered, with its id, or has met an error.
RegisterMoves(s) ==
  LET id == IF s.id = 0 THEN meta.nextStore ELSE s.id
  IN  /\ PD!RegisterStore(s.id) /\ PdMoves(Registered(s.id)) /\ IsMeta(Registered(s.id))
      /\ Registered(s.id).regions = meta.regions
      /\ Registered(s.id).stores = meta.stores \cup {id} /\ id \in 0 .. MaxStore

SameLists(s, n) == n.listed = s.listed /\ n.stores = s.stores /\ n.regions = s.regions

LEMMA RegisterFacts ==
  ASSUME TypeInv, NEW p \in Process, RegisterStore(p)
  PROVE  LET s == proc[p]
             n == proc'[p]
         IN  /\ s.pc = "register" /\ Become(p, n) /\ IsProc(n) /\ SameLists(s, n)
             /\ \/ RegisterMoves(s) /\ n.pc = "stores" /\ n.id = RegisteredId(s)
                \/ /\ RegisterMoves(s) \/ PdStays
                   /\ n.pc \in {"register", "exited"} /\ n.id = s.id /\ faults' # 0
<1> DEFINE s == proc[p]
           A == PD!RegisterStore(s.id)
           n1 == [s EXCEPT !.pc = "stores", !.tries = 0, !.id = RegisteredId(s)]
           n2 == [s EXCEPT !.tries = @ + 1,
                    !.pc = IF s.tries + 1 = RegisterTries THEN "exited" ELSE "register"]
<1>1. IsProc(s) /\ PdType /\ ProcType /\ s.id \in 0 .. MaxStore
  BY DEF TypeInv, ProcType, IsProc
<1>2. /\ s.pc = "register"
      /\ (Answered(A) /\ Become(p, n1)) \/ (Unanswered(A) /\ Become(p, n2))
  BY DEF RegisterStore
<1>3. CASE Answered(A) /\ Become(p, n1)
  <2>1. RegisterMoves(s)
    <3>1. running
      BY <1>3 DEF Answered, PD!RegisterStore
    <3>2. IsMeta(meta)
      BY <1>1 DEF PdType
    <3>3. PD!RegisterStore(s.id) /\ PdMoves(Registered(s.id))
      BY <1>1, <1>3, <3>2, RegisterStoreFacts DEF Answered, PdMoves
    <3> QED
      BY <1>1, <3>2, <3>3, RegisterStoreFacts DEF RegisterMoves
  <2>2. proc'[p] = n1
    BY <1>1, <1>3, BecomeFacts
  <2>3. /\ DOMAIN n1 = ProcFields /\ SameLists(s, n1) /\ n1.pc = "stores" /\ n1.tries = 0
        /\ n1.id = RegisteredId(s)
    BY <1>1 DEF IsProc, ProcFields, SameLists
  <2>4. RegisteredId(s) \in 0 .. MaxStore
    BY <2>1 DEF RegisterMoves, RegisteredId
  <2> HIDE DEF n1, s, A
  <2>5. IsProc(n1)
    BY <1>1, <2>3, <2>4, StartupAssumption DEF IsProc, SameLists, Started
  <2> QED
    BY <1>2, <1>3, <2>1, <2>2, <2>3, <2>5 DEF s
<1>4. CASE Unanswered(A) /\ Become(p, n2)
  <2>1. RegisterMoves(s) \/ PdStays
    BY <1>1, <1>4, RegisterCall DEF RegisterMoves
  <2>2. proc'[p] = n2
    BY <1>1, <1>4, BecomeFacts
  <2>3. /\ DOMAIN n2 = ProcFields /\ SameLists(s, n2) /\ n2.pc \in {"register", "exited"}
        /\ n2.tries = s.tries + 1 /\ n2.id = s.id
    BY <1>1 DEF IsProc, ProcFields, SameLists
  <2>4. faults' # 0
    BY <1>1, <1>4 DEF Unanswered, Fault, PdType
  <2> HIDE DEF n2, s, A
  <2>5. IsProc(n2)
    BY <1>1, <2>3 DEF IsProc, SameLists, Started
  <2> QED
    BY <1>2, <1>4, <2>1, <2>2, <2>3, <2>4, <2>5 DEF s
<1> QED
  BY <1>2, <1>3, <1>4

LEMMA ListStoresFacts ==
  ASSUME TypeInv, NEW p \in Process, ListStores(p)
  PROVE  LET s == proc[p]
             n == proc'[p]
         IN  /\ PdStays /\ running /\ Become(p, n) /\ IsProc(n) /\ n.pc = "regions"
             /\ s.pc = "stores" /\ n.id = s.id /\ n.listed = meta.stores
             /\ n.stores = s.stores /\ n.regions = s.regions
<1> DEFINE s == proc[p]
           n == [s EXCEPT !.pc = "regions", !.listed = meta.stores]
<1>1. IsProc(s) /\ PdType /\ ProcType
  BY DEF TypeInv, ProcType
<1>2. s.pc = "stores" /\ PdStays /\ running /\ Become(p, n)
  BY ReadFacts DEF ListStores, ReadAnswered, Reads
<1>3. proc'[p] = n
  BY <1>1, <1>2, BecomeFacts
<1>4. /\ DOMAIN n = ProcFields /\ n.pc = "regions" /\ n.id = s.id /\ n.tries = s.tries
      /\ n.listed = meta.stores /\ n.stores = s.stores /\ n.regions = s.regions
  BY <1>1 DEF IsProc, ProcFields
<1>5. meta.stores \in SUBSET (0 .. MaxStore)
  BY <1>1 DEF PdType, IsMeta, IsData
<1> HIDE DEF n, s
<1>6. IsProc(n)
  BY <1>1, <1>2, <1>4, <1>5 DEF IsProc, Started
<1> QED
  BY <1>2, <1>3, <1>4, <1>6 DEF s

LEMMA ListRegionsFacts ==
  ASSUME TypeInv, NEW p \in Process, ListRegions(p)
  PROVE  LET s == proc[p]
             n == proc'[p]
         IN  /\ PdStays /\ running /\ Become(p, n) /\ IsProc(n)
             /\ s.pc = "regions" /\ n.id = s.id /\ n.listed = {}
             /\ n.stores = s.listed /\ n.regions = meta.regions
             /\ n.pc \in {"stores", "default", "bootstrap", "exited"}
             /\ n.pc = "exited" => meta.regions = <<>>
<1> DEFINE s == proc[p]
           t == [s EXCEPT !.stores = s.listed, !.listed = {}, !.regions = meta.regions]
<1>1. IsProc(s) /\ PdType /\ ProcType
  BY DEF TypeInv, ProcType
<1>2. s.pc = "regions" /\ PdStays /\ running /\ Become(p, AfterStatus(t))
  BY ReadFacts DEF ListRegions, ReadAnswered, Reads
<1>3. proc'[p] = AfterStatus(t)
  BY <1>1, <1>2, BecomeFacts
<1>4. /\ DOMAIN t = ProcFields /\ t.id = s.id /\ t.tries = s.tries
      /\ t.listed = {} /\ t.stores = s.listed /\ t.regions = meta.regions
  BY <1>1 DEF IsProc, ProcFields
<1>5. IsMap(meta.regions)
  BY <1>1 DEF PdType, IsMeta, IsData
<1> HIDE DEF t, s
<1>6. Polling(t)
  BY <1>1, <1>2, <1>4, <1>5 DEF IsProc, Polling
<1>7. /\ IsProc(AfterStatus(t)) /\ SameKnowledge(t, AfterStatus(t))
      /\ AfterStatus(t).pc \in {"stores", "default", "bootstrap", "exited"}
      /\ AfterStatus(t).pc = "exited" => t.regions = <<>>
  BY <1>6, AfterStatusFacts
<1> QED
  BY <1>2, <1>3, <1>4, <1>7 DEF s, SameKnowledge

LEMMA StatusFailsFacts ==
  ASSUME TypeInv, NEW p \in Process, StatusFails(p)
  PROVE  LET s == proc[p]
             n == proc'[p]
         IN  /\ PdStays /\ Become(p, n) /\ IsProc(n)
             /\ s.pc \in {"stores", "regions"} /\ n.id = s.id /\ n.listed = {}
             /\ n.stores = s.stores /\ n.regions = s.regions
             /\ n.pc \in {"stores", "bootstrap", "exited"} /\ faults' # 0
<1> DEFINE s == proc[p]
           t == [s EXCEPT !.listed = {}]
<1>1. IsProc(s) /\ PdType /\ ProcType
  BY DEF TypeInv, ProcType
<1>2. s.pc \in {"stores", "regions"} /\ PdStays /\ Become(p, NextPoll(t))
  BY ReadFacts DEF StatusFails
<1>3. proc'[p] = NextPoll(t)
  BY <1>1, <1>2, BecomeFacts
<1>4. /\ DOMAIN t = ProcFields /\ t.id = s.id /\ t.tries = s.tries
      /\ t.listed = {} /\ t.stores = s.stores /\ t.regions = s.regions
  BY <1>1 DEF IsProc, ProcFields
<1>5. faults' # 0
  BY <1>1 DEF StatusFails, Unanswered, Reads, Fault, PdType
<1> HIDE DEF t, s
<1>6. Polling(t)
  BY <1>1, <1>2, <1>4 DEF IsProc, Polling
<1>7. /\ IsProc(NextPoll(t)) /\ SameKnowledge(t, NextPoll(t))
      /\ NextPoll(t).pc \in {"stores", "bootstrap", "exited"}
  BY <1>6, NextPollFacts
<1> QED
  BY <1>2, <1>3, <1>4, <1>5, <1>7 DEF s, SameKnowledge

\* The call for the default region.  A process that gives up after it has met an
\* error, or PD has no region.
LEMMA DefaultFacts ==
  ASSUME TypeInv, NEW p \in Process, BootstrapDefaultRegion(p)
  PROVE  LET s == proc[p]
             n == proc'[p]
             list == InOrder(s.stores)
         IN  /\ s.pc = "default" /\ Become(p, n) /\ IsProc(n) /\ SameKnowledge(s, n)
             /\ n.pc \in {"stores", "bootstrap", "exited"}
             /\ n.pc = "exited" => faults' # 0 \/ DOMAIN meta.regions = {}
             /\ \/ BootstrapMoves(list) \/ PdStays
                \/ PD!BootstrapUnknownStore(list) /\ UNCHANGED faults
<1> DEFINE s == proc[p]
           list == InOrder(s.stores)
           A == PD!BootstrapDefaultRegion(list)
           n == [s EXCEPT !.pc = "exited"]
<1>1. IsProc(s) /\ PdType /\ ProcType
  BY DEF TypeInv, ProcType
<1>2. s.pc = "default"
  BY DEF BootstrapDefaultRegion
<1>3. Polling(s) /\ s.tries < StatusTries
  BY <1>1, <1>2 DEF IsProc, Polling
<1>4. \/ (Answered(A) \/ (~PD!NoRegion /\ ReadAnswered)) /\ Become(p, NextPoll(s))
      \/ Unanswered(A \/ (~PD!NoRegion /\ Reads)) /\ Become(p, n)
      \/ PD!BootstrapUnknownStore(list) /\ UNCHANGED faults /\ Become(p, n)
  BY DEF BootstrapDefaultRegion
<1>5. /\ DOMAIN n = ProcFields /\ n.pc = "exited" /\ SameKnowledge(s, n) /\ n.tries = s.tries
  BY <1>1 DEF IsProc, ProcFields, SameKnowledge
<1>6. IsProc(n)
  <2> HIDE DEF n, s
  <2> QED
    BY <1>1, <1>5 DEF IsProc, SameKnowledge, Started
<1>7. /\ IsProc(NextPoll(s)) /\ SameKnowledge(s, NextPoll(s))
      /\ NextPoll(s).pc \in {"stores", "bootstrap", "exited"}
      /\ NextPoll(s).pc # "exited"
  <2>1. s.tries # StatusTries
    BY <1>3, StartupAssumption DEF Polling
  <2> HIDE DEF s
  <2> QED
    BY <1>3, <2>1, NextPollFacts
<1>8. CASE (Answered(A) \/ (~PD!NoRegion /\ ReadAnswered)) /\ Become(p, NextPoll(s))
  <2>1. proc'[p] = NextPoll(s)
    BY <1>1, <1>8, BecomeFacts
  <2>2. BootstrapMoves(list) \/ PdStays
    BY <1>1, <1>8, BootstrapCall
  <2> HIDE DEF list, A, n
  <2> QED
    BY <1>2, <1>7, <1>8, <2>1, <2>2 DEF list
<1>9. CASE Unanswered(A \/ (~PD!NoRegion /\ Reads)) /\ Become(p, n)
  <2>1. proc'[p] = n
    BY <1>1, <1>9, BecomeFacts
  <2>2. BootstrapMoves(list) \/ PdStays
    BY <1>1, <1>9, BootstrapCall
  <2>3. faults' # 0
    BY <1>1, <1>9 DEF Unanswered, Fault, PdType
  <2> HIDE DEF list, A, n
  <2> QED
    BY <1>2, <1>5, <1>6, <1>9, <2>1, <2>2, <2>3 DEF list
<1>10. CASE PD!BootstrapUnknownStore(list) /\ UNCHANGED faults /\ Become(p, n)
  <2>1. proc'[p] = n
    BY <1>1, <1>10, BecomeFacts
  <2>2. DOMAIN meta.regions = {}
    BY <1>10 DEF PD!BootstrapUnknownStore, PD!NoRegion
  <2> HIDE DEF list, A, n
  <2> QED
    BY <1>2, <1>5, <1>6, <1>10, <2>1, <2>2 DEF list
<1> QED
  BY <1>4, <1>8, <1>9, <1>10

\* The regions of s that have a peer on its store.
Local(s) == {i \in DOMAIN s.regions : HasLocalPeer(s, s.regions[i])}

LEMMA BootstrapNodeFacts ==
  ASSUME TypeInv, NEW p \in Process, BootstrapNode(p)
  PROVE  LET s == proc[p]
             n == proc'[p]
         IN  /\ s.pc = "bootstrap" /\ PdStays /\ Become(p, n) /\ IsProc(n)
             /\ n.id = s.id /\ n.listed = s.listed /\ n.stores = s.stores
             /\ n.regions = [i \in Local(s) |-> s.regions[i]]
             /\ n.pc = IF Local(s) = {} THEN "exited" ELSE "serving"
<1> DEFINE s == proc[p]
           n == [s EXCEPT !.pc = IF Local(s) = {} THEN "exited" ELSE "serving",
                          !.regions = [i \in Local(s) |-> s.regions[i]]]
<1>1. IsProc(s) /\ PdType /\ ProcType
  BY DEF TypeInv, ProcType
<1>2. s.pc = "bootstrap" /\ PdStays /\ Become(p, n)
  BY DEF BootstrapNode, Local, PdStays
<1>3. proc'[p] = n
  BY <1>1, <1>2, BecomeFacts
<1>4. /\ DOMAIN n = ProcFields /\ n.id = s.id /\ n.tries = s.tries
      /\ n.listed = s.listed /\ n.stores = s.stores
      /\ n.regions = [i \in Local(s) |-> s.regions[i]]
      /\ n.pc = IF Local(s) = {} THEN "exited" ELSE "serving"
  BY <1>1 DEF IsProc, ProcFields
<1> HIDE DEF n, s
<1>5. IsMap(n.regions) /\ DOMAIN n.regions = Local(s)
  BY <1>4 DEF IsMap
<1>6. n.pc \in Started => n.regions # <<>>
  BY <1>4, <1>5, EmptyMap DEF Started
<1>7. s.tries <= StatusTries /\ (s.tries < StatusTries => Enough(n))
  BY <1>1, <1>2, <1>4 DEF IsProc, Enough, Started
<1>8. IsProc(n)
  BY <1>1, <1>4, <1>5, <1>6, <1>7 DEF IsProc, Started
<1> QED
  BY <1>2, <1>3, <1>4, <1>8 DEF s

\* A serving process: one step of the induction per action.
LEMMA StepType ==
  ASSUME TypeInv, NEW p \in Process, Launch(p) \/ Kill(p) \/ Step(p)
  PROVE  TypeInv'
<1>1. PdType /\ ProcType
  BY DEF TypeInv
<1>2. CASE Launch(p)
  BY <1>1, <1>2, LaunchFacts, PdStaysType, BecomeType DEF TypeInv
<1>3. CASE Kill(p)
  BY <1>1, <1>3, KillFacts, DownIsProc, PdStaysType, BecomeType DEF TypeInv
<1>4. CASE RegisterStore(p)
  <2>1. ProcType'
    BY <1>1, <1>4, RegisterFacts, BecomeType
  <2>2. PdType'
    BY <1>1, <1>4, RegisterFacts, PdMovesType, PdStaysType DEF RegisterMoves
  <2> QED
    BY <2>1, <2>2 DEF TypeInv
<1>5. CASE ListStores(p)
  BY <1>1, <1>5, ListStoresFacts, PdStaysType, BecomeType DEF TypeInv
<1>6. CASE ListRegions(p)
  BY <1>1, <1>6, ListRegionsFacts, PdStaysType, BecomeType DEF TypeInv
<1>7. CASE StatusFails(p)
  BY <1>1, <1>7, StatusFailsFacts, PdStaysType, BecomeType DEF TypeInv
<1>8. CASE BootstrapDefaultRegion(p)
  <2>1. ProcType'
    BY <1>1, <1>8, DefaultFacts, BecomeType
  <2>2. PdType'
    BY <1>1, <1>8, DefaultFacts, PdMovesType, PdStaysType, BootstrapUnknownFacts
       DEF BootstrapMoves
  <2> QED
    BY <2>1, <2>2 DEF TypeInv
<1>9. CASE BootstrapNode(p)
  BY <1>1, <1>9, BootstrapNodeFacts, PdStaysType, BecomeType DEF TypeInv
<1> QED
  BY <1>2, <1>3, <1>4, <1>5, <1>6, <1>7, <1>8, <1>9 DEF Step

LEMMA TypeInit == Init => TypeInv
<1> SUFFICES ASSUME Init PROVE TypeInv
  OBVIOUS
<1>1. /\ running = TRUE /\ faults = 0 /\ meta = PD!NewMetadata
      /\ catalog = [state |-> "full", image |-> PD!ImageOf(PD!NewMetadata)]
      /\ proc = [p \in Process |-> Down]
  BY DEF Init, PD!Init
<1>2. IsMeta(meta) /\ IsCatalog(catalog)
  BY <1>1, NewIsMeta, ImageIsData
<1>3. ProcType
  BY <1>1, DownIsProc DEF ProcType
<1> QED
  BY <1>1, <1>2, <1>3 DEF TypeInv, PdType

LEMMA TypeNext == TypeInv /\ [Next]_vars => TypeInv'
<1> SUFFICES ASSUME TypeInv, [Next]_vars PROVE TypeInv'
  OBVIOUS
<1>1. CASE UNCHANGED vars
  <2>1. ProcType' /\ PdType'
    BY <1>1 DEF vars, TypeInv, ProcType, PdType
  <2> QED
    BY <2>1 DEF TypeInv
<1>2. CASE PdStep
  <2>1. PdType' /\ UNCHANGED proc
    BY <1>2, PdStepType DEF TypeInv
  <2>2. ProcType'
    BY <2>1 DEF TypeInv, ProcType
  <2> QED
    BY <2>1, <2>2 DEF TypeInv
<1> QED
  BY <1>1, <1>2, StepType DEF Next

-----------------------------------------------------------------------------
\* The replica set.  Every store a cluster of this configuration knows of is one
\* of the configured ones, so that enough of them are all of them.

\* Every process has an id of its own choice and the cluster waits for all ids, as
\* in config/distributed_store<n>.yaml.
Configured == 0 \notin Range(StoreId) /\ Cardinality(Range(StoreId)) <= StoreCount

Ids == Range(StoreId)

RegionStores(r) == {r.peers[j].store : j \in DOMAIN r.peers}

Complete(m) == \A i \in DOMAIN m.regions : RegionStores(m.regions[i]) = Ids

Good(m) == m.stores \subseteq Ids /\ Complete(m)

KnowsGood(s) == /\ s.listed \subseteq Ids /\ s.stores \subseteq Ids /\ Complete(s)
                /\ s.pc # "down" => s.id \in Ids

\* The strengthening that is inductive: stores and replica sets in PD's memory, in
\* its catalog and in what every process has read.
ReplicaInv ==
  /\ TypeInv
  /\ Good(meta) /\ Good(catalog.image)
  /\ \A p \in Process : KnowsGood(proc[p])

LEMMA IdsAreStores == Ids \in SUBSET (0 .. MaxStore)
BY StartupAssumption DEF Ids, Range

LEMMA EnoughIsAll ==
  ASSUME Configured, NEW s, s.stores \subseteq Ids, Enough(s)
  PROVE  s.stores = Ids
<1>1. IsFiniteSet(Ids) /\ Cardinality(Ids) \in Nat
  BY IdsAreStores, StoresAreFinite
<1>2. Cardinality(s.stores) <= Cardinality(Ids) /\ IsFiniteSet(s.stores)
  BY <1>1, FS_Subset
<1>3. Cardinality(s.stores) \in Nat
  BY <1>2, FS_CardinalityType
<1>4. Cardinality(s.stores) >= StoreCount /\ StoreCount >= Cardinality(Ids)
  BY StartupAssumption, <1>1 DEF Enough, Configured, Ids
<1>5. Cardinality(s.stores) = Cardinality(Ids)
  BY <1>1, <1>2, <1>3, <1>4, StartupAssumption
<1> QED
  BY <1>1, <1>5, FS_Subset

LEMMA NewIsGood == Good(PD!NewMetadata)
BY DEF Good, Complete, PD!NewMetadata

LEMMA PdMovesGood ==
  ASSUME TypeInv, Good(meta), Good(catalog.image), NEW m, Good(m), PdMoves(m)
  PROVE  Good(meta') /\ Good(catalog'.image)
<1>1. PD!ImageOf(m).stores = m.stores /\ PD!ImageOf(m).regions = m.regions
  BY DEF PD!ImageOf
<1>2. Good(PD!ImageOf(m))
  BY <1>1 DEF Good, Complete
<1>3. [catalog EXCEPT !.state = "torn"].image = catalog.image
  BY TornIsCatalog DEF TypeInv, PdType
<1>4. meta' = m \/ meta' = PD!NewMetadata
  BY DEF PdMoves, PD!Persist
<1>5. \/ catalog' = [state |-> "full", image |-> PD!ImageOf(m)] \/ catalog' = catalog
      \/ catalog' = [catalog EXCEPT !.state = "torn"]
  BY DEF PdMoves, PD!Persist
<1>6. catalog'.image = PD!ImageOf(m) \/ catalog'.image = catalog.image
  <2>1. CASE catalog' = [state |-> "full", image |-> PD!ImageOf(m)]
    BY <2>1
  <2>2. CASE catalog' = [catalog EXCEPT !.state = "torn"]
    BY <1>3, <2>2, Zenon
  <2> QED
    BY <1>5, <2>1, <2>2, Zenon
<1> QED
  BY <1>2, <1>4, <1>6, NewIsGood

LEMMA PdStepGood ==
  ASSUME TypeInv, Good(meta), Good(catalog.image), PdStep
  PROVE  Good(meta') /\ Good(catalog'.image)
<1>1. CASE PD!Crash
  BY <1>1, NewIsGood DEF PD!Crash
<1>2. CASE PD!Open
  <2>1. /\ meta'.stores = catalog.image.stores /\ meta'.regions = catalog.image.regions
        /\ UNCHANGED catalog
    BY <1>2, LoadIsMeta DEF PD!Open, TypeInv, PdType
  <2> QED
    BY <2>1 DEF Good, Complete
<1> QED
  BY <1>1, <1>2 DEF PdStep

\* Only what p knows changes.
LEMMA BecomeGood ==
  ASSUME ReplicaInv, NEW p \in Process, Become(p, proc'[p]), KnowsGood(proc'[p])
  PROVE  \A q \in Process : KnowsGood(proc'[q])
BY BecomeFacts DEF ReplicaInv, TypeInv

LEMMA BootstrapMovesGood ==
  ASSUME Configured, ReplicaInv, NEW p \in Process, proc[p].pc = "default",
         BootstrapMoves(InOrder(proc[p].stores))
  PROVE  Good(meta') /\ Good(catalog'.image)
<1> DEFINE S == proc[p].stores
           list == InOrder(S)
           w == WithDefaultRegion(list)
<1>1. S = Ids
  BY EnoughIsAll DEF ReplicaInv, KnowsGood, TypeInv, ProcType, IsProc
<1>2. Ids \in SUBSET Int /\ IsFiniteSet(Ids)
  BY IdsAreStores, StoresAreFinite
<1>3. RegionStores(DefaultRegion(list)) = Ids
  BY <1>1, <1>2, DefaultRegionStores DEF RegionStores
<1>4. /\ w.stores = meta.stores /\ PdMoves(w)
      /\ w.regions = [i \in {meta.nextRegion} |-> DefaultRegion(list)]
  BY DEF BootstrapMoves
<1> HIDE DEF w, list
<1>5. Good(w)
  BY <1>3, <1>4 DEF ReplicaInv, Good, Complete
<1> QED
  BY <1>4, <1>5, PdMovesGood DEF ReplicaInv

LEMMA RegisterMovesGood ==
  ASSUME Configured, ReplicaInv, NEW p \in Process, proc[p].pc = "register",
         RegisterMoves(proc[p])
  PROVE  Good(meta') /\ Good(catalog'.image)
<1> DEFINE id == proc[p].id
           m == Registered(id)
<1>1. id \in Ids /\ id # 0
  BY DEF Configured, ReplicaInv, KnowsGood, Ids
<1>2. m.regions = meta.regions /\ m.stores = meta.stores \cup {id} /\ PdMoves(m)
  BY <1>1 DEF RegisterMoves
<1> HIDE DEF m, id
<1>3. Good(m)
  BY <1>1, <1>2 DEF ReplicaInv, Good, Complete
<1> QED
  BY <1>2, <1>3, PdMovesGood DEF ReplicaInv

LEMMA StepReplicas ==
  ASSUME Configured, ReplicaInv, NEW p \in Process, Launch(p) \/ Kill(p) \/ Step(p)
  PROVE  ReplicaInv'
<1> DEFINE s == proc[p]
           n == proc'[p]
<1>1. TypeInv /\ TypeInv' /\ Good(meta) /\ Good(catalog.image) /\ KnowsGood(s)
  BY StepType DEF ReplicaInv
<1>2. ASSUME Become(p, n), KnowsGood(n), Good(meta') /\ Good(catalog'.image)
      PROVE  ReplicaInv'
  <2>1. \A q \in Process : KnowsGood(proc'[q])
    BY <1>2, BecomeGood
  <2> QED
    BY <1>1, <1>2, <2>1 DEF ReplicaInv
<1>3. PdStays => Good(meta') /\ Good(catalog'.image)
  BY <1>1 DEF PdStays
<1>4. CASE Launch(p)
  <2>1. StoreId[p] \in Ids
    BY StartupAssumption DEF Ids, Range
  <2>2. KnowsGood(n)
    BY <1>1, <1>4, <2>1, LaunchFacts DEF KnowsGood, Complete
  <2> QED
    BY <1>1, <1>2, <1>3, <1>4, <2>2, LaunchFacts
<1>5. CASE Kill(p)
  <2>1. n = Down /\ Become(p, n) /\ PdStays
    BY <1>1, <1>5, KillFacts
  <2>2. KnowsGood(n)
    BY <2>1 DEF KnowsGood, Complete, Down
  <2> QED
    BY <1>2, <1>3, <2>1, <2>2
<1>6. CASE RegisterStore(p)
  <2> HIDE DEF s, n
  <2>1. /\ s.pc = "register" /\ Become(p, n) /\ SameLists(s, n)
        /\ RegisterMoves(s) \/ PdStays
        /\ n.id = RegisteredId(s) \/ n.id = s.id
    BY <1>1, <1>6, RegisterFacts DEF s, n
  <2>2. s.id \in Ids /\ n.id = s.id
    <3>1. s.id \in Ids
      BY <1>1, <2>1 DEF KnowsGood
    <3> QED
      BY <2>1, <3>1 DEF Configured, Ids, RegisteredId
  <2>3. KnowsGood(n)
    BY <1>1, <2>1, <2>2 DEF KnowsGood, Complete, SameLists
  <2>4. Good(meta') /\ Good(catalog'.image)
    BY <1>3, <2>1, RegisterMovesGood DEF s
  <2> QED
    BY <1>2, <2>1, <2>3, <2>4
<1>7. CASE ListStores(p)
  <2>1. KnowsGood(n)
    BY <1>1, <1>7, ListStoresFacts DEF KnowsGood, Complete, Good
  <2> QED
    BY <1>1, <1>2, <1>3, <1>7, <2>1, ListStoresFacts
<1>8. CASE ListRegions(p)
  <2>1. KnowsGood(n)
    BY <1>1, <1>8, ListRegionsFacts DEF KnowsGood, Complete, Good
  <2> QED
    BY <1>1, <1>2, <1>3, <1>8, <2>1, ListRegionsFacts
<1>9. CASE StatusFails(p)
  <2>1. KnowsGood(n)
    BY <1>1, <1>9, StatusFailsFacts DEF KnowsGood, Complete
  <2> QED
    BY <1>1, <1>2, <1>3, <1>9, <2>1, StatusFailsFacts
<1>10. CASE BootstrapDefaultRegion(p)
  <2>1. KnowsGood(n)
    BY <1>1, <1>10, DefaultFacts DEF KnowsGood, Complete, SameKnowledge
  <2>2. ASSUME PD!BootstrapUnknownStore(InOrder(s.stores)), UNCHANGED faults
        PROVE  Good(meta') /\ Good(catalog'.image)
    BY <1>1, <2>2, BootstrapUnknownFacts DEF Good, Complete, TypeInv
  <2>3. Good(meta') /\ Good(catalog'.image)
    BY <1>1, <1>3, <1>10, <2>2, DefaultFacts, BootstrapMovesGood
  <2> QED
    BY <1>1, <1>2, <1>10, <2>1, <2>3, DefaultFacts
<1>11. CASE BootstrapNode(p)
  <2>1. /\ s.pc = "bootstrap" /\ n.id = s.id /\ n.listed = s.listed /\ n.stores = s.stores
        /\ n.regions = [i \in Local(s) |-> s.regions[i]]
    BY <1>1, <1>11, BootstrapNodeFacts
  <2>2. Local(s) \subseteq DOMAIN s.regions
    BY DEF Local
  <2>3. KnowsGood(n)
    <3> HIDE DEF n, s
    <3> QED
      BY <1>1, <2>1, <2>2 DEF KnowsGood, Complete
  <2> QED
    BY <1>1, <1>2, <1>3, <1>11, <2>3, BootstrapNodeFacts
<1> QED
  BY <1>4, <1>5, <1>6, <1>7, <1>8, <1>9, <1>10, <1>11 DEF Step

LEMMA ReplicaInit == Init => ReplicaInv
<1> SUFFICES ASSUME Init PROVE ReplicaInv
  OBVIOUS
<1>1. /\ meta = PD!NewMetadata /\ catalog.image = PD!ImageOf(PD!NewMetadata)
      /\ proc = [p \in Process |-> Down]
  BY DEF Init, PD!Init
<1>2. Good(catalog.image)
  BY <1>1, NewIsGood DEF Good, Complete, PD!ImageOf
<1>3. KnowsGood(Down)
  BY DEF KnowsGood, Complete, Down
<1> QED
  BY <1>1, <1>2, <1>3, TypeInit, NewIsGood DEF ReplicaInv

LEMMA ReplicaNext ==
  ASSUME Configured
  PROVE  ReplicaInv /\ [Next]_vars => ReplicaInv'
<1> SUFFICES ASSUME ReplicaInv, [Next]_vars PROVE ReplicaInv'
  OBVIOUS
<1>1. TypeInv'
  BY TypeNext DEF ReplicaInv
<1>2. CASE UNCHANGED vars
  BY <1>1, <1>2 DEF vars, ReplicaInv
<1>3. CASE PdStep
  <2>1. Good(meta') /\ Good(catalog'.image) /\ UNCHANGED proc
    BY <1>3, PdStepGood DEF ReplicaInv, PdStep
  <2> QED
    BY <1>1, <2>1 DEF ReplicaInv
<1> QED
  BY <1>2, <1>3, StepReplicas DEF Next

LEMMA ReplicaInvariant ==
  ASSUME Configured
  PROVE  Spec => []ReplicaInv
<1>1. Init => ReplicaInv
  BY ReplicaInit
<1>2. ReplicaInv /\ [Next]_vars => ReplicaInv'
  BY ReplicaNext
<1> QED
  BY <1>1, <1>2, PTL DEF Spec

\* In a cluster that waits for all its stores, the region has a peer on each of
\* them and on no other, in PD's memory and in its catalog, whatever dies, fails to
\* be saved, is lost or is tried again (RunDistributedStoreService, PdServer).
THEOREM ReplicaSetComplete ==
  ASSUME Configured
  PROVE  Spec => []ReplicaSetIsComplete
<1>1. ReplicaInv => ReplicaSetIsComplete
  BY DEF ReplicaInv, Good, Complete, ReplicaSetIsComplete, RegionStores, Ids
<1>2. Spec => []ReplicaInv
  BY ReplicaInvariant
<1> QED
  BY <1>1, <1>2, PTL

\* In such a cluster a store that serves knows the address of every peer of its
\* regions, unless it has gone on after its last poll (DistributedStoreNode).
THEOREM PeersAddressed ==
  ASSUME Configured
  PROVE  Spec => []PeersHaveAddresses
<1>1. ReplicaInv => PeersHaveAddresses
  <2> SUFFICES ASSUME ReplicaInv, NEW p \in Process,
                      Serving(p), proc[p].tries < StatusTries,
                      NEW i \in DOMAIN proc[p].regions,
                      NEW j \in DOMAIN proc[p].regions[i].peers
               PROVE  proc[p].regions[i].peers[j].store \in proc[p].stores
    BY DEF PeersHaveAddresses
  <2>1. KnowsGood(proc[p]) /\ Enough(proc[p])
    BY DEF ReplicaInv, TypeInv, ProcType, IsProc, Serving, Started
  <2>2. proc[p].stores = Ids
    BY <2>1, EnoughIsAll DEF KnowsGood
  <2>3. RegionStores(proc[p].regions[i]) = Ids
    BY <2>1 DEF KnowsGood, Complete
  <2> QED
    BY <2>2, <2>3 DEF RegionStores
<1>2. Spec => []ReplicaInv
  BY ReplicaInvariant
<1> QED
  BY <1>1, <1>2, PTL

\* A process that has regions finds a peer of its own in each of them.
LEMMA LocalIsAll ==
  ASSUME NEW s, KnowsGood(s), s.pc # "down"
  PROVE  Local(s) = DOMAIN s.regions
<1>1. ASSUME NEW i \in DOMAIN s.regions PROVE HasLocalPeer(s, s.regions[i])
  <2>1. s.id \in RegionStores(s.regions[i])
    BY DEF KnowsGood, Complete
  <2> QED
    BY <2>1 DEF RegionStores, HasLocalPeer, FindPeerByStore
<1> QED
  BY <1>1 DEF Local

\* What the property says of one step.
NoExit == \A p \in Process :
  faults' = 0 /\ proc[p].pc # "exited" /\ proc'[p].pc = "exited"
    => DOMAIN meta.regions = {}

LEMMA ExitStep ==
  ASSUME ReplicaInv, NEW p \in Process, Launch(p) \/ Kill(p) \/ Step(p),
         proc'[p].pc = "exited", faults' = 0
  PROVE  DOMAIN meta.regions = {}
<1> DEFINE s == proc[p]
           n == proc'[p]
<1>1. TypeInv /\ IsProc(s) /\ KnowsGood(s)
  BY DEF ReplicaInv, TypeInv, ProcType
<1>2. CASE Launch(p)
  BY <1>1, <1>2, LaunchFacts
<1>3. CASE Kill(p)
  <2>1. n = Down
    BY <1>1, <1>3, KillFacts
  <2> QED
    BY <2>1 DEF Down
<1>4. CASE RegisterStore(p)
  BY <1>1, <1>4, RegisterFacts
<1>5. CASE ListStores(p)
  BY <1>1, <1>5, ListStoresFacts
<1>6. CASE ListRegions(p)
  <2>1. meta.regions = <<>>
    BY <1>1, <1>6, ListRegionsFacts
  <2> QED
    BY <2>1
<1>7. CASE StatusFails(p)
  BY <1>1, <1>7, StatusFailsFacts
<1>8. CASE BootstrapDefaultRegion(p)
  BY <1>1, <1>8, DefaultFacts
<1>9. CASE BootstrapNode(p)
  <2>1. s.pc = "bootstrap" /\ Local(s) = {}
    BY <1>1, <1>9, BootstrapNodeFacts
  <2>2. Local(s) = DOMAIN s.regions
    BY <1>1, <2>1, LocalIsAll
  <2>3. IsMap(s.regions) /\ s.regions # <<>>
    BY <1>1, <2>1 DEF IsProc, Started
  <2> QED
    BY <2>1, <2>2, <2>3, EmptyMap
<1> QED
  BY <1>2, <1>3, <1>4, <1>5, <1>6, <1>7, <1>8, <1>9 DEF Step

\* In such a cluster, as long as nothing has failed, no store gives up while PD has
\* a region: not the one whose last poll had it made, and none for want of a peer.
THEOREM NoStoreGivesUp ==
  ASSUME Configured
  PROVE  Spec => GivesUpWithoutRegion
<1>1. ReplicaInv /\ [Next]_vars => [NoExit]_vars
  <2> SUFFICES ASSUME ReplicaInv, Next PROVE NoExit
    OBVIOUS
  <2>1. CASE PdStep
    <3>1. UNCHANGED proc
      BY <2>1 DEF PdStep
    <3> QED
      BY <3>1 DEF NoExit
  <2>2. ASSUME NEW p \in Process, Launch(p) \/ Kill(p) \/ Step(p) PROVE NoExit
    <3>1. \A q \in Process \ {p} : proc'[q] = proc[q]
      <4>1. PICK n : Become(p, n)
        BY <2>2 DEF Launch, Kill, Step, RegisterStore, ListStores, ListRegions, StatusFails,
             BootstrapDefaultRegion, BootstrapNode
      <4> QED
        BY <4>1, BecomeFacts DEF ReplicaInv, TypeInv
    <3>2. faults' = 0 /\ proc'[p].pc = "exited" => DOMAIN meta.regions = {}
      BY <2>2, ExitStep
    <3> QED
      BY <3>1, <3>2 DEF NoExit
  <2> QED
    BY <2>1, <2>2 DEF Next
<1>2. Spec => []ReplicaInv
  BY ReplicaInvariant
<1>3. Spec => [][NoExit]_vars
  BY <1>1, <1>2, PTL DEF Spec
<1> QED
  BY <1>3 DEF GivesUpWithoutRegion, NoExit

-----------------------------------------------------------------------------
\* Agreement of the serving stores, when PD's saves do not fail.  A region that
\* pd.Status lists is then on disk, and there is never another one: the stores of
\* a list are on disk too, so that PD refuses none of them.

OneRegion(m) == \A i, j \in DOMAIN m.regions : i = j

SavedInMemory == /\ meta.stores = catalog.image.stores
                 /\ meta.regions = catalog.image.regions

KnowsSaved(s, image) ==
  /\ s.listed \subseteq image.stores /\ s.stores \subseteq image.stores
  /\ s.regions # <<>> /\ s.pc # "exited" => s.regions = image.regions

AgreeInv ==
  /\ TypeInv
  /\ running => SavedInMemory
  /\ OneRegion(catalog.image)
  /\ \A p \in Process : KnowsSaved(proc[p], catalog.image)

\* PD's disk gains stores, and its first region.
Grows(old, new) ==
  /\ old.stores \subseteq new.stores
  /\ new.regions = old.regions \/ old.regions = <<>>

LEMMA KnowsMore ==
  ASSUME NEW s, NEW old, NEW new, KnowsSaved(s, old), Grows(old, new)
  PROVE  KnowsSaved(s, new)
BY DEF KnowsSaved, Grows

LEMMA GrowsSelf == ASSUME NEW m PROVE Grows(m, m)
BY DEF Grows

LEMMA PdMovesSaves ==
  ASSUME ~DiskErrors, TypeInv, running => SavedInMemory, OneRegion(catalog.image),
         NEW m, OneRegion(m), Grows(catalog.image, m), PdMoves(m)
  PROVE  /\ running' => SavedInMemory'
         /\ OneRegion(catalog'.image) /\ Grows(catalog.image, catalog'.image)
<1>1. PD!ImageOf(m).stores = m.stores /\ PD!ImageOf(m).regions = m.regions
  BY DEF PD!ImageOf
<1>2. [catalog EXCEPT !.state = "torn"].image = catalog.image
  BY TornIsCatalog DEF TypeInv, PdType
<1>3. \/ meta' = m /\ catalog' = [state |-> "full", image |-> PD!ImageOf(m)]
      \/ running' = FALSE /\ catalog' \in {catalog, [catalog EXCEPT !.state = "torn"]}
  BY DEF PdMoves, PD!Persist
<1>4. CASE meta' = m /\ catalog' = [state |-> "full", image |-> PD!ImageOf(m)]
  <2>1. meta' = m /\ catalog'.image = PD!ImageOf(m)
    BY <1>4
  <2> QED
    BY <1>1, <2>1 DEF SavedInMemory, OneRegion, Grows
<1>5. CASE running' = FALSE /\ catalog' \in {catalog, [catalog EXCEPT !.state = "torn"]}
  <2>1. catalog'.image = catalog.image
    BY <1>2, <1>5, Zenon
  <2>2. OneRegion(catalog'.image) /\ Grows(catalog.image, catalog'.image)
    BY <2>1, GrowsSelf, Zenon
  <2> QED
    BY <1>5, <2>2
<1> QED
  BY <1>3, <1>4, <1>5

LEMMA PdStepSaves ==
  ASSUME TypeInv, running => SavedInMemory, PdStep
  PROVE  (running' => SavedInMemory') /\ UNCHANGED <<catalog, proc>>
<1>1. CASE PD!Crash
  BY <1>1 DEF PD!Crash, PdStep
<1>2. CASE PD!Open
  <2>1. /\ meta'.stores = catalog.image.stores /\ meta'.regions = catalog.image.regions
        /\ UNCHANGED catalog
    BY <1>2, LoadIsMeta DEF PD!Open, TypeInv, PdType
  <2> QED
    BY <1>2, <2>1 DEF SavedInMemory, PdStep, PD!Crash, PD!Open
<1> QED
  BY <1>1, <1>2 DEF PdStep

\* The list of a process is known to a PD that runs.
LEMMA ListIsKnown ==
  ASSUME AgreeInv, running, NEW p \in Process
  PROVE  PD!Range(InOrder(proc[p].stores)) \subseteq meta.stores
<1> DEFINE S == proc[p].stores
<1>1. S \in SUBSET (0 .. MaxStore) /\ S \subseteq meta.stores
  BY DEF AgreeInv, TypeInv, ProcType, IsProc, KnowsSaved, SavedInMemory
<1>2. {InOrder(S)[i] : i \in DOMAIN InOrder(S)} = S
  BY <1>1, StoresAreFinite, InOrderFacts
<1> QED
  BY <1>1, <1>2 DEF PD!Range

LEMMA RegisterMovesSaves ==
  ASSUME ~DiskErrors, AgreeInv, NEW p \in Process, RegisterMoves(proc[p])
  PROVE  /\ running' => SavedInMemory'
         /\ OneRegion(catalog'.image) /\ Grows(catalog.image, catalog'.image)
<1> DEFINE m == Registered(proc[p].id)
<1>1. m.regions = meta.regions /\ meta.stores \subseteq m.stores /\ PdMoves(m)
  BY DEF RegisterMoves
<1>2. running /\ SavedInMemory
  BY <1>1 DEF PdMoves, AgreeInv
<1> HIDE DEF m
<1>3. OneRegion(m) /\ Grows(catalog.image, m)
  BY <1>1, <1>2 DEF OneRegion, Grows, SavedInMemory, AgreeInv
<1> QED
  BY <1>1, <1>3, PdMovesSaves DEF AgreeInv

LEMMA BootstrapMovesSaves ==
  ASSUME ~DiskErrors, AgreeInv, NEW list, BootstrapMoves(list)
  PROVE  /\ running' => SavedInMemory'
         /\ OneRegion(catalog'.image) /\ Grows(catalog.image, catalog'.image)
<1> DEFINE w == WithDefaultRegion(list)
<1>1. /\ w.stores = meta.stores /\ DOMAIN meta.regions = {} /\ PdMoves(w)
      /\ w.regions = [i \in {meta.nextRegion} |-> DefaultRegion(list)]
  BY DEF BootstrapMoves
<1>2. running /\ SavedInMemory
  BY <1>1 DEF PdMoves, AgreeInv
<1>3. IsMap(meta.regions)
  BY DEF AgreeInv, TypeInv, PdType, IsMeta, IsData
<1>4. catalog.image.regions = <<>>
  BY <1>1, <1>2, <1>3, EmptyMap DEF SavedInMemory
<1> HIDE DEF w
<1>5. OneRegion(w) /\ Grows(catalog.image, w)
  BY <1>1, <1>2, <1>4 DEF OneRegion, Grows, SavedInMemory
<1> QED
  BY <1>1, <1>5, PdMovesSaves DEF AgreeInv

\* A process starts the peers of the one region, if it starts any.
LEMMA LocalRegions ==
  ASSUME NEW s, IsMap(s.regions), OneRegion(s), Local(s) # {}
  PROVE  [i \in Local(s) |-> s.regions[i]] = s.regions
<1>1. Local(s) = DOMAIN s.regions
  BY DEF Local, OneRegion
<1> QED
  BY <1>1 DEF IsMap

LEMMA StepAgrees ==
  ASSUME ~DiskErrors, AgreeInv, NEW p \in Process, Launch(p) \/ Kill(p) \/ Step(p)
  PROVE  AgreeInv'
<1> DEFINE s == proc[p]
           n == proc'[p]
           old == catalog.image
           new == catalog'.image
<1>1. TypeInv /\ TypeInv' /\ KnowsSaved(s, old) /\ IsProc(s)
  BY StepType DEF AgreeInv, TypeInv, ProcType
<1>2. ASSUME Become(p, n), KnowsSaved(n, new), running' => SavedInMemory',
             OneRegion(new), Grows(old, new)
      PROVE  AgreeInv'
  <2>1. ASSUME NEW q \in Process PROVE KnowsSaved(proc'[q], new)
    <3>1. CASE q = p
      BY <1>2, <3>1
    <3>2. CASE q # p
      <4>1. proc'[q] = proc[q]
        BY <1>1, <1>2, <3>2, BecomeFacts DEF TypeInv
      <4>2. KnowsSaved(proc[q], new)
        BY <1>2, KnowsMore DEF AgreeInv
      <4> QED
        BY <4>1, <4>2
    <3> QED
      BY <3>1, <3>2
  <2> QED
    BY <1>1, <1>2, <2>1 DEF AgreeInv
<1>3. PdStays => (running' => SavedInMemory') /\ OneRegion(new) /\ Grows(old, new)
                 /\ new = old
  BY DEF PdStays, AgreeInv, SavedInMemory, Grows
<1>4. CASE Launch(p)
  <2>1. KnowsSaved(n, old)
    BY <1>1, <1>4, LaunchFacts DEF KnowsSaved
  <2>2. Become(p, n) /\ PdStays
    BY <1>1, <1>4, LaunchFacts
  <2> HIDE DEF n, old, new
  <2> QED
    BY <1>2, <1>3, <2>1, <2>2
<1>5. CASE Kill(p)
  <2>1. n = Down /\ Become(p, n) /\ PdStays
    BY <1>1, <1>5, KillFacts
  <2>2. KnowsSaved(n, old)
    BY <2>1 DEF KnowsSaved, Down
  <2> HIDE DEF n, old, new
  <2> QED
    BY <1>2, <1>3, <2>1, <2>2
<1>6. CASE RegisterStore(p)
  <2>1. /\ s.pc = "register" /\ Become(p, n) /\ SameLists(s, n)
        /\ RegisterMoves(s) \/ PdStays
    BY <1>1, <1>6, RegisterFacts
  <2>2. (running' => SavedInMemory') /\ OneRegion(new) /\ Grows(old, new)
    BY <1>3, <2>1, RegisterMovesSaves
  <2> HIDE DEF n, s, old, new
  <2>3. KnowsSaved(n, old)
    BY <1>1, <2>1 DEF KnowsSaved, SameLists
  <2>4. KnowsSaved(n, new)
    BY <2>2, <2>3, KnowsMore
  <2> QED
    BY <1>2, <2>1, <2>2, <2>4
<1>7. CASE ListStores(p)
  <2>1. /\ PdStays /\ running /\ Become(p, n) /\ s.pc = "stores"
        /\ n.listed = meta.stores /\ n.stores = s.stores /\ n.regions = s.regions
    BY <1>1, <1>7, ListStoresFacts
  <2>2. meta.stores = old.stores
    BY <2>1 DEF AgreeInv, SavedInMemory
  <2> HIDE DEF n, s, old, new
  <2>3. KnowsSaved(n, old)
    BY <1>1, <2>1, <2>2 DEF KnowsSaved
  <2> QED
    BY <1>2, <1>3, <2>1, <2>3
<1>8. CASE ListRegions(p)
  <2>1. /\ PdStays /\ running /\ Become(p, n)
        /\ n.listed = {} /\ n.stores = s.listed /\ n.regions = meta.regions
    BY <1>1, <1>8, ListRegionsFacts
  <2>2. meta.regions = old.regions
    BY <2>1 DEF AgreeInv, SavedInMemory
  <2> HIDE DEF n, s, old, new
  <2>3. KnowsSaved(n, old)
    BY <1>1, <2>1, <2>2 DEF KnowsSaved
  <2> QED
    BY <1>2, <1>3, <2>1, <2>3
<1>9. CASE StatusFails(p)
  <2>1. /\ PdStays /\ Become(p, n) /\ s.pc \in {"stores", "regions"}
        /\ n.listed = {} /\ n.stores = s.stores /\ n.regions = s.regions
    BY <1>1, <1>9, StatusFailsFacts
  <2> HIDE DEF n, s, old, new
  <2>2. KnowsSaved(n, old)
    BY <1>1, <2>1 DEF KnowsSaved
  <2> QED
    BY <1>2, <1>3, <2>1, <2>2
<1>10. CASE BootstrapDefaultRegion(p)
  <2> DEFINE list == InOrder(s.stores)
  <2>1. /\ s.pc = "default" /\ Become(p, n) /\ SameKnowledge(s, n)
        /\ \/ BootstrapMoves(list) \/ PdStays
           \/ PD!BootstrapUnknownStore(list) /\ UNCHANGED faults
    BY <1>1, <1>10, DefaultFacts
  <2>2. ~(PD!BootstrapUnknownStore(list) /\ UNCHANGED faults)
    BY <1>1, BootstrapUnknownFacts, ListIsKnown DEF TypeInv
  <2> HIDE DEF list
  <2>3. (running' => SavedInMemory') /\ OneRegion(new) /\ Grows(old, new)
    BY <1>3, <2>1, <2>2, BootstrapMovesSaves
  <2> HIDE DEF n, s, old, new
  <2>4. KnowsSaved(n, old)
    BY <1>1, <2>1 DEF KnowsSaved, SameKnowledge
  <2>5. KnowsSaved(n, new)
    BY <2>3, <2>4, KnowsMore
  <2> QED
    BY <1>2, <2>1, <2>3, <2>5
<1>11. CASE BootstrapNode(p)
  <2>1. /\ s.pc = "bootstrap" /\ PdStays /\ Become(p, n)
        /\ n.listed = s.listed /\ n.stores = s.stores
        /\ n.regions = [i \in Local(s) |-> s.regions[i]]
        /\ n.pc = IF Local(s) = {} THEN "exited" ELSE "serving"
    BY <1>1, <1>11, BootstrapNodeFacts
  <2>2. OneRegion(old)
    BY DEF AgreeInv
  <2> HIDE DEF n, s, old, new
  <2>3. s.regions = old.regions /\ IsMap(s.regions) /\ OneRegion(s)
    BY <1>1, <2>1, <2>2 DEF KnowsSaved, IsProc, Started, OneRegion
  <2>4. n.pc # "exited" => n.regions = s.regions
    BY <2>1, <2>3, LocalRegions
  <2>5. KnowsSaved(n, old)
    BY <1>1, <2>1, <2>3, <2>4 DEF KnowsSaved
  <2> QED
    BY <1>2, <1>3, <2>1, <2>5
<1> QED
  BY <1>4, <1>5, <1>6, <1>7, <1>8, <1>9, <1>10, <1>11 DEF Step

LEMMA AgreeInit == Init => AgreeInv
<1> SUFFICES ASSUME Init PROVE AgreeInv
  OBVIOUS
<1>1. /\ meta = PD!NewMetadata /\ catalog.image = PD!ImageOf(PD!NewMetadata)
      /\ proc = [p \in Process |-> Down]
  BY DEF Init, PD!Init
<1>2. SavedInMemory /\ OneRegion(catalog.image)
  BY <1>1 DEF SavedInMemory, OneRegion, PD!ImageOf, PD!NewMetadata
<1>3. KnowsSaved(Down, catalog.image)
  BY DEF KnowsSaved, Down
<1> QED
  BY <1>1, <1>2, <1>3, TypeInit DEF AgreeInv

LEMMA AgreeNext ==
  ASSUME ~DiskErrors
  PROVE  AgreeInv /\ [Next]_vars => AgreeInv'
<1> SUFFICES ASSUME AgreeInv, [Next]_vars PROVE AgreeInv'
  OBVIOUS
<1>1. TypeInv'
  BY TypeNext DEF AgreeInv
<1>2. CASE UNCHANGED vars
  BY <1>1, <1>2 DEF vars, AgreeInv, SavedInMemory
<1>3. CASE PdStep
  <2>1. (running' => SavedInMemory') /\ UNCHANGED <<catalog, proc>>
    BY <1>3, PdStepSaves DEF AgreeInv
  <2> QED
    BY <1>1, <2>1 DEF AgreeInv
<1> QED
  BY <1>2, <1>3, StepAgrees DEF Next

\* When PD's saves do not fail, all stores that serve have started the same peers
\* of the same regions, whatever their ids, however many PD waits for, and whoever
\* dies (RunDistributedStoreService, PdServer::Persist).
THEOREM ServingAgree ==
  ASSUME ~DiskErrors
  PROVE  Spec => []ServingStoresAgree
<1>1. AgreeInv => ServingStoresAgree
  <2> SUFFICES ASSUME AgreeInv, NEW p \in Process, NEW q \in Process,
                      Serving(p), Serving(q)
               PROVE  proc[p].regions = proc[q].regions
    BY DEF ServingStoresAgree
  <2>1. ASSUME NEW r \in Process, Serving(r) PROVE proc[r].regions = catalog.image.regions
    <3>1. IsProc(proc[r]) /\ KnowsSaved(proc[r], catalog.image)
      BY DEF AgreeInv, TypeInv, ProcType
    <3> QED
      BY <2>1, <3>1 DEF IsProc, KnowsSaved, Started, Serving
  <2> QED
    BY <2>1
<1>2. AgreeInv /\ [Next]_vars => AgreeInv'
  BY AgreeNext
<1> QED
  BY <1>1, <1>2, AgreeInit, PTL DEF Spec
=============================================================================
