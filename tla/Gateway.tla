------------------------------ MODULE Gateway ------------------------------
(***************************************************************************)
(* Gateways (RpcGatewayClient with its RouteCache, behind GatewayService)  *)
(* in front of PD and of a store process: the composition of PdServer and  *)
(* MultiRegionCluster.                                                     *)
(*                                                                         *)
(* A gateway gives every request a thread.  A key-value request finds the  *)
(* region of its keys, in the cache or at PD, and names it to the store,   *)
(* which refuses a region that does not own the key; the gateway then      *)
(* clears its cache, asks again and retries once.  An administrative       *)
(* request changes PD and then the store, in two calls.  Any call may fail *)
(* before or after it was handled, a region's cluster may return an error, *)
(* and either process may die.  What a failed write leaves in a log only   *)
(* matters to the values of keys, which are not looked at here.            *)
(***************************************************************************)
EXTENDS Region, FiniteSets, FiniteSetsExt, SequencesExt

CONSTANTS
  Client,       \* request threads
  GatewayOf,    \* thread -> the gateway it runs in
  Admin,        \* the threads of administrative requests; the others serve clients
  MaxKey, Value, NoValue,
  StoreCount,   \* stores registered at PD when the region is bootstrapped
  MaxStore, MaxPeer, MaxRegion,  \* bounds: ids
  MaxKv,        \* bound: key-value requests
  MaxAdmin,     \* bound: administrative requests
  MaxFaults     \* bound: lost calls and answers, errors of a cluster, crashes

ASSUME GatewayAssumption ==
  /\ DOMAIN GatewayOf = Client /\ Admin \subseteq Client
  /\ MaxKv \in Nat /\ MaxAdmin \in Nat /\ MaxAdmin < MaxRegion
  /\ StoreCount \in Nat \ {0} /\ StoreCount <= MaxStore
  /\ MaxPeer >= MaxStore * (MaxAdmin + 1)
  /\ MaxFaults \in Nat

VARIABLES
  pdRunning, meta, pdCatalog,                        \* PD
  running, regions, replicas, leaderless, data, catalog, split,  \* the store process
  cache,   \* gateway -> route_cache_: region id -> its range
  th,      \* thread -> its request
  asked,   \* requests so far: <<key-value, administrative>>
  faults,  \* faults so far
  broken,  \* history: what PD and the store no longer need to agree on
  calm     \* history: thread -> they agreed on every range since it began

pdVars    == <<pdRunning, meta, pdCatalog>>
storeVars == <<running, regions, replicas, leaderless, data, catalog, split>>
vars      == <<pdVars, storeVars, cache, th, asked, faults, broken, calm>>

PD == INSTANCE PdServer WITH running <- pdRunning, catalog <- pdCatalog,
                             seen <- {}, DiskErrors <- FALSE

ST == INSTANCE MultiRegionCluster WITH
        Reserved <- {}, MaxPending <- 0, pending <- [id \in 1 .. MaxRegion |-> {}],
        MaxOps <- 0, ops <- 0, acked <- 0, doubts <- 0, strays <- 0

Gateways == {GatewayOf[c] : c \in Client}

IdleThread == [pc |-> "idle", op |-> "none", keys |-> <<>>, id |-> 0, arg |-> 0,
               at |-> 0, region |-> 0, got |-> <<>>, retried |-> FALSE, result |-> "none"]

\* RunStoreService has registered its stores and bootstrapped the default region
\* at PD and in the process.
Init ==
  /\ pdRunning = TRUE
  /\ LET stores == [PD!NewMetadata EXCEPT !.stores = 1 .. MaxStore,
                                          !.nextStore = MaxStore + 1]
         peers  == ST!NewReplicas
     IN  meta = PD!PutRegion([stores EXCEPT !.nextRegion = 2, !.nextPeer = StoreCount + 1],
                  1, [start |-> 0, end |-> Unbounded, version |-> 1, confVer |-> 1,
                      leader |-> 1, peers |-> peers])
  /\ pdCatalog = [state |-> "full", image |-> PD!ImageOf(meta)]
  /\ running = TRUE /\ regions = <<ST!DefaultRegion>>
  /\ replicas = <<ST!NewReplicas>> /\ leaderless = {}
  /\ data = [id \in ST!RegionId |-> ST!Empty]
  /\ catalog = [state |-> "full", image |-> regions]
  /\ split = ST!NoSplit
  /\ cache = [g \in Gateways |-> <<>>]
  /\ th = [c \in Client |-> IdleThread]
  /\ asked = <<0, 0>> /\ faults = 0 /\ broken = {} /\ calm = [c \in Client |-> TRUE]

\* The ranges of PD's regions and of the store's, by region id.
PdRanges    == {<<id, meta.regions[id].start, meta.regions[id].end>> :
                  id \in DOMAIN meta.regions}
StoreRanges == {<<regions[i].id, regions[i].start, regions[i].end>> :
                  i \in DOMAIN regions}
Agree == pdRunning /\ running /\ PdRanges = StoreRanges

Set(c, t) == th' = [th EXCEPT ![c] = t]
Done(t, result) == [t EXCEPT !.pc = "done", !.result = result]

Fault == faults < MaxFaults /\ faults' = faults + 1

\* A call handled with this result ends in r: its answer arrives or is lost.
Ends(result, r) ==
  \/ r = result  /\ UNCHANGED faults
  \/ r = "error" /\ Fault

\* A call fails unhandled: the process is down, or the connection is.
Unreached(up) == IF up THEN Fault ELSE UNCHANGED faults

-----------------------------------------------------------------------------
\* RouteCache.

\* Ids of the cached regions that contain k; GetByKey takes the first, in id order.
Cached(g, k) == {id \in DOMAIN cache[g] : ContainsKey(cache[g][id], k)}

PutRoute(g, entry) == cache' = [cache EXCEPT ![g] =
  [id \in DOMAIN @ \cup {entry.id} |-> IF id = entry.id THEN entry ELSE @[id]]]

ClearRoutes(g) == cache' = [cache EXCEPT ![g] = <<>>]

-----------------------------------------------------------------------------
\* Put, Delete, Get and Batch.  keys has the keys in the order of the mutations.

KvRequest(c, keys) ==
  /\ th[c].pc = "idle" /\ c \notin Admin /\ asked[1] < MaxKv
  /\ Set(c, [IdleThread EXCEPT !.pc = "resolve", !.op = "kv", !.keys = keys])
  /\ asked' = [asked EXCEPT ![1] = @ + 1]
  /\ UNCHANGED <<pdVars, storeVars, cache, faults, broken>>

\* The key to resolve: the first one, then, for a Batch, each of them again.
KeyOf(t) == t.keys[IF t.at = 0 THEN 1 ELSE t.at]

\* ResolveRoute returned this region for the key.
Resolved(t, id) ==
  LET last == t.at = Len(t.keys) \/ Len(t.keys) = 1 \/ t.retried
      next == IF last THEN [t EXCEPT !.pc = "call"]
                      ELSE [t EXCEPT !.pc = "resolve", !.at = @ + 1]
  IN  IF t.at = 0 THEN [next EXCEPT !.region = id]
      ELSE IF t.region = id THEN next ELSE Done(t, "refused")

ResolveCached(c) ==
  LET ids == Cached(GatewayOf[c], KeyOf(th[c]))
  IN  /\ th[c].pc = "resolve" /\ ids # {}
      /\ Set(c, Resolved(th[c], Min(ids)))
      /\ UNCHANGED <<pdVars, storeVars, cache, asked, faults, broken>>

\* pd.GetRegionByKey
AskPd(c) ==
  /\ th[c].pc = "resolve" /\ Cached(GatewayOf[c], KeyOf(th[c])) = {}
  /\ \/ /\ pdRunning
        /\ \E id \in PD!GetRegionByKey(meta, KeyOf(th[c])) :
             Set(c, [th[c] EXCEPT !.pc = "fill",
                       !.got = [id |-> id, start |-> meta.regions[id].start,
                                           end |-> meta.regions[id].end]])
        /\ UNCHANGED faults
     \/ /\ Unreached(pdRunning)
        /\ Set(c, Done(th[c], "error"))
  /\ UNCHANGED <<pdVars, storeVars, cache, asked, broken>>

FillCache(c) ==
  /\ th[c].pc = "fill"
  /\ PutRoute(GatewayOf[c], th[c].got)
  /\ Set(c, Resolved([th[c] EXCEPT !.got = <<>>], th[c].got.id))
  /\ UNCHANGED <<pdVars, storeVars, asked, faults, broken>>

\* ValidateRoute of the store: the region that has the key is another one.
StaleRoute(id, k) ==
  LET i == ST!FindRegionByKey(k) IN i = 0 \/ regions[i].id # id

\* Mutant of AfterStale: the answer is returned without a retry.
GiveUp(t) == Done(t, "stale")

AfterStale(t) == IF t.retried THEN Done(t, "stale") ELSE [t EXCEPT !.pc = "refresh"]

\* The store handles the request.  A Batch has all its keys in the region of the
\* first or is refused.
CallStore(c) ==
  LET t    == th[c]
      keys == Range(t.keys)
  IN  /\ t.pc = "call" /\ running
      /\ \/ /\ StaleRoute(t.region, t.keys[1])
            /\ \E r \in {"stale", "error"} :
                 Ends("stale", r) /\ Set(c, IF r = "stale" THEN AfterStale(t) ELSE Done(t, r))
            /\ UNCHANGED storeVars
         \/ /\ ~StaleRoute(t.region, t.keys[1])
            /\ \E k \in keys : ST!FindRegionByKey(k) # ST!FindRegionByKey(t.keys[1])
            /\ \E r \in {"refused", "error"} : Ends("refused", r) /\ Set(c, Done(t, r))
            /\ UNCHANGED storeVars
         \/ /\ ~StaleRoute(t.region, t.keys[1])
            /\ \E v \in Value \cup {NoValue} : ST!Write([k \in keys |-> v])
            /\ \E r \in {"ok", "error"} : Ends("ok", r) /\ Set(c, Done(t, r))
         \/ /\ ~StaleRoute(t.region, t.keys[1])   \* its cluster returns an error
            /\ \E v \in Value \cup {NoValue} : ST!WriteFails([k \in keys |-> v])
            /\ Fault \/ (t.region \in leaderless /\ UNCHANGED faults)
            /\ Set(c, Done(t, "error"))
      /\ UNCHANGED <<pdVars, cache, asked, broken>>

\* The store is not reached.
CallFails(c) ==
  /\ th[c].pc = "call" /\ Unreached(running)
  /\ Set(c, Done(th[c], "error"))
  /\ UNCHANGED <<pdVars, storeVars, cache, asked, broken>>

\* Mutant of Refresh: the retry compares with the region of the first attempt.
RefreshKeepsRegion(c) ==
  /\ th[c].pc = "refresh"
  /\ ClearRoutes(GatewayOf[c])
  /\ Set(c, [th[c] EXCEPT !.pc = "resolve", !.retried = TRUE])
  /\ UNCHANGED <<pdVars, storeVars, asked, faults, broken>>

\* The cache is cleared and the first key resolved again.
Refresh(c) ==
  /\ th[c].pc = "refresh"
  /\ ClearRoutes(GatewayOf[c])
  /\ Set(c, [th[c] EXCEPT !.pc = "resolve", !.at = 0, !.retried = TRUE])
  /\ UNCHANGED <<pdVars, storeVars, asked, faults, broken>>

-----------------------------------------------------------------------------
\* SplitRegion, TransferLeader, AddPeer and RemovePeer.

AdminRequest(c, op, id, arg) ==
  /\ th[c].pc = "idle" /\ c \in Admin /\ asked[2] < MaxAdmin
  /\ Set(c, [IdleThread EXCEPT !.pc = "pd", !.op = op, !.id = id, !.arg = arg])
  /\ asked' = [asked EXCEPT ![2] = @ + 1]
  /\ UNCHANGED <<pdVars, storeVars, cache, faults, broken>>

\* What PD and the store may disagree on once this request has failed half-way.
Breaks(t) == IF t.op = "split" THEN {"ranges"} ELSE {"peers"}

PdAccepts(t) ==
  \/ t.op = "split"    /\ PD!CanSplit(t.id, t.arg)
  \/ t.op = "transfer" /\ PD!HasPeer(t.id, t.arg)
  \/ t.op = "add"      /\ PD!CanAddPeer(t.id, t.arg)
  \/ t.op = "remove"   /\ PD!CanRemovePeer(t.id, t.arg)

PdHandles(t) ==
  \/ t.op = "split"    /\ PD!SplitRegion(t.id, t.arg)
  \/ t.op = "transfer" /\ PD!TransferLeader(t.id, t.arg)
  \/ t.op = "add"      /\ PD!AddPeer(t.id, t.arg)
  \/ t.op = "remove"   /\ PD!RemovePeer(t.id, t.arg)

\* Mutant of AfterPd: the request goes on to the store whatever PD answered.
StoreAnyway(t, result) == [t EXCEPT !.pc = "store", !.region = meta.nextPeer]

\* PD's answer: only an "ok" goes on to the store, and names the peer id that
\* pd.AddPeer allocated.
AfterPd(t, result) ==
  IF result = "ok" THEN [t EXCEPT !.pc = "store", !.region = meta.nextPeer]
                   ELSE Done(t, result)

CallPd(c) ==
  LET t == th[c]
  IN  /\ t.pc = "pd"
      /\ \/ /\ pdRunning /\ PdHandles(t)
            /\ IF pdRunning'
               THEN \E r \in {"ok", "error"} :
                      /\ Ends("ok", r) /\ Set(c, AfterPd(t, r))
                      /\ broken' = IF r = "ok" THEN broken ELSE broken \cup Breaks(t)
               ELSE Fault /\ Set(c, AfterPd(t, "error")) /\ UNCHANGED broken
         \/ /\ pdRunning /\ ~PdAccepts(t)
            /\ \E r \in {"refused", "error"} :
                 Ends("refused", r) /\ Set(c, AfterPd(t, r))
            /\ UNCHANGED <<pdVars, broken>>
         \/ /\ Unreached(pdRunning)
            /\ Set(c, AfterPd(t, "error"))
            /\ UNCHANGED <<pdVars, broken>>
      /\ UNCHANGED <<storeVars, cache, asked>>

StoreAccepts(t) ==
  \/ t.op = "split"    /\ ST!CanSplit(t.id, t.arg)
  \/ t.op = "transfer" /\ ST!HasPeer(t.id, t.arg)
  \/ t.op = "add"      /\ ST!CanAddPeer(t.id, t.arg, t.region)
  \/ t.op = "remove"   /\ ST!CanRemovePeer(t.id, t.arg)

\* Mutant of StoreHandles: the new replica gets the store's id.
StoreNumbersPeers(t) ==
  \/ t.op = "transfer" /\ ST!TransferLeader(t.id, t.arg)
  \/ t.op = "add"      /\ ST!AddPeer(t.id, t.arg, t.arg)
  \/ t.op = "remove"   /\ ST!RemovePeer(t.id, t.arg)

StoreHandles(t) ==
  \/ t.op = "transfer" /\ ST!TransferLeader(t.id, t.arg)
  \/ t.op = "add"      /\ ST!AddPeer(t.id, t.arg, t.region)
  \/ t.op = "remove"   /\ ST!RemovePeer(t.id, t.arg)

\* The region's cluster loses an election or cannot open a directory.
ClusterFails(t) ==
  \/ t.op \in {"transfer", "add"} /\ StoreAccepts(t) /\ ST!ClusterFails(t.id)
  \/ t.op = "remove" /\ ST!RemovePeerFails(t.id, t.arg)

\* The store's answer, whatever it is, clears the cache.
AfterStore(t, result) == [t EXCEPT !.pc = "clear", !.result = result]

Answered(c, result) ==
  /\ Set(c, AfterStore(th[c], result))
  /\ broken' = IF result = "ok" THEN broken ELSE broken \cup Breaks(th[c])

\* The store has handled the request, or has died doing so.
StoreAnswers(c) ==
  IF running' THEN \E r \in {"ok", "error"} : Ends("ok", r) /\ Answered(c, r)
              ELSE Fault /\ Answered(c, "error")

ManageStore(c) ==
  LET t == th[c]
  IN  /\ t.pc = "store"
      /\ \/ /\ t.op = "split" /\ ST!SplitRegion(t.id, t.arg)
            /\ Set(c, [t EXCEPT !.pc = "splitting"])
            /\ UNCHANGED <<faults, broken>>
         \/ StoreHandles(t) /\ StoreAnswers(c)
         \/ ClusterFails(t) /\ Fault /\ Answered(c, "error")
         \/ /\ running /\ ~StoreAccepts(t)
            /\ Answered(c, "refused")
            /\ UNCHANGED <<storeVars, faults>>
         \/ /\ Unreached(running)
            /\ Answered(c, "error")
            /\ UNCHANGED storeVars
      /\ UNCHANGED <<pdVars, cache, asked>>

\* The thread of the store that splits a region; its caller waits.
SplitGoesOn ==
  /\ \/ ST!Export \/ ST!PutRight \/ ST!DeleteLeft
  /\ UNCHANGED <<pdVars, cache, th, asked, faults, broken>>

SplitEnds(c) ==
  /\ th[c].pc = "splitting"
  /\ \/ ST!SplitFails /\ Fault /\ Answered(c, "error")
     \/ ST!Install /\ StoreAnswers(c)
     \/ /\ split = ST!NoSplit   \* the process has died
        /\ Answered(c, "error")
        /\ UNCHANGED <<storeVars, faults>>
  /\ UNCHANGED <<pdVars, cache, asked>>

ClearCache(c) ==
  /\ th[c].pc = "clear"
  /\ ClearRoutes(GatewayOf[c])
  /\ Set(c, Done(th[c], th[c].result))
  /\ UNCHANGED <<pdVars, storeVars, asked, faults, broken>>

\* The client has its answer.
Return(c) ==
  /\ th[c].pc = "done"
  /\ Set(c, IdleThread)
  /\ UNCHANGED <<pdVars, storeVars, cache, asked, faults, broken>>

-----------------------------------------------------------------------------
\* Processes die and come back.  A restarted store has the replicas it was
\* configured with again.

PdFails ==
  /\ (PD!Crash /\ Fault) \/ (PD!Open /\ UNCHANGED faults)
  /\ UNCHANGED <<storeVars, cache, th, asked, broken>>

StoreFails ==
  /\ ST!Crash /\ Fault
  /\ broken' = broken \cup {"peers"}
  /\ UNCHANGED <<pdVars, cache, th, asked>>

\* A store process that starts registers its stores at PD once more, under new
\* ids, and gives up when PD is down.
RestartStore ==
  /\ pdRunning
  /\ LET new == meta.nextStore .. meta.nextStore + StoreCount - 1
     IN  meta' = [meta EXCEPT !.stores = @ \cup new, !.nextStore = @ + StoreCount]
  /\ pdCatalog' = [state |-> "full", image |-> PD!ImageOf(meta')]
  /\ ST!Start
  /\ UNCHANGED <<pdRunning, cache, th, asked, faults, broken>>

Work(c) ==
  \/ ResolveCached(c) \/ AskPd(c) \/ FillCache(c) \/ CallStore(c) \/ CallFails(c)
  \/ Refresh(c) \/ CallPd(c) \/ ManageStore(c) \/ SplitEnds(c) \/ ClearCache(c)
  \/ Return(c)

Arrive(c) ==
  \/ \E k \in 1 .. MaxKey : KvRequest(c, <<k>>)
  \/ \E k \in 2 .. MaxKey : KvRequest(c, <<k - 1, k>>)
  \/ \E id \in 1 .. MaxRegion :
       \/ \E k \in 1 .. MaxKey : AdminRequest(c, "split", id, k)
       \/ \E s \in 1 .. MaxStore : AdminRequest(c, "add", id, s)
       \/ \E p \in 1 .. MaxStore + 1 : AdminRequest(c, "transfer", id, p)
                                         \/ AdminRequest(c, "remove", id, p)

Next ==
  /\ (\E c \in Client : Arrive(c) \/ Work(c))
     \/ SplitGoesOn \/ PdFails \/ StoreFails \/ RestartStore
  /\ calm' = [c \in Client |-> th'[c].pc = "idle" \/ (calm[c] /\ Agree')]

Spec == Init /\ [][Next]_vars
-----------------------------------------------------------------------------
\* Properties.

Managing == \E c \in Client : th[c].pc \in {"store", "splitting"}

\* PD and the store number the halves of a split each for themselves.  Unless a
\* split failed half-way they agree on every region's id and range whenever no
\* split is between its two calls, also after either of them has restarted.
RangesAgree ==
  ("ranges" \notin broken /\ ~Managing /\ pdRunning /\ running) => PdRanges = StoreRanges

\* The replicas of the first region are those PD lists, in PD's order, unless a
\* membership change failed half-way or the store was restarted.
PeersAgree ==
  (broken = {} /\ ~Managing /\ pdRunning) => replicas[1] = meta.regions[1].peers

\* One refresh is enough: while PD and the store agree, a request never ends
\* with a stale route, however old the gateway's cache is.
OneRefreshIsEnough ==
  \A c \in Client : th[c].result = "stale" => ~calm[c]

\* While PD and the store agree, a Batch is refused only if its keys are in
\* different regions: an old cache never makes the gateway see a boundary that is
\* not there.
RefusedBatchSpansRegions ==
  \A c \in Client : (th[c].op = "kv" /\ th[c].result = "refused" /\ calm[c]) =>
    \E k \in Range(th[c].keys) :
      ST!FindRegionByKey(k) # ST!FindRegionByKey(th[c].keys[1])
=============================================================================
