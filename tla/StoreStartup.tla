---------------------------- MODULE StoreStartup ----------------------------
(***************************************************************************)
(* How a cluster of distributed stores comes up (RunDistributedStore-      *)
(* Service): every store process registers itself with PD, polls pd.Status *)
(* until PD knows cluster.store_count stores, asks PD for the default      *)
(* region if there is none, and starts the peers that PD's regions place   *)
(* on it.  PD is module PdServer; the store's peer is the subject of       *)
(* module DistributedRegion.                                               *)
(*                                                                         *)
(* A call that PD answers and whose answer is applied is one step, except  *)
(* pd.Status: its handler takes PD's mutex once for the stores and once    *)
(* for the regions.  A call fails when it does not reach PD, PD is down,   *)
(* dies in it or cannot save, or the answer is lost after PD has acted.    *)
(***************************************************************************)
EXTENDS Region, Ordered, FiniteSets, FiniteSetsExt, SequencesExt

CONSTANTS
  Process,        \* store processes
  StoreId,        \* store.id of each process; 0: PD chooses
  StoreCount,     \* cluster.store_count
  RegisterTries,  \* attempts to register: 100 in the code
  StatusTries,    \* polls of pd.Status: 200 in the code
  MaxStore, MaxPeer, MaxRegion,
  DiskErrors,     \* whether PD's Persist may fail
  MaxFaults       \* bound: crashes, errors, lost calls and lost answers

ASSUME StartupAssumption ==
  /\ StoreId \in [Process -> 0 .. MaxStore]
  /\ MaxStore \in Nat /\ MaxPeer \in Nat /\ MaxRegion \in Nat /\ DiskErrors \in BOOLEAN
  /\ StoreCount \in Nat /\ RegisterTries \in Nat \ {0} /\ StatusTries \in Nat \ {0}
  /\ MaxFaults \in Nat

VARIABLES
  running, meta, catalog,  \* PD
  proc,                    \* the local variables of each process
  faults

vars == <<running, meta, catalog, proc, faults>>

PD == INSTANCE PdServer WITH MaxKey <- 0, seen <- {}

\* pc: the call the process makes next.  tries: attempts of the loop it is in that
\* are over; StatusTries in pd.Status: the last poll, after the loop.  listed: what
\* PD's handler of pd.Status has read of the stores.
Down == [pc |-> "down", tries |-> 0, id |-> 0, listed |-> {}, stores |-> {},
         regions |-> <<>>]

Init ==
  /\ PD!Init
  /\ proc = [p \in Process |-> Down]
  /\ faults = 0

Become(p, s) == proc' = [proc EXCEPT ![p] = s]

Fault == faults < MaxFaults /\ faults' = faults + 1

-----------------------------------------------------------------------------
\* PD, called.

\* PD executes the change A, saves it and answers Ok, and the answer arrives.  It
\* answers so too when the catalog could be opened and not be written.
Answered(A) ==
  /\ A /\ running'
  /\ \/ catalog' = [state |-> "full", image |-> PD!ImageOf(meta')] /\ UNCHANGED faults
     \/ catalog'.state = "torn" /\ Fault

\* PD answers without changing anything.
Reads == running /\ UNCHANGED <<running, meta, catalog>>
ReadAnswered == Reads /\ UNCHANGED faults

\* PD executes A, is not reached or is down; the caller gets an error.
Unanswered(A) ==
  \/ A /\ Fault
  \/ UNCHANGED <<running, meta, catalog>> /\ (Fault \/ (~running /\ UNCHANGED faults))

PdStep == \/ PD!Crash /\ Fault /\ UNCHANGED proc
          \/ PD!Open /\ UNCHANGED <<proc, faults>>

-----------------------------------------------------------------------------
\* A store process.

Launch(p) ==
  /\ proc[p].pc = "down"
  /\ Become(p, [Down EXCEPT !.pc = "register", !.id = StoreId[p]])
  /\ UNCHANGED <<running, meta, catalog, faults>>

Kill(p) ==
  /\ proc[p].pc # "down" /\ Fault
  /\ Become(p, Down)
  /\ UNCHANGED <<running, meta, catalog>>

\* The id in PD's answer.
RegisteredId(s) == IF s.id = 0 THEN meta.nextStore ELSE s.id

\* Registration is tried again after an error, even one that PD has acted on.
RegisterStore(p) ==
  LET s == proc[p]
      A == PD!RegisterStore(s.id)
  IN  /\ s.pc = "register"
      /\ \/ /\ Answered(A)
            /\ Become(p, [s EXCEPT !.pc = "stores", !.tries = 0, !.id = RegisteredId(s)])
         \/ /\ Unanswered(A)
            /\ Become(p, [s EXCEPT !.tries = @ + 1,
                 !.pc = IF s.tries + 1 = RegisterTries THEN "exited" ELSE "register"])

\* Mutant of NextPoll: no status is asked for after the loop.
NextPollWithoutLast(s) ==
  [s EXCEPT !.tries = @ + 1,
     !.pc = IF s.tries + 1 < StatusTries THEN "stores"
            ELSE IF s.regions # <<>> THEN "bootstrap" ELSE "exited"]

\* Mutant of NextPoll: a poll that brings nothing does not count.
NextPollForever(s) == [s EXCEPT !.pc = "stores"]

\* The end of an iteration of the polling loop, or of the poll after it.
NextPoll(s) ==
  [s EXCEPT !.tries = IF s.tries = StatusTries THEN @ ELSE @ + 1,
     !.pc = IF s.tries + 1 < StatusTries THEN "stores"
            ELSE IF s.regions # <<>> THEN "bootstrap"
            ELSE IF s.tries + 1 = StatusTries THEN "stores" ELSE "exited"]

\* Mutant of Enough: a store does not wait for the others.
EnoughAlways(s) == TRUE

Enough(s) == Cardinality(s.stores) >= StoreCount

\* The first half of pd.Status.
ListStores(p) ==
  LET s == proc[p]
  IN  /\ s.pc = "stores" /\ ReadAnswered
      /\ Become(p, [s EXCEPT !.pc = "regions", !.listed = meta.stores])

\* What the process does with a status: leave the loop, ask for the region or
\* poll again.  The poll after the loop is looked at for regions only.
AfterStatus(s) ==
  IF s.tries < StatusTries /\ Enough(s)
  THEN [s EXCEPT !.pc = IF s.regions = <<>> THEN "default" ELSE "bootstrap"]
  ELSE NextPoll(s)

\* The second half, and the answer.
ListRegions(p) ==
  LET s == proc[p]
  IN  /\ s.pc = "regions" /\ ReadAnswered
      /\ Become(p, AfterStatus([s EXCEPT !.stores = s.listed, !.listed = {},
                                         !.regions = meta.regions]))

\* No answer: the lists stay as the last answer left them.
StatusFails(p) ==
  LET s == proc[p]
  IN  /\ s.pc \in {"stores", "regions"} /\ Unanswered(Reads)
      /\ Become(p, NextPoll([s EXCEPT !.listed = {}]))

\* The default region, of the stores in the order of PD's list: PD has made one
\* meanwhile, makes it, or refuses.  After an answer the loop goes on, after an
\* error the process gives up.
BootstrapDefaultRegion(p) ==
  LET s    == proc[p]
      list == InOrder(s.stores)
      A    == PD!BootstrapDefaultRegion(list)
  IN  /\ s.pc = "default"
      /\ \/ /\ Answered(A) \/ (~PD!NoRegion /\ ReadAnswered)
            /\ Become(p, NextPoll(s))
         \/ /\ Unanswered(A \/ (~PD!NoRegion /\ Reads))
            /\ Become(p, [s EXCEPT !.pc = "exited"])
         \/ /\ PD!BootstrapUnknownStore(list) /\ UNCHANGED faults
            /\ Become(p, [s EXCEPT !.pc = "exited"])

HasLocalPeer(s, r) == FindPeerByStore(r, s.id) # {}

\* DistributedStoreNode::Bootstrap: the regions that have a peer on this store.
BootstrapNode(p) ==
  LET s     == proc[p]
      local == {i \in DOMAIN s.regions : HasLocalPeer(s, s.regions[i])}
  IN  /\ s.pc = "bootstrap"
      /\ Become(p, [s EXCEPT !.pc = IF local = {} THEN "exited" ELSE "serving",
                             !.regions = [i \in local |-> s.regions[i]]])
      /\ UNCHANGED <<running, meta, catalog, faults>>

Step(p) ==
  \/ RegisterStore(p) \/ ListStores(p) \/ ListRegions(p) \/ StatusFails(p)
  \/ BootstrapDefaultRegion(p) \/ BootstrapNode(p)

Next == PdStep \/ \E p \in Process : Launch(p) \/ Kill(p) \/ Step(p)

Spec == Init /\ [][Next]_vars /\ \A p \in Process : WF_vars(Step(p))
-----------------------------------------------------------------------------
\* Properties.

Serving(p) == proc[p].pc = "serving"

\* The region is made once all stores have registered: it has a peer on each of
\* them, in PD's memory and in its catalog, whichever stores die, retry or come
\* late, and none elsewhere.
ReplicaSetIsComplete ==
  \A m \in {meta, catalog.image} : \A i \in DOMAIN m.regions :
    {m.regions[i].peers[j].store : j \in DOMAIN m.regions[i].peers} = Range(StoreId)

\* All stores that serve were started with the same regions and the same peers of
\* them: they count the same majority, though they asked PD at different times, in
\* a race to have the region made, and PD may have died in between.  While every
\* save of PD succeeds this holds for any number of stores; with saves that fail it
\* takes a fourth store, and a region that was served and never saved, to break it.
ServingStoresAgree ==
  \A p, q \in Process :
    Serving(p) /\ Serving(q) => proc[p].regions = proc[q].regions

\* A serving store knows the address of every peer of its regions, though pd.Status
\* reads the stores before the regions.  Not so a store that went on after its last
\* poll: it takes a region that appeared between the two reads.
PeersHaveAddresses ==
  \A p \in Process : Serving(p) /\ proc[p].tries < StatusTries =>
    \A i \in DOMAIN proc[p].regions : \A j \in DOMAIN proc[p].regions[i].peers :
      proc[p].regions[i].peers[j].store \in proc[p].stores

\* As long as nothing has failed, no store gives up while PD has a region, not even
\* one whose last poll was the one that had the region made.
GivesUpWithoutRegion ==
  [][\A p \in Process :
       faults' = 0 /\ proc[p].pc # "exited" /\ proc'[p].pc = "exited"
         => DOMAIN meta.regions = {}]_vars

\* Every start comes to an end: no store polls PD for ever, whatever PD does.
StartsEnd ==
  \A p \in Process :
    (proc[p].pc = "register") ~> (proc[p].pc \in {"serving", "exited", "down"})
=============================================================================
