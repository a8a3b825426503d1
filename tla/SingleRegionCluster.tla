------------------------ MODULE SingleRegionCluster ------------------------
(***************************************************************************)
(* A region whose replicas all live in one process (SingleRegionCluster,   *)
(* the store that runs unless store.mode = distributed): each replica, a   *)
(* SingleRegionStore, has a RaftNode and a data directory store-<id> of    *)
(* its own, and the cluster calls the replicas one after the other.        *)
(*                                                                         *)
(* A step is one call of one replica, with the writes that follow it.  The *)
(* process may die between two steps and between two writes of a step.     *)
(* Requests are served one at a time; a request that is refused without    *)
(* changing anything (an unknown peer or store, no leader, Propose at a    *)
(* replica that does not lead) is a stutter.                               *)
(***************************************************************************)
EXTENDS RaftStorage, SequencesExt

CONSTANTS
  Store,       \* store ids, whose directories are under data_dir
  StoreCount,  \* Bootstrap's store_count: stores 1 .. StoreCount
  Reserved,    \* user keys that begin with raft/, region/, pd/ or local/
  Requests,    \* the kinds of request that are made
  MaxOps,      \* bound: requests
  MaxStarts    \* bound: starts of the process

ASSUME ClusterAssumption ==
  /\ Store \subseteq Nat \ {0} /\ StoreCount \in Nat \ {0}
  /\ 1 .. StoreCount \subseteq Store /\ 1 .. StoreCount \subseteq Peer
  /\ Reserved \subseteq Key
  /\ Requests \subseteq {"write", "transfer", "add", "remove"}
  /\ MaxOps \in Nat /\ MaxStarts \in Nat

VARIABLES
  members,   \* stores_: the replicas, in order; empty when the process is down
  peerIds,   \* peer_ids_, as a set
  leader,    \* leader_peer_id_
  raft,      \* the RaftNode of each store's replica
  disk,      \* the data directory of each store
  op,        \* the request in progress
  ops, starts,
  acked,     \* history: <<index, entry>> of every write that returned Ok
  joined     \* history: the length of the log a store was given when it joined

vars == <<members, peerIds, leader, raft, disk, op, ops, starts, acked, joined>>

\* pc: what the request does next.  boot: the election is Bootstrap's.  todo:
\* the replicas a loop has still to call.  got: votes or replicated copies.
Idle == [pc |-> "idle", boot |-> FALSE, peer |-> None, todo |-> <<>>, got |-> 0,
         index |-> 0]

Serving == members # <<>> /\ op = Idle

HasPeer(p) == \E i \in DOMAIN members : members[i].peer = p
PositionOf(p) == CHOOSE i \in DOMAIN members : members[i].peer = p
StoreOf(p) == members[PositionOf(p)].store

\* The loops over stores_ skip one peer: the candidate or the leader.
Others(p) == RemoveAt(members, PositionOf(p))

Majority(count) == count > Len(members) \div 2

Init ==
  /\ members = <<>> /\ peerIds = {} /\ leader = None
  /\ raft = [s \in Store |-> NewNode]
  /\ disk = [s \in Store |-> EmptyDisk]
  /\ op = Idle
  /\ ops = 0 /\ starts = 0 /\ acked = {} /\ joined = [s \in Store |-> 0]

-----------------------------------------------------------------------------
\* The process ends; the data directories are all that is left.
Stop ==
  /\ members' = <<>> /\ peerIds' = {} /\ leader' = None
  /\ raft' = [s \in Store |-> NewNode]
  /\ op' = Idle
  /\ joined' = [s \in Store |-> 0]
  /\ UNCHANGED <<ops, starts, acked>>

\* It dies inside a step of store s that was writing: one of the images is left.
DieWriting(s, images) ==
  /\ \E d \in images : disk' = [disk EXCEPT ![s] = d]
  /\ Stop

\* A whole step of store s, after which the request is at o.
Replica(s, n, d, o) ==
  /\ raft' = [raft EXCEPT ![s] = n]
  /\ disk' = [disk EXCEPT ![s] = d]
  /\ op' = o
  /\ UNCHANGED <<members, peerIds, starts, joined>>

\* The same where only the replica and the request change, or a crash in it.
ReplicaOrDie(s, n, d, o, torn) ==
  \/ Replica(s, n, d, o) /\ UNCHANGED <<leader, ops, acked>>
  \/ DieWriting(s, torn)

Crash == members # <<>> /\ Stop /\ UNCHANGED disk

\* SingleRegionStore::Open: RestoreRaftState accepts what the directory holds.
Opens(s) == CanBootstrap(disk[s])

\* Bootstrap without reset_data.  Restored replicas are followers, so the first
\* peer always stands for election.
Start ==
  /\ members = <<>> /\ starts < MaxStarts /\ starts' = starts + 1
  /\ \A s \in 1 .. StoreCount : Opens(s)
  /\ members' = [s \in 1 .. StoreCount |-> [store |-> s, peer |-> s]]
  /\ peerIds' = 1 .. StoreCount
  /\ raft' = [s \in Store |-> IF s <= StoreCount THEN BootstrapNode(disk[s])
                                                 ELSE NewNode]
  /\ op' = [Idle EXCEPT !.pc = "candidate", !.boot = TRUE, !.peer = 1]
  /\ UNCHANGED <<leader, disk, ops, acked, joined>>

-----------------------------------------------------------------------------
\* ElectLeader.

BecomesCandidate ==
  LET s == StoreOf(op.peer)
      n == BecomeCandidate(raft[s], op.peer)
  IN  /\ op.pc = "candidate"
      /\ ReplicaOrDie(s, n, SaveHardState(disk[s], n),
           [op EXCEPT !.pc = "votes", !.todo = Others(op.peer), !.got = 1],
           TornHardState(disk[s], n))

Vote ==
  /\ op.pc = "votes" /\ op.todo # <<>>
  /\ LET s   == Head(op.todo).store
         c   == raft[StoreOf(op.peer)]
         req == [type |-> "vote", term |-> c.term, from |-> op.peer,
                 lastIndex |-> LastIndex(c), lastTerm |-> LastTerm(c)]
         n   == HandleRequestVote(raft[s], req)
     IN  ReplicaOrDie(s, n, SaveHardState(disk[s], n),
           [op EXCEPT !.todo = Tail(op.todo),
                      !.got = IF GrantsVote(raft[s], req) THEN op.got + 1 ELSE op.got],
           TornHardState(disk[s], n))

Elected ==
  /\ op.pc = "votes" /\ op.todo = <<>> /\ Majority(op.got)
  /\ LET s == StoreOf(op.peer)
         n == BecomeLeader(raft[s])
     IN  Replica(s, n, SaveHardState(disk[s], n), Idle)
  /\ leader' = op.peer
  /\ UNCHANGED <<ops, acked>>

\* leader_peer_id_ keeps its value; a failed Bootstrap ends the process.
NotElected ==
  /\ op.pc = "votes" /\ op.todo = <<>> /\ ~Majority(op.got)
  /\ IF op.boot
     THEN Stop /\ UNCHANGED disk
     ELSE op' = Idle /\ UNCHANGED <<members, peerIds, leader, raft, disk, ops,
                                    starts, acked, joined>>

TransferLeader(p) ==
  /\ Serving /\ "transfer" \in Requests /\ ops < MaxOps
  /\ p # leader /\ HasPeer(p)
  /\ op' = [Idle EXCEPT !.pc = "candidate", !.peer = p]
  /\ ops' = ops + 1
  /\ UNCHANGED <<members, peerIds, leader, raft, disk, starts, acked, joined>>

-----------------------------------------------------------------------------
\* Membership.

\* The leader's first `upto' entries written over whatever records d has.
CopyLogUpTo(d, log, upto) ==
  [d EXCEPT !.log = [i \in DOMAIN d.log \cup 1 .. upto |->
                       IF i <= upto THEN log[i] ELSE d.log[i]]]

\* Mutant of CopyKeys: the new replica gets the log without the data.
CopyNoKeys(d, kv, ks) == d

\* The keys ks of a leader's engine put into another one, without those that look
\* like the store's own; nothing is deleted.
CopyKeys(d, kv, ks) ==
  [d EXCEPT !.kv = [k \in Key |-> IF k \in ks \ Reserved /\ kv[k] # NoValue
                                 THEN kv[k] ELSE d.kv[k]]]

\* The directory of a store is opened as it is.  The peer id is the caller's: PD
\* hands out new ones, and may hand out an old one again when it lost its catalog.
\* An id stays in peer_ids_ when the directory cannot be opened.
AddPeer(s, p) ==
  /\ Serving /\ "add" \in Requests /\ ops < MaxOps
  /\ ~\E i \in DOMAIN members : members[i].store = s
  /\ p \notin peerIds /\ peerIds' = peerIds \cup {p}
  /\ ops' = ops + 1
  /\ \/ /\ Opens(s)
        /\ op' = [Idle EXCEPT !.pc = "join", !.todo = <<[store |-> s, peer |-> p]>>]
     \/ ~Opens(s) /\ UNCHANGED op
  /\ UNCHANGED <<members, leader, raft, disk, starts, acked, joined>>

\* The replica takes the leader's term, vote, commit, applied and log; without a
\* leader it starts with what it has.
Join ==
  /\ op.pc = "join"
  /\ LET s == Head(op.todo).store
         n == [raft[StoreOf(leader)] EXCEPT !.role = "Follower"]
         d == CopyLogUpTo(disk[s], n.log, Len(n.log))
     IN  IF HasPeer(leader)
         THEN \/ /\ raft' = [raft EXCEPT ![s] = n]
                 /\ disk' = [disk EXCEPT ![s] = SaveHardState(d, n)]
                 /\ members' = members \o op.todo
                 /\ op' = [op EXCEPT !.pc = "copy"]
                 /\ joined' = [joined EXCEPT ![s] = Len(n.log)]
                 /\ UNCHANGED <<peerIds, leader, ops, starts, acked>>
              \/ DieWriting(s, {CopyLogUpTo(disk[s], n.log, i) : i \in 0 .. Len(n.log)}
                                 \cup TornHardState(d, n))
         ELSE /\ raft' = [raft EXCEPT ![s] = BootstrapNode(disk[s])]
              /\ members' = members \o op.todo
              /\ op' = Idle
              /\ UNCHANGED <<peerIds, leader, disk, ops, starts, acked, joined>>

\* The end of AddPeer: a WriteBatch of the leader's user keys.
CopyData ==
  /\ op.pc = "copy"
  /\ LET s  == Head(op.todo).store
         kv == disk[StoreOf(leader)].kv
     IN  ReplicaOrDie(s, raft[s], CopyKeys(disk[s], kv, Key), Idle,
                      {CopyKeys(disk[s], kv, ks) : ks \in SUBSET Key})

\* The directory stays.  Without the leader the first replica left is elected.
RemovePeer(p) ==
  /\ Serving /\ "remove" \in Requests /\ ops < MaxOps
  /\ Len(members) > 1 /\ HasPeer(p)
  /\ ops' = ops + 1
  /\ members' = Others(p) /\ peerIds' = peerIds \ {p}
  /\ raft' = [raft EXCEPT ![StoreOf(p)] = NewNode]
  /\ IF leader = p
     THEN /\ leader' = None
          /\ op' = [Idle EXCEPT !.pc = "candidate", !.peer = Head(Others(p)).peer]
     ELSE UNCHANGED <<leader, op>>
  /\ UNCHANGED <<disk, starts, acked, joined>>

-----------------------------------------------------------------------------
\* ProposeAndReplicate, for Put, Delete and Batch.

Write(cmd) ==
  LET s == StoreOf(leader)
      n == Propose(raft[s], cmd)
  IN  /\ Serving /\ "write" \in Requests /\ ops < MaxOps
      /\ HasPeer(leader) /\ raft[s].role = "Leader"
      /\ Replica(s, n, AppendLog(disk[s], n.log, Len(n.log)),
                 [Idle EXCEPT !.pc = "append", !.todo = Others(leader), !.got = 1,
                              !.index = Len(n.log)])
      /\ ops' = ops + 1
      /\ UNCHANGED <<leader, acked>>

\* The request for the entry of this write alone: what comes before it is never
\* sent again.
EntryRequest(l) ==
  [type |-> "append", term |-> l.term, from |-> leader,
   prevIndex |-> op.index - 1,
   prevTerm |-> IF op.index = 1 THEN 0 ELSE l.log[op.index - 1].term,
   entries |-> <<l.log[op.index]>>, commit |-> l.commit]

\* Mutant of AcceptedDisk: the entry is not saved.
AcceptedWithoutEntry(d, n) == SaveHardState(d, n)

\* A replica that accepts saves the entry and its hard state.
AcceptedDisk(d, n) == SaveHardState(AppendLog(d, n.log, op.index), n)

\* One that rejects saves nothing, not even a new term.
AppendToReplica ==
  /\ op.pc = "append" /\ op.todo # <<>>
  /\ LET s    == Head(op.todo).store
         req  == EntryRequest(raft[StoreOf(leader)])
         n    == HandleAppendEntries(raft[s], req)
         next == [op EXCEPT !.todo = Tail(op.todo)]
     IN  IF AcceptsEntries(raft[s], req)
         THEN ReplicaOrDie(s, n, AcceptedDisk(disk[s], n),
                [next EXCEPT !.got = op.got + 1],
                TornHardState(AppendLog(disk[s], n.log, op.index), n))
         ELSE Replica(s, n, disk[s], next) /\ UNCHANGED <<leader, ops, acked>>

NotReplicated ==
  /\ op.pc = "append" /\ op.todo = <<>> /\ ~Majority(op.got)
  /\ op' = Idle
  /\ UNCHANGED <<members, peerIds, leader, raft, disk, ops, starts, acked, joined>>

\* SingleRegionStore::ApplyCommitted on a node that has learnt a commit index.
AppliedDisk(d, n) == SaveHardState(ApplyCommitted(d, n), TakeCommittedEntries(n))

TornApplied(d, n) ==
  TornApply(d, n) \cup TornHardState(ApplyCommitted(d, n), TakeCommittedEntries(n))

Commit ==
  /\ op.pc = "append" /\ op.todo = <<>> /\ Majority(op.got)
  /\ LET s == StoreOf(leader)
         n == SetCommitIndex(raft[s], op.index)
     IN  ReplicaOrDie(s, TakeCommittedEntries(n), AppliedDisk(disk[s], n),
           [op EXCEPT !.pc = "commit", !.todo = Others(leader)], TornApplied(disk[s], n))

\* BroadcastCommit's request names the end of the replica's own log.
CommitRequest(l, n) ==
  [type |-> "append", term |-> l.term, from |-> leader, prevIndex |-> LastIndex(n),
   prevTerm |-> LastTerm(n), entries |-> <<>>, commit |-> op.index]

\* Every replica has seen the leader's term in its election, so it rejects no
\* such request in these instances; the code's error path is kept all the same.
BroadcastCommit ==
  /\ op.pc = "commit" /\ op.todo # <<>>
  /\ LET s   == Head(op.todo).store
         req == CommitRequest(raft[StoreOf(leader)], raft[s])
         n   == HandleAppendEntries(raft[s], req)
     IN  IF AcceptsEntries(raft[s], req)
         THEN ReplicaOrDie(s, TakeCommittedEntries(n), AppliedDisk(disk[s], n),
                [op EXCEPT !.todo = Tail(op.todo)], TornApplied(disk[s], n))
         ELSE Replica(s, n, disk[s], Idle) /\ UNCHANGED <<leader, ops, acked>>

Acknowledge ==
  /\ op.pc = "commit" /\ op.todo = <<>>
  /\ acked' = acked \cup {<<op.index, raft[StoreOf(leader)].log[op.index]>>}
  /\ op' = Idle
  /\ UNCHANGED <<members, peerIds, leader, raft, disk, ops, starts, joined>>

Next ==
  \/ Start \/ Crash
  \/ BecomesCandidate \/ Vote \/ Elected \/ NotElected
  \/ \E p \in Peer : TransferLeader(p) \/ RemovePeer(p)
  \/ \E s \in Store, p \in Peer : AddPeer(s, p)
  \/ Join \/ CopyData
  \/ \E cmd \in Command : Write(cmd)
  \/ AppendToReplica \/ NotReplicated \/ Commit \/ BroadcastCommit \/ Acknowledge

Spec == Init /\ [][Next]_vars
-----------------------------------------------------------------------------
\* Properties.

MemberStores == {members[i].store : i \in DOMAIN members}

Holds(s, x) == x[1] <= Len(raft[s].log) /\ raft[s].log[x[1]] = x[2]

\* Between requests at most one replica leads, and it is the one the cluster
\* sends writes to, whatever elections failed or were cut short by a crash.
OneLeader ==
  Serving => \A s \in MemberStores :
               raft[s].role = "Leader" => HasPeer(leader) /\ s = StoreOf(leader)

\* A write that returned Ok is in the log of every later leader, as long as the
\* process has been started no more than three times (single_crash).  After five
\* starts it need not be (acked_lost.cfg).
AckedSurvives ==
  Serving /\ HasPeer(leader) => \A x \in acked : Holds(StoreOf(leader), x)

\* What a whole log writes into an empty directory.
Effect(log) == ApplyKvCommands(EmptyDisk, log, 1, Len(log)).kv

\* Some entry behind index i writes key k.
WrittenAfter(log, i, k) == \E j \in i + 1 .. Len(log) : k \in DOMAIN log[j].cmd

\* Until the process first dies all replicas have, between requests, the same log
\* and have applied all of it, whoever joined or left; and a replica holds what the
\* log says, except for keys that AddPeer does not carry over (deleted ones and
\* reserved ones) and that nobody wrote since the store joined.
ReplicasAgree ==
  Serving /\ starts = 1 => \A s, t \in MemberStores :
    LET log == raft[s].log
    IN  /\ log = raft[t].log
        /\ raft[s].applied = Len(log)
        /\ \A k \in Key :
             \/ disk[s].kv[k] = Effect(log)[k]
             \/ /\ ~WrittenAfter(log, joined[s], k) /\ WrittenAfter(log, 0, k)
                /\ k \in Reserved \/ Effect(log)[k] = NoValue

\* What the repository says of AddPeer (README.md:117), that an added peer gets the
\* leader's data: until the process first dies every replica has it between requests.
\* It fails for a store that is added again after a Delete (added_again.cfg).
PeersHoldLeaderData ==
  Serving /\ starts = 1 /\ HasPeer(leader) =>
    \A s \in MemberStores : disk[s].kv = disk[StoreOf(leader)].kv

\* As long as no peer joins or leaves, the user data of a replica is what some prefix
\* of its log writes, not shorter than what it has recorded as applied.
KvIsPrefix ==
  Serving => \A s \in MemberStores :
    \E i \in raft[s].applied .. Len(raft[s].log) :
      disk[s].kv = ApplyKvCommands(EmptyDisk, raft[s].log, 1, i).kv

\* As long as no peer joins or leaves, Restore accepts every directory the process
\* left, whatever write it died in: no commit index without its records, no hole in
\* the log.
DirectoriesOpen == members = <<>> => \A s \in Store : Opens(s)
=============================================================================
