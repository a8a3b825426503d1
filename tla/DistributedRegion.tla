-------------------------- MODULE DistributedRegion --------------------------
(***************************************************************************)
(* One region replicated over store processes (DistributedRegionNode).     *)
(*                                                                         *)
(* There is no background Raft thread: elections and replication happen    *)
(* inside the client operation that needs them.  A client thread c runs    *)
(* Put/Delete/Batch or TransferLeader on the store of peer home; the code  *)
(* between two RPCs is one action, a handler at the called store is one    *)
(* action, and anything may happen between them: neither class has a lock  *)
(* and the TCP server runs every connection in a thread of its own.        *)
(* With one client no two operations overlap, which is how the scripts and *)
(* tests of the repository use the system; with two clients they may.      *)
(***************************************************************************)
EXTENDS RaftStorage

CONSTANTS
  Client,       \* concurrent client threads
  NoCommand,    \* the operation is TransferLeader and proposes nothing
  MaxAttempts,  \* attempts of ReplicateToStore; 8 in the code
  MaxOps,       \* bound: client operations started
  MaxCrashes,   \* bound: store crashes
  MaxOrphans,   \* bound: undelivered requests that nobody waits for
  TornWrites    \* whether a store may crash between two writes of a step

ASSUME BoundsAssumption ==
  /\ NoCommand \notin Command
  /\ MaxAttempts \in Nat \ {0}
  /\ MaxOps \in Nat
  /\ MaxCrashes \in Nat
  /\ MaxOrphans \in Nat
  /\ TornWrites \in BOOLEAN

VARIABLES
  up,        \* the store process of a peer is running
  raft,      \* the peer's RaftNode
  disk,      \* the peer's data directory
  hint,      \* region_.leader_peer_id as this store knows it
  pdLeader,  \* leader_peer_id of the region in PD
  th,        \* the operation each client thread is executing
  orphans,   \* requests in flight whose caller is gone
  ops,       \* operations started so far
  crashes,   \* crashes so far
  votes,     \* history: <<voter, term, candidate>> of every vote granted
  elected,   \* history: <<term, candidate>> of every election won
  committed  \* history: <<index, entry>> of every entry a leader committed

serverVars  == <<up, raft, disk, hint, pdLeader>>
historyVars == <<votes, elected, committed>>
vars == <<serverVars, th, orphans, ops, crashes, historyVars>>

NoMsg     == [type |-> "none"]
FailedMsg == [type |-> "failed"]

\* pc: "transfer" PD knows the new leader, the store has not been called yet;
\* "vote" in the loop of EnsureLeader; "propose" EnsureLeader has returned OK;
\* "append" in the loop of ProposeAndReplicate; "commit" in BroadcastCommit.
Thread ==
  [pc : {"idle", "transfer", "vote", "propose", "append", "commit"},
   home : Peer \cup {None}, cmd : Command \cup {NoCommand},
   todo : SUBSET Peer, got : SUBSET Peer, index : Nat, next : Nat, tries : Nat,
   commit : Nat, req : VoteRequest \cup AppendRequest \cup {NoMsg},
   resp : VoteReply \cup AppendReply \cup {NoMsg, FailedMsg}]

IdleThread ==
  [pc |-> "idle", home |-> None, cmd |-> NoCommand, todo |-> {}, got |-> {},
   index |-> 0, next |-> 0, tries |-> 0, commit |-> 0,
   req |-> NoMsg, resp |-> NoMsg]

\* Bound on the terms reached: at most one campaign per operation or crash.
MaxTerm == MaxOps + MaxCrashes

\* Mutant of Majority: `votes < peers / 2' instead of `votes <= peers / 2'.
HalfIsEnough(S) == Cardinality(S) >= Cardinality(Peer) \div 2

Majority(S) == 2 * Cardinality(S) > Cardinality(Peer)

\* Stores are called in the order of region_.peers.
Dest(c) == Min(th[c].todo)

\* Thread c has sent a request and has no answer yet.
Calling(c) ==
  /\ th[c].pc \in {"vote", "append", "commit"}
  /\ th[c].todo # {}
  /\ th[c].req.type # "none"
  /\ th[c].resp.type = "none"

Answered(c) == th[c].todo # {} /\ th[c].resp.type # "none"

\* A leader operation of thread c runs inside the process of this peer.
RunsOn(c, p) == th[c].home = p /\ th[c].pc \notin {"idle", "transfer"}

Return(c) == th' = [th EXCEPT ![c] = IdleThread]

Init ==
  /\ up = [p \in Peer |-> TRUE]
  /\ raft = [p \in Peer |-> NewNode]
  /\ disk = [p \in Peer |-> EmptyDisk]
  /\ hint = [p \in Peer |-> Min(Peer)]
  /\ pdLeader = Min(Peer)
  /\ th = [c \in Client |-> IdleThread]
  /\ orphans = {}
  /\ ops = 0 /\ crashes = 0
  /\ votes = {} /\ elected = {} /\ committed = {}

-----------------------------------------------------------------------------
\* EnsureLeader.  A peer that is neither leader nor PD's choice (as this store
\* remembers it) returns NOT_LEADER, which changes nothing.

AlreadyLeader(c, p, cmd) ==
  /\ raft[p].role = "Leader"
  /\ th' = [th EXCEPT ![c] =
              IF cmd = NoCommand THEN IdleThread
              ELSE [IdleThread EXCEPT !.pc = "propose", !.home = p, !.cmd = cmd]]
  /\ UNCHANGED <<raft, disk, votes>>

StartCampaign(c, p, cmd) ==
  LET n == BecomeCandidate(raft[p], p)
  IN  /\ raft[p].role # "Leader"
      /\ raft' = [raft EXCEPT ![p] = n]
      /\ disk' = [disk EXCEPT ![p] = SaveHardState(disk[p], n)]
      /\ votes' = votes \cup {<<p, n.term, p>>}
      /\ th' = [th EXCEPT ![c] =
           [IdleThread EXCEPT !.pc = "vote", !.home = p, !.cmd = cmd,
              !.todo = Peer \ {p}, !.got = {p},
              !.req = [type |-> "vote", term |-> n.term, from |-> p,
                       lastIndex |-> LastIndex(n), lastTerm |-> LastTerm(n)]]]

\* Put, Delete and Batch: ProposeAndReplicate up to its first RPC or proposal.
Put(c, p, cmd) ==
  /\ th[c].pc = "idle" /\ ops < MaxOps /\ up[p]
  /\ \/ AlreadyLeader(c, p, cmd)
     \/ hint[p] = p /\ StartCampaign(c, p, cmd)
  /\ ops' = ops + 1
  /\ UNCHANGED <<up, hint, pdLeader, orphans, crashes, elected, committed>>

\* The gateway tells PD first ...
PdTransferLeader(c, p) ==
  /\ th[c].pc = "idle" /\ ops < MaxOps
  /\ pdLeader' = p
  /\ th' = [th EXCEPT ![c] = [IdleThread EXCEPT !.pc = "transfer", !.home = p]]
  /\ ops' = ops + 1
  /\ UNCHANGED <<up, raft, disk, hint, orphans, crashes, historyVars>>

\* ... and then the store of the target peer.
TransferLeader(c) ==
  LET p == th[c].home
  IN  /\ th[c].pc = "transfer" /\ up[p]
      /\ hint' = [hint EXCEPT ![p] = p]
      /\ AlreadyLeader(c, p, NoCommand) \/ StartCampaign(c, p, NoCommand)
      /\ UNCHANGED <<up, pdLeader, orphans, ops, crashes, elected, committed>>

\* The store is down, or the call is lost on its way.
TransferUnreachable(c) ==
  /\ th[c].pc = "transfer"
  /\ Return(c)
  /\ UNCHANGED <<serverVars, orphans, ops, crashes, historyVars>>

\* Mutant of VoteReturned: a failed call is repeated instead of skipped.
VoteReturnedRetries(c) ==
  /\ th[c].pc = "vote" /\ Answered(c)
  /\ th' = [th EXCEPT ![c].todo = IF th[c].resp.type = "failed" THEN th[c].todo
                                  ELSE th[c].todo \ {Dest(c)},
                      ![c].resp = NoMsg,
                      ![c].got = IF th[c].resp.type = "vote" /\ th[c].resp.granted
                                 THEN th[c].got \cup {Dest(c)} ELSE th[c].got]
  /\ UNCHANGED <<serverVars, orphans, ops, crashes, historyVars>>

\* Back from CallStore in the voting loop; a failed call is skipped and the
\* term of the answer is not looked at.
VoteReturned(c) ==
  /\ th[c].pc = "vote" /\ Answered(c)
  /\ th' = [th EXCEPT ![c].todo = th[c].todo \ {Dest(c)},
                      ![c].resp = NoMsg,
                      ![c].got = IF th[c].resp.type = "vote" /\ th[c].resp.granted
                                 THEN th[c].got \cup {Dest(c)} ELSE th[c].got]
  /\ UNCHANGED <<serverVars, orphans, ops, crashes, historyVars>>

\* votes > peers / 2: lead the term the node is in by now.
WinElection(c) ==
  LET p == th[c].home
      n == BecomeLeader(raft[p])
  IN  /\ th[c].pc = "vote" /\ th[c].todo = {} /\ Majority(th[c].got)
      /\ raft' = [raft EXCEPT ![p] = n]
      /\ disk' = [disk EXCEPT ![p] = SaveHardState(disk[p], n)]
      /\ elected' = elected \cup {<<th[c].req.term, p>>}
      /\ th' = [th EXCEPT ![c] =
           IF th[c].cmd = NoCommand THEN IdleThread
           ELSE [IdleThread EXCEPT !.pc = "propose", !.home = p, !.cmd = th[c].cmd]]
      /\ UNCHANGED <<up, hint, pdLeader, orphans, ops, crashes, votes, committed>>

LoseElection(c) ==
  /\ th[c].pc = "vote" /\ th[c].todo = {} /\ ~Majority(th[c].got)
  /\ Return(c)
  /\ UNCHANGED <<serverVars, orphans, ops, crashes, historyVars>>

-----------------------------------------------------------------------------
\* ProposeAndReplicate after EnsureLeader: RaftNode::Propose and AppendLog.
ProposeEntry(c) ==
  LET p == th[c].home
      n == Propose(raft[p], th[c].cmd)
  IN  /\ th[c].pc = "propose" /\ raft[p].role = "Leader"
      /\ raft' = [raft EXCEPT ![p] = n]
      /\ disk' = [disk EXCEPT ![p] = AppendLog(disk[p], n.log, LastIndex(n))]
      /\ th' = [th EXCEPT ![c] =
           [IdleThread EXCEPT !.pc = "append", !.home = p, !.cmd = th[c].cmd,
              !.index = LastIndex(n), !.todo = Peer \ {p}, !.got = {p}]]
      /\ UNCHANGED <<up, hint, pdLeader, orphans, ops, crashes, historyVars>>

\* Another thread has made this peer a follower since EnsureLeader.
ProposeRefused(c) ==
  /\ th[c].pc = "propose" /\ raft[th[c].home].role # "Leader"
  /\ Return(c)
  /\ UNCHANGED <<serverVars, orphans, ops, crashes, historyVars>>

\* Build and send the next request of ReplicateToStore.  Its arguments are
\* evaluated when the call for a store starts (tries = 0), the term and the
\* log anew for every attempt.  A prevIndex past the end of the log makes the
\* code read log()[prevIndex - 1] out of bounds: any term may come out.
SendAppend(c) ==
  LET p      == th[c].home
      n      == raft[p]
      first  == IF th[c].pc = "append" THEN th[c].index ELSE LastIndex(n) + 1
      next   == IF th[c].tries = 0 THEN first ELSE th[c].next
      commit == IF th[c].tries > 0 THEN th[c].commit
                ELSE IF th[c].pc = "append" THEN n.commit ELSE th[c].index
      prev   == next - 1
      terms  == IF prev = 0 THEN {0}
                ELSE IF prev <= Len(n.log) THEN {n.log[prev].term}
                     ELSE 0 .. MaxTerm
  IN  /\ th[c].pc \in {"append", "commit"} /\ th[c].todo # {}
      /\ th[c].req.type = "none"
      /\ \E t \in terms :
           th' = [th EXCEPT ![c].next = next, ![c].commit = commit,
                    ![c].req = [type |-> "append", term |-> n.term, from |-> p,
                                prevIndex |-> prev, prevTerm |-> t,
                                entries |-> SubSeq(n.log, next, Len(n.log)),
                                commit |-> commit]]
      /\ UNCHANGED <<serverVars, orphans, ops, crashes, historyVars>>

\* Back from CallStore in ReplicateToStore, done with this store: success,
\* failed call, or the last attempt was rejected.
StoreDone(c) ==
  LET r == th[c].resp
  IN  /\ th[c].pc \in {"append", "commit"} /\ Answered(c)
      /\ \/ r.type = "failed"
         \/ r.type = "append" /\ (r.success \/ th[c].tries + 1 >= MaxAttempts)
      /\ th' = [th EXCEPT ![c].todo = th[c].todo \ {Dest(c)},
                  ![c].got = IF r.type = "append" /\ r.success
                             THEN th[c].got \cup {Dest(c)} ELSE th[c].got,
                  ![c].tries = 0, ![c].next = 0, ![c].commit = 0,
                  ![c].req = NoMsg, ![c].resp = NoMsg]
      /\ UNCHANGED <<serverVars, orphans, ops, crashes, historyVars>>

\* Where ReplicateToStore goes on after a rejection: the follower's last entry.
RetryFrom(reply) == IF reply.match = 0 THEN 1 ELSE reply.match

BackOff(c) ==
  LET r == th[c].resp
  IN  /\ th[c].pc \in {"append", "commit"} /\ Answered(c)
      /\ r.type = "append" /\ ~r.success /\ th[c].tries + 1 < MaxAttempts
      /\ th' = [th EXCEPT ![c].tries = th[c].tries + 1,
                  ![c].next = RetryFrom(r),
                  ![c].req = NoMsg, ![c].resp = NoMsg]
      /\ UNCHANGED <<serverVars, orphans, ops, crashes, historyVars>>

\* SetCommitIndex on this node, and what ApplyCommitted leaves in memory.
CommitNode(c) == SetCommitIndex(raft[th[c].home], th[c].index)

\* replicated > peers / 2: commit, apply, save, and go on to BroadcastCommit.
Commit(c) ==
  LET p == th[c].home
      n == TakeCommittedEntries(CommitNode(c))
  IN  /\ th[c].pc = "append" /\ th[c].todo = {} /\ Majority(th[c].got)
      /\ raft' = [raft EXCEPT ![p] = n]
      /\ disk' = [disk EXCEPT ![p] =
                    SaveHardState(ApplyCommitted(disk[p], CommitNode(c)), n)]
      /\ committed' = committed \cup
           {<<i, n.log[i]>> : i \in {th[c].index} \cap DOMAIN n.log}
      /\ th' = [th EXCEPT ![c].pc = "commit", ![c].todo = Peer \ {p}]
      /\ UNCHANGED <<up, hint, pdLeader, orphans, ops, crashes, votes, elected>>

NoQuorum(c) ==
  /\ th[c].pc = "append" /\ th[c].todo = {} /\ ~Majority(th[c].got)
  /\ Return(c)
  /\ UNCHANGED <<serverVars, orphans, ops, crashes, historyVars>>

\* BroadcastCommit ignores its results; the operation returns OK.
PutReturns(c) ==
  /\ th[c].pc = "commit" /\ th[c].todo = {}
  /\ Return(c)
  /\ UNCHANGED <<serverVars, orphans, ops, crashes, historyVars>>

-----------------------------------------------------------------------------
\* store.RaftRequestVote and store.RaftAppendEntries at the called store.

\* The node after the handler, with TakeCommittedEntries where it applies.
HandlerNode(n, req) ==
  IF req.type = "vote" THEN HandleRequestVote(n, req)
  ELSE IF AcceptsEntries(n, req)
       THEN TakeCommittedEntries(HandleAppendEntries(n, req))
       ELSE HandleAppendEntries(n, req)

\* Mutant of HandlerDisk: the new entries are not written.
HandlerDiskWithoutLog(d, n, req) ==
  IF req.type = "append" /\ AcceptsEntries(n, req)
  THEN SaveHardState(ApplyCommitted(d, HandleAppendEntries(n, req)),
                     HandlerNode(n, req))
  ELSE SaveHardState(d, HandlerNode(n, req))

\* Mutant of HandlerDisk: a rejected AppendEntries saves nothing.
HandlerDiskIfAccepted(d, n, req) ==
  LET m == HandleAppendEntries(n, req)
      l == IF req.entries = <<>> THEN d
           ELSE PersistLogFrom(d, m.log, req.prevIndex + 1)
  IN  IF req.type = "vote" THEN SaveHardState(d, HandlerNode(n, req))
      ELSE IF AcceptsEntries(n, req)
           THEN SaveHardState(ApplyCommitted(l, m), HandlerNode(n, req))
           ELSE d

\* What the handler has saved before it answers: DeleteLogsFrom and AppendLog
\* if there were entries, then the committed commands, then the hard state.
HandlerDisk(d, n, req) ==
  LET m == HandleAppendEntries(n, req)
      l == IF req.entries = <<>> THEN d
           ELSE PersistLogFrom(d, m.log, req.prevIndex + 1)
  IN  IF req.type = "append" /\ AcceptsEntries(n, req)
      THEN SaveHardState(ApplyCommitted(l, m), HandlerNode(n, req))
      ELSE SaveHardState(d, HandlerNode(n, req))

\* The images a crash before the answer can leave.
TornHandlerDisks(d, n, req) ==
  LET m == HandleAppendEntries(n, req)
      l == IF req.entries = <<>> THEN d
           ELSE PersistLogFrom(d, m.log, req.prevIndex + 1)
  IN  IF req.type = "append" /\ AcceptsEntries(n, req)
      THEN (IF req.entries = <<>> THEN {}
            ELSE TornLogFrom(d, m.log, req.prevIndex + 1))
             \cup TornApply(l, m)
             \cup TornHardState(ApplyCommitted(l, m), HandlerNode(n, req))
      ELSE TornHardState(d, HandlerNode(n, req))

ReplyOf(n, req) ==
  IF req.type = "vote" THEN [type |-> "vote", granted |-> GrantsVote(n, req)]
  ELSE AppendReplyOf(n, req)

Handle(p, req) ==
  /\ up[p]
  /\ raft' = [raft EXCEPT ![p] = HandlerNode(raft[p], req)]
  /\ disk' = [disk EXCEPT ![p] = HandlerDisk(disk[p], raft[p], req)]
  /\ votes' = IF req.type = "vote" /\ GrantsVote(raft[p], req)
              THEN votes \cup {<<p, req.term, req.from>>} ELSE votes

Receive(c) ==
  /\ Calling(c)
  /\ Handle(Dest(c), th[c].req)
  /\ th' = [th EXCEPT ![c].resp = ReplyOf(raft[Dest(c)], th[c].req)]
  /\ UNCHANGED <<up, hint, pdLeader, orphans, ops, crashes, elected, committed>>

\* A request whose caller has died or given up is handled all the same.
ReceiveOrphan ==
  \E o \in orphans :
    /\ Handle(o.to, o.req)
    /\ orphans' = orphans \ {o}
    /\ UNCHANGED <<up, hint, pdLeader, th, ops, crashes, elected, committed>>

ConnectFails(c) ==
  /\ Calling(c) /\ ~up[Dest(c)]
  /\ th' = [th EXCEPT ![c].resp = FailedMsg]
  /\ UNCHANGED <<serverVars, orphans, ops, crashes, historyVars>>

InFlight(c) ==
  IF Calling(c) THEN {[to |-> Dest(c), req |-> th[c].req]} ELSE {}

\* The connection breaks: the request is lost, or arrives later, or has been
\* handled and its answer is lost.
ConnectionBreaks(c) ==
  /\ Calling(c) \/ (Answered(c) /\ th[c].resp.type # "failed")
  /\ th' = [th EXCEPT ![c].resp = FailedMsg]
  /\ \E late \in SUBSET InFlight(c) :
       /\ orphans' = orphans \cup late
       /\ late = {} \/ Cardinality(orphans') <= MaxOrphans
  /\ UNCHANGED <<serverVars, ops, crashes, historyVars>>

-----------------------------------------------------------------------------
\* The store process of p dies with this data directory: its memory and its
\* threads are gone, calls it was serving fail, calls it had made may arrive.
Dies(p, image) ==
  /\ crashes < MaxCrashes /\ crashes' = crashes + 1
  /\ up' = [up EXCEPT ![p] = FALSE]
  /\ raft' = [raft EXCEPT ![p] = NewNode]
  /\ disk' = [disk EXCEPT ![p] = image]
  /\ th' = [c \in Client |->
       IF RunsOn(c, p) THEN IdleThread
       ELSE IF Calling(c) /\ Dest(c) = p THEN [th[c] EXCEPT !.resp = FailedMsg]
            ELSE th[c]]
  /\ \E late \in SUBSET UNION {InFlight(c) : c \in {x \in Client : RunsOn(x, p)}} :
       /\ orphans' = {o \in orphans : o.to # p} \cup late
       /\ late = {} \/ Cardinality(orphans') <= MaxOrphans
  /\ UNCHANGED <<hint, pdLeader, ops, historyVars>>

Crash(p) == up[p] /\ Dies(p, disk[p])

\* Crashes between two writes of a step: in a handler, in EnsureLeader, and in
\* the commit step of ProposeAndReplicate.
CrashInHandler(c) ==
  /\ TornWrites /\ Calling(c) /\ up[Dest(c)]
  /\ \E image \in TornHandlerDisks(disk[Dest(c)], raft[Dest(c)], th[c].req) :
       Dies(Dest(c), image)

CrashInCampaign(p) ==
  /\ TornWrites /\ up[p] /\ raft[p].role # "Leader"
  /\ hint[p] = p \/ \E c \in Client : th[c].pc = "transfer" /\ th[c].home = p
  /\ \E image \in TornHardState(disk[p], BecomeCandidate(raft[p], p)) :
       Dies(p, image)

CrashInCommit(c) ==
  LET p == th[c].home
      n == CommitNode(c)
  IN  /\ TornWrites
      /\ th[c].pc = "append" /\ th[c].todo = {} /\ Majority(th[c].got)
      /\ \E image \in TornApply(disk[p], n) \cup
                      TornHardState(ApplyCommitted(disk[p], n),
                                    TakeCommittedEntries(n)) :
           Dies(p, image)

\* The service registers its store again (PD knows it already), asks pd.Status
\* for the region and bootstraps from it and from its data directory.  A store
\* whose image Restore refuses does not start.
Restart(p) ==
  /\ ~up[p] /\ CanBootstrap(disk[p])
  /\ up' = [up EXCEPT ![p] = TRUE]
  /\ raft' = [raft EXCEPT ![p] = BootstrapNode(disk[p])]
  /\ hint' = [hint EXCEPT ![p] = pdLeader]
  /\ UNCHANGED <<disk, pdLeader, th, orphans, ops, crashes, historyVars>>

-----------------------------------------------------------------------------
\* The steps of an operation that has started.
Step(c) ==
  \/ TransferLeader(c) \/ TransferUnreachable(c)
  \/ VoteReturned(c) \/ WinElection(c) \/ LoseElection(c)
  \/ ProposeEntry(c) \/ ProposeRefused(c) \/ SendAppend(c)
  \/ StoreDone(c) \/ BackOff(c) \/ Commit(c) \/ NoQuorum(c) \/ PutReturns(c)
  \/ Receive(c) \/ ConnectFails(c)

Next ==
  \/ \E c \in Client : \E p \in Peer :
       PdTransferLeader(c, p) \/ \E cmd \in Command : Put(c, p, cmd)
  \/ \E c \in Client : Step(c)
  \/ \E c \in Client :
       ConnectionBreaks(c) \/ CrashInHandler(c) \/ CrashInCommit(c)
  \/ ReceiveOrphan
  \/ \E p \in Peer : Crash(p) \/ CrashInCampaign(p) \/ Restart(p)

Spec == Init /\ [][Next]_vars

\* Threads of a running process are scheduled and a store answers the calls it
\* accepts; clients, crashes, broken connections and restarts are not forced.
FairSpec == Spec /\ \A c \in Client : WF_vars(Step(c))
-----------------------------------------------------------------------------
\* Properties.

\* What the variables range over.
TypeOK ==
  /\ up \in [Peer -> BOOLEAN]
  /\ raft \in [Peer -> Node]
  /\ DOMAIN disk = Peer /\ \A p \in Peer : IsDisk(disk[p])
  /\ hint \in [Peer -> Peer] /\ pdLeader \in Peer
  /\ th \in [Client -> Thread]
  /\ \A o \in orphans :
       o.to \in Peer /\ o.req \in VoteRequest \cup AppendRequest
  /\ ops \in 0 .. MaxOps /\ crashes \in 0 .. MaxCrashes
  /\ votes \subseteq Peer \X Nat \X Peer
  /\ elected \subseteq Nat \X Peer
  /\ committed \subseteq Nat \X Entry

\* A peer votes for at most one candidate in a term, across crashes at any
\* write, overlapping campaigns, orphaned and repeated requests ("at most one
\* vote per term", HandleRequestVote and the PersistHardState after it).
VoteOncePerTerm ==
  \A v, w \in votes : v[1] = w[1] /\ v[2] = w[2] => v[3] = w[3]

\* Every vote a peer has answered for is in its data directory, or a later term
\* is: whatever write a crash interrupts, the restarted peer still knows it.
VotesAreSaved ==
  \A v \in votes :
    LET d == disk[v[1]]
    IN  /\ HasHardState(d) /\ v[2] <= d.term
        /\ v[2] = d.term => d.voted = v[3]

\* Two campaigns of EnsureLeader that collect a majority for the same request
\* term are campaigns of the same peer.
ElectedOncePerTerm ==
  \A e, f \in elected : e[1] = f[1] => e[2] = f[2]

\* A peer that can restart with a hard state never loses a term it saved, nor
\* swaps the vote it saved in that term for another candidate's: the promise
\* that PersistHardState before every answer is there to keep.
SavedVoteIsKept ==
  [][\A p \in Peer :
       HasHardState(disk[p]) =>
         /\ disk'[p].term >= disk[p].term
         /\ disk'[p].term = disk[p].term /\ disk[p].voted # None
              => disk'[p].voted = disk[p].voted]_vars

\* Neither commit_index_ nor last_applied_ is ever past the end of the log,
\* whatever other threads truncate in between: TakeCommittedEntries and the
\* applied prefix always index entries that exist.
CommitWithinLog ==
  \A p \in Peer : /\ raft[p].commit <= LastIndex(raft[p])
                  /\ raft[p].applied <= LastIndex(raft[p])

\* Between steps a running peer has saved all it knows: killed now, it would
\* restore exactly its current term, vote, log, commit and applied index.
MemoryIsSaved ==
  \A p \in Peer :
    up[p] => BootstrapNode(disk[p]) = [raft[p] EXCEPT !.role = "Follower"]

\* One leader per term among the running stores ("a Raft group has only one
\* leader at a time").
ElectionSafety ==
  \A p, q \in Peer :
    /\ up[p] /\ up[q]
    /\ raft[p].role = "Leader" /\ raft[q].role = "Leader"
    /\ raft[p].term = raft[q].term
    => p = q

\* Logs that agree on the term of an index agree on everything up to it.
LogMatching ==
  \A p, q \in Peer : up[p] /\ up[q] =>
    \A i \in 1 .. Least(LastIndex(raft[p]), LastIndex(raft[q])) :
      raft[p].log[i].term = raft[q].log[i].term =>
        \A j \in 1 .. i : raft[p].log[j] = raft[q].log[j]

\* An entry that a leader committed is in the log of every leader of the same
\* or a later term: a write that was acknowledged survives the next election.
LeaderCompleteness ==
  \A p \in Peer : \A x \in committed :
    up[p] /\ raft[p].role = "Leader" /\ raft[p].term >= x[2].term =>
      x[1] <= LastIndex(raft[p]) /\ raft[p].log[x[1]] = x[2]

\* A committed entry is in the data directories of a majority, for ever after.
CommittedIsDurable ==
  \A x \in committed :
    Majority({p \in Peer : /\ x[1] \in DOMAIN disk[p].log
                           /\ disk[p].log[x[1]] = x[2]})

\* What Get would answer at peer p, at any consistency level.
Get(p, k) == disk[p].kv[k]

\* The keys of a running peer are the effect of exactly the first last_applied_
\* entries of its log, each command once and in order.
KvIsAppliedPrefix ==
  \A p \in Peer : up[p] =>
    \A k \in Key : Get(p, k) =
      ApplyKvCommands(EmptyDisk, raft[p].log, 1, raft[p].applied).kv[k]

\* The log records of every data directory are those of 1 .. n without a gap, up
\* to the saved commit index and last_applied at least: whatever other threads
\* truncate and write again, a death between two handlers leaves a log that
\* Restore accepts.
LogIsWhole ==
  \A p \in Peer :
    \E n \in 0 .. Cardinality(DOMAIN disk[p].log) :
      /\ DOMAIN disk[p].log = 1 .. n
      /\ disk[p].commit <= n /\ disk[p].applied <= n

\* src/README.md:107 lists the recovery of a restarted store, so one that went
\* down must come up again: Restore accepts what it saved.  It does when one
\* request runs at a time and the death falls between two handlers
\* (region_serial), not for a death inside PersistLogFrom (torn_log.cfg) nor after
\* overlapping puts (late_commit.cfg).
CanAlwaysRestart ==
  \A p \in Peer : ~up[p] => CanBootstrap(disk[p])

\* last_applied_ of a running peer only moves forward ("each committed entry is
\* applied at most once").
AppliedOnlyGrows ==
  [][\A p \in Peer : up[p] /\ up'[p] => raft'[p].applied >= raft[p].applied]_vars

\* Every operation returns to its client: the voting and replication loops end.
OperationsReturn ==
  \A c \in Client : th[c].pc # "idle" ~> th[c].pc = "idle"
=============================================================================
