----------------------- MODULE DistributedRegionProofs -----------------------
(***************************************************************************)
(* Theorems about DistributedRegion, for every number of peers, clients,   *)
(* operations, crashes and lost messages, with and without torn writes.    *)
(***************************************************************************)
EXTENDS DistributedRegion, RaftStorageProofs

-----------------------------------------------------------------------------
\* Types.  What a thread knows depends on where it is.

ThreadOK(t) ==
  /\ t.pc # "idle" => t.home \in Peer
  /\ t.pc \in {"propose", "append", "commit"} => t.cmd \in Command
  /\ t.pc = "vote" => t.req \in VoteRequest /\ t.req.from = t.home
  /\ t.pc \in {"append", "commit"} => t.index # 0 /\ (t.tries > 0 => t.next # 0)

TypeInv ==
  /\ TypeOK
  /\ CommitWithinLog
  /\ \A c \in Client : ThreadOK(th[c])

LEMMA IdleThreadFacts == IdleThread \in Thread /\ ThreadOK(IdleThread)
<1>1. IdleThread \in Thread
  BY DEF IdleThread, Thread, NoMsg, None
<1>2. ThreadOK(IdleThread)
  BY DEF IdleThread, ThreadOK
<1> QED
  BY <1>1, <1>2

\* Updating one thread, one node or one disk.
LEMMA SetThread ==
  ASSUME NEW f \in [Client -> Thread], \A x \in Client : ThreadOK(f[x]),
         NEW c \in Client, NEW t \in Thread, ThreadOK(t)
  PROVE  LET g == [f EXCEPT ![c] = t]
         IN  g \in [Client -> Thread] /\ \A x \in Client : ThreadOK(g[x])
OBVIOUS

LEMMA SetNode ==
  ASSUME NEW f \in [Peer -> Node], \A q \in Peer : InLog(f[q]),
         NEW p \in Peer, NEW n \in Node, InLog(n)
  PROVE  LET g == [f EXCEPT ![p] = n]
         IN  g \in [Peer -> Node] /\ \A q \in Peer : InLog(g[q])
OBVIOUS

LEMMA SetDisk ==
  ASSUME NEW f, DOMAIN f = Peer, \A q \in Peer : IsDisk(f[q]),
         NEW p \in Peer, NEW d, IsDisk(d)
  PROVE  LET g == [f EXCEPT ![p] = d]
         IN  DOMAIN g = Peer /\ \A q \in Peer : IsDisk(g[q])
OBVIOUS

LEMMA InLogIsCommitWithinLog ==
  CommitWithinLog <=> \A p \in Peer : InLog(raft[p])
BY DEF CommitWithinLog, InLog, LastIndex

LEMMA DestFacts ==
  ASSUME NEW S \in SUBSET Peer, S # {}
  PROVE  Min(S) \in S /\ Min(S) \in Peer
<1>1. S \in SUBSET Nat
  BY PeerAssumption
<1>2. Min(S) \in S
  BY <1>1, MinOfNats
<1> QED
  BY <1>2

\* The two ways to enter EnsureLeader.
LEMMA AlreadyLeaderTypes ==
  ASSUME TypeInv, NEW c \in Client, NEW p \in Peer,
         NEW cmd \in Command \cup {NoCommand}, AlreadyLeader(c, p, cmd)
  PROVE  th' \in [Client -> Thread] /\ \A x \in Client : ThreadOK(th'[x])
<1> DEFINE u == [IdleThread EXCEPT !.pc = "propose", !.home = p, !.cmd = cmd]
           t == IF cmd = NoCommand THEN IdleThread ELSE u
<1>1. th' = [th EXCEPT ![c] = t]
  BY DEF AlreadyLeader
<1>2. u \in Thread
  BY IdleThreadFacts DEF Thread
<1>3. cmd # NoCommand => ThreadOK(u)
  <2>1. u.pc = "propose" /\ u.home = p /\ u.cmd = cmd
    BY DEF IdleThread
  <2> HIDE DEF u
  <2> QED
    BY <2>1 DEF ThreadOK
<1>4. t \in Thread /\ ThreadOK(t)
  BY <1>2, <1>3, IdleThreadFacts
<1> HIDE DEF t
<1> QED
  BY <1>1, <1>4, SetThread DEF TypeInv, TypeOK

LEMMA StartCampaignTypes ==
  ASSUME TypeInv, NEW c \in Client, NEW p \in Peer,
         NEW cmd \in Command \cup {NoCommand}, StartCampaign(c, p, cmd)
  PROVE  /\ th' \in [Client -> Thread] /\ \A x \in Client : ThreadOK(th'[x])
         /\ raft' \in [Peer -> Node] /\ \A q \in Peer : InLog(raft'[q])
         /\ DOMAIN disk' = Peer /\ \A q \in Peer : IsDisk(disk'[q])
         /\ votes' \subseteq Peer \X Nat \X Peer
<1> DEFINE n == BecomeCandidate(raft[p], p)
           m == [type |-> "vote", term |-> n.term, from |-> p,
                 lastIndex |-> LastIndex(n), lastTerm |-> LastTerm(n)]
           t == [IdleThread EXCEPT !.pc = "vote", !.home = p, !.cmd = cmd,
                   !.todo = Peer \ {p}, !.got = {p}, !.req = m]
<1>1. raft[p] \in Node /\ InLog(raft[p])
  BY InLogIsCommitWithinLog DEF TypeInv, TypeOK
<1>2. /\ n \in Node /\ n.log = raft[p].log /\ n.commit = raft[p].commit
      /\ n.applied = raft[p].applied
  BY <1>1, BecomeCandidateFacts
<1>3. InLog(n)
  BY <1>1, <1>2 DEF InLog
<1>4. n.term \in Nat /\ LastIndex(n) \in Nat /\ LastTerm(n) \in Nat
  BY <1>2, LastFacts DEF Node
<1>5. /\ raft' = [raft EXCEPT ![p] = n]
      /\ disk' = [disk EXCEPT ![p] = SaveHardState(disk[p], n)]
      /\ votes' = votes \cup {<<p, n.term, p>>}
      /\ th' = [th EXCEPT ![c] = t]
  BY DEF StartCampaign
<1> HIDE DEF n
<1>6. m \in VoteRequest /\ m.from = p
  BY <1>4 DEF VoteRequest
<1> HIDE DEF m
<1>7. t \in Thread
  BY <1>6, IdleThreadFacts DEF Thread
<1>8. ThreadOK(t)
  <2>1. t.pc = "vote" /\ t.home = p /\ t.req = m
    BY DEF IdleThread
  <2> HIDE DEF t
  <2> QED
    BY <1>6, <2>1 DEF ThreadOK
<1> HIDE DEF t
<1>9. IsDisk(disk[p])
  BY DEF TypeInv, TypeOK
<1>10. IsDisk(SaveHardState(disk[p], n))
  BY <1>2, <1>9, SaveHardStateFacts DEF SaveHardState, HardStateKeys
<1>11. th' \in [Client -> Thread] /\ \A x \in Client : ThreadOK(th'[x])
  BY <1>5, <1>7, <1>8, SetThread DEF TypeInv, TypeOK
<1>12. raft' \in [Peer -> Node] /\ \A q \in Peer : InLog(raft'[q])
  BY <1>2, <1>3, <1>5, SetNode, InLogIsCommitWithinLog DEF TypeInv, TypeOK
<1>13. DOMAIN disk' = Peer /\ \A q \in Peer : IsDisk(disk'[q])
  BY <1>5, <1>10, SetDisk DEF TypeInv, TypeOK
<1>14. votes' \subseteq Peer \X Nat \X Peer
  BY <1>4, <1>5 DEF TypeInv, TypeOK
<1> QED
  BY <1>11, <1>12, <1>13, <1>14

-----------------------------------------------------------------------------
\* The handlers.

Request == VoteRequest \cup AppendRequest

LEMMA RequestCases ==
  ASSUME NEW req \in Request
  PROVE  /\ req.type = "vote" => req \in VoteRequest
         /\ req.type = "append" => req \in AppendRequest
         /\ req.type # "vote" => req \in AppendRequest /\ req.type = "append"
         /\ req.type # "none"
<1>1. req \in VoteRequest => req.type = "vote"
  BY DEF VoteRequest
<1>2. req \in AppendRequest => req.type = "append"
  BY DEF AppendRequest
<1> QED
  BY <1>1, <1>2 DEF Request

LEMMA HandlerNodeFacts ==
  ASSUME NEW n \in Node, InLog(n), NEW req \in Request
  PROVE  LET m == HandlerNode(n, req)
         IN  m \in Node /\ InLog(m) /\ KeepsVote(n, m)
<1>1. CASE req.type = "vote"
  <2>1. HandlerNode(n, req) = HandleRequestVote(n, req)
    BY <1>1 DEF HandlerNode
  <2>2. req \in VoteRequest
    BY <1>1, RequestCases
  <2> QED
    BY <2>1, <2>2, RequestVoteFacts DEF InLog
<1>2. CASE req.type # "vote"
  <2> DEFINE a == HandleAppendEntries(n, req)
             t == TakeCommittedEntries(a)
  <2>1. req \in AppendRequest
    BY <1>2, RequestCases
  <2>2. a \in Node /\ InLog(a) /\ KeepsVote(n, a)
    BY <2>1, AppendEntriesFacts
  <2> HIDE DEF a
  <2>3. t \in Node /\ InLog(t) /\ t.term = a.term /\ t.voted = a.voted
    BY <2>2, TakeCommittedFacts
  <2>4. KeepsVote(n, t)
    BY <2>2, <2>3 DEF KeepsVote
  <2>5. HandlerNode(n, req) = a \/ HandlerNode(n, req) = t
    BY <1>2 DEF HandlerNode, a
  <2> QED
    BY <2>2, <2>3, <2>4, <2>5
<1> QED
  BY <1>1, <1>2

LEMMA ReplyFacts ==
  ASSUME NEW n \in Node, InLog(n), NEW req \in Request
  PROVE  ReplyOf(n, req) \in VoteReply \cup AppendReply
<1>1. CASE req.type = "vote"
  <2>1. GrantsVote(n, req) \in BOOLEAN
    BY DEF GrantsVote
  <2> QED
    BY <1>1, <2>1 DEF ReplyOf, VoteReply
<1>2. CASE req.type # "vote"
  <2>1. req \in AppendRequest
    BY <1>2, RequestCases
  <2>2. AppendReplyOf(n, req) \in AppendReply
    BY <2>1, AppendEntriesFacts
  <2> QED
    BY <1>2, <2>2 DEF ReplyOf
<1> QED
  BY <1>1, <1>2

\* The disk before the hard state of an accepted AppendEntries is saved.
LEMMA HandlerLogFacts ==
  ASSUME NEW d, IsDisk(d), NEW n \in Node, InLog(n), NEW req \in AppendRequest
  PROVE  LET m == HandleAppendEntries(n, req)
             l == IF req.entries = <<>> THEN d
                  ELSE PersistLogFrom(d, m.log, req.prevIndex + 1)
         IN  /\ IsDisk(l) /\ SameHardState(d, l)
             /\ IsDisk(ApplyCommitted(l, m)) /\ SameHardState(d, ApplyCommitted(l, m))
<1> DEFINE m == HandleAppendEntries(n, req)
           l == IF req.entries = <<>> THEN d
                ELSE PersistLogFrom(d, m.log, req.prevIndex + 1)
<1>1. m \in Node /\ InLog(m)
  BY AppendEntriesFacts
<1>2. m.log \in Seq(Entry) /\ Len(m.log) \in Int /\ Len(m.log) <= Len(m.log)
  BY <1>1 DEF Node
<1>3. req.prevIndex + 1 \in Nat \ {0}
  BY DEF AppendRequest
<1> HIDE DEF m
<1>4. LET p == PersistLogFrom(d, m.log, req.prevIndex + 1)
      IN  IsDisk(p) /\ SameHardState(d, p)
  BY <1>2, <1>3, PersistLogFacts DEF PersistLogFrom
<1>5. SameHardState(d, d)
  BY DEF SameHardState
<1>6. IsDisk(l) /\ SameHardState(d, l)
  BY <1>4, <1>5
<1> HIDE DEF l
<1>7. IsDisk(ApplyCommitted(l, m)) /\ SameHardState(l, ApplyCommitted(l, m))
  BY <1>1, <1>6, ApplyCommittedFacts
<1>8. SameHardState(d, ApplyCommitted(l, m))
  BY <1>6, <1>7 DEF SameHardState
<1> QED
  BY <1>6, <1>7, <1>8 DEF m, l

\* A handler writes a log and keys, which leave the hard state alone, and then
\* the hard state of the node it leaves behind; a crash cuts this short.
LEMMA HandlerDiskFacts ==
  ASSUME NEW d, IsDisk(d), NEW n \in Node, InLog(n), NEW req \in Request
  PROVE  \E e : /\ IsDisk(e) /\ SameHardState(d, e)
                /\ HandlerDisk(d, n, req) = SaveHardState(e, HandlerNode(n, req))
<1>1. CASE req.type = "append" /\ AcceptsEntries(n, req)
  <2>1. req \in AppendRequest
    BY <1>1, RequestCases
  <2> DEFINE m == HandleAppendEntries(n, req)
             l == IF req.entries = <<>> THEN d
                  ELSE PersistLogFrom(d, m.log, req.prevIndex + 1)
  <2>2. IsDisk(ApplyCommitted(l, m)) /\ SameHardState(d, ApplyCommitted(l, m))
    BY <2>1, HandlerLogFacts
  <2>3. HandlerDisk(d, n, req) = SaveHardState(ApplyCommitted(l, m), HandlerNode(n, req))
    BY <1>1 DEF HandlerDisk
  <2> HIDE DEF l, m
  <2> QED
    BY <2>2, <2>3
<1>2. CASE ~(req.type = "append" /\ AcceptsEntries(n, req))
  <2>1. HandlerDisk(d, n, req) = SaveHardState(d, HandlerNode(n, req))
    BY <1>2 DEF HandlerDisk
  <2> QED
    BY <2>1 DEF SameHardState
<1> QED
  BY <1>1, <1>2

LEMMA TornHandlerFacts ==
  ASSUME NEW d, IsDisk(d), NEW n \in Node, InLog(n), NEW req \in Request,
         NEW i \in TornHandlerDisks(d, n, req)
  PROVE  \E e : \E w \in 0 .. HardStateKeys :
           /\ IsDisk(e) /\ SameHardState(d, e)
           /\ i = e \/ i = SaveHardStatePrefix(e, HandlerNode(n, req), w)
<1> DEFINE m == HandleAppendEntries(n, req)
           l == IF req.entries = <<>> THEN d
                ELSE PersistLogFrom(d, m.log, req.prevIndex + 1)
           a == ApplyCommitted(l, m)
<1>1. CASE req.type = "append" /\ AcceptsEntries(n, req)
  <2>1. req \in AppendRequest
    BY <1>1, RequestCases
  <2>2. /\ IsDisk(l) /\ SameHardState(d, l) /\ IsDisk(a) /\ SameHardState(d, a)
        /\ m \in Node /\ InLog(m)
    BY <2>1, HandlerLogFacts, AppendEntriesFacts
  <2>3. m.log \in Seq(Entry) /\ req.prevIndex + 1 \in Nat \ {0}
    BY <2>1, <2>2 DEF Node, AppendRequest
  <2>4. \/ i \in TornLogFrom(d, m.log, req.prevIndex + 1)
        \/ i \in TornApply(l, m)
        \/ i \in TornHardState(a, HandlerNode(n, req))
    BY <1>1 DEF TornHandlerDisks
  <2>5. 0 \in 0 .. HardStateKeys
    BY DEF HardStateKeys
  <2> HIDE DEF m, l, a
  <2>6. CASE i \in TornLogFrom(d, m.log, req.prevIndex + 1)
    <3>1. IsDisk(i) /\ SameHardState(d, i)
      BY <2>3, <2>6, TornLogFacts
    <3> QED
      BY <2>5, <3>1
  <2>7. CASE i \in TornApply(l, m)
    <3>1. IsDisk(i) /\ SameHardState(l, i)
      BY <2>2, <2>7, TornApplyFacts
    <3>2. SameHardState(d, i)
      BY <2>2, <3>1 DEF SameHardState
    <3> QED
      BY <2>5, <3>1, <3>2
  <2>8. CASE i \in TornHardState(a, HandlerNode(n, req))
    BY <2>2, <2>8 DEF TornHardState
  <2> QED
    BY <2>4, <2>6, <2>7, <2>8
<1>2. CASE ~(req.type = "append" /\ AcceptsEntries(n, req))
  <2>1. i \in TornHardState(d, HandlerNode(n, req))
    BY <1>2 DEF TornHandlerDisks
  <2> QED
    BY <2>1 DEF TornHardState, SameHardState
<1> QED
  BY <1>1, <1>2

-----------------------------------------------------------------------------
\* Each kind of step keeps the types.

LEMMA HandleTypes ==
  ASSUME TypeInv, NEW p \in Peer, NEW req \in Request, Handle(p, req)
  PROVE  /\ raft' \in [Peer -> Node] /\ \A q \in Peer : InLog(raft'[q])
         /\ DOMAIN disk' = Peer /\ \A q \in Peer : IsDisk(disk'[q])
         /\ votes' \subseteq Peer \X Nat \X Peer
<1> DEFINE m == HandlerNode(raft[p], req)
           d == HandlerDisk(disk[p], raft[p], req)
<1>1. raft[p] \in Node /\ InLog(raft[p]) /\ IsDisk(disk[p])
  BY InLogIsCommitWithinLog DEF TypeInv, TypeOK
<1>2. m \in Node /\ InLog(m)
  BY <1>1, HandlerNodeFacts
<1>3. PICK e : IsDisk(e) /\ d = SaveHardState(e, m)
  BY <1>1, HandlerDiskFacts
<1> HIDE DEF m
<1>4. IsDisk(d)
  BY <1>2, <1>3, SaveHardStateFacts DEF SaveHardState, HardStateKeys
<1> HIDE DEF d
<1>5. raft' = [raft EXCEPT ![p] = m] /\ disk' = [disk EXCEPT ![p] = d]
  BY DEF Handle, m, d
<1>6. raft' \in [Peer -> Node] /\ \A q \in Peer : InLog(raft'[q])
  BY <1>2, <1>5, SetNode, InLogIsCommitWithinLog DEF TypeInv, TypeOK
<1>7. DOMAIN disk' = Peer /\ \A q \in Peer : IsDisk(disk'[q])
  BY <1>4, <1>5, SetDisk DEF TypeInv, TypeOK
<1>8. votes' \subseteq Peer \X Nat \X Peer
  <2>1. req.term \in Nat /\ req.from \in Peer
    BY DEF Request, VoteRequest, AppendRequest
  <2> QED
    BY <2>1 DEF Handle, TypeInv, TypeOK
<1> QED
  BY <1>6, <1>7, <1>8

\* A thread that gets an answer, or the news that there will be none.
LEMMA ResponseTypes ==
  ASSUME NEW t \in Thread, ThreadOK(t),
         NEW r \in VoteReply \cup AppendReply \cup {NoMsg, FailedMsg}
  PROVE  [t EXCEPT !.resp = r] \in Thread /\ ThreadOK([t EXCEPT !.resp = r])
<1> DEFINE u == [t EXCEPT !.resp = r]
<1>1. /\ u \in Thread /\ u.pc = t.pc /\ u.home = t.home /\ u.cmd = t.cmd
      /\ u.req = t.req /\ u.index = t.index /\ u.tries = t.tries /\ u.next = t.next
  BY DEF Thread
<1> HIDE DEF u
<1>2. ThreadOK(u)
  BY <1>1 DEF ThreadOK
<1> QED
  BY <1>1, <1>2 DEF u

LEMMA InFlightFacts ==
  ASSUME TypeInv, NEW c \in Client, NEW o \in InFlight(c)
  PROVE  o.to \in Peer /\ o.req \in Request /\ Calling(c)
<1>1. Calling(c) /\ o = [to |-> Dest(c), req |-> th[c].req]
  BY DEF InFlight
<1>2. th[c] \in Thread
  BY DEF TypeInv, TypeOK
<1>3. th[c].todo \in SUBSET Peer /\ th[c].todo # {}
  BY <1>1, <1>2 DEF Thread, Calling
<1>4. Dest(c) \in Peer
  BY <1>3, DestFacts DEF Dest
<1>5. th[c].req \in Request
  BY <1>1, <1>2 DEF Calling, Thread, NoMsg, Request
<1> QED
  BY <1>1, <1>4, <1>5

\* Where Calling holds, the request and its destination are well typed.
LEMMA CallingFacts ==
  ASSUME TypeInv, NEW c \in Client, Calling(c)
  PROVE  Dest(c) \in Peer /\ th[c].req \in Request
<1>1. [to |-> Dest(c), req |-> th[c].req] \in InFlight(c)
  BY DEF InFlight
<1> QED
  BY <1>1, InFlightFacts

LEMMA DiesTypes ==
  ASSUME TypeInv, NEW p \in Peer, NEW image, IsDisk(image), Dies(p, image)
  PROVE  TypeInv'
<1>1. up' \in [Peer -> BOOLEAN]
  BY DEF Dies, TypeInv, TypeOK
<1>2. raft' \in [Peer -> Node] /\ \A q \in Peer : InLog(raft'[q])
  <2>1. raft' = [raft EXCEPT ![p] = NewNode]
    BY DEF Dies
  <2> QED
    BY <2>1, NewNodeFacts, SetNode, InLogIsCommitWithinLog DEF TypeInv, TypeOK
<1>3. DOMAIN disk' = Peer /\ \A q \in Peer : IsDisk(disk'[q])
  <2>1. disk' = [disk EXCEPT ![p] = image]
    BY DEF Dies
  <2> QED
    BY <2>1, SetDisk DEF TypeInv, TypeOK
<1>4. th' \in [Client -> Thread] /\ \A c \in Client : ThreadOK(th'[c])
  <2> DEFINE t(c) == IF RunsOn(c, p) THEN IdleThread
                     ELSE IF Calling(c) /\ Dest(c) = p
                          THEN [th[c] EXCEPT !.resp = FailedMsg] ELSE th[c]
  <2>1. th' = [c \in Client |-> t(c)]
    BY DEF Dies
  <2>2. ASSUME NEW c \in Client PROVE t(c) \in Thread /\ ThreadOK(t(c))
    <3>1. th[c] \in Thread /\ ThreadOK(th[c])
      BY DEF TypeInv, TypeOK
    <3>2. LET u == [th[c] EXCEPT !.resp = FailedMsg] IN u \in Thread /\ ThreadOK(u)
      BY <3>1, ResponseTypes
    <3> QED
      BY <3>1, <3>2, IdleThreadFacts
  <2> HIDE DEF t
  <2> QED
    BY <2>1, <2>2
<1>5. \A o \in orphans' : o.to \in Peer /\ o.req \in VoteRequest \cup AppendRequest
  <2> SUFFICES ASSUME NEW o \in orphans'
               PROVE  o.to \in Peer /\ o.req \in Request
    BY DEF Request
  <2>1. o \in orphans \/ \E c \in Client : o \in InFlight(c)
    BY DEF Dies
  <2>2. CASE o \in orphans
    BY <2>2 DEF TypeInv, TypeOK, Request
  <2>3. ASSUME NEW c \in Client, o \in InFlight(c)
        PROVE  o.to \in Peer /\ o.req \in Request
    BY <2>3, InFlightFacts
  <2> QED
    BY <2>1, <2>2, <2>3
<1>6. crashes' \in 0 .. MaxCrashes
  BY BoundsAssumption DEF Dies, TypeInv, TypeOK
<1>7. /\ hint' = hint /\ pdLeader' = pdLeader /\ ops' = ops /\ votes' = votes
      /\ elected' = elected /\ committed' = committed
  BY DEF Dies, historyVars
<1>8. CommitWithinLog'
  BY <1>2 DEF CommitWithinLog, InLog, LastIndex
<1>9. TypeOK'
  BY <1>1, <1>2, <1>3, <1>4, <1>5, <1>6, <1>7 DEF TypeInv, TypeOK
<1> QED
  BY <1>4, <1>8, <1>9 DEF TypeInv

\* Steps that change nothing but the thread that takes them.
LEMMA ThreadStepTypes ==
  ASSUME TypeInv, NEW c \in Client, NEW t \in Thread, ThreadOK(t),
         th' = [th EXCEPT ![c] = t],
         UNCHANGED <<serverVars, orphans, ops, crashes, historyVars>>
  PROVE  TypeInv'
<1>1. th' \in [Client -> Thread] /\ \A x \in Client : ThreadOK(th'[x])
  BY SetThread DEF TypeInv, TypeOK
<1>2. CommitWithinLog'
  BY DEF TypeInv, CommitWithinLog, serverVars
<1>3. TypeOK'
  BY <1>1 DEF TypeInv, TypeOK, serverVars, historyVars
<1> QED
  BY <1>1, <1>2, <1>3 DEF TypeInv

LEMMA ReturnTypes ==
  ASSUME TypeInv, NEW c \in Client, Return(c),
         UNCHANGED <<serverVars, orphans, ops, crashes, historyVars>>
  PROVE  TypeInv'
BY IdleThreadFacts, ThreadStepTypes DEF Return

\* The updates of the loops over the stores.
LEMMA LoopTypes ==
  ASSUME TypeInv, NEW c \in Client
  PROVE  /\ VoteReturned(c) => TypeInv'
         /\ StoreDone(c) => TypeInv'
         /\ BackOff(c) => TypeInv'
         /\ ConnectFails(c) => TypeInv'
<1> DEFINE t == th[c]
<1>1. t \in Thread /\ ThreadOK(t) /\ th \in [Client -> Thread]
  BY DEF TypeInv, TypeOK
<1>2. t.todo # {} => Dest(c) \in Peer
  BY <1>1, DestFacts DEF Dest, Thread
<1>3. ASSUME VoteReturned(c) PROVE TypeInv'
  <2> DEFINE g == IF t.resp.type = "vote" /\ t.resp.granted
                  THEN t.got \cup {Dest(c)} ELSE t.got
             u == [t EXCEPT !.todo = t.todo \ {Dest(c)}, !.resp = NoMsg, !.got = g]
  <2>1. th' = [th EXCEPT ![c] = u] /\ t.todo # {} /\ t.pc = "vote"
    BY <1>1, <1>3 DEF VoteReturned, Answered
  <2>2. g \in SUBSET Peer
    BY <1>1, <1>2, <2>1 DEF Thread
  <2> HIDE DEF g
  <2>3. /\ u \in Thread /\ u.pc = t.pc /\ u.home = t.home /\ u.cmd = t.cmd
        /\ u.req = t.req
    BY <1>1, <2>2 DEF Thread
  <2> HIDE DEF u
  <2>4. ThreadOK(u)
    BY <1>1, <2>1, <2>3 DEF ThreadOK
  <2> QED
    BY <1>3, <2>1, <2>3, <2>4, ThreadStepTypes DEF VoteReturned
<1>4. ASSUME StoreDone(c) PROVE TypeInv'
  <2> DEFINE g == IF t.resp.type = "append" /\ t.resp.success
                  THEN t.got \cup {Dest(c)} ELSE t.got
             u == [t EXCEPT !.todo = t.todo \ {Dest(c)}, !.got = g, !.tries = 0,
                     !.next = 0, !.commit = 0, !.req = NoMsg, !.resp = NoMsg]
  <2>1. th' = [th EXCEPT ![c] = u] /\ t.todo # {} /\ t.pc \in {"append", "commit"}
    BY <1>1, <1>4 DEF StoreDone, Answered
  <2>2. g \in SUBSET Peer
    BY <1>1, <1>2, <2>1 DEF Thread
  <2> HIDE DEF g
  <2>3. /\ u \in Thread /\ u.pc = t.pc /\ u.home = t.home /\ u.cmd = t.cmd
        /\ u.index = t.index /\ u.tries = 0
    BY <1>1, <2>2 DEF Thread
  <2> HIDE DEF u
  <2>4. ThreadOK(u)
    BY <1>1, <2>1, <2>3 DEF ThreadOK
  <2> QED
    BY <1>4, <2>1, <2>3, <2>4, ThreadStepTypes DEF StoreDone
<1>5. ASSUME BackOff(c) PROVE TypeInv'
  <2> DEFINE k == t.tries + 1
             i == RetryFrom(t.resp)
             u == [t EXCEPT !.tries = k, !.next = i, !.req = NoMsg, !.resp = NoMsg]
  <2>1. /\ th' = [th EXCEPT ![c] = u] /\ t.pc \in {"append", "commit"}
        /\ t.resp.type = "append"
    BY <1>1, <1>5 DEF BackOff
  <2>2. t.resp \in AppendReply
    BY <1>1, <2>1 DEF Thread, VoteReply, NoMsg, FailedMsg
  <2>3. i \in Nat \ {0}
    BY <2>2 DEF RetryFrom, AppendReply
  <2>4. k \in Nat
    BY <1>1 DEF Thread
  <2> HIDE DEF i, k
  <2>5. /\ u \in Thread /\ u.pc = t.pc /\ u.home = t.home /\ u.cmd = t.cmd
        /\ u.index = t.index /\ u.next = i
    BY <1>1, <2>3, <2>4 DEF Thread
  <2> HIDE DEF u
  <2>6. ThreadOK(u)
    BY <1>1, <2>1, <2>3, <2>5 DEF ThreadOK
  <2> QED
    BY <1>5, <2>1, <2>5, <2>6, ThreadStepTypes DEF BackOff
<1>6. ASSUME ConnectFails(c) PROVE TypeInv'
  <2>1. th' = [th EXCEPT ![c] = [t EXCEPT !.resp = FailedMsg]]
    BY <1>1, <1>6 DEF ConnectFails
  <2>2. LET u == [t EXCEPT !.resp = FailedMsg] IN u \in Thread /\ ThreadOK(u)
    BY <1>1, ResponseTypes
  <2> QED
    BY <1>6, <2>1, <2>2, ThreadStepTypes DEF ConnectFails
<1> QED
  BY <1>3, <1>4, <1>5, <1>6

LEMMA SendAppendTypes ==
  ASSUME TypeInv, NEW c \in Client, SendAppend(c)
  PROVE  TypeInv'
<1> DEFINE p      == th[c].home
           n      == raft[p]
           first  == IF th[c].pc = "append" THEN th[c].index ELSE LastIndex(n) + 1
           next   == IF th[c].tries = 0 THEN first ELSE th[c].next
           commit == IF th[c].tries > 0 THEN th[c].commit
                     ELSE IF th[c].pc = "append" THEN n.commit ELSE th[c].index
           prev   == next - 1
           terms  == IF prev = 0 THEN {0}
                     ELSE IF prev <= Len(n.log) THEN {n.log[prev].term}
                          ELSE 0 .. MaxTerm
           req(x) == [type |-> "append", term |-> n.term, from |-> p,
                      prevIndex |-> prev, prevTerm |-> x,
                      entries |-> SubSeq(n.log, next, Len(n.log)),
                      commit |-> commit]
           t(x)   == [th[c] EXCEPT !.next = next, !.commit = commit, !.req = req(x)]
<1>1. th[c] \in Thread /\ ThreadOK(th[c]) /\ th \in [Client -> Thread]
  BY DEF TypeInv, TypeOK
<1>2. th[c].pc \in {"append", "commit"}
  BY DEF SendAppend
<1>3. PICK x \in terms :
         th' = [th EXCEPT ![c].next = next, ![c].commit = commit, ![c].req = req(x)]
  BY DEF SendAppend
<1>4. th' = [th EXCEPT ![c] = t(x)]
  <2> HIDE DEF next, commit, req, terms
  <2> QED
    BY <1>1, <1>3
<1>5. p \in Peer /\ th[c].index \in Nat \ {0} /\ th[c].tries \in Nat
      /\ th[c].next \in Nat /\ th[c].commit \in Nat
      /\ (th[c].tries > 0 => th[c].next # 0)
  BY <1>1, <1>2 DEF ThreadOK, Thread
<1>6. n \in Node
  BY <1>5 DEF TypeInv, TypeOK
<1>7. n.log \in Seq(Entry) /\ Len(n.log) \in Nat /\ n.term \in Nat /\ n.commit \in Nat
  BY <1>6 DEF Node
<1> HIDE DEF n, p
<1>8. next \in Nat \ {0}
  BY <1>5, <1>7 DEF LastIndex
<1>9. commit \in Nat
  BY <1>5, <1>7
<1> HIDE DEF commit, next
<1>10. x \in Nat
  <2>1. MaxTerm \in Nat
    BY BoundsAssumption DEF MaxTerm
  <2>2. CASE prev # 0 /\ prev <= Len(n.log)
    <3>1. prev \in 1 .. Len(n.log)
      BY <1>7, <1>8, <2>2
    <3>2. n.log[prev] \in Entry
      BY <1>7, <3>1, ElementOfSeq
    <3> QED
      BY <2>2, <3>2 DEF Entry
  <2>3. CASE ~(prev # 0 /\ prev <= Len(n.log))
    BY <2>1, <2>3
  <2> QED
    BY <2>2, <2>3
<1>11. SubSeq(n.log, next, Len(n.log)) \in Seq(Entry)
  <2>1. \A i \in next .. Len(n.log) : n.log[i] \in Entry
    BY <1>7, <1>8
  <2>2. next \in Int /\ Len(n.log) \in Int
    BY <1>7, <1>8
  <2> QED
    BY <2>1, <2>2, SubSeqProperties
<1>12. prev \in Nat
  BY <1>8
<1>13. req(x) \in AppendRequest
  BY <1>5, <1>7, <1>9, <1>10, <1>11, <1>12 DEF AppendRequest
<1> HIDE DEF req
<1>14. /\ t(x) \in Thread /\ t(x).pc = th[c].pc /\ t(x).home = th[c].home
       /\ t(x).cmd = th[c].cmd /\ t(x).index = th[c].index /\ t(x).next = next
  BY <1>1, <1>8, <1>9, <1>13 DEF Thread
<1> HIDE DEF t
<1>15. ThreadOK(t(x))
  BY <1>1, <1>2, <1>8, <1>14 DEF ThreadOK
<1> QED
  BY <1>4, <1>14, <1>15, ThreadStepTypes DEF SendAppend

LEMMA StartTypes ==
  ASSUME TypeInv, NEW c \in Client
  PROVE  /\ \A p \in Peer, cmd \in Command : Put(c, p, cmd) => TypeInv'
         /\ \A p \in Peer : PdTransferLeader(c, p) => TypeInv'
         /\ TransferLeader(c) => TypeInv'
<1>1. ASSUME NEW p \in Peer, NEW cmd \in Command \cup {NoCommand},
             AlreadyLeader(c, p, cmd) \/ StartCampaign(c, p, cmd)
      PROVE  /\ th' \in [Client -> Thread] /\ \A x \in Client : ThreadOK(th'[x])
             /\ raft' \in [Peer -> Node] /\ \A q \in Peer : InLog(raft'[q])
             /\ DOMAIN disk' = Peer /\ \A q \in Peer : IsDisk(disk'[q])
             /\ votes' \subseteq Peer \X Nat \X Peer
  <2>1. CASE AlreadyLeader(c, p, cmd)
    <3>1. th' \in [Client -> Thread] /\ \A x \in Client : ThreadOK(th'[x])
      BY <2>1, AlreadyLeaderTypes
    <3>2. raft' = raft /\ disk' = disk /\ votes' = votes
      BY <2>1 DEF AlreadyLeader
    <3> QED
      BY <3>1, <3>2, InLogIsCommitWithinLog DEF TypeInv, TypeOK
  <2>2. CASE StartCampaign(c, p, cmd)
    BY <2>2, StartCampaignTypes
  <2> QED
    BY <1>1, <2>1, <2>2
<1>2. ASSUME NEW p \in Peer, NEW cmd \in Command, Put(c, p, cmd) PROVE TypeInv'
  <2>1. AlreadyLeader(c, p, cmd) \/ StartCampaign(c, p, cmd)
    BY <1>2 DEF Put
  <2>2. /\ ops < MaxOps /\ ops' = ops + 1
        /\ UNCHANGED <<up, hint, pdLeader, orphans, crashes, elected, committed>>
    BY <1>2 DEF Put
  <2>3. ops' \in 0 .. MaxOps
    BY <2>2, BoundsAssumption DEF TypeInv, TypeOK
  <2>4. /\ th' \in [Client -> Thread] /\ \A x \in Client : ThreadOK(th'[x])
        /\ raft' \in [Peer -> Node] /\ \A q \in Peer : InLog(raft'[q])
        /\ DOMAIN disk' = Peer /\ \A q \in Peer : IsDisk(disk'[q])
        /\ votes' \subseteq Peer \X Nat \X Peer
    BY <1>1, <2>1
  <2>5. TypeOK'
    BY <2>2, <2>3, <2>4 DEF TypeInv, TypeOK
  <2>6. CommitWithinLog'
    BY <2>4 DEF CommitWithinLog, InLog, LastIndex
  <2> QED
    BY <2>4, <2>5, <2>6 DEF TypeInv
<1>3. ASSUME NEW p \in Peer, PdTransferLeader(c, p) PROVE TypeInv'
  <2> DEFINE t == [IdleThread EXCEPT !.pc = "transfer", !.home = p]
  <2>1. /\ th' = [th EXCEPT ![c] = t] /\ ops < MaxOps /\ ops' = ops + 1 /\ pdLeader' = p
        /\ UNCHANGED <<up, raft, disk, hint, orphans, crashes, historyVars>>
    BY <1>3 DEF PdTransferLeader
  <2>2. t \in Thread
    BY IdleThreadFacts DEF Thread
  <2>3. t.pc = "transfer" /\ t.home = p
    BY DEF IdleThread
  <2> HIDE DEF t
  <2>4. ThreadOK(t)
    BY <2>3 DEF ThreadOK
  <2>5. th' \in [Client -> Thread] /\ \A x \in Client : ThreadOK(th'[x])
    BY <2>1, <2>2, <2>4, SetThread DEF TypeInv, TypeOK
  <2>6. ops' \in 0 .. MaxOps
    BY <2>1, BoundsAssumption DEF TypeInv, TypeOK
  <2>7. TypeOK'
    BY <2>1, <2>5, <2>6 DEF TypeInv, TypeOK, historyVars
  <2>8. CommitWithinLog'
    BY <2>1 DEF TypeInv, CommitWithinLog
  <2> QED
    BY <2>5, <2>7, <2>8 DEF TypeInv
<1>4. ASSUME TransferLeader(c) PROVE TypeInv'
  <2> DEFINE p == th[c].home
  <2>1. p \in Peer
    BY <1>4 DEF TransferLeader, TypeInv, ThreadOK
  <2>2. /\ AlreadyLeader(c, p, NoCommand) \/ StartCampaign(c, p, NoCommand)
        /\ hint' = [hint EXCEPT ![p] = p]
        /\ UNCHANGED <<up, pdLeader, orphans, ops, crashes, elected, committed>>
    BY <1>4 DEF TransferLeader
  <2> HIDE DEF p
  <2>3. /\ th' \in [Client -> Thread] /\ \A x \in Client : ThreadOK(th'[x])
        /\ raft' \in [Peer -> Node] /\ \A q \in Peer : InLog(raft'[q])
        /\ DOMAIN disk' = Peer /\ \A q \in Peer : IsDisk(disk'[q])
        /\ votes' \subseteq Peer \X Nat \X Peer
    BY <1>1, <2>1, <2>2
  <2>4. hint' \in [Peer -> Peer]
    BY <2>1, <2>2 DEF TypeInv, TypeOK
  <2>5. TypeOK'
    BY <2>2, <2>3, <2>4 DEF TypeInv, TypeOK
  <2>6. CommitWithinLog'
    BY <2>3 DEF CommitWithinLog, InLog, LastIndex
  <2> QED
    BY <2>3, <2>5, <2>6 DEF TypeInv
<1> QED
  BY <1>2, <1>3, <1>4

\* The steps of a leader on its own node and disk.
LEMMA LeaderTypes ==
  ASSUME TypeInv, NEW c \in Client
  PROVE  /\ WinElection(c) => TypeInv'
         /\ ProposeEntry(c) => TypeInv'
         /\ Commit(c) => TypeInv'
<1> DEFINE p == th[c].home
<1>1. th[c] \in Thread /\ ThreadOK(th[c]) /\ th \in [Client -> Thread]
  BY DEF TypeInv, TypeOK
<1>2. th[c].pc # "idle" =>
        p \in Peer /\ raft[p] \in Node /\ InLog(raft[p]) /\ IsDisk(disk[p])
  BY <1>1, InLogIsCommitWithinLog DEF TypeInv, TypeOK, ThreadOK
<1>3. ASSUME NEW t \in Thread, ThreadOK(t), NEW n \in Node, InLog(n),
             NEW d, IsDisk(d), p \in Peer,
             th' = [th EXCEPT ![c] = t], raft' = [raft EXCEPT ![p] = n],
             disk' = [disk EXCEPT ![p] = d],
             UNCHANGED <<up, hint, pdLeader, orphans, ops, crashes, votes>>,
             elected' \subseteq Nat \X Peer, committed' \subseteq Nat \X Entry
      PROVE  TypeInv'
  <2> HIDE DEF p
  <2>1. th' \in [Client -> Thread] /\ \A x \in Client : ThreadOK(th'[x])
    BY <1>3, SetThread DEF TypeInv, TypeOK
  <2>2. raft' \in [Peer -> Node] /\ \A q \in Peer : InLog(raft'[q])
    BY <1>3, SetNode, InLogIsCommitWithinLog DEF TypeInv, TypeOK
  <2>3. DOMAIN disk' = Peer /\ \A q \in Peer : IsDisk(disk'[q])
    BY <1>3, SetDisk DEF TypeInv, TypeOK
  <2>4. TypeOK'
    BY <1>3, <2>1, <2>2, <2>3 DEF TypeInv, TypeOK
  <2>5. CommitWithinLog'
    BY <2>2 DEF CommitWithinLog, InLog, LastIndex
  <2> QED
    BY <2>1, <2>4, <2>5 DEF TypeInv
<1>4. ASSUME WinElection(c) PROVE TypeInv'
  <2> DEFINE n == BecomeLeader(raft[p])
             u == [IdleThread EXCEPT !.pc = "propose", !.home = p, !.cmd = th[c].cmd]
             t == IF th[c].cmd = NoCommand THEN IdleThread ELSE u
             d == SaveHardState(disk[p], n)
  <2>1. /\ th[c].pc = "vote" /\ raft' = [raft EXCEPT ![p] = n]
        /\ disk' = [disk EXCEPT ![p] = d] /\ th' = [th EXCEPT ![c] = t]
        /\ elected' = elected \cup {<<th[c].req.term, p>>}
        /\ UNCHANGED <<up, hint, pdLeader, orphans, ops, crashes, votes, committed>>
    BY <1>4 DEF WinElection
  <2>2. p \in Peer /\ raft[p] \in Node /\ InLog(raft[p]) /\ IsDisk(disk[p])
    BY <1>2, <2>1
  <2>3. /\ n \in Node /\ n.log = raft[p].log /\ n.commit = raft[p].commit
        /\ n.applied = raft[p].applied
    BY <2>2 DEF BecomeLeader, Node, Role
  <2>4. InLog(n)
    BY <2>2, <2>3 DEF InLog
  <2>5. IsDisk(d)
    BY <2>2, <2>3, SaveHardStateFacts DEF SaveHardState, HardStateKeys
  <2>6. u \in Thread
    BY <1>1, <2>2, IdleThreadFacts DEF Thread
  <2>7. th[c].cmd # NoCommand => ThreadOK(u)
    <3>1. u.pc = "propose" /\ u.home = p /\ u.cmd = th[c].cmd
      BY DEF IdleThread
    <3>2. th[c].cmd # NoCommand => th[c].cmd \in Command
      BY <1>1 DEF Thread
    <3> HIDE DEF u
    <3> QED
      BY <2>2, <3>1, <3>2 DEF ThreadOK
  <2>8. t \in Thread /\ ThreadOK(t)
    BY <2>6, <2>7, IdleThreadFacts
  <2>9. th[c].req.term \in Nat
    BY <1>1, <2>1 DEF ThreadOK, VoteRequest
  <2> HIDE DEF t, n, d
  <2>10. elected' \subseteq Nat \X Peer /\ committed' \subseteq Nat \X Entry
    BY <2>1, <2>2, <2>9 DEF TypeInv, TypeOK
  <2> QED
    BY <1>3, <2>1, <2>2, <2>3, <2>4, <2>5, <2>8, <2>10
<1>5. ASSUME ProposeEntry(c) PROVE TypeInv'
  <2> DEFINE n == Propose(raft[p], th[c].cmd)
             t == [IdleThread EXCEPT !.pc = "append", !.home = p, !.cmd = th[c].cmd,
                     !.index = LastIndex(n), !.todo = Peer \ {p}, !.got = {p}]
             d == AppendLog(disk[p], n.log, LastIndex(n))
  <2>1. /\ th[c].pc = "propose" /\ raft' = [raft EXCEPT ![p] = n]
        /\ disk' = [disk EXCEPT ![p] = d] /\ th' = [th EXCEPT ![c] = t]
        /\ UNCHANGED <<up, hint, pdLeader, orphans, ops, crashes, historyVars>>
    BY <1>5 DEF ProposeEntry
  <2>2. p \in Peer /\ raft[p] \in Node /\ InLog(raft[p]) /\ IsDisk(disk[p])
    BY <1>2, <2>1
  <2>3. th[c].cmd \in Command
    BY <1>1, <2>1 DEF ThreadOK
  <2>4. n \in Node /\ InLog(n) /\ LastIndex(n) \in 1 .. Len(n.log)
    BY <2>2, <2>3, ProposeFacts
  <2>5. n.log \in Seq(Entry)
    BY <2>4 DEF Node
  <2> HIDE DEF n
  <2>6. IsDisk(d)
    BY <2>2, <2>4, <2>5, AppendLogFacts
  <2>7. LastIndex(n) \in Nat \ {0}
    BY <2>4, <2>5
  <2>8. t \in Thread
    BY <2>2, <2>3, <2>7, IdleThreadFacts DEF Thread
  <2>9. /\ t.pc = "append" /\ t.home = p /\ t.cmd = th[c].cmd
        /\ t.index = LastIndex(n) /\ t.tries = 0
    BY DEF IdleThread
  <2> HIDE DEF t
  <2>10. ThreadOK(t)
    BY <2>2, <2>3, <2>7, <2>9 DEF ThreadOK
  <2> HIDE DEF d
  <2>11. elected' \subseteq Nat \X Peer /\ committed' \subseteq Nat \X Entry
    BY <2>1 DEF TypeInv, TypeOK, historyVars
  <2>12. votes' = votes
    BY <2>1 DEF historyVars
  <2> QED
    BY <1>3, <2>1, <2>2, <2>4, <2>6, <2>8, <2>10, <2>11, <2>12
<1>6. ASSUME Commit(c) PROVE TypeInv'
  <2> DEFINE m == CommitNode(c)
             n == TakeCommittedEntries(m)
             d == SaveHardState(ApplyCommitted(disk[p], m), n)
             t == [th[c] EXCEPT !.pc = "commit", !.todo = Peer \ {p}]
  <2>1. /\ th[c].pc = "append" /\ raft' = [raft EXCEPT ![p] = n]
        /\ disk' = [disk EXCEPT ![p] = d] /\ th' = [th EXCEPT ![c] = t]
        /\ committed' = committed \cup {<<i, n.log[i]>> : i \in {th[c].index} \cap DOMAIN n.log}
        /\ UNCHANGED <<up, hint, pdLeader, orphans, ops, crashes, votes, elected>>
    BY <1>1, <1>6 DEF Commit
  <2>2. p \in Peer /\ raft[p] \in Node /\ InLog(raft[p]) /\ IsDisk(disk[p])
    BY <1>2, <2>1
  <2>3. th[c].index \in Nat
    BY <1>1 DEF Thread
  <2>4. m \in Node /\ InLog(m)
    BY <2>2, <2>3, SetCommitIndexFacts DEF CommitNode
  <2> HIDE DEF m
  <2>5. n \in Node /\ InLog(n)
    BY <2>4, TakeCommittedFacts
  <2> HIDE DEF n
  <2>6. IsDisk(ApplyCommitted(disk[p], m))
    BY <2>2, <2>4, ApplyCommittedFacts
  <2>7. IsDisk(d)
    BY <2>5, <2>6, SaveHardStateFacts DEF SaveHardState, HardStateKeys
  <2> HIDE DEF d
  <2>8. /\ t \in Thread /\ t.pc = "commit" /\ t.home = th[c].home /\ t.cmd = th[c].cmd
        /\ t.index = th[c].index /\ t.tries = th[c].tries /\ t.next = th[c].next
    BY <1>1 DEF Thread
  <2> HIDE DEF t
  <2>9. ThreadOK(t)
    BY <1>1, <2>1, <2>8 DEF ThreadOK
  <2>10. elected' \subseteq Nat \X Peer /\ committed' \subseteq Nat \X Entry
    <3>1. n.log \in Seq(Entry)
      BY <2>5 DEF Node
    <3>2. \A i \in DOMAIN n.log : n.log[i] \in Entry
      BY <3>1
    <3> QED
      BY <2>1, <2>3, <3>2 DEF TypeInv, TypeOK
  <2> QED
    BY <1>3, <2>1, <2>2, <2>5, <2>7, <2>8, <2>9, <2>10
<1> QED
  BY <1>4, <1>5, <1>6

\* Messages: delivered, delivered late, lost.
LEMMA MessageTypes ==
  ASSUME TypeInv
  PROVE  /\ \A c \in Client : Receive(c) => TypeInv'
         /\ ReceiveOrphan => TypeInv'
         /\ \A c \in Client : ConnectionBreaks(c) => TypeInv'
<1>1. ASSUME NEW c \in Client, Receive(c) PROVE TypeInv'
  <2> DEFINE p == Dest(c)
             r == ReplyOf(raft[p], th[c].req)
             t == [th[c] EXCEPT !.resp = r]
  <2>1. th[c] \in Thread /\ ThreadOK(th[c]) /\ th \in [Client -> Thread]
    BY DEF TypeInv, TypeOK
  <2>2. /\ Calling(c) /\ Handle(p, th[c].req) /\ th' = [th EXCEPT ![c] = t]
        /\ UNCHANGED <<up, hint, pdLeader, orphans, ops, crashes, elected, committed>>
    BY <1>1, <2>1 DEF Receive
  <2>3. p \in Peer /\ th[c].req \in Request
    BY <2>2, CallingFacts
  <2>4. raft[p] \in Node /\ InLog(raft[p])
    BY <2>3, InLogIsCommitWithinLog DEF TypeInv, TypeOK
  <2>5. r \in VoteReply \cup AppendReply
    BY <2>3, <2>4, ReplyFacts
  <2> HIDE DEF p, r
  <2>6. t \in Thread /\ ThreadOK(t)
    BY <2>1, <2>5, ResponseTypes
  <2> HIDE DEF t
  <2>7. th' \in [Client -> Thread] /\ \A x \in Client : ThreadOK(th'[x])
    BY <2>2, <2>6, SetThread DEF TypeInv, TypeOK
  <2>8. /\ raft' \in [Peer -> Node] /\ \A q \in Peer : InLog(raft'[q])
        /\ DOMAIN disk' = Peer /\ \A q \in Peer : IsDisk(disk'[q])
        /\ votes' \subseteq Peer \X Nat \X Peer
    BY <2>2, <2>3, HandleTypes
  <2>9. TypeOK'
    BY <2>2, <2>7, <2>8 DEF TypeInv, TypeOK
  <2>10. CommitWithinLog'
    BY <2>8 DEF CommitWithinLog, InLog, LastIndex
  <2> QED
    BY <2>7, <2>9, <2>10 DEF TypeInv
<1>2. ASSUME ReceiveOrphan PROVE TypeInv'
  <2>1. PICK o \in orphans :
          /\ Handle(o.to, o.req) /\ orphans' = orphans \ {o}
          /\ UNCHANGED <<up, hint, pdLeader, th, ops, crashes, elected, committed>>
    BY <1>2 DEF ReceiveOrphan
  <2>2. o.to \in Peer /\ o.req \in Request
    BY DEF TypeInv, TypeOK, Request
  <2>3. /\ raft' \in [Peer -> Node] /\ \A q \in Peer : InLog(raft'[q])
        /\ DOMAIN disk' = Peer /\ \A q \in Peer : IsDisk(disk'[q])
        /\ votes' \subseteq Peer \X Nat \X Peer
    BY <2>1, <2>2, HandleTypes
  <2>4. TypeOK'
    BY <2>1, <2>3 DEF TypeInv, TypeOK
  <2>5. CommitWithinLog'
    BY <2>3 DEF CommitWithinLog, InLog, LastIndex
  <2> QED
    BY <2>1, <2>4, <2>5 DEF TypeInv
<1>3. ASSUME NEW c \in Client, ConnectionBreaks(c) PROVE TypeInv'
  <2> DEFINE t == [th[c] EXCEPT !.resp = FailedMsg]
  <2>1. th[c] \in Thread /\ ThreadOK(th[c]) /\ th \in [Client -> Thread]
    BY DEF TypeInv, TypeOK
  <2>2. /\ th' = [th EXCEPT ![c] = t]
        /\ UNCHANGED <<serverVars, ops, crashes, historyVars>>
        /\ \E late \in SUBSET InFlight(c) : orphans' = orphans \cup late
    BY <1>3, <2>1 DEF ConnectionBreaks
  <2>3. t \in Thread /\ ThreadOK(t)
    BY <2>1, ResponseTypes
  <2> HIDE DEF t
  <2>4. th' \in [Client -> Thread] /\ \A x \in Client : ThreadOK(th'[x])
    BY <2>2, <2>3, SetThread DEF TypeInv, TypeOK
  <2>5. \A o \in orphans' : o.to \in Peer /\ o.req \in VoteRequest \cup AppendRequest
    <3> SUFFICES ASSUME NEW o \in orphans'
                 PROVE  o.to \in Peer /\ o.req \in Request
      BY DEF Request
    <3>1. CASE o \in orphans
      BY <3>1 DEF TypeInv, TypeOK, Request
    <3>2. CASE o \in InFlight(c)
      BY <3>2, InFlightFacts
    <3> QED
      BY <2>2, <3>1, <3>2
  <2>6. TypeOK'
    BY <2>2, <2>4, <2>5 DEF TypeInv, TypeOK, serverVars, historyVars
  <2>7. CommitWithinLog'
    BY <2>2 DEF TypeInv, CommitWithinLog, serverVars
  <2> QED
    BY <2>4, <2>6, <2>7 DEF TypeInv
<1> QED
  BY <1>1, <1>2, <1>3

\* What a crash in the middle of a step can leave on the disk of p: the old
\* hard state, or a prefix of the hard state of a node that keeps p's promise.
TornImage(p, image) ==
  \E e : \E m \in Node : \E w \in 0 .. HardStateKeys :
    /\ IsDisk(e) /\ SameHardState(disk[p], e) /\ KeepsVote(raft[p], m)
    /\ image = e \/ image = SaveHardStatePrefix(e, m, w)

LEMMA CrashImages ==
  ASSUME TypeInv
  PROVE  /\ \A p \in Peer : Crash(p) \/ CrashInCampaign(p) =>
              \E image : TornImage(p, image) /\ Dies(p, image) /\ up[p]
         /\ \A c \in Client : CrashInHandler(c) \/ CrashInCommit(c) =>
              \E p \in Peer : \E image : /\ TornImage(p, image) /\ Dies(p, image)
                                         /\ up[p] \/ RunsOn(c, p)
<1>1. ASSUME NEW p \in Peer PROVE raft[p] \in Node /\ InLog(raft[p]) /\ IsDisk(disk[p])
  BY InLogIsCommitWithinLog DEF TypeInv, TypeOK
<1>2. 0 \in 0 .. HardStateKeys
  BY DEF HardStateKeys
<1>3. ASSUME NEW p \in Peer, Crash(p)
      PROVE  TornImage(p, disk[p]) /\ Dies(p, disk[p]) /\ up[p]
  <2>1. KeepsVote(raft[p], raft[p])
    BY <1>1 DEF KeepsVote, Node
  <2> QED
    BY <1>1, <1>2, <1>3, <2>1 DEF Crash, TornImage, SameHardState
<1>4. ASSUME NEW p \in Peer, CrashInCampaign(p)
      PROVE  \E image : TornImage(p, image) /\ Dies(p, image) /\ up[p]
  <2> DEFINE m == BecomeCandidate(raft[p], p)
  <2>1. PICK image \in TornHardState(disk[p], m) : Dies(p, image) /\ up[p]
    BY <1>4 DEF CrashInCampaign
  <2>2. PICK w \in 0 .. HardStateKeys : image = SaveHardStatePrefix(disk[p], m, w)
    BY <2>1 DEF TornHardState
  <2>3. m \in Node /\ KeepsVote(raft[p], m)
    BY <1>1, BecomeCandidateFacts
  <2> HIDE DEF m
  <2>4. TornImage(p, image)
    BY <1>1, <2>2, <2>3 DEF TornImage, SameHardState
  <2> QED
    BY <2>1, <2>4
<1>5. ASSUME NEW c \in Client, CrashInHandler(c)
      PROVE  \E p \in Peer : \E image : TornImage(p, image) /\ Dies(p, image) /\ up[p]
  <2> DEFINE p == Dest(c)
             m == HandlerNode(raft[p], th[c].req)
  <2>1. Calling(c) /\ up[p]
    BY <1>5 DEF CrashInHandler
  <2>2. PICK image \in TornHandlerDisks(disk[p], raft[p], th[c].req) : Dies(p, image)
    BY <1>5 DEF CrashInHandler
  <2>3. p \in Peer /\ th[c].req \in Request
    BY <2>1, CallingFacts
  <2> HIDE DEF p
  <2>4. m \in Node /\ KeepsVote(raft[p], m)
    BY <1>1, <2>3, HandlerNodeFacts
  <2>5. PICK e : \E w \in 0 .. HardStateKeys :
                   /\ IsDisk(e) /\ SameHardState(disk[p], e)
                   /\ image = e \/ image = SaveHardStatePrefix(e, m, w)
    BY <1>1, <2>2, <2>3, TornHandlerFacts
  <2> HIDE DEF m
  <2>6. TornImage(p, image)
    BY <2>4, <2>5 DEF TornImage
  <2> QED
    BY <2>1, <2>2, <2>3, <2>6
<1>6. ASSUME NEW c \in Client, CrashInCommit(c)
      PROVE  \E p \in Peer : \E image :
               TornImage(p, image) /\ Dies(p, image) /\ RunsOn(c, p)
  <2> DEFINE p == th[c].home
             n == CommitNode(c)
             m == TakeCommittedEntries(n)
             a == ApplyCommitted(disk[p], n)
  <2>1. PICK image \in TornApply(disk[p], n) \cup TornHardState(a, m) : Dies(p, image)
    BY <1>6 DEF CrashInCommit
  <2>2. p \in Peer /\ th[c].index \in Nat /\ RunsOn(c, p)
    BY <1>6 DEF CrashInCommit, TypeInv, TypeOK, ThreadOK, Thread, RunsOn
  <2>3. /\ n \in Node /\ InLog(n)
        /\ n.term = raft[p].term /\ n.voted = raft[p].voted
    BY <1>1, <2>2, SetCommitIndexFacts DEF CommitNode
  <2> HIDE DEF n, p
  <2>4. m \in Node /\ m.term = n.term /\ m.voted = n.voted
    BY <2>3, TakeCommittedFacts
  <2>5. raft[p].term \in Nat
    BY <1>1, <2>2 DEF Node
  <2>6. KeepsVote(raft[p], m)
    BY <2>3, <2>4, <2>5 DEF KeepsVote
  <2>7. IsDisk(disk[p])
    BY <1>1, <2>2
  <2>8. IsDisk(a) /\ SameHardState(disk[p], a)
    BY <2>3, <2>7, ApplyCommittedFacts
  <2> HIDE DEF m, a
  <2>9. CASE image \in TornApply(disk[p], n)
    <3>1. IsDisk(image) /\ SameHardState(disk[p], image)
      BY <2>3, <2>7, <2>9, TornApplyFacts
    <3>2. TornImage(p, image)
      BY <1>2, <2>4, <2>6, <3>1 DEF TornImage
    <3> QED
      BY <2>1, <2>2, <3>2
  <2>10. CASE image \in TornHardState(a, m)
    <3>1. PICK w \in 0 .. HardStateKeys : image = SaveHardStatePrefix(a, m, w)
      BY <2>10 DEF TornHardState
    <3>2. TornImage(p, image)
      BY <2>4, <2>6, <2>8, <3>1 DEF TornImage
    <3> QED
      BY <2>1, <2>2, <3>2
  <2> QED
    BY <2>9, <2>10
<1> QED
  BY <1>3, <1>4, <1>5, <1>6

LEMMA TornImageIsDisk ==
  ASSUME NEW p \in Peer, NEW image, TornImage(p, image)
  PROVE  IsDisk(image)
BY SaveHardStateFacts DEF TornImage

LEMMA CrashTypes ==
  ASSUME TypeInv
  PROVE  /\ \A p \in Peer : Crash(p) \/ CrashInCampaign(p) => TypeInv'
         /\ \A c \in Client : CrashInHandler(c) \/ CrashInCommit(c) => TypeInv'
<1>1. ASSUME NEW p \in Peer, NEW image, TornImage(p, image), Dies(p, image)
      PROVE  TypeInv'
  <2>1. IsDisk(image)
    BY <1>1, TornImageIsDisk
  <2> QED
    BY <1>1, <2>1, DiesTypes
<1> QED
  BY <1>1, CrashImages

LEMMA RestartTypes ==
  ASSUME TypeInv, NEW p \in Peer, Restart(p)
  PROVE  TypeInv'
<1> DEFINE n == BootstrapNode(disk[p])
<1>1. /\ CanBootstrap(disk[p]) /\ up' = [up EXCEPT ![p] = TRUE]
      /\ raft' = [raft EXCEPT ![p] = n] /\ hint' = [hint EXCEPT ![p] = pdLeader]
      /\ UNCHANGED <<disk, pdLeader, th, orphans, ops, crashes, historyVars>>
  BY DEF Restart
<1>2. IsDisk(disk[p])
  BY DEF TypeInv, TypeOK
<1>3. n \in Node /\ InLog(n)
  BY <1>1, <1>2, BootstrapFacts
<1> HIDE DEF n
<1>4. raft' \in [Peer -> Node] /\ \A q \in Peer : InLog(raft'[q])
  BY <1>1, <1>3, SetNode, InLogIsCommitWithinLog DEF TypeInv, TypeOK
<1>5. up' \in [Peer -> BOOLEAN] /\ hint' \in [Peer -> Peer]
  BY <1>1 DEF TypeInv, TypeOK
<1>6. TypeOK'
  BY <1>1, <1>4, <1>5 DEF TypeInv, TypeOK, historyVars
<1>7. CommitWithinLog'
  BY <1>4 DEF CommitWithinLog, InLog, LastIndex
<1> QED
  BY <1>1, <1>6, <1>7 DEF TypeInv

LEMMA TypeInit == Init => TypeInv
<1> SUFFICES ASSUME Init PROVE TypeInv
  OBVIOUS
<1>1. Min(Peer) \in Peer
  BY PeerAssumption, DestFacts
<1>2. raft \in [Peer -> Node] /\ \A p \in Peer : InLog(raft[p])
  BY NewNodeFacts DEF Init
<1>3. DOMAIN disk = Peer /\ \A p \in Peer : IsDisk(disk[p])
  BY EmptyDiskFacts DEF Init
<1>4. th \in [Client -> Thread] /\ \A c \in Client : ThreadOK(th[c])
  BY IdleThreadFacts DEF Init
<1>5. ops \in 0 .. MaxOps /\ crashes \in 0 .. MaxCrashes
  BY BoundsAssumption DEF Init
<1>6. TypeOK
  BY <1>1, <1>2, <1>3, <1>4, <1>5 DEF Init, TypeOK
<1>7. CommitWithinLog
  BY <1>2, InLogIsCommitWithinLog
<1> QED
  BY <1>4, <1>6, <1>7 DEF TypeInv

LEMMA TypeStep == TypeInv /\ [Next]_vars => TypeInv'
<1> SUFFICES ASSUME TypeInv, [Next]_vars PROVE TypeInv'
  OBVIOUS
<1>1. CASE UNCHANGED vars
  BY <1>1 DEF TypeInv, TypeOK, CommitWithinLog, vars, serverVars, historyVars
<1>2. ASSUME NEW c \in Client, NEW p \in Peer,
             PdTransferLeader(c, p) \/ \E cmd \in Command : Put(c, p, cmd)
      PROVE  TypeInv'
  BY <1>2, StartTypes
<1>3. ASSUME NEW c \in Client, Step(c) PROVE TypeInv'
  <2>1. CASE TransferLeader(c)
    BY <2>1, StartTypes
  <2>2. CASE \/ TransferUnreachable(c) \/ LoseElection(c) \/ ProposeRefused(c)
             \/ NoQuorum(c) \/ PutReturns(c)
    BY <2>2, ReturnTypes DEF TransferUnreachable, LoseElection, ProposeRefused,
                             NoQuorum, PutReturns
  <2>3. CASE VoteReturned(c) \/ StoreDone(c) \/ BackOff(c) \/ ConnectFails(c)
    BY <2>3, LoopTypes
  <2>4. CASE WinElection(c) \/ ProposeEntry(c) \/ Commit(c)
    BY <2>4, LeaderTypes
  <2>5. CASE SendAppend(c)
    BY <2>5, SendAppendTypes
  <2>6. CASE Receive(c)
    BY <2>6, MessageTypes
  <2> QED
    BY <1>3, <2>1, <2>2, <2>3, <2>4, <2>5, <2>6 DEF Step
<1>4. ASSUME NEW c \in Client,
             ConnectionBreaks(c) \/ CrashInHandler(c) \/ CrashInCommit(c)
      PROVE  TypeInv'
  BY <1>4, MessageTypes, CrashTypes
<1>5. CASE ReceiveOrphan
  BY <1>5, MessageTypes
<1>6. ASSUME NEW p \in Peer, Crash(p) \/ CrashInCampaign(p) \/ Restart(p)
      PROVE  TypeInv'
  BY <1>6, CrashTypes, RestartTypes
<1> QED
  BY <1>1, <1>2, <1>3, <1>4, <1>5, <1>6 DEF Next

\* Every reachable state is well typed, and no interleaving of handlers, leader
\* threads, crashes and restarts leaves commit_index_ or last_applied_ of a peer
\* past the end of its log.
THEOREM TypeCorrect == Spec => [](TypeOK /\ CommitWithinLog)
<1>1. TypeInv => TypeOK /\ CommitWithinLog
  BY DEF TypeInv
<1> QED
  BY <1>1, TypeInit, TypeStep, PTL DEF Spec

-----------------------------------------------------------------------------
\* Votes.

\* A running peer and its disk agree on the term and on the vote; without a
\* complete hard state the peer is in term 0 and has not voted.
Mirrors(n, d) ==
  IF HasHardState(d) THEN n.term = d.term /\ n.voted = d.voted
                     ELSE n.term = 0 /\ n.voted = None

\* What no step may do to a complete hard state.
KeepsHardState(d, e) ==
  HasHardState(d) => /\ HasHardState(e) /\ e.term >= d.term
                     /\ e.term = d.term /\ d.voted # None => e.voted = d.voted

\* The threads of a store that is down are gone.
ThreadsRun == \A c \in Client, p \in Peer : RunsOn(c, p) => up[p]

VoteInv ==
  /\ ThreadsRun
  /\ \A p \in Peer : up[p] => Mirrors(raft[p], disk[p])
  /\ VotesAreSaved
  /\ VoteOncePerTerm

\* Any prefix of the writes of SaveHardState keeps a hard state that mirrors the
\* node before, and all four writes make it mirror the node after.
LEMMA SaveKeepsHardState ==
  ASSUME NEW d, IsDisk(d), NEW e, IsDisk(e), SameHardState(d, e),
         NEW n \in Node, Mirrors(n, d), NEW m \in Node, KeepsVote(n, m),
         NEW w \in 0 .. HardStateKeys
  PROVE  LET i == SaveHardStatePrefix(e, m, w)
         IN  /\ KeepsHardState(d, i)
             /\ w = HardStateKeys => /\ HasHardState(i) /\ Mirrors(m, i)
                                     /\ i.term = m.term /\ i.voted = m.voted
<1> DEFINE i == SaveHardStatePrefix(e, m, w)
<1>1. /\ i.saved = IF w > e.saved THEN w ELSE e.saved
      /\ i.term  = IF w >= 1 THEN m.term ELSE e.term
      /\ i.voted = IF w >= 2 THEN m.voted ELSE e.voted
  BY SaveHardStateFacts
<1> HIDE DEF i
<1>2. e.saved = d.saved /\ e.term = d.term /\ e.voted = d.voted
  BY DEF SameHardState
<1>3. /\ d.saved \in 0 .. 4 /\ d.term \in Nat /\ m.term \in Nat /\ n.term \in Nat
      /\ w \in 0 .. 4
  BY DEF IsDisk, HardStateKeys, Node
<1>4. m.term >= n.term /\ (m.term = n.term /\ n.voted # None => m.voted = n.voted)
  BY DEF KeepsVote
<1>5. KeepsHardState(d, i)
  <2> SUFFICES ASSUME d.saved = 4
               PROVE  /\ i.saved = 4 /\ i.term >= d.term
                      /\ i.term = d.term /\ d.voted # None => i.voted = d.voted
    BY DEF KeepsHardState, HasHardState, HardStateKeys
  <2>1. n.term = d.term /\ n.voted = d.voted
    BY DEF Mirrors, HasHardState, HardStateKeys
  <2>2. i.saved = 4
    BY <1>1, <1>2, <1>3
  <2>3. i.term >= d.term
    BY <1>1, <1>2, <1>3, <1>4, <2>1
  <2>4. ASSUME i.term = d.term, d.voted # None PROVE i.voted = d.voted
    BY <1>1, <1>2, <1>3, <1>4, <2>1, <2>4
  <2> QED
    BY <2>2, <2>3, <2>4
<1>6. ASSUME w = HardStateKeys
      PROVE  HasHardState(i) /\ Mirrors(m, i) /\ i.term = m.term /\ i.voted = m.voted
  <2>1. i.saved = 4 /\ i.term = m.term /\ i.voted = m.voted
    BY <1>1, <1>2, <1>3, <1>6 DEF HardStateKeys
  <2> QED
    BY <2>1 DEF HasHardState, HardStateKeys, Mirrors
<1> QED
  BY <1>5, <1>6 DEF i

LEMMA SameKeepsHardState ==
  ASSUME NEW d, IsDisk(d), NEW e, SameHardState(d, e)
  PROVE  KeepsHardState(d, e)
BY DEF IsDisk, SameHardState, KeepsHardState, HasHardState

\* A vote that a step adds is the term and vote the voter has just saved.
NewVotesSaved ==
  /\ votes \subseteq votes'
  /\ \A v \in votes' \ votes :
       /\ HasHardState(disk'[v[1]])
       /\ v[2] = disk'[v[1]].term /\ v[3] = disk'[v[1]].voted

\* What a step does to the hard states.
HardStateStep ==
  /\ \A p \in Peer : KeepsHardState(disk[p], disk'[p])
  /\ \A p \in Peer : up'[p] => Mirrors(raft'[p], disk'[p])
  /\ NewVotesSaved

\* Votes stay unique and saved if every hard state is kept.
LEMMA VotesFromHardState ==
  ASSUME TypeInv, VoteInv, HardStateStep, TypeInv'
  PROVE  VotesAreSaved' /\ VoteOncePerTerm'
<1>1. ASSUME NEW v \in votes'
      PROVE  /\ v[1] \in Peer /\ v[2] \in Nat /\ v[3] \in Peer /\ v[3] # None
             /\ disk[v[1]].term \in Nat /\ disk'[v[1]].term \in Nat
  <2>1. v[1] \in Peer /\ v[2] \in Nat /\ v[3] \in Peer
    BY DEF TypeInv, TypeOK
  <2>2. v[3] # None
    BY <2>1, PeerAssumption DEF None
  <2> QED
    BY <2>1, <2>2 DEF TypeInv, TypeOK, IsDisk
<1>2. ASSUME NEW v \in votes'
      PROVE  /\ HasHardState(disk'[v[1]]) /\ v[2] <= disk'[v[1]].term
             /\ v[2] = disk'[v[1]].term => disk'[v[1]].voted = v[3]
  <2>1. CASE v \in votes
    <3>1. /\ HasHardState(disk[v[1]]) /\ v[2] <= disk[v[1]].term
          /\ v[2] = disk[v[1]].term => disk[v[1]].voted = v[3]
      BY <2>1 DEF VoteInv, VotesAreSaved
    <3>2. KeepsHardState(disk[v[1]], disk'[v[1]])
      BY <1>1 DEF HardStateStep
    <3> QED
      BY <1>1, <3>1, <3>2 DEF KeepsHardState
  <2>2. CASE v \notin votes
    BY <1>1, <2>2 DEF HardStateStep, NewVotesSaved
  <2> QED
    BY <2>1, <2>2
<1>3. VotesAreSaved'
  BY <1>2 DEF VotesAreSaved
<1>4. ASSUME NEW v \in votes', NEW u \in votes', v[1] = u[1], v[2] = u[2], u \notin votes
      PROVE  v[3] = u[3]
  <2>1. u[2] = disk'[u[1]].term /\ u[3] = disk'[u[1]].voted
    BY <1>4 DEF HardStateStep, NewVotesSaved
  <2> QED
    BY <1>2, <1>4, <2>1
<1>5. ASSUME NEW v \in votes, NEW u \in votes, v[1] = u[1], v[2] = u[2]
      PROVE  v[3] = u[3]
  BY <1>5 DEF VoteInv, VoteOncePerTerm
<1>6. VoteOncePerTerm'
  <2> SUFFICES ASSUME NEW v \in votes', NEW u \in votes', v[1] = u[1], v[2] = u[2]
               PROVE  v[3] = u[3]
    BY DEF VoteOncePerTerm
  <2> QED
    BY <1>4, <1>5
<1> QED
  BY <1>3, <1>6

LEMMA SameHardStateStep ==
  ASSUME TypeInv, VoteInv, UNCHANGED <<up, raft, disk, votes>>
  PROVE  HardStateStep
<1>1. \A p \in Peer : KeepsHardState(disk[p], disk'[p])
  BY SameKeepsHardState DEF SameHardState, TypeInv, TypeOK
<1>2. \A p \in Peer : up'[p] => Mirrors(raft'[p], disk'[p])
  BY DEF VoteInv
<1> QED
  BY <1>1, <1>2 DEF HardStateStep, NewVotesSaved

\* A running peer that saves the hard state of its new node.
LEMMA SaveHardStateStep ==
  ASSUME TypeInv, VoteInv, NEW p \in Peer, up[p],
         NEW m \in Node, KeepsVote(raft[p], m),
         NEW e, IsDisk(e), SameHardState(disk[p], e),
         raft' = [raft EXCEPT ![p] = m],
         disk' = [disk EXCEPT ![p] = SaveHardState(e, m)],
         up' = up,
         votes' = votes \/ votes' = votes \cup {<<p, m.term, m.voted>>}
  PROVE  HardStateStep
<1> DEFINE i == SaveHardState(e, m)
<1>1. /\ raft \in [Peer -> Node] /\ DOMAIN disk = Peer
      /\ \A q \in Peer : IsDisk(disk[q])
  BY DEF TypeInv, TypeOK
<1>2. /\ KeepsHardState(disk[p], i) /\ HasHardState(i) /\ Mirrors(m, i)
      /\ i.term = m.term /\ i.voted = m.voted
  <2>1. Mirrors(raft[p], disk[p]) /\ raft[p] \in Node /\ IsDisk(disk[p])
    BY <1>1 DEF VoteInv
  <2>2. HardStateKeys \in 0 .. HardStateKeys
    BY DEF HardStateKeys
  <2> QED
    BY <2>1, <2>2, SaveKeepsHardState DEF SaveHardState
<1> HIDE DEF i
<1>3. /\ disk'[p] = i /\ raft'[p] = m
      /\ \A q \in Peer \ {p} : disk'[q] = disk[q] /\ raft'[q] = raft[q]
  BY <1>1 DEF i
<1>4. ASSUME NEW q \in Peer PROVE KeepsHardState(disk[q], disk'[q])
  <2>1. CASE q = p
    BY <1>2, <1>3, <2>1
  <2>2. CASE q # p
    BY <1>1, <1>3, <2>2, SameKeepsHardState DEF SameHardState
  <2> QED
    BY <2>1, <2>2
<1>5. ASSUME NEW q \in Peer, up'[q] PROVE Mirrors(raft'[q], disk'[q])
  <2>1. CASE q = p
    BY <1>2, <1>3, <2>1
  <2>2. CASE q # p
    BY <1>3, <1>5, <2>2 DEF VoteInv
  <2> QED
    BY <2>1, <2>2
<1>6. NewVotesSaved
  <2>1. votes \subseteq votes'
    OBVIOUS
  <2>2. ASSUME NEW v \in votes' \ votes
        PROVE  /\ HasHardState(disk'[v[1]])
               /\ v[2] = disk'[v[1]].term /\ v[3] = disk'[v[1]].voted
    <3>1. v[1] = p /\ v[2] = m.term /\ v[3] = m.voted
      OBVIOUS
    <3> QED
      BY <1>2, <1>3, <3>1
  <2> QED
    BY <2>1, <2>2 DEF NewVotesSaved
<1> QED
  BY <1>4, <1>5, <1>6 DEF HardStateStep

LEMMA CampaignHardState ==
  ASSUME TypeInv, VoteInv, NEW c \in Client, NEW p \in Peer, up[p], up' = up,
         NEW cmd, AlreadyLeader(c, p, cmd) \/ StartCampaign(c, p, cmd)
  PROVE  HardStateStep
<1>1. CASE AlreadyLeader(c, p, cmd)
  BY <1>1, SameHardStateStep DEF AlreadyLeader
<1>2. CASE StartCampaign(c, p, cmd)
  <2> DEFINE n == BecomeCandidate(raft[p], p)
  <2>1. raft[p] \in Node /\ IsDisk(disk[p]) /\ SameHardState(disk[p], disk[p])
    BY DEF TypeInv, TypeOK, SameHardState
  <2>2. n \in Node /\ KeepsVote(raft[p], n) /\ n.voted = p
    BY <2>1, BecomeCandidateFacts
  <2>3. /\ raft' = [raft EXCEPT ![p] = n]
        /\ disk' = [disk EXCEPT ![p] = SaveHardState(disk[p], n)]
        /\ votes' = votes \cup {<<p, n.term, n.voted>>}
    BY <1>2, <2>2 DEF StartCampaign
  <2> HIDE DEF n
  <2> QED
    BY <2>1, <2>2, <2>3, SaveHardStateStep
<1> QED
  BY <1>1, <1>2

LEMMA HandleHardState ==
  ASSUME TypeInv, VoteInv, NEW p \in Peer, NEW req \in Request,
         Handle(p, req), up' = up
  PROVE  HardStateStep
<1> DEFINE m == HandlerNode(raft[p], req)
<1>1. raft[p] \in Node /\ InLog(raft[p]) /\ IsDisk(disk[p])
  BY InLogIsCommitWithinLog DEF TypeInv, TypeOK
<1>2. m \in Node /\ KeepsVote(raft[p], m)
  BY <1>1, HandlerNodeFacts
<1>3. PICK e : /\ IsDisk(e) /\ SameHardState(disk[p], e)
               /\ HandlerDisk(disk[p], raft[p], req) = SaveHardState(e, m)
  BY <1>1, HandlerDiskFacts
<1>4. /\ raft' = [raft EXCEPT ![p] = m] /\ up[p]
      /\ disk' = [disk EXCEPT ![p] = SaveHardState(e, m)]
  BY <1>3 DEF Handle
<1>5. votes' = votes \/ votes' = votes \cup {<<p, m.term, m.voted>>}
  <2>1. CASE req.type = "vote" /\ GrantsVote(raft[p], req)
    <3>1. req \in VoteRequest
      BY <2>1, RequestCases
    <3>2. m = HandleRequestVote(raft[p], req)
      BY <2>1 DEF HandlerNode
    <3>3. m.term = req.term /\ m.voted = req.from
      BY <1>1, <2>1, <3>1, <3>2, RequestVoteFacts
    <3> QED
      BY <2>1, <3>3 DEF Handle
  <2>2. CASE ~(req.type = "vote" /\ GrantsVote(raft[p], req))
    BY <2>2 DEF Handle
  <2> QED
    BY <2>1, <2>2
<1> HIDE DEF m
<1> QED
  BY <1>2, <1>3, <1>4, <1>5, SaveHardStateStep

LEMMA LeaderHardState ==
  ASSUME TypeInv, VoteInv, NEW c \in Client,
         WinElection(c) \/ ProposeEntry(c) \/ Commit(c)
  PROVE  HardStateStep
<1> DEFINE p == th[c].home
<1>1. th[c] \in Thread /\ ThreadOK(th[c])
  BY DEF TypeInv, TypeOK
<1>2. th[c].pc \in {"vote", "propose", "append"}
  BY DEF WinElection, ProposeEntry, Commit
<1>3. p \in Peer
  BY <1>1, <1>2 DEF ThreadOK
<1>4. up[p]
  BY <1>2, <1>3 DEF VoteInv, ThreadsRun, RunsOn
<1>5. /\ raft[p] \in Node /\ InLog(raft[p]) /\ IsDisk(disk[p])
      /\ SameHardState(disk[p], disk[p]) /\ raft[p].term \in Nat
  BY <1>3, InLogIsCommitWithinLog DEF TypeInv, TypeOK, SameHardState, Node
<1>6. CASE WinElection(c)
  <2> DEFINE n == BecomeLeader(raft[p])
  <2>1. n \in Node /\ n.term = raft[p].term /\ n.voted = raft[p].voted
    BY <1>5 DEF BecomeLeader, Node, Role
  <2>2. KeepsVote(raft[p], n)
    BY <1>5, <2>1 DEF KeepsVote
  <2>3. /\ raft' = [raft EXCEPT ![p] = n] /\ up' = up /\ votes' = votes
        /\ disk' = [disk EXCEPT ![p] = SaveHardState(disk[p], n)]
    BY <1>6 DEF WinElection
  <2> HIDE DEF n, p
  <2> QED
    BY <1>3, <1>4, <1>5, <2>1, <2>2, <2>3, SaveHardStateStep
<1>7. CASE Commit(c)
  <2> DEFINE m == CommitNode(c)
             n == TakeCommittedEntries(m)
             e == ApplyCommitted(disk[p], m)
  <2>1. th[c].index \in Nat
    BY <1>1 DEF Thread
  <2>2. /\ m \in Node /\ InLog(m)
        /\ m.term = raft[p].term /\ m.voted = raft[p].voted
    BY <1>5, <2>1, SetCommitIndexFacts DEF CommitNode
  <2>3. /\ raft' = [raft EXCEPT ![p] = n] /\ up' = up /\ votes' = votes
        /\ disk' = [disk EXCEPT ![p] = SaveHardState(e, n)]
    BY <1>7 DEF Commit
  <2> HIDE DEF m, p
  <2>4. n \in Node /\ n.term = m.term /\ n.voted = m.voted
    BY <2>2, TakeCommittedFacts
  <2>5. KeepsVote(raft[p], n)
    BY <1>5, <2>2, <2>4 DEF KeepsVote
  <2>6. IsDisk(e) /\ SameHardState(disk[p], e)
    BY <1>5, <2>2, ApplyCommittedFacts
  <2> HIDE DEF n, e
  <2> QED
    BY <1>3, <1>4, <2>3, <2>4, <2>5, <2>6, SaveHardStateStep
<1>8. CASE ProposeEntry(c)
  <2> DEFINE n == Propose(raft[p], th[c].cmd)
             e == AppendLog(disk[p], n.log, LastIndex(n))
  <2>1. th[c].cmd \in Command
    BY <1>1, <1>8 DEF ThreadOK, ProposeEntry
  <2>2. /\ n \in Node /\ LastIndex(n) \in 1 .. Len(n.log)
        /\ n.term = raft[p].term /\ n.voted = raft[p].voted
    BY <1>5, <2>1, ProposeFacts
  <2>3. n.log \in Seq(Entry)
    BY <2>2 DEF Node
  <2>4. /\ raft' = [raft EXCEPT ![p] = n] /\ disk' = [disk EXCEPT ![p] = e]
        /\ up' = up /\ votes' = votes
    BY <1>8 DEF ProposeEntry, historyVars
  <2> HIDE DEF n, p
  <2>5. SameHardState(disk[p], e)
    BY <1>5, <2>2, <2>3, AppendLogFacts
  <2> HIDE DEF e
  <2>6. /\ raft \in [Peer -> Node] /\ DOMAIN disk = Peer
        /\ \A q \in Peer : IsDisk(disk[q])
    BY DEF TypeInv, TypeOK
  <2>7. /\ disk'[p] = e /\ raft'[p] = n
        /\ \A q \in Peer \ {p} : disk'[q] = disk[q] /\ raft'[q] = raft[q]
    BY <1>3, <2>4, <2>6
  <2>8. ASSUME NEW q \in Peer PROVE SameHardState(disk[q], disk'[q])
    <3>1. CASE q = p
      BY <2>5, <2>7, <3>1
    <3>2. CASE q # p
      BY <2>7, <3>2 DEF SameHardState
    <3> QED
      BY <3>1, <3>2
  <2>9. \A q \in Peer : KeepsHardState(disk[q], disk'[q])
    BY <2>6, <2>8, SameKeepsHardState
  <2>10. ASSUME NEW q \in Peer, up'[q] PROVE Mirrors(raft'[q], disk'[q])
    <3>1. Mirrors(raft[q], disk[q])
      BY <2>4, <2>10 DEF VoteInv
    <3>2. raft'[q].term = raft[q].term /\ raft'[q].voted = raft[q].voted
      <4>1. CASE q = p
        BY <2>2, <2>7, <4>1
      <4>2. CASE q # p
        BY <2>7, <4>2
      <4> QED
        BY <4>1, <4>2
    <3> QED
      BY <2>8, <3>1, <3>2 DEF Mirrors, SameHardState, HasHardState
  <2> QED
    BY <2>4, <2>9, <2>10 DEF HardStateStep, NewVotesSaved
<1> QED
  BY <1>6, <1>7, <1>8

LEMMA DiesHardState ==
  ASSUME TypeInv, VoteInv, NEW p \in Peer, up[p],
         NEW image, TornImage(p, image), Dies(p, image)
  PROVE  HardStateStep
<1>0. PICK e : \E m \in Node : \E w \in 0 .. HardStateKeys :
        /\ IsDisk(e) /\ SameHardState(disk[p], e) /\ KeepsVote(raft[p], m)
        /\ image = e \/ image = SaveHardStatePrefix(e, m, w)
  BY DEF TornImage
<1>1. PICK m \in Node, w \in 0 .. HardStateKeys :
        /\ IsDisk(e) /\ SameHardState(disk[p], e) /\ KeepsVote(raft[p], m)
        /\ image = e \/ image = SaveHardStatePrefix(e, m, w)
  BY <1>0
<1>2. raft[p] \in Node /\ IsDisk(disk[p]) /\ Mirrors(raft[p], disk[p])
  BY DEF TypeInv, TypeOK, VoteInv
<1>3. KeepsHardState(disk[p], image)
  <2>1. CASE image = e
    BY <1>1, <1>2, <2>1, SameKeepsHardState
  <2>2. CASE image = SaveHardStatePrefix(e, m, w)
    BY <1>1, <1>2, <2>2, SaveKeepsHardState
  <2> QED
    BY <1>1, <2>1, <2>2
<1>4. /\ raft \in [Peer -> Node] /\ DOMAIN disk = Peer /\ up \in [Peer -> BOOLEAN]
      /\ \A q \in Peer : IsDisk(disk[q])
  BY DEF TypeInv, TypeOK
<1>5. /\ disk'[p] = image /\ up'[p] = FALSE /\ votes' = votes
      /\ \A q \in Peer \ {p} : /\ disk'[q] = disk[q] /\ raft'[q] = raft[q]
                               /\ up'[q] = up[q]
  BY <1>4 DEF Dies, historyVars
<1>6. ASSUME NEW q \in Peer PROVE KeepsHardState(disk[q], disk'[q])
  <2>1. CASE q = p
    BY <1>3, <1>5, <2>1
  <2>2. CASE q # p
    BY <1>4, <1>5, <2>2, SameKeepsHardState DEF SameHardState
  <2> QED
    BY <2>1, <2>2
<1>7. ASSUME NEW q \in Peer, up'[q] PROVE Mirrors(raft'[q], disk'[q])
  <2>1. q # p
    BY <1>5, <1>7
  <2> QED
    BY <1>5, <1>7, <2>1 DEF VoteInv
<1> QED
  BY <1>5, <1>6, <1>7 DEF HardStateStep, NewVotesSaved

LEMMA RestartHardState ==
  ASSUME TypeInv, VoteInv, NEW p \in Peer, Restart(p)
  PROVE  HardStateStep
<1> DEFINE n == BootstrapNode(disk[p])
<1>1. /\ raft \in [Peer -> Node] /\ up \in [Peer -> BOOLEAN]
      /\ \A q \in Peer : IsDisk(disk[q])
  BY DEF TypeInv, TypeOK
<1>2. /\ CanBootstrap(disk[p]) /\ up' = [up EXCEPT ![p] = TRUE]
      /\ raft' = [raft EXCEPT ![p] = n] /\ disk' = disk /\ votes' = votes
  BY DEF Restart, historyVars
<1>3. Mirrors(n, disk[p])
  BY <1>1, <1>2, BootstrapFacts DEF Mirrors
<1> HIDE DEF n
<1>4. \A q \in Peer : KeepsHardState(disk[q], disk'[q])
  BY <1>1, <1>2, SameKeepsHardState DEF SameHardState
<1>5. ASSUME NEW q \in Peer, up'[q] PROVE Mirrors(raft'[q], disk'[q])
  <2>1. CASE q = p
    BY <1>1, <1>2, <1>3, <2>1
  <2>2. CASE q # p
    BY <1>1, <1>2, <1>5, <2>2 DEF VoteInv
  <2> QED
    BY <2>1, <2>2
<1> QED
  BY <1>2, <1>4, <1>5 DEF HardStateStep, NewVotesSaved

LEMMA HardStateNext ==
  ASSUME TypeInv, VoteInv, [Next]_vars
  PROVE  HardStateStep
<1>1. CASE UNCHANGED vars
  BY <1>1, SameHardStateStep DEF vars, serverVars, historyVars
<1>2. ASSUME NEW c \in Client, NEW p \in Peer, PdTransferLeader(c, p)
      PROVE  HardStateStep
  BY <1>2, SameHardStateStep DEF PdTransferLeader, historyVars
<1>3. ASSUME NEW c \in Client, NEW p \in Peer, NEW cmd \in Command, Put(c, p, cmd)
      PROVE  HardStateStep
  <2>1. /\ AlreadyLeader(c, p, cmd) \/ StartCampaign(c, p, cmd)
        /\ up[p] /\ up' = up
    BY <1>3 DEF Put
  <2> QED
    BY <2>1, CampaignHardState
<1>4. ASSUME NEW c \in Client, Step(c) PROVE HardStateStep
  <2>1. CASE TransferLeader(c)
    <3> DEFINE p == th[c].home
    <3>1. /\ AlreadyLeader(c, p, NoCommand) \/ StartCampaign(c, p, NoCommand)
          /\ up[p] /\ up' = up /\ th[c].pc = "transfer"
      BY <2>1 DEF TransferLeader
    <3>2. p \in Peer
      BY <3>1 DEF TypeInv, ThreadOK
    <3> HIDE DEF p
    <3> QED
      BY <3>1, <3>2, CampaignHardState
  <2>2. CASE \/ TransferUnreachable(c) \/ LoseElection(c) \/ ProposeRefused(c)
             \/ NoQuorum(c) \/ PutReturns(c) \/ VoteReturned(c) \/ StoreDone(c)
             \/ BackOff(c) \/ ConnectFails(c) \/ SendAppend(c)
    <3>1. UNCHANGED <<serverVars, historyVars>>
      BY <2>2 DEF TransferUnreachable, LoseElection, ProposeRefused, NoQuorum,
                  PutReturns, VoteReturned, StoreDone, BackOff, ConnectFails, SendAppend
    <3> QED
      BY <3>1, SameHardStateStep DEF serverVars, historyVars
  <2>3. CASE WinElection(c) \/ ProposeEntry(c) \/ Commit(c)
    BY <2>3, LeaderHardState
  <2>4. CASE Receive(c)
    <3>1. Calling(c) /\ Handle(Dest(c), th[c].req) /\ up' = up
      BY <2>4 DEF Receive
    <3>2. Dest(c) \in Peer /\ th[c].req \in Request
      BY <3>1, CallingFacts
    <3> QED
      BY <3>1, <3>2, HandleHardState
  <2> QED
    BY <1>4, <2>1, <2>2, <2>3, <2>4 DEF Step
<1>5. ASSUME NEW c \in Client, ConnectionBreaks(c) PROVE HardStateStep
  BY <1>5, SameHardStateStep DEF ConnectionBreaks, serverVars, historyVars
<1>6. ASSUME NEW c \in Client, CrashInHandler(c) \/ CrashInCommit(c)
      PROVE  HardStateStep
  <2>1. PICK p \in Peer : \E image : /\ TornImage(p, image) /\ Dies(p, image)
                                     /\ up[p] \/ RunsOn(c, p)
    BY <1>6, CrashImages
  <2>2. up[p]
    BY <2>1 DEF VoteInv, ThreadsRun
  <2> QED
    BY <2>1, <2>2, DiesHardState
<1>7. CASE ReceiveOrphan
  <2>1. PICK o \in orphans : Handle(o.to, o.req) /\ up' = up
    BY <1>7 DEF ReceiveOrphan
  <2>2. o.to \in Peer /\ o.req \in Request
    BY DEF TypeInv, TypeOK, Request
  <2> QED
    BY <2>1, <2>2, HandleHardState
<1>8. ASSUME NEW p \in Peer, Crash(p) \/ CrashInCampaign(p) PROVE HardStateStep
  BY <1>8, CrashImages, DiesHardState
<1>9. ASSUME NEW p \in Peer, Restart(p) PROVE HardStateStep
  BY <1>9, RestartHardState
<1> QED
  BY <1>1, <1>2, <1>3, <1>4, <1>5, <1>6, <1>7, <1>8, <1>9 DEF Next

-----------------------------------------------------------------------------
\* A leader operation never outlives the process it runs in.

\* Steps of a thread c of a running store, or back to its client.
LEMMA OwnStepRuns ==
  ASSUME TypeInv, ThreadsRun, NEW c \in Client, NEW t,
         th' = [th EXCEPT ![c] = t], up' = up,
         \/ t.pc \in {"idle", "transfer"}
         \/ t.home \in Peer /\ up[t.home]
         \/ t.home = th[c].home /\ th[c].pc \notin {"idle", "transfer"}
  PROVE  ThreadsRun'
<1> SUFFICES ASSUME NEW x \in Client, NEW p \in Peer,
                    th'[x].home = p, th'[x].pc \notin {"idle", "transfer"}
             PROVE  up'[p]
  BY DEF ThreadsRun, RunsOn
<1>1. th \in [Client -> Thread]
  BY DEF TypeInv, TypeOK
<1>2. CASE x = c
  <2>1. th'[x] = t
    BY <1>1, <1>2
  <2> QED
    BY <1>2, <2>1 DEF ThreadsRun, RunsOn
<1>3. CASE x # c
  <2>1. th'[x] = th[x]
    BY <1>1, <1>3
  <2> QED
    BY <2>1 DEF ThreadsRun, RunsOn
<1> QED
  BY <1>2, <1>3

LEMMA ThreadsRunNext ==
  ASSUME TypeInv, ThreadsRun, [Next]_vars
  PROVE  ThreadsRun'
<1>1. CASE UNCHANGED vars
  BY <1>1 DEF ThreadsRun, RunsOn, vars, serverVars
<1>2. ASSUME NEW c \in Client, NEW p \in Peer, NEW cmd, up[p], up' = up,
             AlreadyLeader(c, p, cmd) \/ StartCampaign(c, p, cmd)
      PROVE  ThreadsRun'
  <2>1. CASE AlreadyLeader(c, p, cmd)
    <3> DEFINE t == IF cmd = NoCommand THEN IdleThread
                    ELSE [IdleThread EXCEPT !.pc = "propose", !.home = p, !.cmd = cmd]
    <3>1. th' = [th EXCEPT ![c] = t]
      BY <2>1 DEF AlreadyLeader
    <3>2. t.pc = "idle" \/ t.home = p
      BY DEF IdleThread
    <3> HIDE DEF t
    <3> QED
      BY <1>2, <3>1, <3>2, OwnStepRuns
  <2>2. CASE StartCampaign(c, p, cmd)
    <3> DEFINE n == BecomeCandidate(raft[p], p)
               t == [IdleThread EXCEPT !.pc = "vote", !.home = p, !.cmd = cmd,
                       !.todo = Peer \ {p}, !.got = {p},
                       !.req = [type |-> "vote", term |-> n.term, from |-> p,
                                lastIndex |-> LastIndex(n), lastTerm |-> LastTerm(n)]]
    <3>1. th' = [th EXCEPT ![c] = t]
      BY <2>2 DEF StartCampaign
    <3>2. t.home = p
      BY DEF IdleThread
    <3> HIDE DEF t
    <3> QED
      BY <1>2, <3>1, <3>2, OwnStepRuns
  <2> QED
    BY <1>2, <2>1, <2>2
<1>3. ASSUME NEW c \in Client, NEW p \in Peer, PdTransferLeader(c, p)
      PROVE  ThreadsRun'
  <2> DEFINE t == [IdleThread EXCEPT !.pc = "transfer", !.home = p]
  <2>1. th' = [th EXCEPT ![c] = t] /\ up' = up
    BY <1>3 DEF PdTransferLeader
  <2>2. t.pc = "transfer"
    BY DEF IdleThread
  <2> HIDE DEF t
  <2> QED
    BY <2>1, <2>2, OwnStepRuns
<1>4. ASSUME NEW c \in Client, NEW p \in Peer, NEW cmd \in Command, Put(c, p, cmd)
      PROVE  ThreadsRun'
  <2>1. /\ AlreadyLeader(c, p, cmd) \/ StartCampaign(c, p, cmd)
        /\ up[p] /\ up' = up
    BY <1>4 DEF Put
  <2> QED
    BY <1>2, <2>1
<1>5. ASSUME NEW c \in Client, Step(c) PROVE ThreadsRun'
  <2> DEFINE p == th[c].home
  <2>1. th \in [Client -> Thread] /\ th[c] \in Thread /\ ThreadOK(th[c])
    BY DEF TypeInv, TypeOK
  <2>2. CASE TransferLeader(c)
    <3>1. /\ AlreadyLeader(c, p, NoCommand) \/ StartCampaign(c, p, NoCommand)
          /\ up[p] /\ up' = up /\ th[c].pc = "transfer"
      BY <2>2 DEF TransferLeader
    <3>2. p \in Peer
      BY <2>1, <3>1 DEF ThreadOK
    <3> HIDE DEF p
    <3> QED
      BY <1>2, <3>1, <3>2
  <2>3. CASE \/ TransferUnreachable(c) \/ LoseElection(c) \/ ProposeRefused(c)
             \/ NoQuorum(c) \/ PutReturns(c)
    <3>1. th' = [th EXCEPT ![c] = IdleThread] /\ up' = up
      BY <2>3 DEF TransferUnreachable, LoseElection, ProposeRefused, NoQuorum,
                  PutReturns, Return, serverVars
    <3>2. IdleThread.pc = "idle"
      BY DEF IdleThread
    <3> QED
      BY <3>1, <3>2, OwnStepRuns
  <2>4. CASE \/ VoteReturned(c) \/ StoreDone(c) \/ BackOff(c) \/ ConnectFails(c)
             \/ SendAppend(c) \/ Commit(c) \/ Receive(c)
    <3>1. th[c].pc \notin {"idle", "transfer"} /\ up' = up
      BY <2>4 DEF VoteReturned, StoreDone, BackOff, ConnectFails, SendAppend, Commit,
                  Receive, Calling, serverVars
    <3>2. DOMAIN th' = Client /\ \A x \in Client \ {c} : th'[x] = th[x]
      BY <2>1, <2>4 DEF VoteReturned, StoreDone, BackOff, ConnectFails, SendAppend,
                        Commit, Receive
    <3>3. th'[c].home = th[c].home
      <4>1. CASE VoteReturned(c)
        BY <2>1, <4>1 DEF VoteReturned, Thread
      <4>2. CASE StoreDone(c)
        BY <2>1, <4>2 DEF StoreDone, Thread
      <4>3. CASE BackOff(c)
        BY <2>1, <4>3 DEF BackOff, Thread
      <4>4. CASE ConnectFails(c)
        BY <2>1, <4>4 DEF ConnectFails, Thread
      <4>5. CASE SendAppend(c)
        BY <2>1, <4>5 DEF SendAppend, Thread
      <4>6. CASE Commit(c)
        BY <2>1, <4>6 DEF Commit, Thread
      <4>7. CASE Receive(c)
        BY <2>1, <4>7 DEF Receive, Thread
      <4> QED
        BY <2>4, <4>1, <4>2, <4>3, <4>4, <4>5, <4>6, <4>7
    <3> SUFFICES ASSUME NEW x \in Client, NEW q \in Peer,
                        th'[x].home = q, th'[x].pc \notin {"idle", "transfer"}
                 PROVE  up[q]
      BY <3>1 DEF ThreadsRun, RunsOn
    <3>4. CASE x = c
      BY <3>1, <3>3, <3>4 DEF ThreadsRun, RunsOn
    <3>5. CASE x # c
      BY <3>2, <3>5 DEF ThreadsRun, RunsOn
    <3> QED
      BY <3>4, <3>5
  <2>5. CASE WinElection(c)
    <3> DEFINE t == IF th[c].cmd = NoCommand THEN IdleThread
                    ELSE [IdleThread EXCEPT !.pc = "propose", !.home = p,
                                            !.cmd = th[c].cmd]
    <3>1. th' = [th EXCEPT ![c] = t] /\ up' = up /\ th[c].pc = "vote"
      BY <2>5 DEF WinElection
    <3>2. t.pc = "idle" \/ t.home = th[c].home
      BY DEF IdleThread
    <3> HIDE DEF t
    <3> QED
      BY <3>1, <3>2, OwnStepRuns
  <2>6. CASE ProposeEntry(c)
    <3> DEFINE n == Propose(raft[p], th[c].cmd)
               t == [IdleThread EXCEPT !.pc = "append", !.home = p, !.cmd = th[c].cmd,
                       !.index = LastIndex(n), !.todo = Peer \ {p}, !.got = {p}]
    <3>1. th' = [th EXCEPT ![c] = t] /\ up' = up /\ th[c].pc = "propose"
      BY <2>6 DEF ProposeEntry
    <3>2. t.home = th[c].home
      BY DEF IdleThread
    <3> HIDE DEF t
    <3> QED
      BY <3>1, <3>2, OwnStepRuns
  <2> QED
    BY <1>5, <2>2, <2>3, <2>4, <2>5, <2>6 DEF Step
<1>6. ASSUME NEW c \in Client, ConnectionBreaks(c) PROVE ThreadsRun'
  <2>1. th \in [Client -> Thread] /\ th[c] \in Thread
    BY DEF TypeInv, TypeOK
  <2>2. up' = up /\ th' = [th EXCEPT ![c].resp = FailedMsg]
    BY <1>6 DEF ConnectionBreaks, serverVars
  <2>3. \A x \in Client : th'[x].pc = th[x].pc /\ th'[x].home = th[x].home
    BY <2>1, <2>2 DEF Thread
  <2> QED
    BY <2>2, <2>3 DEF ThreadsRun, RunsOn
<1>7. ASSUME NEW p \in Peer, NEW image, Dies(p, image) PROVE ThreadsRun'
  <2> SUFFICES ASSUME NEW c \in Client, NEW q \in Peer,
                      th'[c].home = q, th'[c].pc \notin {"idle", "transfer"}
               PROVE  up'[q]
    BY DEF ThreadsRun, RunsOn
  <2>1. th[c] \in Thread /\ up \in [Peer -> BOOLEAN]
    BY DEF TypeInv, TypeOK
  <2>2. ~RunsOn(c, p)
    <3>1. RunsOn(c, p) => th'[c] = IdleThread
      BY <1>7 DEF Dies
    <3> QED
      BY <3>1 DEF IdleThread
  <2>3. th'[c] = th[c] \/ th'[c] = [th[c] EXCEPT !.resp = FailedMsg]
    BY <1>7, <2>2 DEF Dies
  <2>4. th'[c].pc = th[c].pc /\ th'[c].home = th[c].home
    BY <2>1, <2>3 DEF Thread
  <2>5. q # p /\ up[q]
    BY <2>2, <2>4 DEF ThreadsRun, RunsOn
  <2>6. up' = [up EXCEPT ![p] = FALSE]
    BY <1>7 DEF Dies
  <2> QED
    BY <2>1, <2>5, <2>6
<1>8. CASE ReceiveOrphan
  BY <1>8 DEF ReceiveOrphan, ThreadsRun, RunsOn
<1>9. ASSUME NEW p \in Peer, Restart(p) PROVE ThreadsRun'
  <2>1. up \in [Peer -> BOOLEAN] /\ up' = [up EXCEPT ![p] = TRUE] /\ th' = th
    BY <1>9 DEF Restart, TypeInv, TypeOK
  <2> QED
    BY <2>1 DEF ThreadsRun, RunsOn
<1>10. ASSUME NEW c \in Client, CrashInHandler(c) \/ CrashInCommit(c)
       PROVE  ThreadsRun'
  BY <1>7, <1>10, CrashImages
<1>11. ASSUME NEW p \in Peer, Crash(p) \/ CrashInCampaign(p) PROVE ThreadsRun'
  BY <1>7, <1>11, CrashImages
<1> QED
  BY <1>1, <1>3, <1>4, <1>5, <1>6, <1>8, <1>9, <1>10, <1>11 DEF Next

LEMMA VoteInit == Init => VoteInv
<1> SUFFICES ASSUME Init PROVE VoteInv
  OBVIOUS
<1>1. ThreadsRun
  BY DEF Init, ThreadsRun
<1>2. \A p \in Peer : Mirrors(raft[p], disk[p])
  BY DEF Init, Mirrors, NewNode, EmptyDisk, HasHardState, HardStateKeys
<1>3. VotesAreSaved /\ VoteOncePerTerm
  BY DEF Init, VotesAreSaved, VoteOncePerTerm
<1> QED
  BY <1>1, <1>2, <1>3 DEF VoteInv

LEMMA VoteStep == TypeInv /\ VoteInv /\ [Next]_vars => VoteInv'
<1> SUFFICES ASSUME TypeInv, VoteInv, [Next]_vars PROVE VoteInv'
  OBVIOUS
<1>1. TypeInv'
  BY TypeStep
<1>2. HardStateStep
  BY HardStateNext
<1>3. VotesAreSaved' /\ VoteOncePerTerm'
  BY <1>1, <1>2, VotesFromHardState
<1>4. ThreadsRun'
  BY ThreadsRunNext DEF VoteInv
<1> QED
  BY <1>2, <1>3, <1>4 DEF VoteInv, HardStateStep

\* At most one vote per term: no peer ever answers two candidates of the same
\* term with a grant, whatever crash, torn write, late or repeated request or
\* overlapping campaign comes in between.
THEOREM VotesAreUnique == Spec => [](VoteOncePerTerm /\ VotesAreSaved)
<1>1. TypeInv /\ VoteInv => VoteOncePerTerm /\ VotesAreSaved
  BY DEF VoteInv
<1> QED
  BY <1>1, TypeInit, TypeStep, VoteInit, VoteStep, PTL DEF Spec

\* Once the four keys of the hard state exist, no step, not even a crash after
\* any one of its writes, lowers the saved term or replaces the vote saved in it.
THEOREM HardStateIsKept == Spec => SavedVoteIsKept
<1> DEFINE A == \A p \in Peer :
                  HasHardState(disk[p]) =>
                    /\ disk'[p].term >= disk[p].term
                    /\ disk'[p].term = disk[p].term /\ disk[p].voted # None
                         => disk'[p].voted = disk[p].voted
<1>1. TypeInv /\ VoteInv /\ [Next]_vars => A
  BY HardStateNext DEF HardStateStep, KeepsHardState
<1>2. TypeInv /\ VoteInv /\ [Next]_vars => [A]_vars
  BY <1>1
<1> QED
  BY <1>2, TypeInit, TypeStep, VoteInit, VoteStep, PTL DEF Spec, SavedVoteIsKept

-----------------------------------------------------------------------------
\* Elections.

\* Everyone a campaign has counted, and whoever has just answered it with a
\* grant, has voted for it in the term of its request.
CampaignOK(t, V) ==
  t.pc = "vote" =>
    /\ \A q \in t.got : <<q, t.req.term, t.home>> \in V
    /\ t.todo # {} /\ t.resp.type = "vote" /\ t.resp.granted =>
         <<Min(t.todo), t.req.term, t.home>> \in V

\* Whoever was elected in a term got the votes of a majority in that term.
QuorumVoted ==
  \A e \in elected : \E Q \in SUBSET Peer :
    Majority(Q) /\ \A q \in Q : <<q, e[1], e[2]>> \in votes

ElectionInv ==
  /\ \A c \in Client : CampaignOK(th[c], votes)
  /\ QuorumVoted

LEMMA CampaignStep ==
  ASSUME TypeInv, ElectionInv, votes \subseteq votes', NEW c \in Client,
         \A x \in Client \ {c} : th'[x] = th[x], CampaignOK(th'[c], votes')
  PROVE  \A x \in Client : CampaignOK(th'[x], votes')
<1> SUFFICES ASSUME NEW x \in Client PROVE CampaignOK(th'[x], votes')
  OBVIOUS
<1>1. CASE x = c
  BY <1>1
<1>2. CASE x # c
  BY <1>2 DEF ElectionInv, CampaignOK
<1> QED
  BY <1>1, <1>2

\* No answer, or a failed one, promises nothing.
LEMMA FailedKeepsCampaign ==
  ASSUME NEW t \in Thread, NEW V, CampaignOK(t, V)
  PROVE  CampaignOK([t EXCEPT !.resp = FailedMsg], V)
<1> DEFINE u == [t EXCEPT !.resp = FailedMsg]
<1>1. /\ u.pc = t.pc /\ u.got = t.got /\ u.req = t.req /\ u.home = t.home
      /\ u.resp = FailedMsg
  BY DEF Thread
<1>2. u.resp.type # "vote"
  BY <1>1 DEF FailedMsg
<1> HIDE DEF u
<1>3. CampaignOK(u, V)
  BY <1>1, <1>2 DEF CampaignOK
<1> QED
  BY <1>3 DEF u

LEMMA CampaignNext ==
  ASSUME TypeInv, ElectionInv, votes \subseteq votes', [Next]_vars
  PROVE  \A x \in Client : CampaignOK(th'[x], votes')
<1>0. th \in [Client -> Thread]
  BY DEF TypeInv, TypeOK
<1>1. CASE th' = th
  BY <1>1 DEF ElectionInv, CampaignOK
<1>2. ASSUME NEW c \in Client, NEW p \in Peer, NEW cmd,
             AlreadyLeader(c, p, cmd) \/ StartCampaign(c, p, cmd)
      PROVE  \A x \in Client : CampaignOK(th'[x], votes')
  <2>1. CASE AlreadyLeader(c, p, cmd)
    <3>1. \A x \in Client \ {c} : th'[x] = th[x]
      BY <1>0, <2>1 DEF AlreadyLeader
    <3>2. th'[c].pc # "vote"
      BY <1>0, <2>1 DEF AlreadyLeader, IdleThread
    <3> QED
      BY <3>1, <3>2, CampaignStep DEF CampaignOK
  <2>2. CASE StartCampaign(c, p, cmd)
    <3> DEFINE n == BecomeCandidate(raft[p], p)
               t == [IdleThread EXCEPT !.pc = "vote", !.home = p, !.cmd = cmd,
                       !.todo = Peer \ {p}, !.got = {p},
                       !.req = [type |-> "vote", term |-> n.term, from |-> p,
                                lastIndex |-> LastIndex(n), lastTerm |-> LastTerm(n)]]
    <3>1. th' = [th EXCEPT ![c] = t] /\ votes' = votes \cup {<<p, n.term, p>>}
      BY <2>2 DEF StartCampaign
    <3>2. t.got = {p} /\ t.home = p /\ t.req.term = n.term /\ t.resp.type = "none"
      BY DEF IdleThread, NoMsg
    <3> HIDE DEF t, n
    <3>3. CampaignOK(t, votes')
      BY <3>1, <3>2 DEF CampaignOK
    <3>4. th'[c] = t /\ \A x \in Client \ {c} : th'[x] = th[x]
      BY <1>0, <3>1
    <3> QED
      BY <3>3, <3>4, CampaignStep
  <2> QED
    BY <1>2, <2>1, <2>2
<1>3. ASSUME NEW c \in Client, NEW p \in Peer,
             PdTransferLeader(c, p) \/ \E cmd \in Command : Put(c, p, cmd)
      PROVE  \A x \in Client : CampaignOK(th'[x], votes')
  <2>1. CASE PdTransferLeader(c, p)
    <3>1. \A x \in Client \ {c} : th'[x] = th[x]
      BY <1>0, <2>1 DEF PdTransferLeader
    <3>2. th'[c].pc # "vote"
      BY <1>0, <2>1 DEF PdTransferLeader, IdleThread
    <3> QED
      BY <3>1, <3>2, CampaignStep DEF CampaignOK
  <2>2. CASE \E cmd \in Command : Put(c, p, cmd)
    BY <1>2, <2>2 DEF Put
  <2> QED
    BY <1>3, <2>1, <2>2
<1>4. ASSUME NEW c \in Client, Step(c)
      PROVE  \A x \in Client : CampaignOK(th'[x], votes')
  <2> DEFINE t == th[c]
  <2>0. t \in Thread /\ ThreadOK(t) /\ CampaignOK(t, votes)
    BY DEF TypeInv, TypeOK, ElectionInv
  <2>1. CASE TransferLeader(c)
    <3>1. th[c].home \in Peer
      BY <2>0, <2>1 DEF TransferLeader, ThreadOK
    <3> QED
      BY <1>2, <2>1, <3>1 DEF TransferLeader
  <2>2. CASE \/ TransferUnreachable(c) \/ LoseElection(c) \/ ProposeRefused(c)
             \/ NoQuorum(c) \/ PutReturns(c)
    <3>1. th' = [th EXCEPT ![c] = IdleThread]
      BY <2>2 DEF TransferUnreachable, LoseElection, ProposeRefused, NoQuorum,
                  PutReturns, Return
    <3>2. th'[c].pc # "vote" /\ \A x \in Client \ {c} : th'[x] = th[x]
      BY <1>0, <3>1 DEF IdleThread
    <3> QED
      BY <3>2, CampaignStep DEF CampaignOK
  <2>3. CASE VoteReturned(c)
    <3> DEFINE g == IF t.resp.type = "vote" /\ t.resp.granted
                    THEN t.got \cup {Dest(c)} ELSE t.got
               u == [t EXCEPT !.todo = t.todo \ {Dest(c)}, !.resp = NoMsg, !.got = g]
    <3>1. th' = [th EXCEPT ![c] = u] /\ t.todo # {} /\ t.pc = "vote"
      BY <1>0, <2>0, <2>3 DEF VoteReturned, Answered
    <3>2. \A q \in g : <<q, t.req.term, t.home>> \in votes
      BY <2>0, <3>1 DEF CampaignOK, Dest
    <3> HIDE DEF g
    <3>3. u.got = g /\ u.req = t.req /\ u.home = t.home /\ u.resp = NoMsg
      BY <2>0 DEF Thread
    <3> HIDE DEF u
    <3>4. CampaignOK(u, votes')
      BY <3>2, <3>3 DEF CampaignOK, NoMsg
    <3>5. th'[c] = u /\ \A x \in Client \ {c} : th'[x] = th[x]
      BY <1>0, <3>1
    <3> QED
      BY <3>4, <3>5, CampaignStep
  <2>4. CASE WinElection(c)
    <3>1. \A x \in Client \ {c} : th'[x] = th[x]
      BY <1>0, <2>4 DEF WinElection
    <3>2. th'[c].pc # "vote"
      BY <1>0, <2>4 DEF WinElection, IdleThread
    <3> QED
      BY <3>1, <3>2, CampaignStep DEF CampaignOK
  <2>5. CASE ProposeEntry(c)
    <3>1. \A x \in Client \ {c} : th'[x] = th[x]
      BY <1>0, <2>5 DEF ProposeEntry
    <3>2. th'[c].pc # "vote"
      BY <1>0, <2>5 DEF ProposeEntry, IdleThread
    <3> QED
      BY <3>1, <3>2, CampaignStep DEF CampaignOK
  <2>6. CASE SendAppend(c) \/ StoreDone(c) \/ BackOff(c) \/ Commit(c)
    <3>1. \A x \in Client \ {c} : th'[x] = th[x]
      BY <1>0, <2>6 DEF SendAppend, StoreDone, BackOff, Commit
    <3>2. th'[c].pc # "vote"
      <4>1. CASE SendAppend(c)
        BY <1>0, <2>0, <4>1, SMTT(20) DEF SendAppend, Thread
      <4>2. CASE StoreDone(c)
        BY <1>0, <2>0, <4>2, SMTT(20) DEF StoreDone, Thread
      <4>3. CASE BackOff(c)
        BY <1>0, <2>0, <4>3 DEF BackOff, Thread
      <4>4. CASE Commit(c)
        BY <1>0, <2>0, <4>4 DEF Commit, Thread
      <4> QED
        BY <2>6, <4>1, <4>2, <4>3, <4>4
    <3> QED
      BY <3>1, <3>2, CampaignStep DEF CampaignOK
  <2>7. CASE ConnectFails(c)
    <3>1. th' = [th EXCEPT ![c] = [t EXCEPT !.resp = FailedMsg]] /\ votes' = votes
      BY <1>0, <2>7 DEF ConnectFails, historyVars
    <3>2. CampaignOK([t EXCEPT !.resp = FailedMsg], votes)
      BY <2>0, FailedKeepsCampaign
    <3>3. /\ th'[c] = [t EXCEPT !.resp = FailedMsg]
          /\ \A x \in Client \ {c} : th'[x] = th[x]
      BY <1>0, <3>1
    <3> QED
      BY <3>1, <3>2, <3>3, CampaignStep
  <2>8. CASE Receive(c)
    <3> DEFINE p == Dest(c)
               r == ReplyOf(raft[p], t.req)
               u == [t EXCEPT !.resp = r]
    <3>1. Calling(c) /\ Handle(p, t.req) /\ th' = [th EXCEPT ![c] = u]
      BY <1>0, <2>8 DEF Receive
    <3>2. /\ u.pc = t.pc /\ u.got = t.got /\ u.todo = t.todo /\ u.req = t.req
          /\ u.home = t.home /\ u.resp = r
      BY <2>0 DEF Thread
    <3>3. ASSUME t.pc = "vote", r.granted
          PROVE  <<p, t.req.term, t.home>> \in votes'
      <4>1. t.req \in VoteRequest /\ t.req.from = t.home
        BY <2>0, <3>3 DEF ThreadOK
      <4>2. t.req.type = "vote"
        BY <4>1 DEF VoteRequest
      <4>3. r = [type |-> "vote", granted |-> GrantsVote(raft[p], t.req)]
        BY <4>2 DEF ReplyOf
      <4>4. GrantsVote(raft[p], t.req)
        BY <3>3, <4>3
      <4>5. votes' = votes \cup {<<p, t.req.term, t.req.from>>}
        BY <3>1, <4>2, <4>4 DEF Handle
      <4> QED
        BY <4>1, <4>5
    <3> HIDE DEF u, r
    <3>4. CampaignOK(u, votes')
      BY <2>0, <3>2, <3>3 DEF CampaignOK, Dest
    <3>5. th'[c] = u /\ \A x \in Client \ {c} : th'[x] = th[x]
      BY <1>0, <3>1
    <3> QED
      BY <3>4, <3>5, CampaignStep
  <2> QED
    BY <1>4, <2>1, <2>2, <2>3, <2>4, <2>5, <2>6, <2>7, <2>8 DEF Step
<1>5. ASSUME NEW c \in Client, ConnectionBreaks(c)
      PROVE  \A x \in Client : CampaignOK(th'[x], votes')
  <2> DEFINE u == [th[c] EXCEPT !.resp = FailedMsg]
  <2>1. th' = [th EXCEPT ![c] = u] /\ votes' = votes
    BY <1>0, <1>5 DEF ConnectionBreaks, historyVars
  <2>2. CampaignOK(u, votes)
    BY <1>0, FailedKeepsCampaign DEF ElectionInv
  <2>3. th'[c] = u /\ \A x \in Client \ {c} : th'[x] = th[x]
    BY <1>0, <2>1
  <2> QED
    BY <2>1, <2>2, <2>3, CampaignStep
<1>6. ASSUME NEW p \in Peer, NEW image, Dies(p, image)
      PROVE  \A x \in Client : CampaignOK(th'[x], votes')
  <2> SUFFICES ASSUME NEW x \in Client PROVE CampaignOK(th'[x], votes')
    OBVIOUS
  <2>1. votes' = votes
    BY <1>6 DEF Dies, historyVars
  <2>2. th'[x] \in {IdleThread, [th[x] EXCEPT !.resp = FailedMsg], th[x]}
    BY <1>6 DEF Dies
  <2>3. CampaignOK(IdleThread, votes)
    BY DEF CampaignOK, IdleThread
  <2>4. CampaignOK(th[x], votes) /\ CampaignOK([th[x] EXCEPT !.resp = FailedMsg], votes)
    BY <1>0, FailedKeepsCampaign DEF ElectionInv
  <2> QED
    BY <2>1, <2>2, <2>3, <2>4
<1>7. CASE ReceiveOrphan
  BY <1>1, <1>7 DEF ReceiveOrphan
<1>8. ASSUME NEW p \in Peer, Restart(p) PROVE th' = th
  BY <1>8 DEF Restart
<1>9. ASSUME NEW p \in Peer, Crash(p) \/ CrashInCampaign(p)
      PROVE  \A x \in Client : CampaignOK(th'[x], votes')
  BY <1>6, <1>9, CrashImages
<1>10. ASSUME NEW c \in Client, CrashInHandler(c) \/ CrashInCommit(c)
       PROVE  \A x \in Client : CampaignOK(th'[x], votes')
  BY <1>6, <1>10, CrashImages
<1>11. CASE UNCHANGED vars
  BY <1>1, <1>11 DEF vars
<1> QED
  BY <1>1, <1>3, <1>4, <1>5, <1>7, <1>8, <1>9, <1>10, <1>11 DEF Next

\* Only WinElection makes a leader, and it has counted a majority.
LEMMA ElectedNext ==
  ASSUME TypeInv, ElectionInv, votes \subseteq votes', [Next]_vars
  PROVE  QuorumVoted'
<1>1. ASSUME elected' = elected PROVE QuorumVoted'
  <2> SUFFICES ASSUME NEW e \in elected
               PROVE  \E Q \in SUBSET Peer :
                        Majority(Q) /\ \A q \in Q : <<q, e[1], e[2]>> \in votes'
    BY <1>1 DEF QuorumVoted, Majority
  <2>1. PICK Q \in SUBSET Peer :
          Majority(Q) /\ \A q \in Q : <<q, e[1], e[2]>> \in votes
    BY DEF ElectionInv, QuorumVoted
  <2> QED
    BY <2>1
<1>2. ASSUME NEW c \in Client, WinElection(c) PROVE QuorumVoted'
  <2> DEFINE t == th[c]
  <2>1. t \in Thread /\ CampaignOK(t, votes)
    BY DEF TypeInv, TypeOK, ElectionInv
  <2>2. /\ t.pc = "vote" /\ Majority(t.got)
        /\ elected' = elected \cup {<<t.req.term, t.home>>}
    BY <1>2 DEF WinElection
  <2>3. t.got \in SUBSET Peer
    BY <2>1 DEF Thread
  <2>4. \A q \in t.got : <<q, t.req.term, t.home>> \in votes'
    BY <2>1, <2>2 DEF CampaignOK
  <2> HIDE DEF t
  <2> SUFFICES ASSUME NEW e \in elected'
               PROVE  \E Q \in SUBSET Peer :
                        Majority(Q) /\ \A q \in Q : <<q, e[1], e[2]>> \in votes'
    BY DEF QuorumVoted, Majority
  <2>5. CASE e \in elected
    <3>1. PICK Q \in SUBSET Peer :
            Majority(Q) /\ \A q \in Q : <<q, e[1], e[2]>> \in votes
      BY <2>5 DEF ElectionInv, QuorumVoted
    <3> QED
      BY <3>1
  <2>6. CASE e = <<t.req.term, t.home>>
    <3>1. e[1] = t.req.term /\ e[2] = t.home
      BY <2>6
    <3> QED
      BY <2>2, <2>3, <2>4, <3>1
  <2> QED
    BY <2>2, <2>5, <2>6
<1>3. ASSUME NEW c \in Client, Step(c), ~WinElection(c) PROVE elected' = elected
  BY <1>3 DEF Step, TransferLeader, TransferUnreachable, VoteReturned, LoseElection,
              ProposeEntry, ProposeRefused, SendAppend, StoreDone, BackOff, Commit,
              NoQuorum, PutReturns, Receive, ConnectFails, historyVars
<1>4. ASSUME NEW p \in Peer, NEW image, Dies(p, image) PROVE elected' = elected
  BY <1>4 DEF Dies, historyVars
<1>5. ASSUME NEW c \in Client, NEW p \in Peer,
             PdTransferLeader(c, p) \/ \E cmd \in Command : Put(c, p, cmd)
      PROVE  elected' = elected
  BY <1>5 DEF PdTransferLeader, Put, historyVars
<1>6. ASSUME NEW c \in Client, CrashInHandler(c) \/ CrashInCommit(c)
      PROVE  elected' = elected
  BY <1>4, <1>6, CrashImages
<1>7. ASSUME NEW p \in Peer, Crash(p) \/ CrashInCampaign(p) PROVE elected' = elected
  BY <1>4, <1>7, CrashImages
<1>8. ASSUME \/ UNCHANGED vars \/ ReceiveOrphan
             \/ \E c \in Client : ConnectionBreaks(c)
             \/ \E p \in Peer : Restart(p)
      PROVE  elected' = elected
  BY <1>8 DEF vars, ReceiveOrphan, ConnectionBreaks, Restart, historyVars
<1> QED
  BY <1>1, <1>2, <1>3, <1>5, <1>6, <1>7, <1>8 DEF Next

LEMMA ElectionInit == Init => ElectionInv
BY DEF Init, ElectionInv, CampaignOK, QuorumVoted, IdleThread

LEMMA ElectionStep == TypeInv /\ VoteInv /\ ElectionInv /\ [Next]_vars => ElectionInv'
<1> SUFFICES ASSUME TypeInv, VoteInv, ElectionInv, [Next]_vars PROVE ElectionInv'
  OBVIOUS
<1>1. votes \subseteq votes'
  BY HardStateNext DEF HardStateStep, NewVotesSaved
<1>2. \A c \in Client : CampaignOK(th'[c], votes')
  BY <1>1, CampaignNext
<1>3. QuorumVoted'
  BY <1>1, ElectedNext
<1> QED
  BY <1>2, <1>3 DEF ElectionInv

\* Two majorities of the peers have a peer in common.
LEMMA QuorumsMeet ==
  ASSUME NEW Q \in SUBSET Peer, NEW R \in SUBSET Peer, Majority(Q), Majority(R)
  PROVE  Q \cap R # {}
<1>1. IsFiniteSet(Peer) /\ Cardinality(Peer) \in Nat
  BY PeerAssumption, FS_CardinalityType
<1>2. Cardinality(Q) \in Nat /\ Cardinality(R) \in Nat
  BY <1>1, FS_Subset, FS_CardinalityType
<1>3. Cardinality(Q) + Cardinality(R) > Cardinality(Peer)
  BY <1>1, <1>2 DEF Majority
<1> QED
  BY <1>1, <1>3, FS_MajoritiesIntersect

\* Two majorities share a peer, and that peer has one vote per term.
LEMMA OneWinner ==
  ASSUME TypeInv, VoteOncePerTerm, QuorumVoted
  PROVE  ElectedOncePerTerm
<1> SUFFICES ASSUME NEW e \in elected, NEW f \in elected, e[1] = f[1]
             PROVE  e[2] = f[2]
  BY DEF ElectedOncePerTerm
<1>1. PICK Q \in SUBSET Peer :
        Majority(Q) /\ \A q \in Q : <<q, e[1], e[2]>> \in votes
  BY DEF QuorumVoted
<1>2. PICK R \in SUBSET Peer :
        Majority(R) /\ \A q \in R : <<q, f[1], f[2]>> \in votes
  BY DEF QuorumVoted
<1>3. Q \cap R # {}
  BY <1>1, <1>2, QuorumsMeet
<1>4. PICK q \in Q \cap R : TRUE
  BY <1>3
<1>5. <<q, e[1], e[2]>> \in votes /\ <<q, f[1], f[2]>> \in votes
  BY <1>1, <1>2, <1>4
<1>6. \A v, w \in votes : v[1] = w[1] /\ v[2] = w[2] => v[3] = w[3]
  BY DEF VoteOncePerTerm
<1> QED
  BY <1>5, <1>6

\* Campaigns of EnsureLeader that collect a majority of votes for the same
\* request term are campaigns of one peer, in a region of any size.
THEOREM OneWinnerPerTerm == Spec => []ElectedOncePerTerm
<1>1. TypeInv /\ VoteInv /\ ElectionInv => ElectedOncePerTerm
  BY OneWinner DEF VoteInv, ElectionInv
<1> QED
  BY <1>1, TypeInit, TypeStep, VoteInit, VoteStep, ElectionInit, ElectionStep,
     PTL DEF Spec

-----------------------------------------------------------------------------
(***************************************************************************)
(* What DistributedRegion guarantees when its operations do not overlap:   *)
(* the log, the leaders and the applied commands are those of Raft, for    *)
(* every number of peers, operations, crashes, lost calls and attempts.    *)
(***************************************************************************)

-----------------------------------------------------------------------------
\* The data directory as a copy of the memory.

Blank(d) ==
  d.term = 0 /\ d.voted = None /\ d.commit = 0 /\ d.applied = 0 /\ d.log = <<>>

SameState(n, d) ==
  /\ n.term = d.term /\ n.voted = d.voted
  /\ n.commit = d.commit /\ n.applied = d.applied /\ n.log = d.log

\* The log of a data directory reaches its two indexes.
Reaches(d) == d.commit <= Len(d.log) /\ d.applied <= Len(d.log)

\* Memory and data directory are in step, and what has no hard state is empty.
SavedInv ==
  \A p \in Peer :
    /\ disk[p].log \in Seq(Entry) /\ Reaches(disk[p])
    /\ ~HasHardState(disk[p]) => Blank(disk[p])
    /\ up[p] => SameState(raft[p], disk[p])
    /\ raft[p].role # "Follower" => HasHardState(disk[p])

LEMMA SaveAll ==
  ASSUME NEW d, IsDisk(d), NEW n \in Node
  PROVE  LET e == SaveHardState(d, n)
         IN  /\ IsDisk(e) /\ HasHardState(e) /\ e.log = d.log /\ e.kv = d.kv
             /\ e.term = n.term /\ e.voted = n.voted
             /\ e.commit = n.commit /\ e.applied = n.applied
<1> DEFINE e == SaveHardState(d, n)
<1>1. /\ DOMAIN d = {"saved", "term", "voted", "commit", "applied", "log", "kv"}
      /\ d.saved \in 0 .. 4
  BY DEF IsDisk, HardStateKeys
<1>2. /\ e.log = d.log /\ e.kv = d.kv /\ e.term = n.term /\ e.voted = n.voted
      /\ e.commit = n.commit /\ e.applied = n.applied
      /\ e.saved = IF 4 > d.saved THEN 4 ELSE d.saved
  BY <1>1 DEF SaveHardState, SaveHardStatePrefix, HardStateKeys
<1>3. IsDisk(e)
  <2>1. HardStateKeys \in 0 .. HardStateKeys
    BY DEF HardStateKeys
  <2> QED
    BY <2>1, SaveHardStateFacts DEF SaveHardState
<1> HIDE DEF e
<1>4. HasHardState(e)
  BY <1>1, <1>2 DEF HasHardState, HardStateKeys
<1> QED
  BY <1>2, <1>3, <1>4 DEF e

\* AppendLog of the entry that Propose has pushed.
Written(d, e, l) ==
  /\ e.log = l /\ e.kv = d.kv /\ e.saved = d.saved /\ e.term = d.term
  /\ e.voted = d.voted /\ e.commit = d.commit /\ e.applied = d.applied

LEMMA AppendLogIsLog ==
  ASSUME NEW d, IsDisk(d), d.log \in Seq(Entry), NEW x \in Entry,
         NEW l, l = Append(d.log, x), NEW e, e = AppendLog(d, l, Len(l))
  PROVE  Written(d, e, l)
<1> DEFINE f == [j \in DOMAIN d.log \cup {Len(l)} |->
                   IF j = Len(l) THEN l[Len(l)] ELSE d.log[j]]
<1>1. DOMAIN d = {"saved", "term", "voted", "commit", "applied", "log", "kv"}
  BY DEF IsDisk
<1>2. /\ e.log = f /\ e.kv = d.kv /\ e.saved = d.saved /\ e.term = d.term
      /\ e.voted = d.voted /\ e.commit = d.commit /\ e.applied = d.applied
  <2> HIDE DEF f
  <2>1. e = [d EXCEPT !.log = f]
    BY DEF AppendLog, f
  <2> QED
    BY <1>1, <2>1
<1>3. /\ l \in Seq(Entry) /\ Len(l) = Len(d.log) + 1 /\ Len(d.log) \in Nat
      /\ DOMAIN d.log = 1 .. Len(d.log) /\ DOMAIN l = 1 .. Len(l)
      /\ \A i \in 1 .. Len(d.log) : l[i] = d.log[i]
  OBVIOUS
<1>4. DOMAIN f = DOMAIN l
  BY <1>3
<1>5. \A i \in DOMAIN l : f[i] = l[i]
  BY <1>3
<1>6. f = l
  <2>1. l = [i \in DOMAIN l |-> l[i]]
    BY <1>3
  <2>2. f = [i \in DOMAIN f |-> f[i]]
    OBVIOUS
  <2> HIDE DEF f
  <2> QED
    BY <1>4, <1>5, <2>1, <2>2
<1> QED
  BY <1>2, <1>6 DEF Written

\* DeleteLogsFrom and the AppendLogs after it leave the log in memory.
LEMMA PersistLogIsLog ==
  ASSUME NEW d, IsDisk(d), d.log \in Seq(Entry), NEW l \in Seq(Entry),
         NEW first \in 1 .. Len(d.log) + 1, first - 1 <= Len(l),
         \A i \in 1 .. first - 1 : l[i] = d.log[i]
  PROVE  LET e == PersistLogFrom(d, l, first)
         IN  IsDisk(e) /\ e.log = l /\ e.kv = d.kv
<1> DEFINE e == PersistLogFrom(d, l, first)
           S == {i \in DOMAIN d.log : i < first} \cup first .. Len(l)
           f == [j \in S |-> IF j < first THEN d.log[j] ELSE l[j]]
<1>1. DOMAIN d = {"saved", "term", "voted", "commit", "applied", "log", "kv"}
  BY DEF IsDisk
<1>2. e.log = f /\ e.kv = d.kv
  <2>1. e = [d EXCEPT !.log = f]
    BY DEF PersistLogFrom, PersistLogUpTo
  <2> HIDE DEF f
  <2> QED
    BY <1>1, <2>1
<1>3. /\ Len(d.log) \in Nat /\ DOMAIN d.log = 1 .. Len(d.log)
      /\ Len(l) \in Nat /\ DOMAIN l = 1 .. Len(l) /\ first \in Nat \ {0}
  OBVIOUS
<1>4. S = DOMAIN l
  BY <1>3
<1>5. \A i \in DOMAIN l : f[i] = l[i]
  BY <1>3, <1>4
<1>6. f = l
  <2>1. l = [i \in DOMAIN l |-> l[i]] /\ DOMAIN f = DOMAIN l
    BY <1>3, <1>4
  <2>2. f = [i \in DOMAIN f |-> f[i]]
    OBVIOUS
  <2> HIDE DEF f, S
  <2> QED
    BY <1>5, <2>1, <2>2
<1>7. IsDisk(e)
  BY <1>3, PersistLogFacts DEF PersistLogFrom
<1> QED
  BY <1>2, <1>6, <1>7 DEF e

\* Applying commands writes keys and nothing else.
LEMMA ApplyKeepsRest ==
  ASSUME NEW d, IsDisk(d), NEW log, NEW from, NEW to
  PROVE  LET e == ApplyKvCommands(d, log, from, to)
         IN  /\ e.log = d.log /\ e.saved = d.saved /\ e.term = d.term
             /\ e.voted = d.voted /\ e.commit = d.commit /\ e.applied = d.applied
<1>1. DOMAIN d = {"saved", "term", "voted", "commit", "applied", "log", "kv"}
  BY DEF IsDisk
<1> DEFINE kv == [k \in Key |->
              IF {i \in from .. to : k \in DOMAIN log[i].cmd} = {} THEN d.kv[k]
              ELSE log[Max({i \in from .. to : k \in DOMAIN log[i].cmd})].cmd[k]]
<1>2. ApplyKvCommands(d, log, from, to) = [d EXCEPT !.kv = kv]
  BY DEF ApplyKvCommands
<1> HIDE DEF kv
<1> QED
  BY <1>1, <1>2

-----------------------------------------------------------------------------
\* AppendEntries.

\* The loop over the entries keeps the first `keep' entries of the log of n, all
\* that agree with the request.  Either the request has no more, or it replaces
\* the rest.
Agree(n, req, keep) ==
  /\ keep \in 0 .. Len(n.log)
  /\ req.prevIndex <= keep /\ keep <= req.prevIndex + Len(req.entries)
  /\ \A i \in req.prevIndex + 1 .. keep :
       req.entries[i - req.prevIndex].term = n.log[i].term

Replaced(n, req, m, keep) ==
  /\ keep < req.prevIndex + Len(req.entries)
  /\ keep < Len(n.log) =>
       n.log[keep + 1].term # req.entries[keep + 1 - req.prevIndex].term
  /\ m.log \in Seq(Entry) /\ Len(m.log) = req.prevIndex + Len(req.entries)
  /\ \A i \in 1 .. keep : m.log[i] = n.log[i]
  /\ \A i \in keep + 1 .. Len(m.log) : m.log[i] = req.entries[i - req.prevIndex]
  /\ m.commit = Least(n.commit, keep) /\ m.applied = Least(n.applied, keep)

MergedTo(n, req, m, keep) ==
  /\ Agree(n, req, keep)
  /\ \/ m = n /\ keep = req.prevIndex + Len(req.entries)
     \/ Replaced(n, req, m, keep)

LEMMA MergeLog ==
  ASSUME NEW n \in Node, NEW req \in AppendRequest,
         req.prevIndex <= Len(n.log), NEW m, m = MergeEntries(n, req)
  PROVE  \E keep \in Nat : MergedTo(n, req, m, keep)
<1> DEFINE prev == req.prevIndex
           es   == req.entries
<1>1. /\ n.log \in Seq(Entry) /\ Len(n.log) \in Nat /\ prev \in Nat
      /\ es \in Seq(Entry) /\ Len(es) \in Nat /\ DOMAIN es = 1 .. Len(es)
      /\ n.commit \in Nat /\ n.applied \in Nat
  BY DEF Node, AppendRequest
<1>2. ASSUME NEW i \in 1 .. Len(es), i \notin NewEntries(n, req)
      PROVE  prev + i <= Len(n.log) /\ es[i].term = n.log[prev + i].term
  BY <1>1, <1>2 DEF NewEntries
<1>3. CASE NewEntries(n, req) = {}
  <2> DEFINE keep == prev + Len(es)
  <2>1. m = n
    BY <1>3 DEF MergeEntries
  <2>2. keep <= Len(n.log)
    <3>1. CASE Len(es) = 0
      BY <1>1, <3>1
    <3>2. CASE Len(es) # 0
      <4>1. Len(es) \in 1 .. Len(es)
        BY <1>1, <3>2
      <4> QED
        BY <1>2, <1>3, <4>1
    <3> QED
      BY <3>1, <3>2
  <2>3. ASSUME NEW i \in prev + 1 .. keep PROVE es[i - prev].term = n.log[i].term
    <3>1. i - prev \in 1 .. Len(es) /\ prev + (i - prev) = i
      BY <1>1
    <3> QED
      BY <1>2, <1>3, <3>1
  <2>4. keep \in Nat /\ keep \in 0 .. Len(n.log) /\ prev <= keep /\ keep <= prev + Len(es)
    BY <1>1, <2>2
  <2>5. MergedTo(n, req, m, keep)
    BY <2>1, <2>3, <2>4 DEF MergedTo, Agree
  <2> QED
    BY <2>4, <2>5
<1>4. CASE NewEntries(n, req) # {}
  <2> DEFINE k    == Min(NewEntries(n, req))
             keep == prev + k - 1
             l    == SubSeq(n.log, 1, keep) \o SubSeq(es, k, Len(es))
  <2>1. m = [n EXCEPT !.log = l, !.commit = Least(n.commit, keep),
                      !.applied = Least(n.applied, keep)]
    BY <1>4 DEF MergeEntries
  <2>2. /\ k \in 1 .. Len(es) /\ keep \in 0 .. Len(n.log)
    BY <1>4, FirstNewEntry
  <2>3. k \in NewEntries(n, req) /\ \A j \in NewEntries(n, req) : k <= j
    <3>1. NewEntries(n, req) \in SUBSET Nat
      BY <1>1 DEF NewEntries
    <3> QED
      BY <1>4, <3>1, MinOfNats
  <2>4. keep < Len(n.log) => n.log[keep + 1].term # es[keep + 1 - prev].term
    <3>1. keep + 1 = prev + k /\ keep + 1 - prev = k
      BY <1>1, <2>2
    <3>2. prev + k > Len(n.log) \/ n.log[prev + k].term # es[k].term
      BY <2>3 DEF NewEntries
    <3> QED
      BY <1>1, <2>2, <3>1, <3>2
  <2>5. ASSUME NEW i \in prev + 1 .. keep PROVE es[i - prev].term = n.log[i].term
    <3>1. i - prev \in 1 .. Len(es) /\ prev + (i - prev) = i /\ ~(k <= i - prev)
      BY <1>1, <2>2
    <3>2. i - prev \notin NewEntries(n, req)
      BY <2>3, <3>1
    <3> QED
      BY <1>2, <3>1, <3>2
  <2>6. /\ keep \in Nat /\ prev <= keep /\ keep < prev + Len(es)
        /\ k = keep + 1 - prev /\ k \in Nat
    BY <1>1, <2>2
  <2> HIDE DEF k, keep
  <2> DEFINE a == SubSeq(n.log, 1, keep)
             b == SubSeq(es, k, Len(es))
  <2>7. a \in Seq(Entry) /\ Len(a) = keep /\ \A i \in 1 .. keep : a[i] = n.log[i]
    <3>1. \A i \in 1 .. keep : n.log[i] \in Entry
      BY <1>1, <2>2
    <3> QED
      BY <2>2, <2>6, <3>1, SubSeqProperties
  <2>8. /\ b \in Seq(Entry) /\ Len(b) = Len(es) - k + 1
        /\ \A i \in 1 .. Len(es) - k + 1 : b[i] = es[k + i - 1]
    <3> HIDE DEF es, prev
    <3>1. \A i \in k .. Len(es) : es[i] \in Entry
      BY <1>1, <2>2
    <3>2. k \in Int /\ Len(es) \in Int /\ k <= Len(es)
      BY <1>1, <2>2
    <3>3. /\ b \in Seq(Entry) /\ Len(b) = IF k <= Len(es) THEN Len(es) - k + 1 ELSE 0
          /\ \A i \in 1 .. Len(es) - k + 1 : b[i] = es[k + i - 1]
      BY <3>1, <3>2, SubSeqProperties
    <3> QED
      BY <3>2, <3>3
  <2>0. l = a \o b
    OBVIOUS
  <2> HIDE DEF a, b, l, es, prev
  <2>9. /\ l \in Seq(Entry) /\ Len(l) = keep + Len(b)
        /\ \A i \in 1 .. Len(l) : l[i] = IF i <= keep THEN a[i] ELSE b[i - keep]
    BY <2>0, <2>7, <2>8, ConcatProperties
  <2>10. Len(l) = prev + Len(es)
    BY <1>1, <2>6, <2>8, <2>9
  <2>11. \A i \in 1 .. keep : l[i] = n.log[i]
    BY <1>1, <2>6, <2>7, <2>9, <2>10
  <2>12. ASSUME NEW i \in keep + 1 .. Len(l) PROVE l[i] = es[i - prev]
    <3>1. /\ i - keep \in 1 .. Len(es) - k + 1 /\ k + (i - keep) - 1 = i - prev
          /\ ~(i <= keep) /\ i \in 1 .. Len(l)
      BY <1>1, <2>6, <2>10
    <3>2. l[i] = b[i - keep]
      BY <2>9, <3>1
    <3>3. b[i - keep] = es[k + (i - keep) - 1]
      BY <2>8, <3>1
    <3> QED
      BY <3>1, <3>2, <3>3
  <2>13. /\ m.log = l /\ m.commit = Least(n.commit, keep)
         /\ m.applied = Least(n.applied, keep)
    BY <2>1 DEF Node
  <2>14. MergedTo(n, req, m, keep)
    BY <2>2, <2>4, <2>5, <2>6, <2>9, <2>10, <2>11, <2>12, <2>13
       DEF MergedTo, Agree, Replaced, es, prev
  <2> QED
    BY <2>6, <2>14
<1> QED
  BY <1>3, <1>4

\* A vote request, or an AppendEntries that is not accepted: the log and the
\* indexes stay, and a leader that remains one stays in its term.
QuietHandler(n, m) ==
  /\ m.log = n.log /\ m.commit = n.commit /\ m.applied = n.applied
  /\ m.term >= n.term
  /\ m.role = "Leader" => n.role = "Leader" /\ m.term = n.term

Accepted(n, req) == req.type = "append" /\ AcceptsEntries(n, req)

LEMMA QuietHandlerFacts ==
  ASSUME NEW n \in Node, NEW req \in Request, ~Accepted(n, req)
  PROVE  QuietHandler(n, HandlerNode(n, req))
<1>1. n.term \in Nat /\ req.term \in Nat
  BY DEF Node, Request, VoteRequest, AppendRequest
<1>2. CASE req.type = "vote"
  <2>1. HandlerNode(n, req) = HandleRequestVote(n, req)
    BY <1>2 DEF HandlerNode
  <2> QED
    BY <1>1, <2>1 DEF HandleRequestVote, VoteTerm, BecomeFollower, Node, QuietHandler
<1>3. CASE req.type # "vote"
  <2>1. req.type = "append"
    BY <1>3, RequestCases
  <2>2. ~AcceptsEntries(n, req)
    BY <2>1 DEF Accepted
  <2>3. HandlerNode(n, req) = HandleAppendEntries(n, req)
    BY <1>3, <2>2 DEF HandlerNode
  <2>4. HandlerNode(n, req) = IF req.term < n.term THEN n ELSE BecomeFollower(n, req.term)
    BY <2>2, <2>3 DEF HandleAppendEntries
  <2> QED
    BY <1>1, <2>4 DEF BecomeFollower, Node, QuietHandler
<1> QED
  BY <1>2, <1>3

\* An accepted AppendEntries, by the node g after the loop over its entries.
Follows(n, req, g, m) ==
  /\ m.term = req.term /\ m.role = "Follower" /\ m.log = g.log
  /\ m.commit = IF req.commit > g.commit THEN Least(req.commit, Len(g.log)) ELSE g.commit
  /\ m.applied = IF g.applied < m.commit THEN m.commit ELSE g.applied

LEMMA AcceptingHandler ==
  ASSUME NEW n \in Node, InLog(n), NEW req \in Request, Accepted(n, req)
  PROVE  \E f \in Node, g \in Node :
           /\ f.log = n.log /\ f.commit = n.commit /\ f.applied = n.applied
           /\ InLog(f) /\ InLog(g)
           /\ req \in AppendRequest /\ req.prevIndex <= Len(n.log)
           /\ req.prevIndex # 0 => n.log[req.prevIndex].term = req.prevTerm
           /\ req.term >= n.term /\ g = MergeEntries(f, req)
           /\ Follows(n, req, g, HandlerNode(n, req))
           /\ HandleAppendEntries(n, req).log = g.log
           /\ HandleAppendEntries(n, req).applied = g.applied
           /\ HandleAppendEntries(n, req).commit = HandlerNode(n, req).commit
<1> DEFINE f == BecomeFollower(n, req.term)
           g == MergeEntries(f, req)
           h == HandleAppendEntries(n, req)
           m == HandlerNode(n, req)
<1>1. req \in AppendRequest /\ AcceptsEntries(n, req) /\ req.type = "append"
  BY RequestCases DEF Accepted
<1>2. /\ req.term \in Nat /\ n.term \in Nat /\ Len(n.log) \in Nat /\ req.prevIndex \in Nat
      /\ req.commit \in Nat
  BY <1>1 DEF AppendRequest, Node
<1>3. /\ req.term >= n.term /\ req.prevIndex <= Len(n.log)
      /\ req.prevIndex # 0 => n.log[req.prevIndex].term = req.prevTerm
  BY <1>1, <1>2 DEF AcceptsEntries, HasLogAt
<1>4. /\ f \in Node /\ f.log = n.log /\ f.commit = n.commit /\ f.applied = n.applied
      /\ f.term = req.term /\ f.role = "Follower"
  <2>1. /\ f \in Node /\ f.log = n.log /\ f.commit = n.commit /\ f.applied = n.applied
        /\ f.term = IF req.term > n.term THEN req.term ELSE n.term
    BY <1>2, BecomeFollowerFacts
  <2>2. f.role = "Follower"
    BY DEF BecomeFollower, Node
  <2> QED
    BY <1>2, <1>3, <2>1, <2>2
<1>5. InLog(f)
  BY <1>4 DEF InLog
<1> HIDE DEF f
<1>6. g \in Node /\ InLog(g) /\ g.term = f.term
  BY <1>1, <1>3, <1>4, <1>5, MergeEntriesFacts
<1>7. g.role = f.role
  BY <1>4 DEF MergeEntries, Node
<1>8. h = IF req.commit > g.commit THEN [g EXCEPT !.commit = Least(req.commit, LastIndex(g))]
          ELSE g
  BY <1>1, <1>2, <1>3 DEF HandleAppendEntries, f
<1>9. m = TakeCommittedEntries(h)
  BY <1>1 DEF HandlerNode
<1> HIDE DEF g, h, m
<1>10. /\ h.log = g.log /\ h.applied = g.applied /\ h.term = g.term /\ h.role = g.role
       /\ h.commit = IF req.commit > g.commit THEN Least(req.commit, Len(g.log)) ELSE g.commit
       /\ DOMAIN h = DOMAIN g
  BY <1>6, <1>8 DEF LastIndex, Node
<1>11. /\ m.log = h.log /\ m.commit = h.commit /\ m.term = h.term /\ m.role = h.role
       /\ m.applied = IF h.applied < h.commit THEN h.commit ELSE h.applied
  <2>1. DOMAIN h = {"role", "term", "voted", "commit", "applied", "log"}
    BY <1>6, <1>10 DEF Node
  <2> QED
    BY <1>9, <2>1 DEF TakeCommittedEntries
<1>12. Follows(n, req, g, m)
  BY <1>4, <1>6, <1>7, <1>10, <1>11 DEF Follows
<1> QED
  BY <1>1, <1>3, <1>4, <1>5, <1>6, <1>10, <1>11, <1>12 DEF g, h, m

\* What a handler has saved when it answers is the node it leaves behind.
LEMMA HandlerSaves ==
  ASSUME NEW d, IsDisk(d), d.log \in Seq(Entry),
         NEW n \in Node, InLog(n), n.log = d.log, NEW req \in Request
  PROVE  LET m == HandlerNode(n, req)
             h == HandleAppendEntries(n, req)
             e == HandlerDisk(d, n, req)
         IN  /\ IsDisk(e) /\ HasHardState(e) /\ SameState(m, e) /\ e.log \in Seq(Entry)
             /\ ~Accepted(n, req) => e.kv = d.kv
             /\ Accepted(n, req) =>
                  e.kv = ApplyKvCommands(d, m.log, h.applied + 1, m.commit).kv
<1> DEFINE m == HandlerNode(n, req)
           h == HandleAppendEntries(n, req)
           e == HandlerDisk(d, n, req)
           l == IF req.entries = <<>> THEN d ELSE PersistLogFrom(d, h.log, req.prevIndex + 1)
           b == ApplyCommitted(l, h)
<1>1. m \in Node /\ m.log \in Seq(Entry)
  <2>1. m \in Node
    BY HandlerNodeFacts
  <2> QED
    BY <2>1 DEF Node
<1>2. CASE ~Accepted(n, req)
  <2>1. e = SaveHardState(d, m)
    BY <1>2 DEF HandlerDisk, Accepted
  <2>2. m.log = n.log
    BY <1>2, QuietHandlerFacts DEF QuietHandler
  <2> HIDE DEF m, e
  <2> QED
    BY <1>1, <1>2, <2>1, <2>2, SaveAll DEF SameState, m, e
<1>3. CASE Accepted(n, req)
  <2>1. PICK f \in Node, g \in Node :
           /\ f.log = n.log
           /\ req \in AppendRequest /\ req.prevIndex <= Len(n.log)
           /\ g = MergeEntries(f, req)
           /\ Follows(n, req, g, HandlerNode(n, req))
           /\ HandleAppendEntries(n, req).log = g.log
           /\ HandleAppendEntries(n, req).commit = HandlerNode(n, req).commit
    BY <1>3, AcceptingHandler
  <2>2. m.log = g.log /\ h.log = g.log /\ h.commit = m.commit /\ g.log \in Seq(Entry)
    BY <2>1 DEF Follows, Node
  <2>3. PICK keep \in Nat : MergedTo(f, req, g, keep)
    BY <2>1, MergeLog
  <2>4. /\ req.prevIndex \in Nat /\ req.entries \in Seq(Entry) /\ Len(n.log) \in Nat
    BY <2>1, SMTT(20) DEF AppendRequest, Node
  <2>5. IsDisk(l) /\ l.log = h.log /\ l.kv = d.kv
    <3>1. CASE req.entries = <<>>
      <4>1. Len(req.entries) = 0
        BY <3>1
      <4>2. g = f
        BY <2>3, <2>4, <4>1 DEF MergedTo, Agree, Replaced
      <4> QED
        BY <2>1, <2>2, <3>1, <4>2
    <3>2. CASE req.entries # <<>>
      <4>1. l = PersistLogFrom(d, h.log, req.prevIndex + 1)
        BY <3>2
      <4>2. req.prevIndex + 1 \in 1 .. Len(d.log) + 1
        BY <2>1, <2>4
      <4>3. /\ req.prevIndex <= Len(h.log) /\ \A i \in 1 .. req.prevIndex : h.log[i] = d.log[i]
        BY <2>1, <2>2, <2>3, <2>4 DEF MergedTo, Agree, Replaced
      <4> DEFINE first == req.prevIndex + 1
                 hl    == h.log
      <4> HIDE DEF h, l
      <4>4. /\ hl \in Seq(Entry) /\ first - 1 <= Len(hl) /\ first \in 1 .. Len(d.log) + 1
            /\ \A i \in 1 .. first - 1 : hl[i] = d.log[i]
        <5>1. first - 1 = req.prevIndex /\ first \in 1 .. Len(d.log) + 1
          BY <2>4, <4>2
        <5> HIDE DEF first
        <5> QED
          BY <2>2, <4>3, <5>1
      <4>5. l = PersistLogFrom(d, hl, first) /\ h.log = hl
        BY <4>1
      <4> HIDE DEF first, hl
      <4> QED
        BY <4>4, <4>5, PersistLogIsLog
    <3> QED
      BY <3>1, <3>2
  <2>6. e = SaveHardState(b, m)
    BY <1>3 DEF HandlerDisk, Accepted
  <2>7. b = ApplyKvCommands(l, h.log, h.applied + 1, h.commit)
    BY DEF ApplyCommitted
  <2>8. IsDisk(b)
    <3>1. IsDisk(ApplyCommitted(l, h))
      BY <2>1, HandlerLogFacts
    <3> QED
      BY <3>1
  <2>9. \A k : ApplyKvCommands(l, h.log, h.applied + 1, k).kv
               = ApplyKvCommands(d, h.log, h.applied + 1, k).kv
    <3>1. DOMAIN d = {"saved", "term", "voted", "commit", "applied", "log", "kv"}
          /\ DOMAIN l = DOMAIN d
      BY <2>5 DEF IsDisk
    <3> HIDE DEF l, h
    <3> QED
      BY <2>5, <3>1 DEF ApplyKvCommands
  <2> HIDE DEF m, e, h, l, b
  <2>10. b.log = m.log /\ b.kv = ApplyKvCommands(d, m.log, h.applied + 1, m.commit).kv
    BY <2>2, <2>5, <2>7, <2>9, ApplyKeepsRest
  <2>11. /\ IsDisk(e) /\ HasHardState(e) /\ SameState(m, e) /\ e.log \in Seq(Entry)
         /\ e.kv = ApplyKvCommands(d, m.log, h.applied + 1, m.commit).kv
    BY <1>1, <2>6, <2>8, <2>10, SaveAll, ZenonT(40) DEF SameState
  <2> QED
    BY <1>3, <2>11 DEF m, e, h
<1> QED
  BY <1>2, <1>3

-----------------------------------------------------------------------------
\* What the actions do to the memory m and the data directory e of a peer p.

Saves(p, m, e) ==
  /\ p \in Peer /\ up[p] /\ up' = up
  /\ m \in Node /\ IsDisk(e) /\ HasHardState(e) /\ SameState(m, e)
  /\ e.log \in Seq(Entry)
  /\ raft' = [raft EXCEPT ![p] = m] /\ disk' = [disk EXCEPT ![p] = e]

SameData(d, e) ==
  e.log = d.log /\ e.commit = d.commit /\ e.applied = d.applied /\ e.kv = d.kv

LEMMA RunningPeer ==
  ASSUME TypeInv, SavedInv, NEW p \in Peer, up[p]
  PROVE  /\ raft[p] \in Node /\ InLog(raft[p]) /\ IsDisk(disk[p])
         /\ disk[p].log \in Seq(Entry) /\ SameState(raft[p], disk[p])
         /\ raft[p].role # "Follower" => HasHardState(disk[p])
BY InLogIsCommitWithinLog DEF TypeInv, TypeOK, SavedInv

LEMMA ThreadPeer ==
  ASSUME TypeInv, VoteInv, NEW c \in Client, th[c].pc \notin {"idle", "transfer"}
  PROVE  th[c].home \in Peer /\ up[th[c].home] /\ th[c] \in Thread
<1>1. th[c] \in Thread /\ ThreadOK(th[c])
  BY DEF TypeInv, TypeOK
<1>2. th[c].home \in Peer
  BY <1>1 DEF ThreadOK
<1> QED
  BY <1>1, <1>2 DEF VoteInv, ThreadsRun, RunsOn

\* BecomeCandidate and PersistHardState.
LEMMA CampaignSaves ==
  ASSUME TypeInv, SavedInv, NEW c \in Client, NEW p \in Peer, up[p], up' = up,
         NEW cmd, StartCampaign(c, p, cmd)
  PROVE  \E m, e : /\ Saves(p, m, e) /\ SameData(disk[p], e)
                   /\ m.role = "Candidate" /\ e.term = disk[p].term + 1
<1> DEFINE m == BecomeCandidate(raft[p], p)
           e == SaveHardState(disk[p], m)
<1>1. /\ raft[p] \in Node /\ IsDisk(disk[p]) /\ SameState(raft[p], disk[p])
      /\ disk[p].log \in Seq(Entry)
  BY RunningPeer
<1>2. /\ m \in Node /\ m.term = raft[p].term + 1
      /\ m.log = raft[p].log /\ m.commit = raft[p].commit /\ m.applied = raft[p].applied
  BY <1>1, BecomeCandidateFacts
<1>3. m.role = "Candidate"
  BY <1>1 DEF BecomeCandidate, Node
<1>4. raft' = [raft EXCEPT ![p] = m] /\ disk' = [disk EXCEPT ![p] = e]
  BY DEF StartCampaign
<1> HIDE DEF m
<1>5. /\ IsDisk(e) /\ HasHardState(e) /\ e.log = disk[p].log /\ e.kv = disk[p].kv
      /\ e.term = m.term /\ e.voted = m.voted
      /\ e.commit = m.commit /\ e.applied = m.applied
  BY <1>1, <1>2, SaveAll
<1> HIDE DEF e
<1>6. Saves(p, m, e) /\ SameData(disk[p], e) /\ e.term = disk[p].term + 1
  BY <1>1, <1>2, <1>4, <1>5 DEF Saves, SameState, SameData
<1> QED
  BY <1>3, <1>6

\* BecomeLeader and PersistHardState.
LEMMA WinSaves ==
  ASSUME TypeInv, VoteInv, SavedInv, NEW c \in Client, WinElection(c)
  PROVE  \E m, e : /\ Saves(th[c].home, m, e) /\ SameData(disk[th[c].home], e)
                   /\ m.role = "Leader" /\ e.term = disk[th[c].home].term
<1> DEFINE p == th[c].home
           m == BecomeLeader(raft[p])
           e == SaveHardState(disk[p], m)
<1>1. p \in Peer /\ up[p]
  BY ThreadPeer DEF WinElection
<1>2. /\ raft[p] \in Node /\ IsDisk(disk[p]) /\ SameState(raft[p], disk[p])
      /\ disk[p].log \in Seq(Entry)
  BY <1>1, RunningPeer
<1>3. /\ m \in Node /\ m.role = "Leader" /\ m.term = raft[p].term /\ m.voted = raft[p].voted
      /\ m.log = raft[p].log /\ m.commit = raft[p].commit /\ m.applied = raft[p].applied
  BY <1>2 DEF BecomeLeader, Node, Role
<1>4. raft' = [raft EXCEPT ![p] = m] /\ disk' = [disk EXCEPT ![p] = e] /\ up' = up
  BY DEF WinElection
<1> HIDE DEF m, p
<1>5. /\ IsDisk(e) /\ HasHardState(e) /\ e.log = disk[p].log /\ e.kv = disk[p].kv
      /\ e.term = m.term /\ e.voted = m.voted
      /\ e.commit = m.commit /\ e.applied = m.applied
  BY <1>2, <1>3, SaveAll
<1> HIDE DEF e
<1>6. Saves(p, m, e) /\ SameData(disk[p], e) /\ e.term = disk[p].term
  BY <1>1, <1>2, <1>3, <1>4, <1>5 DEF Saves, SameState, SameData
<1> QED
  BY <1>3, <1>6 DEF p

\* Propose and AppendLog.
Pushed(d, e, cmd) ==
  /\ e.log = Append(d.log, [term |-> d.term, cmd |-> cmd])
  /\ e.commit = d.commit /\ e.applied = d.applied /\ e.kv = d.kv /\ e.term = d.term

LEMMA ProposeSaves ==
  ASSUME TypeInv, VoteInv, SavedInv, NEW c \in Client, ProposeEntry(c)
  PROVE  \E m, e : /\ Saves(th[c].home, m, e) /\ m.role = "Leader"
                   /\ Pushed(disk[th[c].home], e, th[c].cmd)
<1> DEFINE p == th[c].home
           x == [term |-> raft[p].term, cmd |-> th[c].cmd]
           m == Propose(raft[p], th[c].cmd)
           e == AppendLog(disk[p], m.log, LastIndex(m))
<1>1. p \in Peer /\ up[p] /\ raft[p].role = "Leader" /\ th[c].cmd \in Command
  <2>1. th[c].pc = "propose" /\ raft[p].role = "Leader"
    BY DEF ProposeEntry
  <2>2. ThreadOK(th[c])
    BY DEF TypeInv
  <2> QED
    BY <2>1, <2>2, ThreadPeer DEF ThreadOK
<1>2. /\ raft[p] \in Node /\ IsDisk(disk[p]) /\ SameState(raft[p], disk[p])
      /\ disk[p].log \in Seq(Entry) /\ HasHardState(disk[p]) /\ InLog(raft[p])
  BY <1>1, RunningPeer
<1>3. /\ m.log = Append(raft[p].log, x) /\ m.role = "Leader" /\ m.term = raft[p].term
      /\ m.voted = raft[p].voted /\ m.commit = raft[p].commit
      /\ m.applied = raft[p].applied
  BY <1>1, <1>2 DEF Propose, Node
<1>4. m \in Node /\ LastIndex(m) = Len(m.log) /\ m.log \in Seq(Entry) /\ LastIndex(m) \in 1 .. Len(m.log)
  <2>1. m \in Node /\ LastIndex(m) \in 1 .. Len(m.log)
    BY <1>1, <1>2, ProposeFacts
  <2> QED
    BY <2>1 DEF LastIndex, Node
<1>5. raft' = [raft EXCEPT ![p] = m] /\ disk' = [disk EXCEPT ![p] = e] /\ up' = up
  BY DEF ProposeEntry
<1>6. x \in Entry
  BY <1>1, <1>2 DEF Node, Entry
<1> HIDE DEF p, m
<1>7. x = [term |-> raft[p].term, cmd |-> th[c].cmd]
  BY DEF p
<1> HIDE DEF x
<1>8. m.log = Append(disk[p].log, x)
  BY <1>2, <1>3 DEF SameState
<1>9. e = AppendLog(disk[p], m.log, Len(m.log))
  BY <1>4
<1>10. IsDisk(e)
  BY <1>2, <1>4, AppendLogFacts
<1> HIDE DEF e
<1>11. /\ e.log = m.log /\ e.kv = disk[p].kv /\ e.saved = disk[p].saved
       /\ e.term = disk[p].term /\ e.voted = disk[p].voted
       /\ e.commit = disk[p].commit /\ e.applied = disk[p].applied
  <2> DEFINE d == disk[p]
             l == m.log
  <2>1. /\ IsDisk(d) /\ d.log \in Seq(Entry) /\ l = Append(d.log, x)
        /\ e = AppendLog(d, l, Len(l))
    BY <1>2, <1>8, <1>9
  <2> HIDE DEF d, l
  <2>2. Written(d, e, l)
    BY <1>6, <2>1, AppendLogIsLog, Zenon
  <2> QED
    BY <2>2 DEF d, l, Written
<1>12. HasHardState(e)
  BY <1>2, <1>11 DEF HasHardState
<1>13. SameState(m, e)
  BY <1>2, <1>3, <1>11 DEF SameState
<1>14. Saves(p, m, e)
  BY <1>1, <1>4, <1>5, <1>10, <1>11, <1>12, <1>13 DEF Saves
<1>15. Pushed(disk[p], e, th[c].cmd)
  BY <1>2, <1>7, <1>8, <1>11 DEF Pushed, SameState
<1> QED
  BY <1>3, <1>14, <1>15 DEF p

\* SetCommitIndex, ApplyCommitted and PersistHardState.
CommittedTo(d, e, i) ==
  /\ e.log = d.log /\ e.term = d.term
  /\ e.commit = Least(i, Len(d.log))
  /\ e.applied = IF d.applied < e.commit THEN e.commit ELSE d.applied
  /\ e.kv = ApplyKvCommands(d, d.log, d.applied + 1, e.commit).kv

LEMMA CommitSaves ==
  ASSUME TypeInv, VoteInv, SavedInv, NEW c \in Client, Commit(c)
  PROVE  \E m, e : /\ Saves(th[c].home, m, e) /\ m.role = raft[th[c].home].role
                   /\ CommittedTo(disk[th[c].home], e, th[c].index)
                   /\ committed' = committed \cup
                        {<<i, e.log[i]>> : i \in {th[c].index} \cap DOMAIN e.log}
<1> DEFINE p == th[c].home
           n == raft[p]
           h == SetCommitIndex(n, th[c].index)
           m == TakeCommittedEntries(h)
           b == ApplyCommitted(disk[p], h)
           e == SaveHardState(b, m)
<1>1. p \in Peer /\ up[p] /\ th[c].index \in Nat
  <2>1. th[c].pc = "append"
    BY DEF Commit
  <2> QED
    BY <2>1, ThreadPeer DEF Thread
<1>2. /\ n \in Node /\ IsDisk(disk[p]) /\ SameState(n, disk[p])
      /\ disk[p].log \in Seq(Entry) /\ InLog(n)
  BY <1>1, RunningPeer
<1>3. /\ raft' = [raft EXCEPT ![p] = m] /\ disk' = [disk EXCEPT ![p] = e] /\ up' = up
      /\ committed' = committed \cup {<<i, m.log[i]>> : i \in {th[c].index} \cap DOMAIN m.log}
  BY DEF Commit, CommitNode
<1> HIDE DEF p
<1>4. h \in Node /\ InLog(h)
  BY <1>1, <1>2, SetCommitIndexFacts
<1>5. /\ h.log = n.log /\ h.term = n.term /\ h.voted = n.voted /\ h.role = n.role
      /\ h.applied = n.applied /\ h.commit = Least(th[c].index, Len(n.log))
  BY <1>2 DEF SetCommitIndex, LastIndex, Node
<1> HIDE DEF h
<1>6. m \in Node
  BY <1>4, TakeCommittedFacts
<1>7. /\ m.log = h.log /\ m.term = h.term /\ m.voted = h.voted /\ m.role = h.role
      /\ m.commit = h.commit
      /\ m.applied = IF h.applied < h.commit THEN h.commit ELSE h.applied
  BY <1>4 DEF TakeCommittedEntries, Node
<1>8. IsDisk(b)
  BY <1>2, <1>4, ApplyCommittedFacts
<1>9. b = ApplyKvCommands(disk[p], h.log, h.applied + 1, h.commit)
  BY DEF ApplyCommitted
<1>10. b.log = disk[p].log
  BY <1>2, <1>9, ApplyKeepsRest
<1> HIDE DEF m, b, n
<1>11. /\ IsDisk(e) /\ HasHardState(e) /\ e.log = b.log /\ e.kv = b.kv
       /\ e.term = m.term /\ e.voted = m.voted
       /\ e.commit = m.commit /\ e.applied = m.applied
  BY <1>6, <1>8, SaveAll
<1> HIDE DEF e
<1>12. SameState(m, e)
  BY <1>2, <1>5, <1>7, <1>10, <1>11 DEF SameState
<1>13. Saves(p, m, e)
  BY <1>1, <1>2, <1>3, <1>6, <1>10, <1>11, <1>12 DEF Saves
<1>14. CommittedTo(disk[p], e, th[c].index)
  BY <1>2, <1>5, <1>7, <1>9, <1>10, <1>11 DEF CommittedTo, SameState
<1>15. m.log = e.log /\ m.role = raft[p].role
  BY <1>5, <1>7, <1>12 DEF SameState, n
<1> QED
  BY <1>3, <1>13, <1>14, <1>15 DEF p

\* A handler at the called store, by what its node becomes.
HandledKv(d, n, req) ==
  IF Accepted(n, req)
  THEN ApplyKvCommands(d, HandlerNode(n, req).log,
         HandleAppendEntries(n, req).applied + 1, HandlerNode(n, req).commit).kv
  ELSE d.kv

LEMMA HandleSaves ==
  ASSUME TypeInv, SavedInv, NEW p \in Peer, NEW req \in Request, Handle(p, req), up' = up
  PROVE  \E e : /\ Saves(p, HandlerNode(raft[p], req), e)
                /\ e.kv = HandledKv(disk[p], raft[p], req)
<1> DEFINE n == raft[p]
           d == disk[p]
           m == HandlerNode(n, req)
           e == HandlerDisk(d, n, req)
<1>1. up[p] /\ raft' = [raft EXCEPT ![p] = m] /\ disk' = [disk EXCEPT ![p] = e]
  BY DEF Handle
<1>2. /\ n \in Node /\ IsDisk(d) /\ SameState(n, d) /\ d.log \in Seq(Entry) /\ InLog(n)
  BY <1>1, RunningPeer
<1>3. n.log = d.log
  BY <1>2 DEF SameState
<1>4. m \in Node
  BY <1>2, HandlerNodeFacts
<1> HIDE DEF n, d
<1>5. /\ IsDisk(e) /\ HasHardState(e) /\ SameState(m, e) /\ e.log \in Seq(Entry)
      /\ e.kv = HandledKv(d, n, req)
  BY <1>2, <1>3, HandlerSaves DEF HandledKv
<1> HIDE DEF m, e
<1>6. Saves(p, m, e)
  BY <1>1, <1>2, <1>4, <1>5 DEF Saves
<1> QED
  BY <1>5, <1>6 DEF n, d, m

-----------------------------------------------------------------------------
\* Without torn writes, a peer that is killed loses nothing.

LEMMA SavesKeepSaved ==
  ASSUME TypeInv, TypeInv', SavedInv, NEW p, NEW m, NEW e, Saves(p, m, e)
  PROVE  SavedInv'
<1>1. /\ raft \in [Peer -> Node] /\ DOMAIN disk = Peer /\ p \in Peer
      /\ raft' = [raft EXCEPT ![p] = m] /\ disk' = [disk EXCEPT ![p] = e] /\ up' = up
  BY DEF TypeInv, TypeOK, Saves
<1>2. /\ raft'[p] = m /\ disk'[p] = e
      /\ \A q \in Peer \ {p} : raft'[q] = raft[q] /\ disk'[q] = disk[q]
  BY <1>1
<1>3. e.log \in Seq(Entry) /\ HasHardState(e) /\ SameState(m, e) /\ Reaches(e)
  <2>1. e.log \in Seq(Entry) /\ HasHardState(e) /\ SameState(m, e)
    BY DEF Saves
  <2>2. raft'[p].commit <= LastIndex(raft'[p]) /\ raft'[p].applied <= LastIndex(raft'[p])
    BY <1>1 DEF TypeInv, CommitWithinLog
  <2> QED
    BY <1>2, <2>1, <2>2 DEF SameState, Reaches, LastIndex
<1> SUFFICES ASSUME NEW q \in Peer
             PROVE  /\ disk'[q].log \in Seq(Entry) /\ Reaches(disk'[q])
                    /\ ~HasHardState(disk'[q]) => Blank(disk'[q])
                    /\ up'[q] => SameState(raft'[q], disk'[q])
                    /\ raft'[q].role # "Follower" => HasHardState(disk'[q])
  BY DEF SavedInv
<1>4. CASE q = p
  BY <1>2, <1>3, <1>4
<1>5. CASE q # p
  BY <1>1, <1>2, <1>5 DEF SavedInv
<1> QED
  BY <1>4, <1>5

LEMMA DiesFacts ==
  ASSUME TypeInv, NEW p \in Peer, Dies(p, disk[p])
  PROVE  /\ \A q \in Peer : disk'[q] = disk[q]
         /\ raft' = [raft EXCEPT ![p] = NewNode] /\ up' = [up EXCEPT ![p] = FALSE]
         /\ UNCHANGED <<votes, elected, committed>>
<1>1. DOMAIN disk = Peer /\ disk' = [disk EXCEPT ![p] = disk[p]]
  BY DEF TypeInv, TypeOK, Dies
<1>2. \A q \in Peer : disk'[q] = disk[q]
  BY <1>1
<1> QED
  BY <1>2 DEF Dies, historyVars

LEMMA DiesSaved ==
  ASSUME TypeInv, SavedInv, NEW p \in Peer, Dies(p, disk[p])
  PROVE  SavedInv'
<1>1. /\ \A q \in Peer : disk'[q] = disk[q]
      /\ raft' = [raft EXCEPT ![p] = NewNode] /\ up' = [up EXCEPT ![p] = FALSE]
  BY DiesFacts
<1>2. raft \in [Peer -> Node] /\ up \in [Peer -> BOOLEAN]
  BY DEF TypeInv, TypeOK
<1>3. NewNode.role = "Follower"
  BY DEF NewNode
<1> QED
  BY <1>1, <1>2, <1>3 DEF SavedInv

LEMMA BootstrapRestores ==
  ASSUME NEW d, ~HasHardState(d) => Blank(d)
  PROVE  SameState(BootstrapNode(d), d) /\ BootstrapNode(d).role = "Follower"
BY DEF BootstrapNode, NewNode, SameState, Blank

LEMMA RestartSaved ==
  ASSUME TypeInv, SavedInv, NEW p \in Peer, Restart(p)
  PROVE  SavedInv'
<1> DEFINE n == BootstrapNode(disk[p])
<1>1. /\ disk' = disk /\ raft' = [raft EXCEPT ![p] = n]
      /\ up' = [up EXCEPT ![p] = TRUE]
  BY DEF Restart
<1>2. raft \in [Peer -> Node] /\ up \in [Peer -> BOOLEAN]
  BY DEF TypeInv, TypeOK
<1>3. SameState(n, disk[p]) /\ n.role = "Follower"
  BY BootstrapRestores DEF SavedInv
<1> HIDE DEF n
<1> QED
  BY <1>1, <1>2, <1>3 DEF SavedInv

\* The steps of a thread that leave all peers alone.
LEMMA LocalSteps ==
  ASSUME NEW c \in Client,
         \/ TransferUnreachable(c) \/ LoseElection(c) \/ ProposeRefused(c)
         \/ NoQuorum(c) \/ PutReturns(c) \/ VoteReturned(c) \/ StoreDone(c)
         \/ BackOff(c) \/ ConnectFails(c) \/ SendAppend(c)
  PROVE  UNCHANGED <<up, raft, disk, votes, elected, committed>>
<1>1. UNCHANGED <<serverVars, historyVars>>
  <2>1. CASE \/ TransferUnreachable(c) \/ LoseElection(c) \/ ProposeRefused(c)
             \/ NoQuorum(c) \/ PutReturns(c)
    BY <2>1 DEF TransferUnreachable, LoseElection, ProposeRefused, NoQuorum, PutReturns
  <2>2. CASE VoteReturned(c)
    BY <2>2 DEF VoteReturned
  <2>3. CASE StoreDone(c)
    BY <2>3 DEF StoreDone
  <2>4. CASE BackOff(c)
    BY <2>4 DEF BackOff
  <2>5. CASE ConnectFails(c)
    BY <2>5 DEF ConnectFails
  <2>6. CASE SendAppend(c)
    <3>1. UNCHANGED <<serverVars, orphans, ops, crashes, historyVars>>
      BY <2>6, Zenon DEF SendAppend
    <3> QED
      BY <3>1
  <2> QED
    BY <2>1, <2>2, <2>3, <2>4, <2>5, <2>6
<1> QED
  BY <1>1 DEF serverVars, historyVars

LEMMA SavedNext ==
  ASSUME TypeInv, TypeInv', VoteInv, SavedInv, ~TornWrites, [Next]_vars
  PROVE  SavedInv'
<1>1. ASSUME UNCHANGED <<up, raft, disk>> PROVE SavedInv'
  BY <1>1 DEF SavedInv
<1>2. ASSUME NEW c \in Client, NEW p \in Peer, NEW cmd, up[p], up' = up,
             AlreadyLeader(c, p, cmd) \/ StartCampaign(c, p, cmd)
      PROVE  SavedInv'
  <2>1. CASE AlreadyLeader(c, p, cmd)
    BY <1>1, <1>2, <2>1 DEF AlreadyLeader
  <2>2. CASE StartCampaign(c, p, cmd)
    BY <1>2, <2>2, CampaignSaves, SavesKeepSaved
  <2> QED
    BY <1>2, <2>1, <2>2
<1>3. ASSUME NEW c \in Client, NEW p \in Peer,
             PdTransferLeader(c, p) \/ \E cmd \in Command : Put(c, p, cmd)
      PROVE  SavedInv'
  <2>1. CASE PdTransferLeader(c, p)
    BY <1>1, <2>1 DEF PdTransferLeader
  <2>2. CASE \E cmd \in Command : Put(c, p, cmd)
    BY <1>2, <2>2 DEF Put
  <2> QED
    BY <1>3, <2>1, <2>2
<1>4. ASSUME NEW c \in Client, Step(c) PROVE SavedInv'
  <2>1. CASE TransferLeader(c)
    <3> DEFINE p == th[c].home
    <3>1. /\ AlreadyLeader(c, p, NoCommand) \/ StartCampaign(c, p, NoCommand)
          /\ up[p] /\ up' = up /\ th[c].pc = "transfer"
      BY <2>1 DEF TransferLeader
    <3>2. p \in Peer
      BY <3>1 DEF TypeInv, ThreadOK
    <3> HIDE DEF p
    <3> QED
      BY <1>2, <3>1, <3>2
  <2>2. CASE \/ TransferUnreachable(c) \/ LoseElection(c) \/ ProposeRefused(c)
             \/ NoQuorum(c) \/ PutReturns(c) \/ VoteReturned(c) \/ StoreDone(c)
             \/ BackOff(c) \/ ConnectFails(c) \/ SendAppend(c)
    BY <1>1, <2>2, LocalSteps
  <2>3. CASE WinElection(c)
    BY <2>3, WinSaves, SavesKeepSaved
  <2>4. CASE ProposeEntry(c)
    BY <2>4, ProposeSaves, SavesKeepSaved
  <2>5. CASE Commit(c)
    BY <2>5, CommitSaves, SavesKeepSaved
  <2>6. CASE Receive(c)
    <3>1. Calling(c) /\ Handle(Dest(c), th[c].req) /\ up' = up
      BY <2>6 DEF Receive
    <3>2. Dest(c) \in Peer /\ th[c].req \in Request
      BY <3>1, CallingFacts
    <3> QED
      BY <3>1, <3>2, HandleSaves, SavesKeepSaved
  <2> QED
    BY <1>4, <2>1, <2>2, <2>3, <2>4, <2>5, <2>6 DEF Step
<1>5. ASSUME NEW c \in Client,
             ConnectionBreaks(c) \/ CrashInHandler(c) \/ CrashInCommit(c)
      PROVE  SavedInv'
  <2>1. ConnectionBreaks(c)
    BY <1>5 DEF CrashInHandler, CrashInCommit
  <2> QED
    BY <1>1, <2>1 DEF ConnectionBreaks, serverVars
<1>6. CASE ReceiveOrphan
  <2>1. PICK o \in orphans : Handle(o.to, o.req) /\ up' = up
    BY <1>6 DEF ReceiveOrphan
  <2>2. o.to \in Peer /\ o.req \in Request
    BY DEF TypeInv, TypeOK, Request
  <2> QED
    BY <2>1, <2>2, HandleSaves, SavesKeepSaved
<1>7. ASSUME NEW p \in Peer, Crash(p) \/ CrashInCampaign(p) \/ Restart(p)
      PROVE  SavedInv'
  <2>1. CASE Restart(p)
    BY <2>1, RestartSaved
  <2>2. CASE Crash(p)
    BY <2>2, DiesSaved DEF Crash
  <2> QED
    BY <1>7, <2>1, <2>2 DEF CrashInCampaign
<1>8. CASE UNCHANGED vars
  BY <1>1, <1>8 DEF vars, serverVars
<1> QED
  BY <1>3, <1>4, <1>5, <1>6, <1>7, <1>8 DEF Next

LEMMA SavedInit == Init => SavedInv
<1> SUFFICES ASSUME Init PROVE SavedInv
  OBVIOUS
<1>1. ASSUME NEW p \in Peer PROVE raft[p] = NewNode /\ disk[p] = EmptyDisk
  BY DEF Init
<1>2. /\ EmptyDisk.log = <<>> /\ <<>> \in Seq(Entry) /\ Blank(EmptyDisk)
      /\ SameState(NewNode, EmptyDisk) /\ NewNode.role = "Follower" /\ Reaches(EmptyDisk)
  BY DEF EmptyDisk, NewNode, Blank, SameState, Reaches
<1> QED
  BY <1>1, <1>2 DEF SavedInv

LEMMA SavedIsMemory ==
  ASSUME TypeInv, SavedInv
  PROVE  MemoryIsSaved
<1> SUFFICES ASSUME NEW p \in Peer, up[p]
             PROVE  BootstrapNode(disk[p]) = [raft[p] EXCEPT !.role = "Follower"]
  BY DEF MemoryIsSaved
<1> DEFINE n == raft[p]
           b == BootstrapNode(disk[p])
           f == [n EXCEPT !.role = "Follower"]
<1>1. n \in Node /\ SameState(n, disk[p])
  BY RunningPeer
<1>2. SameState(b, disk[p]) /\ b.role = "Follower"
  BY BootstrapRestores DEF SavedInv
<1>3. b = [role |-> b.role, term |-> b.term, voted |-> b.voted, commit |-> b.commit,
           applied |-> b.applied, log |-> b.log]
  BY DEF BootstrapNode, NewNode
<1>4. f = [role |-> "Follower", term |-> n.term, voted |-> n.voted, commit |-> n.commit,
           applied |-> n.applied, log |-> n.log]
  BY <1>1 DEF Node
<1> HIDE DEF n, b, f
<1>5. b = f
  BY <1>1, <1>2, <1>3, <1>4 DEF SameState
<1> QED
  BY <1>5 DEF n, b, f

\* If a crash never falls between two writes of a step, a running peer has saved
\* all it knows between any two steps, whatever the handlers, campaigns and late
\* requests do: Bootstrap would restore its term, vote, log and both indexes.
THEOREM NothingIsLost == ~TornWrites => (Spec => []MemoryIsSaved)
<1> SUFFICES ASSUME ~TornWrites PROVE Spec => []MemoryIsSaved
  OBVIOUS
<1>1. TypeInv /\ TypeInv' /\ VoteInv /\ SavedInv /\ [Next]_vars => SavedInv'
  BY SavedNext
<1>2. TypeInv /\ SavedInv => MemoryIsSaved
  BY SavedIsMemory
<1> QED
  BY <1>1, <1>2, TypeInit, TypeStep, VoteInit, VoteStep, SavedInit, PTL DEF Spec

LEMMA SavedIsWhole ==
  ASSUME SavedInv
  PROVE  LogIsWhole
<1> SUFFICES ASSUME NEW p \in Peer
             PROVE  \E n \in 0 .. Cardinality(DOMAIN disk[p].log) :
                      /\ DOMAIN disk[p].log = 1 .. n
                      /\ disk[p].commit <= n /\ disk[p].applied <= n
  BY DEF LogIsWhole
<1> DEFINE N == Len(disk[p].log)
<1>1. N \in Nat /\ DOMAIN disk[p].log = 1 .. N
  BY DEF SavedInv
<1>2. disk[p].commit <= N /\ disk[p].applied <= N
  BY DEF SavedInv, Reaches
<1> HIDE DEF N
<1>3. Cardinality(1 .. N) = N
  <2>1. Cardinality(1 .. N) = IF 1 > N THEN 0 ELSE N - 1 + 1
    BY <1>1, FS_Interval
  <2> QED
    BY <1>1, <2>1
<1> QED
  BY <1>1, <1>2, <1>3

\* If no process dies between two writes of a step, every data directory holds
\* the log records 1 .. n up to its commit index and last_applied, for any number
\* of overlapping operations, late requests and crashes: of the checks of Restore
\* only the one that last_applied is not past the commit index can fail.
THEOREM LogsAreWhole == ~TornWrites => (Spec => []LogIsWhole)
<1> SUFFICES ASSUME ~TornWrites PROVE Spec => []LogIsWhole
  OBVIOUS
<1>1. TypeInv /\ TypeInv' /\ VoteInv /\ SavedInv /\ [Next]_vars => SavedInv'
  BY SavedNext
<1>2. SavedInv => LogIsWhole
  BY SavedIsWhole
<1> QED
  BY <1>1, <1>2, TypeInit, TypeStep, VoteInit, VoteStep, SavedInit, PTL DEF Spec

-----------------------------------------------------------------------------
\* The log of a region whose operations do not overlap.

\* The one-operation-at-a-time use of a region: one client, no request arrives
\* after its caller gave up, a process dies between two steps.
Serial ==
  /\ \A c, d \in Client : c = d
  /\ MaxOrphans = 0 /\ ~TornWrites

\* A term that ReplicateToStore reads past the end of its own log, going back
\* to the end of a longer one, is not the term the called store has there.
StrayTermsDiffer ==
  \A c \in Client :
    Calling(c) /\ th[c].req.type = "append" /\ Accepted(raft[Dest(c)], th[c].req) =>
      th[c].req.prevIndex <= Len(raft[th[c].home].log)

Leads(p) == up[p] /\ raft[p].role = "Leader"

\* Two logs with entries of one term, the earlier of them in l, agree up to it.
Matches(k, l) ==
  \A i \in DOMAIN k, j \in DOMAIN l :
    j <= i /\ k[i].term = l[j].term => \A h \in 1 .. j : k[h] = l[h]

Has(l, x) == x[1] \in DOMAIN l /\ l[x[1]] = x[2]

Extends(l, k) == Len(k) <= Len(l) /\ \A i \in 1 .. Len(k) : l[i] = k[i]

TermsGrow ==
  \A p \in Peer : \A i, j \in DOMAIN disk[p].log :
    /\ disk[p].log[i].term <= disk[p].term
    /\ i <= j => disk[p].log[i].term <= disk[p].log[j].term

LogsMatch == \A p, q \in Peer : Matches(disk[p].log, disk[q].log)

FromElected ==
  \A p \in Peer : \A i \in DOMAIN disk[p].log :
    \E w \in Peer : <<disk[p].log[i].term, w>> \in elected

ElectedTerms == \A e \in elected : e[1] <= disk[e[2]].term

\* A leader was elected in its term and has every entry of it.
LeadersOwn ==
  \A p \in Peer : Leads(p) =>
    /\ <<disk[p].term, p>> \in elected
    /\ \A q \in Peer : \A j \in DOMAIN disk[q].log :
         disk[q].log[j].term = disk[p].term =>
           j \in DOMAIN disk[p].log /\ disk[p].log[j].term = disk[p].term

\* A log with an entry later than a committed one has the committed one.
LaterLogsHave ==
  \A x \in committed, p \in Peer : \A j \in DOMAIN disk[p].log :
    disk[p].log[j].term > x[2].term => Has(disk[p].log, x)

LeadersHave ==
  \A x \in committed, p \in Peer :
    Leads(p) /\ x[2].term <= disk[p].term => Has(disk[p].log, x)

\* What a peer knows to be committed was committed.
CommitPoint(d, C) ==
  /\ d.applied <= d.commit
  /\ d.commit # 0 => d.commit \in DOMAIN d.log /\ <<d.commit, d.log[d.commit]>> \in C

CommitPoints == \A p \in Peer : CommitPoint(disk[p], committed)

LogInv ==
  /\ TermsGrow /\ LogsMatch /\ FromElected /\ ElectedTerms /\ LeadersOwn
  /\ CommittedIsDurable /\ LaterLogsHave /\ LeadersHave /\ CommitPoints

\* The keys in a data directory are the effect of the first `applied' entries.
KvAt(d) ==
  \A k \in Key : d.kv[k] = ApplyKvCommands(EmptyDisk, d.log, 1, d.applied).kv[k]

KvInv == \A p \in Peer : KvAt(disk[p])

\* The request of a campaign describes a log at least as good as l.
UpToDate(req, l) ==
  LET last == IF l = <<>> THEN 0 ELSE l[Len(l)].term
  IN  IF req.lastTerm # last THEN req.lastTerm > last ELSE req.lastIndex >= Len(l)

\* What a thread t relies on, by the data directories D, the elections won E and
\* the set L of leaders.
CampaignInv(t, D, E) ==
  LET p == t.home
  IN  /\ D[p].term = t.req.term /\ <<t.req.term, p>> \notin E
      /\ t.req.lastIndex = Len(D[p].log)
      /\ t.req.lastTerm = LastTerm(D[p])
      /\ \A q \in t.got : UpToDate(t.req, D[q].log)
      /\ t.todo # {} /\ t.resp.type = "vote" =>
           (t.resp.granted => UpToDate(t.req, D[Min(t.todo)].log))

\* A request of ReplicateToStore sends the log of the leader from somewhere on,
\* if it starts within that log.
Sent(req, d) ==
  /\ req.type = "append" /\ req.term = d.term /\ req.commit = d.commit
  /\ req.prevIndex <= Len(d.log) =>
       /\ req.prevTerm = IF req.prevIndex = 0 THEN 0 ELSE d.log[req.prevIndex].term
       /\ req.entries = SubSeq(d.log, req.prevIndex + 1, Len(d.log))

Acked(d, e) == e.term <= d.term /\ Extends(e.log, d.log)

ReplicationInv(t, D, L) ==
  LET p == t.home
  IN  /\ p \in L /\ t.index = Len(D[p].log) /\ t.index # 0
      /\ D[p].log[t.index].term = D[p].term
      /\ t.todo = {} => t.tries = 0 /\ t.req = NoMsg
      /\ t.req = NoMsg => t.resp = NoMsg
      /\ t.req # NoMsg => Sent(t.req, D[p])
      /\ t.tries > 0 \/ t.req # NoMsg => t.commit = D[p].commit
      /\ t.pc = "commit" => D[p].commit = t.index
      /\ t.pc = "append" =>
           /\ t.todo \cap t.got = {}
           /\ \A q \in t.got : Acked(D[p], D[q])
           /\ t.todo # {} /\ t.resp.type = "append" =>
                (t.resp.success => Acked(D[p], D[Min(t.todo)]))

ThreadInv(t, D, E, L) ==
  /\ t.todo \subseteq Peer \ {t.home}
  /\ t.pc = "vote" => CampaignInv(t, D, E)
  /\ t.pc = "propose" => t.home \in L
  /\ t.pc \in {"append", "commit"} => ReplicationInv(t, D, L)

Leading == {p \in Peer : Leads(p)}

OperationInv == \A c \in Client : ThreadInv(th[c], disk, elected, Leading)

SafeInv == SavedInv /\ LogInv /\ KvInv /\ OperationInv /\ orphans = {}

-----------------------------------------------------------------------------
\* Steps that preserve LogInv.

LEMMA DiskTypes ==
  ASSUME NEW d, IsDisk(d), d.log \in Seq(Entry)
  PROVE  /\ Len(d.log) \in Nat /\ DOMAIN d.log = 1 .. Len(d.log)
         /\ \A i \in DOMAIN d.log : d.log[i].term \in Nat
         /\ d.term \in Nat /\ d.commit \in Nat /\ d.applied \in Nat
<1>1. Len(d.log) \in Nat /\ DOMAIN d.log = 1 .. Len(d.log)
  OBVIOUS
<1>2. ASSUME NEW i \in DOMAIN d.log PROVE d.log[i].term \in Nat
  <2>1. d.log[i] \in Entry
    BY <1>1
  <2> QED
    BY <2>1 DEF Entry
<1> QED
  BY <1>1, <1>2 DEF IsDisk

LEMMA PeerTypes ==
  ASSUME TypeInv, SavedInv, NEW p \in Peer
  PROVE  /\ disk[p].log \in Seq(Entry)
         /\ Len(disk[p].log) \in Nat /\ DOMAIN disk[p].log = 1 .. Len(disk[p].log)
         /\ \A i \in DOMAIN disk[p].log : disk[p].log[i].term \in Nat
         /\ disk[p].term \in Nat /\ disk[p].commit \in Nat /\ disk[p].applied \in Nat
<1>1. IsDisk(disk[p]) /\ disk[p].log \in Seq(Entry)
  BY DEF TypeInv, TypeOK, SavedInv
<1> QED
  BY <1>1, DiskTypes

LEMMA MajorityGrows ==
  ASSUME NEW Q \in SUBSET Peer, NEW R \in SUBSET Peer, Q \subseteq R, Majority(Q)
  PROVE  Majority(R)
<1>1. IsFiniteSet(R) /\ IsFiniteSet(Q) /\ Cardinality(Peer) \in Nat
  BY PeerAssumption, FS_Subset, FS_CardinalityType
<1>2. /\ Cardinality(Q) \in Nat /\ Cardinality(R) \in Nat
      /\ Cardinality(Q) <= Cardinality(R)
  BY <1>1, FS_Subset, FS_CardinalityType
<1> QED
  BY <1>1, <1>2 DEF Majority

\* Committed entries stay durable if no log loses one.
LEMMA DurableStep ==
  ASSUME CommittedIsDurable, committed' = committed,
         \A x \in committed, p \in Peer : Has(disk[p].log, x) => Has(disk'[p].log, x)
  PROVE  CommittedIsDurable'
<1> SUFFICES ASSUME NEW x \in committed
             PROVE  Majority({p \in Peer : /\ x[1] \in DOMAIN disk'[p].log
                                           /\ disk'[p].log[x[1]] = x[2]})
  BY DEF CommittedIsDurable
<1> DEFINE Q == {p \in Peer : x[1] \in DOMAIN disk[p].log /\ disk[p].log[x[1]] = x[2]}
           R == {p \in Peer : x[1] \in DOMAIN disk'[p].log /\ disk'[p].log[x[1]] = x[2]}
<1>1. Majority(Q)
  BY DEF CommittedIsDurable
<1>2. Q \subseteq R
  BY DEF Has
<1>3. Q \in SUBSET Peer /\ R \in SUBSET Peer
  OBVIOUS
<1> HIDE DEF Q, R
<1>4. Majority(R)
  BY <1>1, <1>2, <1>3, MajorityGrows
<1> QED
  BY <1>4 DEF R

\* The logs and indexes stay, terms grow, and nobody becomes a leader.
QuietStep ==
  /\ \A p \in Peer :
       /\ disk'[p].log = disk[p].log /\ disk'[p].commit = disk[p].commit
       /\ disk'[p].applied = disk[p].applied /\ disk'[p].term >= disk[p].term
       /\ Leads(p)' => Leads(p) /\ disk'[p].term = disk[p].term
  /\ elected' = elected /\ committed' = committed

LEMMA QuietLog ==
  ASSUME TypeInv, SavedInv, TypeInv', LogInv, QuietStep
  PROVE  LogInv'
<1>1. ASSUME NEW p \in Peer
      PROVE  /\ disk'[p].log = disk[p].log /\ disk'[p].commit = disk[p].commit
             /\ disk'[p].applied = disk[p].applied /\ disk'[p].term >= disk[p].term
             /\ Leads(p)' => Leads(p) /\ disk'[p].term = disk[p].term
  BY DEF QuietStep
<1>2. ASSUME NEW p \in Peer
      PROVE  /\ disk[p].term \in Nat /\ disk'[p].term \in Nat
             /\ \A i \in DOMAIN disk[p].log : disk[p].log[i].term \in Nat
  BY PeerTypes DEF TypeInv, TypeOK, IsDisk
<1>3. elected' = elected /\ committed' = committed
  BY DEF QuietStep
<1>4. TermsGrow'
  BY <1>1, <1>2 DEF LogInv, TermsGrow
<1>5. LogsMatch'
  BY <1>1 DEF LogInv, LogsMatch
<1>6. FromElected'
  BY <1>1, <1>3 DEF LogInv, FromElected
<1>7. ElectedTerms'
  <2> SUFFICES ASSUME NEW e \in elected PROVE e[1] <= disk'[e[2]].term
    BY <1>3 DEF ElectedTerms
  <2>1. e[1] \in Nat /\ e[2] \in Peer
    BY DEF TypeInv, TypeOK
  <2>2. e[1] <= disk[e[2]].term
    BY DEF LogInv, ElectedTerms
  <2> QED
    BY <1>1, <1>2, <2>1, <2>2
<1>8. LeadersOwn'
  BY <1>1, <1>3 DEF LogInv, LeadersOwn
<1>9. CommittedIsDurable'
  BY <1>1, <1>3, DurableStep DEF LogInv
<1>10. LaterLogsHave'
  BY <1>1, <1>3 DEF LogInv, LaterLogsHave
<1>11. LeadersHave'
  BY <1>1, <1>3 DEF LogInv, LeadersHave
<1>12. CommitPoints'
  BY <1>1, <1>3 DEF LogInv, CommitPoints, CommitPoint
<1> QED
  BY <1>4, <1>5, <1>6, <1>7, <1>8, <1>9, <1>10, <1>11, <1>12 DEF LogInv

\* A candidate whose log is as good as those of a majority becomes leader.
WinStep(p, Q) ==
  /\ p \in Peer /\ Q \in SUBSET Peer /\ Majority(Q)
  /\ <<disk[p].term, p>> \notin elected
  /\ \A q \in Q : UpToDate([lastIndex |-> Len(disk[p].log), lastTerm |-> LastTerm(disk[p])],
                           disk[q].log)
  /\ \A q \in Peer : /\ disk'[q].log = disk[q].log /\ disk'[q].commit = disk[q].commit
                     /\ disk'[q].applied = disk[q].applied /\ disk'[q].term = disk[q].term
                     /\ Leads(q)' => Leads(q) \/ q = p
  /\ elected' = elected \cup {<<disk[p].term, p>>} /\ committed' = committed

\* The winner has what is committed: one of the majority that voted for it does.
LEMMA WinnerHas ==
  ASSUME TypeInv, SavedInv, LogInv, NEW p, NEW Q, WinStep(p, Q), NEW x \in committed
  PROVE  Has(disk[p].log, x)
<1> DEFINE R == {q \in Peer : x[1] \in DOMAIN disk[q].log /\ disk[q].log[x[1]] = x[2]}
           a == disk[p].log
<1>1. p \in Peer /\ Q \in SUBSET Peer /\ Majority(Q) /\ R \in SUBSET Peer /\ Majority(R)
  BY DEF WinStep, LogInv, CommittedIsDurable
<1>2. PICK q \in Q \cap R : TRUE
  <2> HIDE DEF R
  <2>1. Q \cap R # {}
    BY <1>1, QuorumsMeet
  <2> QED
    BY <2>1
<1> DEFINE l == disk[q].log
<1>3. q \in Peer /\ x[1] \in DOMAIN l /\ l[x[1]] = x[2]
  BY <1>1, <1>2
<1>4. /\ Len(a) \in Nat /\ DOMAIN a = 1 .. Len(a) /\ a \in Seq(Entry)
      /\ \A i \in DOMAIN a : a[i].term \in Nat
      /\ Len(l) \in Nat /\ DOMAIN l = 1 .. Len(l) /\ l \in Seq(Entry)
      /\ \A i \in DOMAIN l : l[i].term \in Nat
  BY <1>1, <1>3, PeerTypes
<1>5. /\ \A i \in DOMAIN a : a[i].term > x[2].term => Has(a, x)
      /\ Matches(a, l)
      /\ l[x[1]].term <= l[Len(l)].term
  <2>1. Len(l) \in DOMAIN l /\ x[1] <= Len(l)
    BY <1>3, <1>4
  <2> QED
    BY <1>1, <1>3, <2>1 DEF LogInv, LaterLogsHave, LogsMatch, TermsGrow
<1>6. IF LastTerm(disk[p]) # l[Len(l)].term THEN LastTerm(disk[p]) > l[Len(l)].term
      ELSE Len(a) >= Len(l)
  <2>1. UpToDate([lastIndex |-> Len(a), lastTerm |-> LastTerm(disk[p])], l)
    BY <1>2 DEF WinStep
  <2>2. l # <<>>
    BY <1>3, <1>4
  <2> QED
    BY <2>1, <2>2 DEF UpToDate
<1>7. LastTerm(disk[p]) = IF a = <<>> THEN 0 ELSE a[Len(a)].term
  BY DEF LastTerm
<1>8. a # <<>> => Len(a) \in DOMAIN a
  BY <1>4
<1>9. Len(l) \in DOMAIN l
  BY <1>3, <1>4
<1> HIDE DEF a, l
<1>10. CASE LastTerm(disk[p]) # l[Len(l)].term
  <2>1. a # <<>> /\ a[Len(a)].term > x[2].term
    <3>1. /\ x[2].term \in Nat /\ l[Len(l)].term \in Nat /\ x[2].term <= l[Len(l)].term
          /\ LastTerm(disk[p]) > l[Len(l)].term
      BY <1>3, <1>4, <1>5, <1>6, <1>9, <1>10
    <3>2. a # <<>>
      BY <1>7, <3>1
    <3>3. a[Len(a)].term \in Nat /\ LastTerm(disk[p]) = a[Len(a)].term
      BY <1>4, <1>7, <1>8, <3>2
    <3> QED
      BY <3>1, <3>2, <3>3
  <2>2. Has(a, x)
    BY <1>5, <1>8, <2>1
  <2> QED
    BY <2>2 DEF a
<1>11. CASE LastTerm(disk[p]) = l[Len(l)].term
  <2>1. Len(a) >= Len(l) /\ a # <<>>
    BY <1>4, <1>6, <1>9, <1>11
  <2>2. \A h \in 1 .. Len(l) : a[h] = l[h]
    BY <1>4, <1>5, <1>7, <1>8, <1>9, <1>11, <2>1 DEF Matches
  <2>3. x[1] \in DOMAIN a /\ a[x[1]] = x[2]
    BY <1>3, <1>4, <2>1, <2>2
  <2> QED
    BY <2>3 DEF Has, a
<1> QED
  BY <1>10, <1>11

LEMMA WinLog ==
  ASSUME TypeInv, SavedInv, LogInv, NEW p, NEW Q, WinStep(p, Q), ElectedOncePerTerm'
  PROVE  LogInv'
<1>1. ASSUME NEW q \in Peer
      PROVE  /\ disk'[q].log = disk[q].log /\ disk'[q].commit = disk[q].commit
             /\ disk'[q].applied = disk[q].applied /\ disk'[q].term = disk[q].term
             /\ Leads(q)' => Leads(q) \/ q = p
  BY DEF WinStep
<1>2. /\ elected' = elected \cup {<<disk[p].term, p>>} /\ committed' = committed
      /\ p \in Peer /\ <<disk[p].term, p>> \notin elected
  BY DEF WinStep
<1>3. TermsGrow'
  BY <1>1 DEF LogInv, TermsGrow
<1>4. LogsMatch'
  BY <1>1 DEF LogInv, LogsMatch
<1>5. FromElected'
  BY <1>1, <1>2 DEF LogInv, FromElected
<1>6. ElectedTerms'
  <2> SUFFICES ASSUME NEW e \in elected' PROVE e[1] <= disk'[e[2]].term
    BY DEF ElectedTerms
  <2>1. CASE e \in elected
    <3>1. e[2] \in Peer
      BY <2>1 DEF TypeInv, TypeOK
    <3> QED
      BY <1>1, <2>1, <3>1 DEF LogInv, ElectedTerms
  <2>2. CASE e = <<disk[p].term, p>>
    BY <1>1, <1>2, <2>2, PeerTypes
  <2> QED
    BY <1>2, <2>1, <2>2
<1>7. LeadersOwn'
  <2> SUFFICES ASSUME NEW r \in Peer, Leads(r)'
               PROVE  /\ <<disk[r].term, r>> \in elected'
                      /\ \A q \in Peer : \A j \in DOMAIN disk[q].log :
                           disk[q].log[j].term = disk[r].term =>
                             j \in DOMAIN disk[r].log /\ disk[r].log[j].term = disk[r].term
    BY <1>1 DEF LeadersOwn
  <2>1. CASE r # p
    BY <1>1, <1>2, <2>1 DEF LogInv, LeadersOwn
  <2>2. CASE r = p
    <3>1. ASSUME NEW q \in Peer, NEW j \in DOMAIN disk[q].log,
                 disk[q].log[j].term = disk[p].term
          PROVE  FALSE
      <4>1. PICK w \in Peer : <<disk[p].term, w>> \in elected
        BY <3>1 DEF LogInv, FromElected
      <4>2. <<disk[p].term, w>> \in elected' /\ <<disk[p].term, p>> \in elected'
        BY <1>2, <4>1
      <4>3. w = p
        BY <4>2 DEF ElectedOncePerTerm
      <4> QED
        BY <1>2, <4>1, <4>3
    <3> QED
      BY <1>2, <2>2, <3>1
  <2> QED
    BY <2>1, <2>2
<1>8. CommittedIsDurable'
  BY <1>1, <1>2, DurableStep DEF LogInv
<1>9. LaterLogsHave'
  BY <1>1, <1>2 DEF LogInv, LaterLogsHave
<1>10. LeadersHave'
  <2> SUFFICES ASSUME NEW x \in committed, NEW r \in Peer, Leads(r)',
                      x[2].term <= disk[r].term
               PROVE  Has(disk[r].log, x)
    BY <1>1, <1>2 DEF LeadersHave
  <2>1. CASE r = p
    BY <2>1, WinnerHas
  <2>2. CASE r # p
    BY <1>1, <2>2 DEF LogInv, LeadersHave
  <2> QED
    BY <2>1, <2>2
<1>11. CommitPoints'
  BY <1>1, <1>2 DEF LogInv, CommitPoints, CommitPoint
<1> QED
  BY <1>3, <1>4, <1>5, <1>6, <1>7, <1>8, <1>9, <1>10, <1>11 DEF LogInv

\* A leader appends an entry of its term.
PushStep(p, N, b) ==
  /\ p \in Peer /\ Leads(p) /\ N = Len(disk[p].log) /\ b = disk'[p].log
  /\ b \in Seq(Entry) /\ Len(b) = N + 1 /\ DOMAIN b = 1 .. N + 1
  /\ \A i \in 1 .. N : b[i] = disk[p].log[i]
  /\ b[N + 1].term = disk[p].term
  /\ \A q \in Peer : /\ q # p => disk'[q].log = disk[q].log
                     /\ disk'[q].commit = disk[q].commit
                     /\ disk'[q].applied = disk[q].applied /\ disk'[q].term = disk[q].term
                     /\ Leads(q)' => Leads(q)
  /\ elected' = elected /\ committed' = committed

LEMMA PushLog ==
  ASSUME TypeInv, SavedInv, LogInv, ElectedOncePerTerm, NEW p, NEW N, NEW b, PushStep(p, N, b)
  PROVE  LogInv'
<1> DEFINE a == disk[p].log
           T == disk[p].term
<1>1. ASSUME NEW q \in Peer
      PROVE  /\ q # p => disk'[q].log = disk[q].log
             /\ disk'[q].commit = disk[q].commit
             /\ disk'[q].applied = disk[q].applied /\ disk'[q].term = disk[q].term
             /\ Leads(q)' => Leads(q)
  BY DEF PushStep
<1>2. /\ elected' = elected /\ committed' = committed /\ p \in Peer /\ Leads(p)
      /\ disk'[p].log = b /\ b[N + 1].term = T
  BY DEF PushStep
<1>3. /\ N \in Nat /\ DOMAIN a = 1 .. N /\ DOMAIN b = 1 .. N + 1 /\ T \in Nat
      /\ \A i \in 1 .. N : b[i] = a[i]
      /\ \A i \in 1 .. N : a[i].term \in Nat
  BY <1>2, PeerTypes DEF PushStep
<1>4. /\ \A i \in DOMAIN b : i \in DOMAIN a \/ i = N + 1
      /\ N + 1 \in DOMAIN b /\ N + 1 \notin DOMAIN a
      /\ \A i \in DOMAIN a : i \in DOMAIN b /\ b[i] = a[i]
  BY <1>3
<1>5. ASSUME NEW x, Has(a, x) PROVE Has(b, x)
  BY <1>4, <1>5 DEF Has
<1> HIDE DEF a, T
<1>6. a = disk[p].log /\ T = disk[p].term
  BY DEF a, T
<1>0. /\ <<T, p>> \in elected
      /\ \A q \in Peer : \A j \in DOMAIN disk[q].log :
           disk[q].log[j].term = T => j \in DOMAIN a /\ a[j].term = T
  <2>1. /\ <<disk[p].term, p>> \in elected
        /\ \A q \in Peer : \A j \in DOMAIN disk[q].log :
             disk[q].log[j].term = disk[p].term =>
               j \in DOMAIN disk[p].log /\ disk[p].log[j].term = disk[p].term
    BY <1>2 DEF LogInv, LeadersOwn
  <2> QED
    BY <2>1 DEF a, T
<1>7. TermsGrow'
  <2> SUFFICES ASSUME NEW q \in Peer, NEW i \in DOMAIN disk'[q].log, NEW j \in DOMAIN disk'[q].log
               PROVE  /\ disk'[q].log[i].term <= disk'[q].term
                      /\ i <= j => disk'[q].log[i].term <= disk'[q].log[j].term
    BY DEF TermsGrow
  <2>1. CASE q # p
    BY <1>1, <2>1 DEF LogInv, TermsGrow
  <2>2. CASE q = p
    <3>1. \A h \in DOMAIN a : a[h].term <= T
      BY <1>2, <1>6 DEF LogInv, TermsGrow
    <3>2. \A h, k \in DOMAIN a : h <= k => a[h].term <= a[k].term
      BY <1>2, <1>6 DEF LogInv, TermsGrow
    <3>3. i \in DOMAIN b /\ j \in DOMAIN b
      BY <1>2, <2>2
    <3>4. b[i].term <= T
      BY <1>2, <1>3, <1>4, <3>1, <3>3
    <3>5. ASSUME i <= j PROVE b[i].term <= b[j].term
      <4>1. CASE j = N + 1
        BY <1>2, <3>4, <4>1
      <4>2. CASE j # N + 1
        BY <1>3, <1>4, <3>2, <3>3, <3>5, <4>2
      <4> QED
        BY <4>1, <4>2
    <3> QED
      BY <1>1, <1>2, <1>6, <2>2, <3>4, <3>5
  <2> QED
    BY <2>1, <2>2
<1>8. LogsMatch'
  <2> SUFFICES ASSUME NEW q \in Peer, NEW r \in Peer
               PROVE  Matches(disk'[q].log, disk'[r].log)
    BY DEF LogsMatch
  <2>0. \A q1, r1 \in Peer : Matches(disk[q1].log, disk[r1].log)
    BY DEF LogInv, LogsMatch
  <2>1. CASE q # p /\ r # p
    BY <1>1, <2>0, <2>1
  <2>2. CASE q = p /\ r = p
    BY <1>2, <2>2 DEF Matches
  <2>3. CASE q = p /\ r # p
    <3> DEFINE l == disk[r].log
    <3>1. Matches(a, l) /\ DOMAIN l = 1 .. Len(l) /\ Len(l) \in Nat
      BY <1>2, <1>6, <2>0, PeerTypes
    <3>2. \A j \in DOMAIN l : l[j].term = T => j \in DOMAIN a /\ a[j].term = T
      BY <1>0
    <3> HIDE DEF l
    <3> SUFFICES ASSUME NEW i \in DOMAIN b, NEW j \in DOMAIN l, j <= i, b[i].term = l[j].term,
                        NEW h \in 1 .. j
                 PROVE  b[h] = l[h]
      BY <1>1, <1>2, <2>3 DEF Matches, l
    <3>3. CASE i \in DOMAIN a
      <4>1. h \in DOMAIN a /\ b[i] = a[i]
        BY <1>3, <1>4, <3>1, <3>3
      <4>2. a[h] = l[h]
        BY <3>1, <3>3, <4>1 DEF Matches
      <4> QED
        BY <1>4, <4>1, <4>2
    <3>4. CASE i = N + 1
      <4>1. j \in DOMAIN a /\ a[j].term = l[j].term
        BY <1>2, <3>2, <3>4
      <4>2. j <= j /\ h \in DOMAIN a
        BY <1>3, <4>1
      <4>3. a[h] = l[h]
        BY <3>1, <4>1, <4>2 DEF Matches
      <4> QED
        BY <1>4, <4>2, <4>3
    <3> QED
      BY <1>4, <3>3, <3>4
  <2>4. CASE q # p /\ r = p
    <3> DEFINE k == disk[q].log
    <3>1. Matches(k, a) /\ DOMAIN k = 1 .. Len(k) /\ Len(k) \in Nat
      BY <1>2, <1>6, <2>0, PeerTypes
    <3>2. \A j \in DOMAIN k : k[j].term = T => j \in DOMAIN a /\ a[j].term = T
      BY <1>0
    <3> HIDE DEF k
    <3> SUFFICES ASSUME NEW i \in DOMAIN k, NEW j \in DOMAIN b, j <= i, k[i].term = b[j].term,
                        NEW h \in 1 .. j
                 PROVE  k[h] = b[h]
      BY <1>1, <1>2, <2>4 DEF Matches, k
    <3>3. CASE j \in DOMAIN a
      <4>1. h \in DOMAIN a /\ b[j] = a[j]
        BY <1>3, <1>4, <3>1, <3>3
      <4>2. k[h] = a[h]
        BY <3>1, <3>3, <4>1 DEF Matches
      <4> QED
        BY <1>4, <4>1, <4>2
    <3>4. CASE j = N + 1
      <4>1. i \in DOMAIN a
        BY <1>2, <3>2, <3>4
      <4> QED
        BY <1>3, <3>1, <3>4, <4>1
    <3> QED
      BY <1>4, <3>3, <3>4
  <2> QED
    BY <2>1, <2>2, <2>3, <2>4
<1>9. FromElected'
  <2> SUFFICES ASSUME NEW q \in Peer, NEW i \in DOMAIN disk'[q].log
               PROVE  \E w \in Peer : <<disk'[q].log[i].term, w>> \in elected
    BY <1>2 DEF FromElected
  <2>0. \A q1 \in Peer : \A i1 \in DOMAIN disk[q1].log :
           \E w \in Peer : <<disk[q1].log[i1].term, w>> \in elected
    BY DEF LogInv, FromElected
  <2>1. CASE q # p
    BY <1>1, <2>0, <2>1
  <2>2. CASE q = p /\ i = N + 1
    BY <1>0, <1>2, <2>2
  <2>3. CASE q = p /\ i # N + 1
    <3>1. i \in DOMAIN a /\ disk'[q].log[i].term = a[i].term
      BY <1>2, <1>4, <2>3
    <3> QED
      BY <1>2, <1>6, <2>0, <3>1
  <2> QED
    BY <2>1, <2>2, <2>3
<1>10. ElectedTerms'
  BY <1>1, <1>2 DEF LogInv, ElectedTerms, TypeInv, TypeOK
<1>11. LeadersOwn'
  <2> SUFFICES ASSUME NEW r \in Peer, Leads(r)'
               PROVE  /\ <<disk[r].term, r>> \in elected
                      /\ \A q \in Peer : \A j \in DOMAIN disk'[q].log :
                           disk'[q].log[j].term = disk[r].term =>
                             j \in DOMAIN disk'[r].log /\ disk'[r].log[j].term = disk[r].term
    BY <1>1, <1>2 DEF LeadersOwn
  <2>1. Leads(r)
    BY <1>1
  <2>2. /\ <<disk[r].term, r>> \in elected
        /\ \A q \in Peer : \A j \in DOMAIN disk[q].log :
             disk[q].log[j].term = disk[r].term =>
               j \in DOMAIN disk[r].log /\ disk[r].log[j].term = disk[r].term
    BY <2>1 DEF LogInv, LeadersOwn
  <2>3. ASSUME NEW q \in Peer, NEW j \in DOMAIN disk'[q].log, disk'[q].log[j].term = disk[r].term
        PROVE  j \in DOMAIN disk'[r].log /\ disk'[r].log[j].term = disk[r].term
    <3>1. CASE q = p /\ j = N + 1
      <4>1. <<T, p>> \in elected
        BY <1>0
      <4>2. T = disk[r].term
        BY <1>2, <2>3, <3>1
      <4>3. r = p
        BY <2>2, <4>1, <4>2 DEF ElectedOncePerTerm
      <4> QED
        BY <2>3, <3>1, <4>3
    <3>2. CASE ~(q = p /\ j = N + 1)
      <4>1. j \in DOMAIN disk[q].log /\ disk[q].log[j].term = disk[r].term
        BY <1>1, <1>2, <1>4, <1>6, <2>3, <3>2
      <4>2. j \in DOMAIN disk[r].log /\ disk[r].log[j].term = disk[r].term
        BY <2>2, <4>1
      <4>3. CASE r = p
        BY <1>2, <1>4, <1>6, <4>2, <4>3
      <4>4. CASE r # p
        BY <1>1, <4>2, <4>4
      <4> QED
        BY <4>3, <4>4
    <3> QED
      BY <3>1, <3>2
  <2> QED
    BY <2>2, <2>3
<1>12. ASSUME NEW x, NEW q \in Peer, Has(disk[q].log, x) PROVE Has(disk'[q].log, x)
  BY <1>1, <1>2, <1>5, <1>6, <1>12
<1>13. CommittedIsDurable'
  BY <1>2, <1>12, DurableStep DEF LogInv
<1>14. LaterLogsHave'
  <2> SUFFICES ASSUME NEW x \in committed, NEW q \in Peer, NEW j \in DOMAIN disk'[q].log,
                      disk'[q].log[j].term > x[2].term
               PROVE  Has(disk[q].log, x)
    BY <1>2, <1>12 DEF LaterLogsHave
  <2>1. CASE q = p /\ j = N + 1
    <3>1. x[2].term <= T
      <4>1. x[2].term \in Nat
        BY DEF TypeInv, TypeOK, Entry
      <4> QED
        BY <1>2, <1>3, <2>1, <4>1
    <3> QED
      BY <1>2, <1>6, <2>1, <3>1 DEF LogInv, LeadersHave
  <2>2. CASE ~(q = p /\ j = N + 1)
    <3>1. j \in DOMAIN disk[q].log /\ disk[q].log[j].term > x[2].term
      BY <1>1, <1>2, <1>4, <1>6, <2>2
    <3> QED
      BY <3>1 DEF LogInv, LaterLogsHave
  <2> QED
    BY <2>1, <2>2
<1>15. LeadersHave'
  BY <1>1, <1>2, <1>12 DEF LogInv, LeadersHave
<1>16. CommitPoints'
  <2> SUFFICES ASSUME NEW q \in Peer
               PROVE  /\ disk[q].applied <= disk[q].commit
                      /\ disk[q].commit # 0 =>
                           /\ disk[q].commit \in DOMAIN disk'[q].log
                           /\ <<disk[q].commit, disk'[q].log[disk[q].commit]>> \in committed
    BY <1>1, <1>2 DEF CommitPoints, CommitPoint
  <2>1. /\ disk[q].applied <= disk[q].commit
        /\ disk[q].commit # 0 =>
             /\ disk[q].commit \in DOMAIN disk[q].log
             /\ <<disk[q].commit, disk[q].log[disk[q].commit]>> \in committed
    BY DEF LogInv, CommitPoints, CommitPoint
  <2>2. CASE q = p
    BY <1>2, <1>4, <1>6, <2>1, <2>2
  <2>3. CASE q # p
    BY <1>1, <2>1, <2>3
  <2> QED
    BY <2>2, <2>3
<1> QED
  BY <1>7, <1>8, <1>9, <1>10, <1>11, <1>13, <1>14, <1>15, <1>16 DEF LogInv

\* A leader commits its last entry, of its own term, that a majority Q has.
CommitStep(p, Q, N) ==
  /\ p \in Peer /\ Leads(p) /\ N = Len(disk[p].log) /\ N # 0
  /\ disk[p].log[N].term = disk[p].term
  /\ Q \in SUBSET Peer /\ Majority(Q) /\ \A q \in Q : Acked(disk[p], disk[q])
  /\ \A q \in Peer : /\ disk'[q].log = disk[q].log /\ disk'[q].term = disk[q].term
                     /\ q # p => disk'[q].commit = disk[q].commit /\ disk'[q].applied = disk[q].applied
                     /\ Leads(q)' => Leads(q)
  /\ disk'[p].commit = N /\ disk'[p].applied <= N
  /\ elected' = elected /\ committed' = committed \cup {<<N, disk[p].log[N]>>}

\* Nobody has been elected in a later term: a voter of that election would be
\* in that term, and one of the voters is among those that acknowledged.
LEMMA NoLaterTerm ==
  ASSUME TypeInv, SavedInv, VotesAreSaved, QuorumVoted,
         NEW p, NEW Q, NEW N, CommitStep(p, Q, N), NEW e \in elected
  PROVE  e[1] <= disk[p].term
<1>1. PICK R \in SUBSET Peer : Majority(R) /\ \A q \in R : <<q, e[1], e[2]>> \in votes
  BY DEF QuorumVoted
<1>2. Q \in SUBSET Peer /\ Majority(Q) /\ p \in Peer
  BY DEF CommitStep
<1>3. PICK q \in Q \cap R : TRUE
  BY <1>1, <1>2, QuorumsMeet
<1>4. q \in Peer /\ disk[q].term <= disk[p].term
  BY <1>2, <1>3 DEF CommitStep, Acked
<1>5. e[1] <= disk[q].term
  <2> DEFINE v == <<q, e[1], e[2]>>
  <2>1. v \in votes /\ v[1] = q /\ v[2] = e[1]
    BY <1>1, <1>3
  <2> HIDE DEF v
  <2> QED
    BY <2>1 DEF VotesAreSaved
<1>6. e[1] \in Nat /\ disk[q].term \in Nat /\ disk[p].term \in Nat
  <2>1. e[1] \in Nat
    BY DEF TypeInv, TypeOK
  <2> QED
    BY <1>2, <1>4, <2>1, PeerTypes
<1> QED
  BY <1>4, <1>5, <1>6

LEMMA CommitLog ==
  ASSUME TypeInv, SavedInv, LogInv, VotesAreSaved, QuorumVoted, ElectedOncePerTerm,
         NEW p, NEW Q, NEW N, CommitStep(p, Q, N)
  PROVE  LogInv'
<1> DEFINE a == disk[p].log
           T == disk[p].term
           x == <<N, a[N]>>
<1>1. ASSUME NEW q \in Peer
      PROVE  /\ disk'[q].log = disk[q].log /\ disk'[q].term = disk[q].term
             /\ q # p => disk'[q].commit = disk[q].commit /\ disk'[q].applied = disk[q].applied
             /\ Leads(q)' => Leads(q)
  BY DEF CommitStep
<1>2. /\ p \in Peer /\ Leads(p) /\ elected' = elected /\ committed' = committed \cup {x}
      /\ a[N].term = T /\ N # 0 /\ N = Len(a) /\ disk'[p].commit = N /\ disk'[p].applied <= N
  BY DEF CommitStep
<1>3. N \in DOMAIN a /\ T \in Nat /\ N \in Nat
  BY <1>2, PeerTypes
<1>4. x[1] = N /\ x[2] = a[N] /\ x[2].term = T /\ Has(a, x)
  BY <1>2, <1>3 DEF Has
<1>5. \A e \in elected : e[1] \in Nat /\ e[1] <= T
  BY NoLaterTerm DEF TypeInv, TypeOK
<1> HIDE DEF x
<1>6. TermsGrow'
  BY <1>1 DEF LogInv, TermsGrow
<1>7. LogsMatch'
  BY <1>1 DEF LogInv, LogsMatch
<1>8. FromElected'
  BY <1>1, <1>2 DEF LogInv, FromElected
<1>9. ElectedTerms'
  BY <1>1, <1>2 DEF LogInv, ElectedTerms, TypeInv, TypeOK
<1>10. LeadersOwn'
  BY <1>1, <1>2 DEF LogInv, LeadersOwn
<1>11. CommittedIsDurable'
  <2> SUFFICES ASSUME NEW y \in committed \cup {x}
               PROVE  Majority({q \in Peer : /\ y[1] \in DOMAIN disk'[q].log
                                             /\ disk'[q].log[y[1]] = y[2]})
    BY <1>2 DEF CommittedIsDurable
  <2> DEFINE R == {q \in Peer : y[1] \in DOMAIN disk[q].log /\ disk[q].log[y[1]] = y[2]}
             S == {q \in Peer : y[1] \in DOMAIN disk'[q].log /\ disk'[q].log[y[1]] = y[2]}
  <2>1. R = S
    BY <1>1
  <2>2. CASE y \in committed
    BY <2>1, <2>2 DEF LogInv, CommittedIsDurable
  <2>3. CASE y = x
    <3>1. Q \in SUBSET Peer /\ Majority(Q) /\ R \in SUBSET Peer
      BY DEF CommitStep
    <3>2. ASSUME NEW q \in Q PROVE q \in R
      <4>1. q \in Peer /\ Len(a) <= Len(disk[q].log) /\ disk[q].log[N] = a[N]
        <5>1. q \in Peer /\ Acked(disk[p], disk[q])
          BY DEF CommitStep
        <5>2. N \in 1 .. Len(a)
          BY <1>2, <1>3
        <5> QED
          BY <5>1, <5>2 DEF Acked, Extends
      <4>2. N \in DOMAIN disk[q].log
        BY <1>2, <1>3, <4>1, PeerTypes
      <4> QED
        BY <1>4, <2>3, <4>1, <4>2
    <3>3. Q \subseteq R
      BY <3>2
    <3> HIDE DEF R
    <3>4. Majority(R)
      BY <3>1, <3>3, MajorityGrows
    <3> QED
      BY <2>1, <3>4
  <2> QED
    BY <2>2, <2>3
<1>12. LaterLogsHave'
  <2> SUFFICES ASSUME NEW y \in committed \cup {x}, NEW q \in Peer, NEW j \in DOMAIN disk[q].log,
                      disk[q].log[j].term > y[2].term
               PROVE  Has(disk[q].log, y)
    BY <1>1, <1>2 DEF LaterLogsHave
  <2>1. CASE y \in committed
    BY <2>1 DEF LogInv, LaterLogsHave
  <2>2. CASE y = x
    <3>1. PICK w \in Peer : <<disk[q].log[j].term, w>> \in elected
      BY DEF LogInv, FromElected
    <3>2. disk[q].log[j].term \in Nat /\ disk[q].log[j].term <= T
      BY <1>5, <3>1
    <3> QED
      BY <1>3, <1>4, <2>2, <3>2
  <2> QED
    BY <2>1, <2>2
<1>13. LeadersHave'
  <2> SUFFICES ASSUME NEW y \in committed \cup {x}, NEW r \in Peer, Leads(r),
                      y[2].term <= disk[r].term
               PROVE  Has(disk[r].log, y)
    BY <1>1, <1>2 DEF LeadersHave
  <2>1. CASE y \in committed
    BY <2>1 DEF LogInv, LeadersHave
  <2>2. CASE y = x
    <3>1. <<disk[r].term, r>> \in elected /\ <<T, p>> \in elected
      BY <1>2 DEF LogInv, LeadersOwn
    <3>2. disk[r].term = T
      <4>1. disk[r].term <= T /\ T <= disk[r].term
        BY <1>4, <1>5, <2>2, <3>1
      <4> QED
        BY <1>3, <4>1, PeerTypes
    <3>3. r = p
      BY <3>1, <3>2 DEF ElectedOncePerTerm
    <3> QED
      BY <1>4, <2>2, <3>3
  <2> QED
    BY <2>1, <2>2
<1>14. CommitPoints'
  <2> SUFFICES ASSUME NEW q \in Peer
               PROVE  /\ disk'[q].applied <= disk'[q].commit
                      /\ disk'[q].commit # 0 =>
                           /\ disk'[q].commit \in DOMAIN disk[q].log
                           /\ <<disk'[q].commit, disk[q].log[disk'[q].commit]>>
                                \in committed \cup {x}
    BY <1>1, <1>2 DEF CommitPoints, CommitPoint
  <2>1. CASE q = p
    BY <1>2, <1>3, <2>1 DEF x
  <2>2. CASE q # p
    BY <1>1, <2>2 DEF LogInv, CommitPoints, CommitPoint
  <2> QED
    BY <2>1, <2>2
<1> QED
  BY <1>6, <1>7, <1>8, <1>9, <1>10, <1>11, <1>12, <1>13, <1>14 DEF LogInv

\* A follower q takes over the log of a leader p, or has it already.
FollowStep(p, q) ==
  /\ p \in Peer /\ q \in Peer /\ p # q /\ Leads(p) /\ ~Leads(q)'
  /\ disk[q].term <= disk[p].term /\ disk'[q].term = disk[p].term
  /\ disk'[q].log = disk[p].log \/ disk'[q].log = disk[q].log
  /\ CommitPoint(disk'[q], committed)
  /\ \A r \in Peer \ {q} : disk'[r] = disk[r] /\ (Leads(r)' => Leads(r))
  /\ elected' = elected /\ committed' = committed

LEMMA FollowLog ==
  ASSUME TypeInv, SavedInv, LogInv, NEW p, NEW q, FollowStep(p, q)
  PROVE  LogInv'
<1>1. /\ p \in Peer /\ q \in Peer /\ p # q /\ Leads(p) /\ ~Leads(q)'
      /\ disk[q].term <= disk[p].term /\ disk'[q].term = disk[p].term
      /\ elected' = elected /\ committed' = committed
      /\ \A r \in Peer \ {q} : disk'[r] = disk[r] /\ (Leads(r)' => Leads(r))
  BY DEF FollowStep
<1>2. ASSUME NEW r \in Peer
      PROVE  \E s \in Peer : disk'[r].log = disk[s].log /\ disk[s].term <= disk'[r].term
  <2>1. CASE r = q
    <3>1. disk[p].term \in Nat
      BY <1>1, PeerTypes
    <3> QED
      BY <1>1, <2>1, <3>1 DEF FollowStep
  <2>2. CASE r # q
    <3>1. disk[r].term \in Nat
      BY PeerTypes
    <3> QED
      BY <1>1, <2>2, <3>1
  <2> QED
    BY <2>1, <2>2
<1>3. ASSUME NEW r \in Peer PROVE disk[r].term \in Nat /\ disk'[r].term \in Nat /\ disk[r].term <= disk'[r].term
  <2>1. disk[r].term \in Nat /\ disk[p].term \in Nat
    BY <1>1, PeerTypes
  <2> QED
    BY <1>1, <2>1
<1>4. TermsGrow'
  <2> SUFFICES ASSUME NEW r \in Peer, NEW i \in DOMAIN disk'[r].log, NEW j \in DOMAIN disk'[r].log
               PROVE  /\ disk'[r].log[i].term <= disk'[r].term
                      /\ i <= j => disk'[r].log[i].term <= disk'[r].log[j].term
    BY DEF TermsGrow
  <2>1. PICK s \in Peer : disk'[r].log = disk[s].log /\ disk[s].term <= disk'[r].term
    BY <1>2
  <2>2. /\ disk[s].log[i].term <= disk[s].term
        /\ i <= j => disk[s].log[i].term <= disk[s].log[j].term
    BY <2>1 DEF LogInv, TermsGrow
  <2>3. disk[s].log[i].term \in Nat /\ disk[s].term \in Nat /\ disk'[r].term \in Nat
    BY <1>3, <2>1, PeerTypes
  <2> QED
    BY <2>1, <2>2, <2>3
<1>5. LogsMatch'
  <2> SUFFICES ASSUME NEW r \in Peer, NEW s \in Peer
               PROVE  Matches(disk'[r].log, disk'[s].log)
    BY DEF LogsMatch
  <2>1. PICK t \in Peer : disk'[r].log = disk[t].log
    BY <1>2
  <2>2. PICK u \in Peer : disk'[s].log = disk[u].log
    BY <1>2
  <2> QED
    BY <2>1, <2>2 DEF LogInv, LogsMatch
<1>6. FromElected'
  <2> SUFFICES ASSUME NEW r \in Peer, NEW i \in DOMAIN disk'[r].log
               PROVE  \E w \in Peer : <<disk'[r].log[i].term, w>> \in elected
    BY <1>1 DEF FromElected
  <2>1. PICK t \in Peer : disk'[r].log = disk[t].log
    BY <1>2
  <2> QED
    BY <2>1 DEF LogInv, FromElected
<1>7. ElectedTerms'
  <2> SUFFICES ASSUME NEW e \in elected PROVE e[1] <= disk'[e[2]].term
    BY <1>1 DEF ElectedTerms
  <2>1. e[1] \in Nat /\ e[2] \in Peer
    BY DEF TypeInv, TypeOK
  <2>2. e[1] <= disk[e[2]].term
    BY DEF LogInv, ElectedTerms
  <2> QED
    BY <1>3, <2>1, <2>2
<1>8. LeadersOwn'
  <2> SUFFICES ASSUME NEW r \in Peer, Leads(r)', r # q
               PROVE  /\ <<disk[r].term, r>> \in elected
                      /\ \A s \in Peer : \A j \in DOMAIN disk'[s].log :
                           disk'[s].log[j].term = disk[r].term =>
                             j \in DOMAIN disk[r].log /\ disk[r].log[j].term = disk[r].term
    BY <1>1 DEF LeadersOwn
  <2>1. Leads(r)
    BY <1>1
  <2>2. /\ <<disk[r].term, r>> \in elected
        /\ \A s \in Peer : \A j \in DOMAIN disk[s].log :
             disk[s].log[j].term = disk[r].term =>
               j \in DOMAIN disk[r].log /\ disk[r].log[j].term = disk[r].term
    BY <2>1 DEF LogInv, LeadersOwn
  <2> QED
    BY <1>2, <2>2
<1>9. CommittedIsDurable'
  <2>1. ASSUME NEW x \in committed, NEW r \in Peer, Has(disk[r].log, x)
        PROVE  Has(disk'[r].log, x)
    <3>1. CASE disk'[r].log = disk[r].log
      BY <2>1, <3>1
    <3>2. CASE r = q /\ disk'[q].log = disk[p].log
      <4>1. x[2].term <= disk[q].term /\ x[2].term \in Nat
        <5>1. x[1] \in DOMAIN disk[q].log /\ disk[q].log[x[1]] = x[2]
          BY <2>1, <3>2 DEF Has
        <5> QED
          BY <1>1, <5>1, PeerTypes DEF LogInv, TermsGrow
      <4>2. x[2].term <= disk[p].term
        BY <1>1, <1>3, <4>1
      <4> QED
        BY <1>1, <3>2, <4>2 DEF LogInv, LeadersHave
    <3> QED
      BY <1>1, <3>1, <3>2 DEF FollowStep
  <2> QED
    BY <1>1, <2>1, DurableStep DEF LogInv
<1>10. LaterLogsHave'
  <2> SUFFICES ASSUME NEW x \in committed, NEW r \in Peer, NEW j \in DOMAIN disk'[r].log,
                      disk'[r].log[j].term > x[2].term
               PROVE  Has(disk'[r].log, x)
    BY <1>1 DEF LaterLogsHave
  <2>1. PICK t \in Peer : disk'[r].log = disk[t].log
    BY <1>2
  <2> QED
    BY <2>1 DEF LogInv, LaterLogsHave
<1>11. LeadersHave'
  <2> SUFFICES ASSUME NEW x \in committed, NEW r \in Peer, Leads(r)', r # q,
                      x[2].term <= disk[r].term
               PROVE  Has(disk[r].log, x)
    BY <1>1 DEF LeadersHave
  <2> QED
    BY <1>1 DEF LogInv, LeadersHave
<1>12. CommitPoints'
  <2> SUFFICES ASSUME NEW r \in Peer PROVE CommitPoint(disk'[r], committed')
    BY DEF CommitPoints
  <2>1. CASE r = q
    BY <1>1, <2>1 DEF FollowStep
  <2>2. CASE r # q
    BY <1>1, <2>2 DEF LogInv, CommitPoints
  <2> QED
    BY <2>1, <2>2
<1> QED
  BY <1>4, <1>5, <1>6, <1>7, <1>8, <1>9, <1>10, <1>11, <1>12 DEF LogInv

-----------------------------------------------------------------------------
\* An accepted AppendEntries of a leader, seen from the follower.

\* The follower ends with the log of the leader, or had it and keeps its own; it
\* loses nothing that it knew to be committed.
TakesOver(d, e, m, h, C) ==
  /\ m.term = e.term /\ d.term <= e.term /\ m.role = "Follower"
  /\ m.log = e.log \/ (m.log = d.log /\ Extends(d.log, e.log))
  /\ d.commit <= m.commit /\ d.commit <= Len(m.log) /\ m.applied = m.commit
  /\ h.applied = d.applied
  /\ \A i \in 1 .. d.commit : m.log[i] = d.log[i]
  /\ CommitPoint(m, C)

\* What is sent is the end of the leader's log.
EndOf(a, prev, es) ==
  /\ Len(es) = Len(a) - prev
  /\ \A i \in prev + 1 .. Len(a) : es[i - prev] = a[i]

LEMMA SentEntries ==
  ASSUME NEW a \in Seq(Entry), NEW prev \in Nat, prev <= Len(a),
         NEW es, es = SubSeq(a, prev + 1, Len(a))
  PROVE  EndOf(a, prev, es)
<1> DEFINE k == prev + 1
           n == Len(a)
<1>1. k \in Int /\ n \in Int /\ n \in Nat /\ es = SubSeq(a, k, n) /\ k = prev + 1 /\ n = Len(a)
  OBVIOUS
<1>2. \A i \in k .. n : a[i] \in Entry
  OBVIOUS
<1> HIDE DEF k, n
<1>3. /\ Len(es) = IF k <= n THEN n - k + 1 ELSE 0
      /\ \A i \in 1 .. n - k + 1 : es[i] = a[k + i - 1]
  BY <1>1, <1>2, SubSeqProperties
<1>4. Len(es) = n - prev
  BY <1>1, <1>3
<1>5. ASSUME NEW i \in prev + 1 .. n PROVE es[i - prev] = a[i]
  <2>1. i - prev \in 1 .. n - k + 1 /\ k + (i - prev) - 1 = i
    BY <1>1
  <2>2. es[i - prev] = a[k + (i - prev) - 1]
    BY <1>3, <2>1
  <2> QED
    BY <2>1, <2>2
<1> QED
  BY <1>1, <1>4, <1>5 DEF EndOf

LEMMA FollowerTakesOver ==
  ASSUME TypeInv, SavedInv, LogInv, NEW p \in Peer, NEW q \in Peer, Leads(p), up[q],
         NEW req \in Request, Accepted(raft[q], req), Sent(req, disk[p]),
         req.prevIndex <= Len(disk[p].log)
  PROVE  TakesOver(disk[q], disk[p], HandlerNode(raft[q], req),
                   HandleAppendEntries(raft[q], req), committed)
<1> DEFINE n == raft[q]
           d == disk[q]
           e == disk[p]
           a == disk[p].log
           l == disk[q].log
           m == HandlerNode(raft[q], req)
           h == HandleAppendEntries(raft[q], req)
           prev == req.prevIndex
           es == req.entries
<1>1. n \in Node /\ InLog(n) /\ SameState(n, d)
  BY RunningPeer
<1>2. PICK f \in Node, g \in Node :
           /\ f.log = n.log /\ f.commit = n.commit /\ f.applied = n.applied
           /\ req \in AppendRequest /\ req.prevIndex <= Len(n.log)
           /\ req.prevIndex # 0 => n.log[req.prevIndex].term = req.prevTerm
           /\ req.term >= n.term /\ g = MergeEntries(f, req)
           /\ Follows(n, req, g, m)
           /\ h.applied = g.applied
  <2> HIDE DEF n
  <2> QED
    BY <1>1, AcceptingHandler DEF n
<1>3. PICK keep \in Nat : MergedTo(f, req, g, keep)
  BY <1>2, MergeLog
<1>4. /\ f.log = l /\ f.commit = d.commit /\ f.applied = d.applied
      /\ prev <= Len(l) /\ (prev # 0 => l[prev].term = req.prevTerm)
      /\ req.term >= d.term
  BY <1>1, <1>2 DEF SameState
<1>5. /\ Len(a) \in Nat /\ DOMAIN a = 1 .. Len(a) /\ a \in Seq(Entry)
      /\ \A i \in DOMAIN a : a[i].term \in Nat
      /\ Len(l) \in Nat /\ DOMAIN l = 1 .. Len(l) /\ l \in Seq(Entry)
      /\ \A i \in DOMAIN l : l[i].term \in Nat
      /\ d.term \in Nat /\ d.commit \in Nat /\ d.applied \in Nat
      /\ e.term \in Nat /\ e.commit \in Nat
  BY PeerTypes
<1>6. /\ prev \in Nat /\ prev <= Len(a) /\ req.term = e.term /\ req.commit = e.commit
      /\ prev # 0 => req.prevTerm = a[prev].term
  <2>1. prev \in Nat
    BY <1>2 DEF AppendRequest
  <2> QED
    BY <2>1 DEF Sent
<1>0. es = SubSeq(a, prev + 1, Len(a)) /\ l = d.log /\ a = e.log
  BY DEF Sent
<1>7. /\ CommitPoint(d, committed) /\ CommitPoint(e, committed)
      /\ Matches(a, l)
      /\ \A i \in DOMAIN l : l[i].term <= d.term
      /\ \A x \in committed : x[2].term <= e.term => Has(a, x)
  BY DEF LogInv, CommitPoints, LogsMatch, TermsGrow, LeadersHave
<1> HIDE DEF n, d, e, a, l, m, h, prev, es
<1>8. Len(es) = Len(a) - prev /\ \A i \in prev + 1 .. Len(a) : es[i - prev] = a[i]
  <2>1. a \in Seq(Entry) /\ prev \in Nat /\ prev <= Len(a)
    BY <1>5, <1>6
  <2>2. EndOf(a, prev, es)
    BY <1>0, <2>1, SentEntries
  <2> QED
    BY <2>2 DEF EndOf
<1>9. /\ keep \in 0 .. Len(l) /\ prev <= keep /\ keep <= Len(a)
      /\ \A i \in prev + 1 .. keep : es[i - prev].term = l[i].term
  <2>1. /\ keep \in 0 .. Len(l) /\ prev <= keep /\ keep <= prev + Len(es)
        /\ \A i \in prev + 1 .. keep : es[i - prev].term = l[i].term
    BY <1>3, <1>4 DEF MergedTo, Agree, prev, es
  <2> QED
    BY <1>5, <1>6, <1>8, <2>1
<1>10. \A i \in 1 .. keep : a[i] = l[i]
  <2>1. CASE keep = 0
    BY <2>1
  <2>2. CASE keep # 0
    <3>1. a[keep].term = l[keep].term
      <4>1. CASE keep = prev
        BY <1>4, <1>6, <2>2, <4>1
      <4>2. CASE keep # prev
        <5>1. keep \in prev + 1 .. keep /\ keep \in prev + 1 .. Len(a)
          BY <1>5, <1>6, <1>9, <4>2
        <5> QED
          BY <1>8, <1>9, <5>1
      <4> QED
        BY <4>1, <4>2
    <3>2. keep \in DOMAIN a /\ keep \in DOMAIN l /\ keep <= keep
      BY <1>5, <1>9, <2>2
    <3> QED
      BY <1>7, <3>1, <3>2 DEF Matches
  <2> QED
    BY <2>1, <2>2
<1>11. /\ g.log = a \/ (g.log = l /\ Extends(l, a))
       /\ Len(a) <= Len(g.log) /\ \A i \in DOMAIN a : g.log[i] = a[i]
       /\ \A i \in 1 .. keep : g.log[i] = l[i]
       /\ g.commit = d.commit /\ g.applied = d.applied /\ d.commit <= Len(g.log)
       /\ \A i \in 1 .. d.commit : g.log[i] = l[i]
  <2>1. CASE g = f /\ keep = prev + Len(es)
    <3>1. keep = Len(a)
      BY <1>5, <1>6, <1>8, <2>1
    <3>2. g.log = l /\ Len(a) <= Len(l) /\ \A i \in 1 .. Len(a) : l[i] = a[i]
      BY <1>4, <1>5, <1>9, <1>10, <2>1, <3>1
    <3>3. d.commit <= Len(l)
      <4>1. d.commit # 0 => d.commit \in DOMAIN l
        BY <1>0, <1>7 DEF CommitPoint
      <4> QED
        BY <1>5, <4>1
    <3> QED
      BY <1>4, <1>5, <2>1, <3>1, <3>2, <3>3 DEF Extends
  <2>2. CASE Replaced(f, req, g, keep)
    <3>1. /\ keep < prev + Len(es)
          /\ keep < Len(l) => l[keep + 1].term # es[keep + 1 - prev].term
          /\ g.log \in Seq(Entry) /\ Len(g.log) = prev + Len(es)
          /\ \A i \in 1 .. keep : g.log[i] = l[i]
          /\ \A i \in keep + 1 .. Len(g.log) : g.log[i] = es[i - prev]
          /\ g.commit = Least(d.commit, keep) /\ g.applied = Least(d.applied, keep)
      BY <1>4, <2>2 DEF Replaced, prev, es
    <3>2. Len(g.log) = Len(a) /\ DOMAIN g.log = DOMAIN a /\ keep < Len(a)
      <4>1. prev + Len(es) = Len(a)
        BY <1>5, <1>6, <1>8
      <4> QED
        BY <1>5, <3>1, <4>1
    <3>3. ASSUME NEW i \in DOMAIN a PROVE g.log[i] = a[i]
      <4>1. CASE i <= keep
        BY <1>5, <1>9, <1>10, <3>1, <4>1
      <4>2. CASE i > keep
        <5>1. i \in keep + 1 .. Len(g.log) /\ i \in prev + 1 .. Len(a)
          BY <1>5, <1>6, <1>9, <3>2, <4>2
        <5> QED
          BY <1>8, <3>1, <5>1
      <4> QED
        BY <1>5, <1>9, <4>1, <4>2
    <3>4. g.log = a
      <4>1. g.log = [i \in DOMAIN g.log |-> g.log[i]] /\ a = [i \in DOMAIN a |-> a[i]]
        BY <1>5, <3>1
      <4> QED
        BY <3>2, <3>3, <4>1
    <3>5. d.commit <= keep
      <4> SUFFICES ASSUME d.commit > keep PROVE FALSE
        BY <1>5
      <4> DEFINE x == <<d.commit, l[d.commit]>>
      <4>1. d.commit # 0 /\ d.commit \in DOMAIN l /\ x \in committed
        <5>1. d.commit # 0
          BY <1>5
        <5> QED
          BY <5>1, <1>7 DEF CommitPoint, d, l
      <4>2. l[d.commit].term <= e.term
        <5>1. l[d.commit].term <= d.term /\ l[d.commit].term \in Nat
          BY <1>5, <1>7, <4>1
        <5>2. d.term <= e.term /\ d.term \in Nat /\ e.term \in Nat
          BY <1>4, <1>5, <1>6
        <5> HIDE DEF x
        <5> QED
          BY <5>1, <5>2
      <4>3. d.commit \in DOMAIN a /\ a[d.commit] = l[d.commit]
        <5>1. x[1] = d.commit /\ x[2] = l[d.commit]
          OBVIOUS
        <5> HIDE DEF x
        <5>2. Has(a, x)
          BY <1>7, <4>1, <4>2, <5>1
        <5> QED
          BY <5>1, <5>2 DEF Has
      <4>4. d.commit <= d.commit /\ keep + 1 \in 1 .. d.commit
        BY <1>5
      <4>5. a[keep + 1] = l[keep + 1]
        BY <1>7, <4>1, <4>3, <4>4 DEF Matches
      <4>6. keep < Len(l)
        BY <1>5, <4>1
      <4>7. keep + 1 \in prev + 1 .. Len(a)
        BY <1>5, <1>6, <1>9, <3>2
      <4>8. es[keep + 1 - prev] = a[keep + 1]
        <5>1. \A i \in prev + 1 .. Len(a) : es[i - prev] = a[i]
          BY <1>8
        <5> DEFINE i == keep + 1
        <5>2. i \in prev + 1 .. Len(a) /\ keep + 1 - prev = i - prev /\ a[keep + 1] = a[i]
          BY <1>6, <4>7
        <5> HIDE DEF i
        <5> QED
          BY <5>1, <5>2
      <4> QED
        BY <3>1, <4>5, <4>6, <4>8
    <3>6. d.applied <= d.commit
      BY <1>7 DEF CommitPoint
    <3>7. g.commit = d.commit /\ g.applied = d.applied
      BY <1>5, <3>1, <3>5, <3>6 DEF Least
    <3>8. Len(a) <= Len(g.log) /\ d.commit <= Len(g.log)
      BY <1>5, <3>2, <3>5
    <3>9. \A i \in 1 .. d.commit : g.log[i] = l[i]
      <4>1. \A i \in 1 .. keep : g.log[i] = l[i]
        BY <3>1
      <4> QED
        BY <1>5, <3>5, <4>1
    <3>10. \A i \in 1 .. keep : g.log[i] = l[i]
      BY <3>1
    <3> QED
      BY <3>3, <3>4, <3>7, <3>8, <3>9, <3>10
  <2> QED
    BY <1>3, <2>1, <2>2 DEF MergedTo, prev, es
<1>12. e.commit <= Len(a) /\ (e.commit # 0 => e.commit \in DOMAIN a /\ <<e.commit, a[e.commit]>> \in committed)
  <2>1. e.commit # 0 => e.commit \in DOMAIN a /\ <<e.commit, a[e.commit]>> \in committed
    BY <1>7 DEF CommitPoint, e, a
  <2> QED
    BY <1>5, <2>1
<1>13. d.applied <= d.commit /\ (d.commit # 0 => d.commit \in DOMAIN l /\ <<d.commit, l[d.commit]>> \in committed)
  BY <1>7 DEF CommitPoint, d, l
<1>14. /\ m.term = e.term /\ m.role = "Follower" /\ m.log = g.log /\ h.applied = d.applied
       /\ m.commit = IF e.commit > d.commit THEN Least(e.commit, Len(g.log)) ELSE d.commit
       /\ m.applied = IF d.applied < m.commit THEN m.commit ELSE d.applied
  BY <1>2, <1>6, <1>11 DEF Follows
<1>15. Len(g.log) \in Nat /\ DOMAIN g.log = 1 .. Len(g.log)
  BY <1>5, <1>11
<1>16. m.commit = IF e.commit > d.commit THEN e.commit ELSE d.commit
  BY <1>5, <1>11, <1>12, <1>14, <1>15 DEF Least
<1>17. d.commit <= m.commit /\ m.applied = m.commit /\ m.commit \in Nat
  BY <1>5, <1>13, <1>14, <1>16
<1>18. m.commit # 0 => m.commit \in DOMAIN m.log /\ <<m.commit, m.log[m.commit]>> \in committed
  <2>1. CASE e.commit > d.commit
    <3>1. m.commit = e.commit /\ e.commit # 0
      BY <1>5, <1>16, <2>1
    <3>2. e.commit \in DOMAIN g.log /\ g.log[e.commit] = a[e.commit]
      BY <1>5, <1>11, <1>12, <1>15, <3>1
    <3> QED
      BY <1>12, <1>14, <3>1, <3>2
  <2>2. CASE ~(e.commit > d.commit)
    <3>1. m.commit = d.commit
      BY <1>16, <2>2
    <3>2. d.commit # 0 => d.commit \in DOMAIN g.log /\ g.log[d.commit] = l[d.commit]
      BY <1>5, <1>11, <1>15, SMTT(20)
    <3> QED
      BY <1>13, <1>14, <3>1, <3>2
  <2> QED
    BY <2>1, <2>2
<1>19. CommitPoint(m, committed)
  BY <1>17, <1>18 DEF CommitPoint
<1>20. d.term <= e.term
  BY <1>4, <1>5, <1>6
<1> QED
  BY <1>11, <1>14, <1>17, <1>19, <1>20 DEF TakesOver, n, d, e, a, l, m, h

-----------------------------------------------------------------------------
\* Applying committed commands.

Writers(log, from, to, k) == {i \in from .. to : k \in DOMAIN log[i].cmd}

LEMMA ApplyKey ==
  ASSUME NEW d, IsDisk(d), NEW log, NEW from, NEW to, NEW k \in Key
  PROVE  ApplyKvCommands(d, log, from, to).kv[k]
           = IF Writers(log, from, to, k) = {} THEN d.kv[k]
             ELSE log[Max(Writers(log, from, to, k))].cmd[k]
<1> DEFINE kv == [j \in Key |->
              IF {i \in from .. to : j \in DOMAIN log[i].cmd} = {} THEN d.kv[j]
              ELSE log[Max({i \in from .. to : j \in DOMAIN log[i].cmd})].cmd[j]]
<1>1. DOMAIN d = {"saved", "term", "voted", "commit", "applied", "log", "kv"}
  BY DEF IsDisk
<1>2. ApplyKvCommands(d, log, from, to) = [d EXCEPT !.kv = kv]
  BY DEF ApplyKvCommands
<1>3. kv[k] = IF Writers(log, from, to, k) = {} THEN d.kv[k]
              ELSE log[Max(Writers(log, from, to, k))].cmd[k]
  BY DEF Writers
<1> HIDE DEF kv
<1>4. ApplyKvCommands(d, log, from, to).kv = kv
  BY <1>1, <1>2
<1> QED
  BY <1>3, <1>4

\* The keys after the first a entries of l, and then those up to b of a log r
\* that goes on from there, are the keys after the first b entries of r.
LEMMA ApplyMore ==
  ASSUME NEW d, IsDisk(d), NEW k \in Key, NEW l, NEW r, NEW a \in Nat, NEW b \in Nat, a <= b,
         d.kv[k] = ApplyKvCommands(EmptyDisk, l, 1, a).kv[k],
         \A i \in 1 .. a : r[i] = l[i]
  PROVE  ApplyKvCommands(d, r, a + 1, b).kv[k] = ApplyKvCommands(EmptyDisk, r, 1, b).kv[k]
<1> DEFINE V == Writers(l, 1, a, k)
           W == Writers(r, a + 1, b, k)
           U == Writers(r, 1, b, k)
<1>1. U = V \cup W
  <2>1. \A i : i \in 1 .. b <=> i \in 1 .. a \/ i \in a + 1 .. b
    OBVIOUS
  <2> QED
    BY <2>1 DEF Writers
<1>2. /\ V \in SUBSET Nat /\ \A i \in V : i <= a
      /\ W \in SUBSET Nat /\ \A i \in W : a < i /\ i <= b
      /\ \A i \in V : r[i] = l[i]
  BY DEF Writers
<1>3. d.kv[k] = IF V = {} THEN EmptyDisk.kv[k] ELSE l[Max(V)].cmd[k]
  BY EmptyDiskFacts, ApplyKey
<1>4. ApplyKvCommands(d, r, a + 1, b).kv[k] = IF W = {} THEN d.kv[k] ELSE r[Max(W)].cmd[k]
  BY ApplyKey
<1>5. ApplyKvCommands(EmptyDisk, r, 1, b).kv[k]
        = IF U = {} THEN EmptyDisk.kv[k] ELSE r[Max(U)].cmd[k]
  BY EmptyDiskFacts, ApplyKey
<1> HIDE DEF U, V, W
<1>6. CASE W = {}
  <2>1. U = V
    BY <1>1, <1>6
  <2>2. V # {} => Max(V) \in V
    BY <1>2, MaxOfBoundedNats
  <2> QED
    BY <1>2, <1>3, <1>4, <1>5, <1>6, <2>1, <2>2
<1>7. CASE W # {}
  <2>1. Max(W) \in W /\ \A j \in W : j <= Max(W)
    BY <1>2, <1>7, MaxOfBoundedNats
  <2>2. Max(U) \in U /\ \A j \in U : j <= Max(U)
    <3>1. U \in SUBSET Nat /\ U # {} /\ \A i \in U : i <= b
      BY <1>1, <1>2, <1>7
    <3> QED
      BY <3>1, MaxOfBoundedNats
  <2>3. Max(W) = Max(U)
    <3>1. Max(W) \in Nat /\ Max(U) \in Nat /\ a < Max(W) /\ Max(W) <= Max(U)
      BY <1>1, <1>2, <2>1, <2>2
    <3>2. Max(U) \notin V
      BY <1>2, <3>1
    <3>3. Max(U) <= Max(W)
      BY <1>1, <2>1, <2>2, <3>2
    <3> QED
      BY <3>1, <3>3
  <2> QED
    BY <1>1, <1>4, <1>5, <1>7, <2>3
<1> QED
  BY <1>6, <1>7

\* A step that applies the commands of a log from the applied index on.
LEMMA KvApplied ==
  ASSUME NEW d, IsDisk(d), KvAt(d), NEW e, e.applied \in Nat, d.applied <= e.applied,
         \A i \in 1 .. d.applied : e.log[i] = d.log[i],
         e.kv = ApplyKvCommands(d, e.log, d.applied + 1, e.applied).kv
  PROVE  KvAt(e)
<1> SUFFICES ASSUME NEW k \in Key
             PROVE  e.kv[k] = ApplyKvCommands(EmptyDisk, e.log, 1, e.applied).kv[k]
  BY DEF KvAt
<1>1. d.applied \in Nat
  BY DEF IsDisk
<1>2. d.kv[k] = ApplyKvCommands(EmptyDisk, d.log, 1, d.applied).kv[k]
  BY DEF KvAt
<1>3. ApplyKvCommands(d, e.log, d.applied + 1, e.applied).kv[k]
        = ApplyKvCommands(EmptyDisk, e.log, 1, e.applied).kv[k]
  <2> DEFINE a == d.applied
             b == e.applied
             l == d.log
             r == e.log
  <2>1. /\ a \in Nat /\ b \in Nat /\ a <= b /\ \A i \in 1 .. a : r[i] = l[i]
        /\ d.kv[k] = ApplyKvCommands(EmptyDisk, l, 1, a).kv[k]
    BY <1>1, <1>2
  <2> HIDE DEF a, b, l, r
  <2>2. ApplyKvCommands(d, r, a + 1, b).kv[k] = ApplyKvCommands(EmptyDisk, r, 1, b).kv[k]
    BY <2>1, ApplyMore
  <2> QED
    BY <2>2 DEF a, b, r
<1> QED
  BY <1>3

\* A step that applies nothing.
LEMMA KvKept ==
  ASSUME NEW d, IsDisk(d), KvAt(d), NEW e, e.applied = d.applied, e.kv = d.kv,
         \A i \in 1 .. d.applied : e.log[i] = d.log[i]
  PROVE  KvAt(e)
<1>1. d.applied \in Nat
  BY DEF IsDisk
<1> SUFFICES ASSUME NEW k \in Key
             PROVE  e.kv[k] = ApplyKvCommands(EmptyDisk, e.log, 1, e.applied).kv[k]
  BY DEF KvAt
<1>2. d.kv[k] = ApplyKvCommands(EmptyDisk, d.log, 1, d.applied).kv[k]
  BY DEF KvAt
<1> DEFINE a == d.applied
           l == d.log
           r == e.log
<1>3. /\ a \in Nat /\ a <= a /\ \A i \in 1 .. a : r[i] = l[i]
      /\ d.kv[k] = ApplyKvCommands(EmptyDisk, l, 1, a).kv[k] /\ e.applied = a
  BY <1>1, <1>2
<1> HIDE DEF a, l, r
<1>4. ApplyKvCommands(d, r, a + 1, a).kv[k] = ApplyKvCommands(EmptyDisk, r, 1, a).kv[k]
  BY <1>3, ApplyMore
<1>5. Writers(r, a + 1, a, k) = {}
  BY <1>3 DEF Writers
<1>6. ApplyKvCommands(d, r, a + 1, a).kv[k] = d.kv[k]
  BY <1>5, ApplyKey
<1> QED
  BY <1>3, <1>4, <1>6 DEF r

-----------------------------------------------------------------------------
\* What the steps do to the data.

LEMMA SavesFacts ==
  ASSUME TypeInv, NEW p, NEW m, NEW e, Saves(p, m, e)
  PROVE  /\ p \in Peer /\ disk'[p] = e /\ raft'[p] = m /\ IsDisk(e) /\ SameState(m, e)
         /\ Leads(p)' <=> m.role = "Leader"
         /\ \A q \in Peer \ {p} : disk'[q] = disk[q] /\ (Leads(q)' <=> Leads(q))
<1>1. /\ raft \in [Peer -> Node] /\ DOMAIN disk = Peer /\ p \in Peer /\ up[p]
      /\ raft' = [raft EXCEPT ![p] = m] /\ disk' = [disk EXCEPT ![p] = e] /\ up' = up
      /\ IsDisk(e) /\ SameState(m, e)
  BY DEF TypeInv, TypeOK, Saves
<1> QED
  BY <1>1 DEF Leads

LEMMA SavesLeading ==
  ASSUME TypeInv, NEW p, NEW m, NEW e, Saves(p, m, e)
  PROVE  /\ p \in Leading' <=> m.role = "Leader"
         /\ \A q \in Peer \ {p} : q \in Leading' <=> q \in Leading
BY SavesFacts DEF Leading

LEMMA SameDataSafe ==
  ASSUME TypeInv, TypeInv', SafeInv, UNCHANGED <<elected, committed>>,
         \A p \in Peer : disk'[p] = disk[p] /\ (Leads(p)' => Leads(p))
  PROVE  LogInv' /\ KvInv'
<1>1. \A p \in Peer : disk[p].term \in Nat
  BY PeerTypes DEF SafeInv
<1>2. QuietStep
  BY <1>1 DEF QuietStep
<1>3. LogInv'
  BY <1>2, QuietLog DEF SafeInv
<1>4. KvInv'
  BY DEF SafeInv, KvInv
<1> QED
  BY <1>3, <1>4

LEMMA QuietSafe ==
  ASSUME TypeInv, TypeInv', SafeInv, UNCHANGED <<elected, committed>>,
         NEW p, NEW m, NEW e, Saves(p, m, e), SameData(disk[p], e),
         e.term >= disk[p].term,
         m.role = "Leader" => Leads(p) /\ e.term = disk[p].term
  PROVE  LogInv' /\ KvInv'
<1>1. /\ p \in Peer /\ disk'[p] = e /\ (Leads(p)' <=> m.role = "Leader")
      /\ \A q \in Peer \ {p} : disk'[q] = disk[q] /\ (Leads(q)' <=> Leads(q))
  BY SavesFacts
<1>2. \A q \in Peer : disk[q].term \in Nat /\ IsDisk(disk[q])
  BY PeerTypes DEF SafeInv, TypeInv, TypeOK
<1>3. QuietStep
  BY <1>1, <1>2 DEF QuietStep, SameData
<1>4. LogInv'
  BY <1>3, QuietLog DEF SafeInv
<1>5. KvAt(e)
  <2>1. KvAt(disk[p]) /\ IsDisk(disk[p])
    BY <1>1, <1>2 DEF SafeInv, KvInv
  <2> QED
    BY <2>1, KvKept DEF SameData
<1>6. KvInv'
  BY <1>1, <1>5 DEF SafeInv, KvInv
<1> QED
  BY <1>4, <1>6

LEMMA WinSafe ==
  ASSUME TypeInv, SafeInv, ElectedOncePerTerm', committed' = committed,
         NEW p, NEW m, NEW e, Saves(p, m, e), SameData(disk[p], e), e.term = disk[p].term,
         NEW t, t.home = p, t.got \in SUBSET Peer, Majority(t.got),
         CampaignInv(t, disk, elected), elected' = elected \cup {<<t.req.term, p>>}
  PROVE  LogInv' /\ KvInv'
<1>1. /\ p \in Peer /\ disk'[p] = e
      /\ \A q \in Peer \ {p} : disk'[q] = disk[q] /\ (Leads(q)' <=> Leads(q))
  BY SavesFacts
<1>2. /\ t.req.term = disk[p].term /\ <<disk[p].term, p>> \notin elected
      /\ t.req.lastIndex = Len(disk[p].log) /\ t.req.lastTerm = LastTerm(disk[p])
      /\ \A q \in t.got : UpToDate(t.req, disk[q].log)
  BY DEF CampaignInv
<1>3. WinStep(p, t.got)
  <2>1. \A q \in t.got : UpToDate([lastIndex |-> Len(disk[p].log), lastTerm |-> LastTerm(disk[p])],
                                  disk[q].log)
    BY <1>2 DEF UpToDate
  <2>2. \A q \in Peer : /\ disk'[q].log = disk[q].log /\ disk'[q].commit = disk[q].commit
                        /\ disk'[q].applied = disk[q].applied /\ disk'[q].term = disk[q].term
                        /\ Leads(q)' => Leads(q) \/ q = p
    BY <1>1 DEF SameData
  <2> QED
    BY <1>1, <1>2, <2>1, <2>2 DEF WinStep
<1>4. LogInv'
  BY <1>3, WinLog DEF SafeInv
<1>5. KvAt(e)
  <2>1. KvAt(disk[p]) /\ IsDisk(disk[p])
    BY <1>1 DEF SafeInv, KvInv, TypeInv, TypeOK
  <2> QED
    BY <2>1, KvKept DEF SameData
<1>6. KvInv'
  BY <1>1, <1>5 DEF SafeInv, KvInv
<1> QED
  BY <1>4, <1>6

LEMMA AppliedInLog ==
  ASSUME TypeInv, SafeInv, NEW p \in Peer
  PROVE  disk[p].applied <= disk[p].commit /\ disk[p].commit <= Len(disk[p].log)
<1>1. CommitPoint(disk[p], committed)
  BY DEF SafeInv, LogInv, CommitPoints
<1>2. /\ Len(disk[p].log) \in Nat /\ DOMAIN disk[p].log = 1 .. Len(disk[p].log)
      /\ disk[p].commit \in Nat /\ disk[p].applied \in Nat
  BY PeerTypes DEF SafeInv
<1> QED
  BY <1>1, <1>2 DEF CommitPoint

LEMMA PushSafe ==
  ASSUME TypeInv, SafeInv, ElectedOncePerTerm, UNCHANGED <<elected, committed>>,
         NEW p, NEW m, NEW e, Saves(p, m, e), Leads(p), NEW cmd \in Command, Pushed(disk[p], e, cmd)
  PROVE  LogInv' /\ KvInv'
<1> DEFINE l == disk[p].log
           N == Len(l)
           x == [term |-> disk[p].term, cmd |-> cmd]
<1>1. /\ p \in Peer /\ disk'[p] = e
      /\ \A q \in Peer \ {p} : disk'[q] = disk[q] /\ (Leads(q)' <=> Leads(q))
  BY SavesFacts
<1>2. /\ l \in Seq(Entry) /\ N \in Nat /\ DOMAIN l = 1 .. N /\ disk[p].term \in Nat
      /\ disk[p].applied \in Nat /\ disk[p].commit \in Nat
      /\ disk[p].applied <= N
  <2>1. /\ l \in Seq(Entry) /\ N \in Nat /\ DOMAIN l = 1 .. N /\ disk[p].term \in Nat
        /\ disk[p].applied \in Nat /\ disk[p].commit \in Nat
    BY <1>1, PeerTypes DEF SafeInv
  <2>2. disk[p].applied <= disk[p].commit /\ disk[p].commit <= N
    BY <1>1, AppliedInLog
  <2> QED
    BY <2>1, <2>2
<1>3. e.log = Append(l, x) /\ x \in Entry /\ x.term = disk[p].term
  BY <1>2 DEF Pushed, Entry
<1>4. /\ e.commit = disk[p].commit /\ e.applied = disk[p].applied /\ e.kv = disk[p].kv
      /\ e.term = disk[p].term
  BY DEF Pushed
<1> HIDE DEF l, x
<1>5. /\ e.log \in Seq(Entry) /\ Len(e.log) = N + 1 /\ DOMAIN e.log = 1 .. N + 1
      /\ \A i \in 1 .. N : e.log[i] = l[i]
      /\ e.log[N + 1] = x
  BY <1>2, <1>3
<1>6. PushStep(p, N, e.log)
  BY <1>1, <1>2, <1>3, <1>4, <1>5 DEF PushStep, l, N
<1>7. LogInv'
  BY <1>6, PushLog DEF SafeInv
<1>8. KvAt(e)
  <2>1. KvAt(disk[p]) /\ IsDisk(disk[p])
    BY <1>1 DEF SafeInv, KvInv, TypeInv, TypeOK
  <2>2. \A i \in 1 .. disk[p].applied : e.log[i] = disk[p].log[i]
    BY <1>2, <1>5 DEF l
  <2> QED
    BY <1>4, <2>1, <2>2, KvKept
<1>9. KvInv'
  BY <1>1, <1>8 DEF SafeInv, KvInv
<1> QED
  BY <1>7, <1>9

LEMMA CommitSafe ==
  ASSUME TypeInv, SafeInv, VotesAreSaved, QuorumVoted, ElectedOncePerTerm, elected' = elected,
         NEW p, NEW m, NEW e, Saves(p, m, e), m.role = raft[p].role,
         NEW N, CommittedTo(disk[p], e, N),
         committed' = committed \cup {<<i, e.log[i]>> : i \in {N} \cap DOMAIN e.log},
         NEW Q \in SUBSET Peer, Majority(Q), \A q \in Q : Acked(disk[p], disk[q]),
         Leads(p), N = Len(disk[p].log), N # 0, disk[p].log[N].term = disk[p].term
  PROVE  LogInv' /\ KvInv' /\ e.commit = N
<1> DEFINE d == disk[p]
           l == disk[p].log
<1>1. /\ p \in Peer /\ disk'[p] = e /\ (Leads(p)' <=> m.role = "Leader")
      /\ \A q \in Peer \ {p} : disk'[q] = disk[q] /\ (Leads(q)' <=> Leads(q))
  BY SavesFacts
<1>2. /\ N \in Nat /\ DOMAIN l = 1 .. N /\ d.applied \in Nat /\ d.applied <= N /\ d.commit \in Nat
  <2>1. /\ N \in Nat /\ DOMAIN l = 1 .. N /\ d.applied \in Nat /\ d.commit \in Nat
    BY <1>1, PeerTypes DEF SafeInv
  <2>2. d.applied <= d.commit /\ d.commit <= N
    BY <1>1, AppliedInLog
  <2> QED
    BY <2>1, <2>2
<1>3. /\ e.log = l /\ e.term = d.term /\ e.commit = N /\ e.applied = N
      /\ e.kv = ApplyKvCommands(d, l, d.applied + 1, e.commit).kv
  <2>1. /\ e.log = l /\ e.term = d.term /\ e.commit = Least(N, N)
        /\ e.applied = IF d.applied < e.commit THEN e.commit ELSE d.applied
        /\ e.kv = ApplyKvCommands(d, l, d.applied + 1, e.commit).kv
    BY DEF CommittedTo
  <2>2. e.commit = N
    BY <2>1 DEF Least
  <2> QED
    BY <1>2, <2>1, <2>2
<1>4. committed' = committed \cup {<<N, l[N]>>}
  <2>1. {N} \cap DOMAIN e.log = {N}
    BY <1>2, <1>3
  <2>2. {<<i, e.log[i]>> : i \in {N}} = {<<N, l[N]>>}
    BY <1>3
  <2> QED
    BY <2>1, <2>2
<1>5. CommitStep(p, Q, N)
  <2>1. disk'[p].commit = N /\ disk'[p].applied <= N
    BY <1>1, <1>2, <1>3
  <2>2. \A q \in Peer : /\ disk'[q].log = disk[q].log /\ disk'[q].term = disk[q].term
                        /\ q # p => disk'[q].commit = disk[q].commit /\ disk'[q].applied = disk[q].applied
                        /\ Leads(q)' => Leads(q)
    BY <1>1, <1>3
  <2> QED
    BY <1>1, <1>4, <2>1, <2>2 DEF CommitStep
<1>6. LogInv'
  BY <1>5, CommitLog DEF SafeInv
<1>7. KvAt(e)
  <2>1. KvAt(d) /\ IsDisk(d)
    BY <1>1 DEF SafeInv, KvInv, TypeInv, TypeOK
  <2>2. /\ e.kv = ApplyKvCommands(d, e.log, d.applied + 1, e.applied).kv
        /\ \A i \in 1 .. d.applied : e.log[i] = d.log[i]
        /\ e.applied \in Nat /\ d.applied <= e.applied
    BY <1>2, <1>3
  <2> HIDE DEF d
  <2> QED
    BY <2>1, <2>2, KvApplied
<1>8. KvInv'
  BY <1>1, <1>7 DEF SafeInv, KvInv
<1> QED
  BY <1>3, <1>6, <1>8

\* A called store q accepts what leader p has sent it.
LEMMA FollowSafe ==
  ASSUME TypeInv, SafeInv, UNCHANGED <<elected, committed>>,
         NEW p \in Peer, NEW q, p # q, Leads(p), NEW req \in Request, NEW e,
         Saves(q, HandlerNode(raft[q], req), e), e.kv = HandledKv(disk[q], raft[q], req),
         Accepted(raft[q], req), Sent(req, disk[p]), req.prevIndex <= Len(disk[p].log)
  PROVE  LogInv' /\ KvInv' /\ Acked(disk[p], e)
<1> DEFINE m == HandlerNode(raft[q], req)
           h == HandleAppendEntries(raft[q], req)
           d == disk[q]
<1>1. /\ q \in Peer /\ disk'[q] = e /\ SameState(m, e) /\ IsDisk(e) /\ up[q]
      /\ Leads(q)' <=> m.role = "Leader"
      /\ \A r \in Peer \ {q} : disk'[r] = disk[r] /\ (Leads(r)' <=> Leads(r))
  <2>1. up[q]
    BY DEF Saves
  <2> QED
    BY <2>1, SavesFacts
<1>2. TakesOver(d, disk[p], m, h, committed)
  BY <1>1, FollowerTakesOver DEF SafeInv
<1>3. e.kv = ApplyKvCommands(d, m.log, h.applied + 1, m.commit).kv
  BY DEF HandledKv
<1> HIDE DEF m, h
<1>4. /\ m.term = disk[p].term /\ d.term <= disk[p].term /\ m.role = "Follower"
      /\ m.log = disk[p].log \/ (m.log = d.log /\ Extends(d.log, disk[p].log))
      /\ d.commit <= m.commit /\ m.applied = m.commit /\ h.applied = d.applied
      /\ \A i \in 1 .. d.commit : m.log[i] = d.log[i]
      /\ CommitPoint(m, committed)
  BY <1>2 DEF TakesOver
<1>5. e.term = m.term /\ e.log = m.log /\ e.commit = m.commit /\ e.applied = m.applied
  BY <1>1 DEF SameState
<1>6. CommitPoint(e, committed)
  BY <1>4, <1>5 DEF CommitPoint
<1>7. FollowStep(p, q)
  BY <1>1, <1>4, <1>5, <1>6 DEF FollowStep
<1>8. LogInv'
  BY <1>7, FollowLog DEF SafeInv
<1>9. /\ disk[p].term \in Nat /\ Len(disk[p].log) \in Nat
      /\ d.applied \in Nat /\ d.commit \in Nat /\ d.applied <= d.commit
  BY <1>1, PeerTypes, AppliedInLog DEF SafeInv
<1>10. KvAt(e)
  <2>1. KvAt(d) /\ IsDisk(d)
    BY <1>1 DEF SafeInv, KvInv, TypeInv, TypeOK
  <2>2. e.applied \in Nat
    BY <1>1 DEF IsDisk
  <2>3. d.applied <= e.applied
    BY <1>4, <1>5, <1>9, <2>2
  <2>4. \A i \in 1 .. d.applied : e.log[i] = d.log[i]
    BY <1>4, <1>5, <1>9
  <2>5. e.kv = ApplyKvCommands(d, e.log, d.applied + 1, e.applied).kv
    BY <1>3, <1>4, <1>5
  <2> HIDE DEF d
  <2> QED
    BY <2>1, <2>2, <2>3, <2>4, <2>5, KvApplied
<1>11. KvInv'
  BY <1>1, <1>10 DEF SafeInv, KvInv
<1>12. Acked(disk[p], e)
  BY <1>4, <1>5, <1>9 DEF Acked, Extends
<1> QED
  BY <1>8, <1>11, <1>12

-----------------------------------------------------------------------------
\* What the steps do to the thread of the operation.

LEMMA OneThread ==
  ASSUME Serial, NEW c \in Client, NEW u, th'[c] = u,
         ThreadInv(u, disk', elected', Leading')
  PROVE  OperationInv'
<1>1. \A x \in Client : x = c
  BY DEF Serial
<1> QED
  BY <1>1 DEF OperationInv

LEMMA RestingThread ==
  ASSUME NEW u, u.pc \in {"idle", "transfer"}, u.todo = {}, NEW D, NEW E, NEW L
  PROVE  ThreadInv(u, D, E, L)
BY DEF ThreadInv

LEMMA IdleThreadInv ==
  ASSUME NEW D, NEW E, NEW L
  PROVE  ThreadInv(IdleThread, D, E, L)
<1>1. IdleThread.pc = "idle" /\ IdleThread.todo = {}
  BY DEF IdleThread
<1> QED
  BY <1>1, RestingThread

\* The data is as before, or nearly so: a peer may have died or been restarted.
LEMMA SameDataThread ==
  ASSUME NEW t \in Thread, ThreadOK(t), NEW D, NEW E, NEW L, ThreadInv(t, D, E, L),
         NEW C, \A q \in Peer : C[q] = D[q],
         NEW M, t.pc \notin {"idle", "transfer"} /\ t.home \in L => t.home \in M,
         NEW u, \/ u = t
                \/ /\ u = [t EXCEPT !.resp = FailedMsg]
                   /\ t.pc \in {"append", "commit"} => t.req # NoMsg
  PROVE  ThreadInv(u, C, E, M)
<1>1. /\ u.pc = t.pc /\ u.home = t.home /\ u.todo = t.todo /\ u.got = t.got /\ u.index = t.index
      /\ u.tries = t.tries /\ u.commit = t.commit /\ u.req = t.req
      /\ \/ u.resp = t.resp
         \/ u.resp = FailedMsg /\ (t.pc \in {"append", "commit"} => t.req # NoMsg)
  BY DEF Thread
<1>2. /\ t.got \in SUBSET Peer /\ t.todo \in SUBSET Peer
      /\ t.todo # {} => Min(t.todo) \in Peer
      /\ t.pc # "idle" => t.home \in Peer
  BY DestFacts DEF Thread, ThreadOK
<1>3. FailedMsg.type # "vote" /\ FailedMsg.type # "append"
  BY DEF FailedMsg
<1>4. u.pc = "vote" => CampaignInv(u, C, E)
  <2> SUFFICES ASSUME t.pc = "vote" PROVE CampaignInv(u, C, E)
    BY <1>1
  <2>1. CampaignInv(t, D, E) /\ C[t.home] = D[t.home]
    BY <1>2 DEF ThreadInv
  <2> QED
    BY <1>1, <1>2, <1>3, <2>1 DEF CampaignInv
<1>5. u.pc \in {"append", "commit"} => ReplicationInv(u, C, M)
  <2> SUFFICES ASSUME t.pc \in {"append", "commit"} PROVE ReplicationInv(u, C, M)
    BY <1>1
  <2>1. ReplicationInv(t, D, L) /\ C[t.home] = D[t.home]
    BY <1>2 DEF ThreadInv
  <2> QED
    BY <1>1, <1>2, <1>3, <2>1 DEF ReplicationInv
<1> QED
  BY <1>1, <1>4, <1>5 DEF ThreadInv

LEMMA VoteReturnedThread ==
  ASSUME NEW t \in Thread, t.pc = "vote", t.todo # {}, NEW D, NEW E, NEW L,
         ThreadInv(t, D, E, L),
         NEW u,
         /\ u.pc = "vote" /\ u.home = t.home /\ u.todo \subseteq t.todo /\ u.req = t.req
         /\ u.got = IF t.resp.type = "vote" /\ t.resp.granted
                    THEN t.got \cup {Min(t.todo)} ELSE t.got
         /\ u.resp = NoMsg
  PROVE  ThreadInv(u, D, E, L)
<1>1. NoMsg.type # "vote"
  BY DEF NoMsg
<1>2. CampaignInv(t, D, E) /\ t.todo \subseteq Peer \ {t.home}
  BY DEF ThreadInv
<1>3. \A q \in u.got : UpToDate(u.req, D[q].log)
  BY <1>2 DEF CampaignInv
<1>4. CampaignInv(u, D, E)
  BY <1>1, <1>2, <1>3 DEF CampaignInv
<1> QED
  BY <1>2, <1>4 DEF ThreadInv

LEMMA StoreDoneThread ==
  ASSUME NEW t \in Thread, t.pc \in {"append", "commit"}, t.todo # {}, NEW D, NEW E, NEW L,
         ThreadInv(t, D, E, L),
         NEW u,
         /\ u.pc = t.pc /\ u.home = t.home /\ u.todo = t.todo \ {Min(t.todo)} /\ u.req = NoMsg
         /\ u.got = IF t.resp.type = "append" /\ t.resp.success
                    THEN t.got \cup {Min(t.todo)} ELSE t.got
         /\ u.resp = NoMsg /\ u.tries = 0 /\ u.index = t.index
  PROVE  ThreadInv(u, D, E, L)
<1>1. NoMsg.type # "append"
  BY DEF NoMsg
<1>2. ReplicationInv(t, D, L) /\ t.todo \subseteq Peer \ {t.home}
  BY DEF ThreadInv
<1>3. t.pc = "append" => /\ u.todo \cap u.got = {}
                         /\ \A q \in u.got : Acked(D[t.home], D[q])
  BY <1>2 DEF ReplicationInv
<1>4. ReplicationInv(u, D, L)
  BY <1>1, <1>2, <1>3 DEF ReplicationInv
<1> QED
  BY <1>2, <1>4 DEF ThreadInv

LEMMA BackOffThread ==
  ASSUME NEW t \in Thread, t.pc \in {"append", "commit"}, t.todo # {}, t.resp.type # "none",
         NEW D, NEW E, NEW L, ThreadInv(t, D, E, L),
         NEW u,
         /\ u.pc = t.pc /\ u.home = t.home /\ u.todo = t.todo /\ u.req = NoMsg
         /\ u.got = t.got /\ u.resp = NoMsg /\ u.index = t.index /\ u.commit = t.commit
  PROVE  ThreadInv(u, D, E, L)
<1>1. NoMsg.type # "append" /\ t.resp # NoMsg
  BY DEF NoMsg
<1>2. ReplicationInv(t, D, L) /\ t.todo \subseteq Peer \ {t.home}
  BY DEF ThreadInv
<1>3. t.commit = D[t.home].commit
  BY <1>1, <1>2 DEF ReplicationInv
<1>4. ReplicationInv(u, D, L)
  BY <1>1, <1>2, <1>3 DEF ReplicationInv
<1> QED
  BY <1>2, <1>4 DEF ThreadInv

LEMMA SendThread ==
  ASSUME NEW t \in Thread, t.pc \in {"append", "commit"}, t.todo # {}, t.req = NoMsg,
         NEW D, NEW E, NEW L, ThreadInv(t, D, E, L),
         NEW u, Sent(u.req, D[t.home]),
         /\ u.pc = t.pc /\ u.home = t.home /\ u.todo = t.todo
         /\ u.got = t.got /\ u.resp = t.resp /\ u.index = t.index
         /\ u.commit = D[t.home].commit /\ u.tries = t.tries
  PROVE  ThreadInv(u, D, E, L)
<1>1. NoMsg.type # "append" /\ u.req # NoMsg
  BY DEF NoMsg, Sent
<1>2. ReplicationInv(t, D, L) /\ t.todo \subseteq Peer \ {t.home}
  BY DEF ThreadInv
<1>3. t.resp = NoMsg
  BY <1>2 DEF ReplicationInv
<1>4. ReplicationInv(u, D, L)
  BY <1>1, <1>2, <1>3 DEF ReplicationInv
<1> QED
  BY <1>2, <1>4 DEF ThreadInv

-----------------------------------------------------------------------------
\* The actions.

Kept == LogInv /\ KvInv /\ OperationInv /\ orphans = {}

LEMMA LocalSafe ==
  ASSUME TypeInv, TypeInv', SafeInv, Serial,
         UNCHANGED <<up, raft, disk, elected, committed, orphans>>,
         NEW c \in Client, NEW u, th'[c] = u, ThreadInv(u, disk, elected, Leading)
  PROVE  Kept'
<1>1. LogInv' /\ KvInv'
  BY SameDataSafe DEF Leads
<1>2. Leading' = Leading
  BY DEF Leading, Leads
<1>3. OperationInv'
  BY <1>2, OneThread
<1> QED
  BY <1>1, <1>3 DEF Kept, SafeInv

LEMMA ThreadFacts ==
  ASSUME TypeInv, SafeInv, NEW c \in Client
  PROVE  /\ th \in [Client -> Thread] /\ th[c] \in Thread /\ ThreadOK(th[c])
         /\ ThreadInv(th[c], disk, elected, Leading)
BY DEF TypeInv, TypeOK, SafeInv, OperationInv

LEMMA ReturnSafe ==
  ASSUME TypeInv, TypeInv', SafeInv, Serial, NEW c \in Client,
         \/ TransferUnreachable(c) \/ LoseElection(c) \/ ProposeRefused(c)
         \/ NoQuorum(c) \/ PutReturns(c)
  PROVE  Kept'
<1>1. Return(c) /\ UNCHANGED <<serverVars, orphans, historyVars>>
  BY DEF TransferUnreachable, LoseElection, ProposeRefused, NoQuorum, PutReturns
<1>2. th'[c] = IdleThread
  BY <1>1, ThreadFacts DEF Return
<1>3. ThreadInv(IdleThread, disk, elected, Leading)
  BY IdleThreadInv
<1> QED
  BY <1>1, <1>2, <1>3, LocalSafe DEF serverVars, historyVars

LEMMA VoteReturnedSafe ==
  ASSUME TypeInv, TypeInv', SafeInv, Serial, NEW c \in Client, VoteReturned(c)
  PROVE  Kept'
<1> DEFINE t == th[c]
           u == th'[c]
<1>1. /\ th \in [Client -> Thread] /\ t \in Thread /\ ThreadInv(t, disk, elected, Leading)
  BY ThreadFacts
<1>2. /\ UNCHANGED <<serverVars, orphans, historyVars>>
      /\ t.pc = "vote" /\ t.todo # {}
  BY DEF VoteReturned, Answered
<1>3. /\ u.pc = "vote" /\ u.home = t.home /\ u.todo \subseteq t.todo /\ u.req = t.req
      /\ u.got = IF t.resp.type = "vote" /\ t.resp.granted
                 THEN t.got \cup {Min(t.todo)} ELSE t.got
      /\ u.resp = NoMsg
  BY <1>1 DEF VoteReturned, Thread, Dest
<1> HIDE DEF u, t
<1>4. ThreadInv(u, disk, elected, Leading)
  BY <1>1, <1>2, <1>3, VoteReturnedThread
<1> QED
  BY <1>2, <1>4, LocalSafe DEF serverVars, historyVars, u

LEMMA StoreDoneSafe ==
  ASSUME TypeInv, TypeInv', SafeInv, Serial, NEW c \in Client, StoreDone(c)
  PROVE  Kept'
<1> DEFINE t == th[c]
           u == th'[c]
<1>1. /\ th \in [Client -> Thread] /\ t \in Thread /\ ThreadInv(t, disk, elected, Leading)
  BY ThreadFacts
<1>2. /\ UNCHANGED <<serverVars, orphans, historyVars>>
      /\ t.pc \in {"append", "commit"} /\ t.todo # {}
  BY DEF StoreDone, Answered
<1>3. /\ u.pc = t.pc /\ u.home = t.home /\ u.todo = t.todo \ {Min(t.todo)} /\ u.req = NoMsg
      /\ u.got = IF t.resp.type = "append" /\ t.resp.success
                 THEN t.got \cup {Min(t.todo)} ELSE t.got
      /\ u.resp = NoMsg /\ u.tries = 0 /\ u.index = t.index
  BY <1>1, ZenonT(40) DEF StoreDone, Thread, Dest
<1> HIDE DEF u, t
<1>4. ThreadInv(u, disk, elected, Leading)
  BY <1>1, <1>2, <1>3, StoreDoneThread
<1> QED
  BY <1>2, <1>4, LocalSafe DEF serverVars, historyVars, u

LEMMA BackOffSafe ==
  ASSUME TypeInv, TypeInv', SafeInv, Serial, NEW c \in Client, BackOff(c)
  PROVE  Kept'
<1> DEFINE t == th[c]
           u == th'[c]
<1>1. /\ th \in [Client -> Thread] /\ t \in Thread /\ ThreadInv(t, disk, elected, Leading)
  BY ThreadFacts
<1>2. /\ UNCHANGED <<serverVars, orphans, historyVars>>
      /\ t.pc \in {"append", "commit"} /\ t.todo # {} /\ t.resp.type # "none"
  BY DEF BackOff, Answered
<1>3. /\ u.pc = t.pc /\ u.home = t.home /\ u.todo = t.todo /\ u.req = NoMsg
      /\ u.got = t.got /\ u.resp = NoMsg /\ u.index = t.index /\ u.commit = t.commit
  BY <1>1 DEF BackOff, Thread
<1> HIDE DEF u, t
<1>4. ThreadInv(u, disk, elected, Leading)
  BY <1>1, <1>2, <1>3, BackOffThread
<1> QED
  BY <1>2, <1>4, LocalSafe DEF serverVars, historyVars, u

LEMMA FailedSafe ==
  ASSUME TypeInv, TypeInv', SafeInv, Serial, NEW c \in Client,
         UNCHANGED <<serverVars, orphans, historyVars>>,
         Calling(c) \/ Answered(c),
         th' = [th EXCEPT ![c].resp = FailedMsg]
  PROVE  Kept'
<1> DEFINE t == th[c]
           u == [t EXCEPT !.resp = FailedMsg]
<1>1. /\ th \in [Client -> Thread] /\ t \in Thread /\ ThreadOK(t)
      /\ ThreadInv(t, disk, elected, Leading)
  BY ThreadFacts
<1>2. th'[c] = u
  BY <1>1
<1>3. ThreadInv(u, disk, elected, Leading)
  <2>1. ASSUME t.pc \in {"append", "commit"} PROVE t.req # NoMsg
    <3>1. CASE Calling(c)
      BY <3>1 DEF Calling, NoMsg
    <3>2. CASE Answered(c)
      BY <1>1, <2>1, <3>2 DEF Answered, NoMsg, ThreadInv, ReplicationInv
    <3> QED
      BY <3>1, <3>2
  <2> HIDE DEF t
  <2> QED
    BY <1>1, <2>1, SameDataThread
<1> HIDE DEF u, t
<1> QED
  BY <1>2, <1>3, LocalSafe DEF serverVars, historyVars

LEMMA LeadingPeer ==
  ASSUME TypeInv, SafeInv, NEW p \in Leading
  PROVE  /\ p \in Peer /\ Leads(p) /\ up[p] /\ raft[p] \in Node /\ SameState(raft[p], disk[p])
         /\ disk[p].log \in Seq(Entry)
<1>1. p \in Peer /\ Leads(p) /\ up[p]
  BY DEF Leading, Leads
<1> QED
  BY <1>1, RunningPeer DEF SafeInv

LEMMA SendAppendSafe ==
  ASSUME TypeInv, TypeInv', SafeInv, Serial, NEW c \in Client, SendAppend(c)
  PROVE  Kept'
<1> DEFINE t == th[c]
           u == th'[c]
           p == t.home
           d == disk[p]
           n == raft[p]
           first  == IF t.pc = "append" THEN t.index ELSE LastIndex(n) + 1
           next   == IF t.tries = 0 THEN first ELSE t.next
           commit == IF t.tries > 0 THEN t.commit
                     ELSE IF t.pc = "append" THEN n.commit ELSE t.index
           prev   == next - 1
           terms  == IF prev = 0 THEN {0}
                     ELSE IF prev <= Len(n.log) THEN {n.log[prev].term} ELSE 0 .. MaxTerm
           req(x) == [type |-> "append", term |-> n.term, from |-> p,
                      prevIndex |-> prev, prevTerm |-> x,
                      entries |-> SubSeq(n.log, next, Len(n.log)), commit |-> commit]
<1>1. /\ th \in [Client -> Thread] /\ t \in Thread /\ ThreadInv(t, disk, elected, Leading)
      /\ ThreadOK(t)
  BY ThreadFacts
<1>2. t.pc \in {"append", "commit"} /\ t.todo # {} /\ t.req.type = "none"
  BY DEF SendAppend
<1>3. UNCHANGED <<serverVars, orphans, ops, crashes, historyVars>>
  BY Zenon DEF SendAppend
<1>4. PICK x \in terms :
        th' = [th EXCEPT ![c].next = next, ![c].commit = commit, ![c].req = req(x)]
  BY Zenon DEF SendAppend
<1>5. ReplicationInv(t, disk, Leading) /\ p \in Leading
  BY <1>1, <1>2 DEF ThreadInv, ReplicationInv
<1>6. SameState(n, d) /\ d.log \in Seq(Entry) /\ p \in Peer
  BY <1>5, LeadingPeer
<1>7. t.req = NoMsg
  BY <1>1, <1>2 DEF Thread, VoteRequest, AppendRequest
<1>8. commit = d.commit
  BY <1>1, <1>2, <1>5, <1>6 DEF ReplicationInv, SameState, Thread
<1>9. next \in Nat /\ next # 0
  <2>1. t.index \in Nat /\ t.index # 0 /\ t.tries \in Nat /\ t.next \in Nat
        /\ (t.tries > 0 => t.next # 0)
    BY <1>1, <1>2 DEF Thread, ThreadOK
  <2>2. LastIndex(n) \in Nat
    BY <1>6 DEF LastIndex, SameState
  <2> QED
    BY <2>1, <2>2
<1>10. /\ u.pc = t.pc /\ u.home = t.home /\ u.todo = t.todo
       /\ u.got = t.got /\ u.resp = t.resp /\ u.index = t.index
       /\ u.commit = commit /\ u.tries = t.tries
       /\ u.req = req(x)
  <2> HIDE DEF next, commit, req, terms
  <2> QED
    BY <1>1, <1>4 DEF Thread
<1>11. prev <= Len(d.log) => x = IF prev = 0 THEN 0 ELSE d.log[prev].term
  <2>1. n.log = d.log /\ x \in terms
    BY <1>4, <1>6 DEF SameState
  <2> HIDE DEF next, n, d
  <2> QED
    BY <2>1
<1>12. prev + 1 = next
  <2> HIDE DEF next
  <2> QED
    BY <1>9
<1>13. /\ req(x).type = "append" /\ req(x).term = n.term /\ req(x).commit = commit
       /\ req(x).prevIndex = prev /\ req(x).prevTerm = x
       /\ req(x).entries = SubSeq(n.log, next, Len(n.log))
  <2> HIDE DEF next, commit, terms, n, prev
  <2> QED
    OBVIOUS
<1> HIDE DEF commit, prev, next, u, n, d, req
<1>14. Sent(u.req, d)
  <2>1. n.log = d.log /\ n.term = d.term
    BY <1>6 DEF SameState
  <2>2. req(x).prevIndex + 1 = next
    BY <1>12, <1>13
  <2> QED
    BY <1>8, <1>10, <1>11, <1>13, <2>1, <2>2 DEF Sent
<1>15. ThreadInv(u, disk, elected, Leading)
  <2>1. u.commit = disk[t.home].commit /\ Sent(u.req, disk[t.home])
    BY <1>8, <1>10, <1>14 DEF d
  <2> HIDE DEF t
  <2> QED
    BY <1>1, <1>2, <1>7, <1>10, <2>1, SendThread
<1> QED
  BY <1>3, <1>15, LocalSafe DEF serverVars, historyVars, u

LEMMA ProposeThread ==
  ASSUME NEW u, u.pc = "propose", u.todo = {}, NEW D, NEW E, NEW L, u.home \in L
  PROVE  ThreadInv(u, D, E, L)
BY DEF ThreadInv

LEMMA AlreadyLeaderSafe ==
  ASSUME TypeInv, TypeInv', SafeInv, Serial, NEW c \in Client, NEW p \in Peer, up[p],
         NEW cmd, AlreadyLeader(c, p, cmd), UNCHANGED <<up, elected, committed, orphans>>
  PROVE  Kept'
<1> DEFINE v == [IdleThread EXCEPT !.pc = "propose", !.home = p, !.cmd = cmd]
           u == IF cmd = NoCommand THEN IdleThread ELSE v
<1>1. th'[c] = u /\ raft[p].role = "Leader" /\ UNCHANGED <<raft, disk>>
  BY ThreadFacts DEF AlreadyLeader
<1>2. p \in Leading
  BY <1>1 DEF Leading, Leads
<1>3. v.pc = "propose" /\ v.todo = {} /\ v.home = p
  BY DEF IdleThread
<1> HIDE DEF v
<1>4. ThreadInv(u, disk, elected, Leading)
  BY <1>2, <1>3, IdleThreadInv, ProposeThread
<1> HIDE DEF u
<1> QED
  BY <1>1, <1>4, LocalSafe

LEMMA CampaignSafe ==
  ASSUME TypeInv, TypeInv', SafeInv, Serial, NEW c \in Client, NEW p \in Peer, up[p],
         NEW cmd, StartCampaign(c, p, cmd), UNCHANGED <<up, elected, committed, orphans>>
  PROVE  Kept'
<1> DEFINE n == BecomeCandidate(raft[p], p)
           u == th'[c]
           d == disk[p]
<1>1. PICK m, e : /\ Saves(p, m, e) /\ SameData(d, e)
                  /\ m.role = "Candidate" /\ e.term = d.term + 1
  BY CampaignSaves DEF SafeInv
<1>2. /\ d.term \in Nat /\ raft[p] \in Node /\ SameState(raft[p], d) /\ d.log \in Seq(Entry)
  BY PeerTypes, RunningPeer DEF SafeInv
<1>3. LogInv' /\ KvInv'
  <2>1. e.term >= d.term
    BY <1>1, <1>2
  <2> HIDE DEF d
  <2> QED
    BY <1>1, <2>1, QuietSafe DEF d
<1>4. disk'[p] = e /\ e.log = d.log
  BY <1>1, SavesFacts DEF SameData
<1>5. n.term = d.term + 1 /\ n.log = d.log
  BY <1>2, BecomeCandidateFacts DEF SameState
<1> DEFINE r == [type |-> "vote", term |-> n.term, from |-> p,
                 lastIndex |-> LastIndex(n), lastTerm |-> LastTerm(n)]
<1>6. /\ u.pc = "vote" /\ u.home = p /\ u.todo = Peer \ {p} /\ u.got = {p}
      /\ u.resp = NoMsg /\ u.req = r
  <2> HIDE DEF n
  <2> QED
    BY ThreadFacts DEF StartCampaign, IdleThread, n
<1>7. r.term = d.term + 1 /\ r.lastIndex = Len(e.log) /\ r.lastTerm = LastTerm(e)
  <2> HIDE DEF n, d
  <2> QED
    BY <1>4, <1>5 DEF LastIndex, LastTerm
<1> HIDE DEF r, n, u
<1>8. <<r.term, p>> \notin elected
  <2> DEFINE w == <<r.term, p>>
  <2>1. w[1] = r.term /\ w[2] = p
    OBVIOUS
  <2> HIDE DEF w
  <2>2. ASSUME w \in elected PROVE FALSE
    <3>1. w[1] <= disk[w[2]].term
      BY <2>2 DEF SafeInv, LogInv, ElectedTerms
    <3> QED
      BY <1>2, <1>7, <2>1, <3>1
  <2> QED
    BY <2>2 DEF w
<1>9. UpToDate(r, e.log)
  <2>1. Len(e.log) \in Nat
    BY <1>2, <1>4
  <2> QED
    BY <1>7, <2>1 DEF UpToDate, LastTerm
<1>10. CampaignInv(u, disk', elected')
  <2>1. NoMsg.type # "vote"
    BY DEF NoMsg
  <2> QED
    BY <1>1, <1>4, <1>6, <1>7, <1>8, <1>9, <2>1 DEF CampaignInv
<1>11. ThreadInv(u, disk', elected', Leading')
  BY <1>6, <1>10 DEF ThreadInv
<1>12. OperationInv'
  BY <1>11, OneThread DEF u
<1> QED
  BY <1>3, <1>12 DEF Kept, SafeInv

LEMMA WinElectionSafe ==
  ASSUME TypeInv, TypeInv', VoteInv, SafeInv, Serial, ElectedOncePerTerm',
         NEW c \in Client, WinElection(c)
  PROVE  Kept'
<1> DEFINE t == th[c]
           p == t.home
           v == [IdleThread EXCEPT !.pc = "propose", !.home = p, !.cmd = t.cmd]
           u == IF t.cmd = NoCommand THEN IdleThread ELSE v
<1>1. PICK m, e : /\ Saves(p, m, e) /\ SameData(disk[p], e)
                  /\ m.role = "Leader" /\ e.term = disk[p].term
  BY WinSaves DEF SafeInv
<1>2. /\ t.pc = "vote" /\ t.todo = {} /\ Majority(t.got)
      /\ elected' = elected \cup {<<t.req.term, p>>}
      /\ UNCHANGED <<orphans, committed>>
  BY DEF WinElection
<1>3. t \in Thread /\ ThreadInv(t, disk, elected, Leading)
  BY ThreadFacts
<1>4. CampaignInv(t, disk, elected) /\ t.got \in SUBSET Peer
  BY <1>2, <1>3 DEF ThreadInv, Thread
<1>5. th'[c] = u
  BY ThreadFacts DEF WinElection
<1>6. v.pc = "propose" /\ v.todo = {} /\ v.home = p
  BY DEF IdleThread
<1>7. p \in Leading'
  <2> HIDE DEF p
  <2> QED
    BY <1>1, SavesLeading
<1>8. LogInv' /\ KvInv'
  <2>1. t.home = p
    OBVIOUS
  <2> HIDE DEF t, p
  <2> QED
    BY <1>1, <1>2, <1>4, <2>1, WinSafe
<1> HIDE DEF v
<1>9. ThreadInv(u, disk', elected', Leading')
  BY <1>6, <1>7, IdleThreadInv, ProposeThread
<1> HIDE DEF u
<1>10. OperationInv'
  BY <1>5, <1>9, OneThread
<1> QED
  BY <1>2, <1>8, <1>10 DEF Kept, SafeInv

LEMMA ProposeEntrySafe ==
  ASSUME TypeInv, TypeInv', VoteInv, SafeInv, Serial, ElectedOncePerTerm,
         NEW c \in Client, ProposeEntry(c)
  PROVE  Kept'
<1> DEFINE t == th[c]
           p == t.home
           u == th'[c]
           x == [term |-> disk[p].term, cmd |-> t.cmd]
<1>1. PICK m, e : /\ Saves(p, m, e) /\ m.role = "Leader" /\ Pushed(disk[p], e, t.cmd)
  BY ProposeSaves DEF SafeInv
<1>2. /\ t \in Thread /\ ThreadOK(t) /\ ThreadInv(t, disk, elected, Leading)
      /\ th \in [Client -> Thread]
  BY ThreadFacts
<1>3. t.pc = "propose" /\ UNCHANGED <<orphans, elected, committed>>
  BY DEF ProposeEntry, historyVars
<1>4. p \in Leading /\ t.cmd \in Command
  BY <1>2, <1>3 DEF ThreadInv, ThreadOK
<1>5. Leads(p) /\ disk[p].log \in Seq(Entry) /\ SameState(raft[p], disk[p]) /\ raft[p] \in Node
  BY <1>4, LeadingPeer
<1>6. LogInv' /\ KvInv'
  <2> HIDE DEF t, p
  <2> QED
    BY <1>1, <1>3, <1>4, <1>5, PushSafe
<1>7. disk'[p] = e /\ p \in Leading' /\ p \in Peer
  <2> HIDE DEF p
  <2> QED
    BY <1>1, SavesFacts, SavesLeading
<1>8. disk[p].term \in Nat /\ Len(disk[p].log) \in Nat
  BY <1>7, PeerTypes DEF SafeInv
<1>9. e.log = Append(disk[p].log, x) /\ e.term = disk[p].term
  BY <1>1 DEF Pushed
<1>10. x \in Entry /\ x.term = e.term
  BY <1>4, <1>8, <1>9 DEF Entry
<1>11. /\ u.pc = "append" /\ u.home = p /\ u.todo = Peer \ {p} /\ u.got = {p}
       /\ u.tries = 0 /\ u.req = NoMsg /\ u.resp = NoMsg
       /\ u.index = LastIndex(Propose(raft[p], t.cmd))
  BY <1>2 DEF ProposeEntry, IdleThread
<1>12. LastIndex(Propose(raft[p], t.cmd)) = Len(e.log)
  <2>1. Propose(raft[p], t.cmd).log = Append(raft[p].log, [term |-> raft[p].term, cmd |-> t.cmd])
    BY <1>5 DEF Propose, Node
  <2>2. raft[p].log = disk[p].log /\ raft[p].term = disk[p].term
    BY <1>5 DEF SameState
  <2> QED
    BY <1>9, <2>1, <2>2 DEF LastIndex
<1> HIDE DEF x, u
<1>13. e.log \in Seq(Entry) /\ Len(e.log) \in Nat /\ Len(e.log) # 0 /\ e.log[Len(e.log)] = x
  <2> DEFINE l == disk[p].log
             k == e.log
  <2>1. l \in Seq(Entry) /\ k = Append(l, x)
    BY <1>5, <1>9
  <2> HIDE DEF l, k
  <2>2. k \in Seq(Entry) /\ Len(k) = Len(l) + 1 /\ k[Len(l) + 1] = x /\ Len(l) \in Nat
    BY <1>10, <2>1
  <2> QED
    BY <2>2 DEF k
<1>14. Acked(e, e)
  BY <1>8, <1>9, <1>13 DEF Acked, Extends
<1>15. NoMsg.type # "append"
  BY DEF NoMsg
<1>16. ReplicationInv(u, disk', Leading')
  BY <1>7, <1>10, <1>11, <1>12, <1>13, <1>14, <1>15 DEF ReplicationInv
<1>17. ThreadInv(u, disk', elected', Leading')
  BY <1>11, <1>16 DEF ThreadInv
<1>18. OperationInv'
  BY <1>17, OneThread DEF u
<1> QED
  BY <1>3, <1>6, <1>18 DEF Kept, SafeInv

LEMMA CommitStepSafe ==
  ASSUME TypeInv, TypeInv', VoteInv, ElectionInv, SafeInv, Serial, ElectedOncePerTerm,
         NEW c \in Client, Commit(c)
  PROVE  Kept'
<1> DEFINE t == th[c]
           p == t.home
           u == th'[c]
           N == t.index
<1>1. PICK m, e : /\ Saves(p, m, e) /\ m.role = raft[p].role
                  /\ CommittedTo(disk[p], e, N)
                  /\ committed' = committed \cup {<<i, e.log[i]>> : i \in {N} \cap DOMAIN e.log}
  BY CommitSaves DEF SafeInv
<1>2. /\ t \in Thread /\ ThreadInv(t, disk, elected, Leading) /\ th \in [Client -> Thread]
  BY ThreadFacts
<1>3. t.pc = "append" /\ t.todo = {} /\ Majority(t.got) /\ UNCHANGED <<orphans, elected>>
  BY DEF Commit
<1>4. ReplicationInv(t, disk, Leading)
  BY <1>2, <1>3 DEF ThreadInv
<1>5. /\ p \in Leading /\ N = Len(disk[p].log) /\ N # 0 /\ disk[p].log[N].term = disk[p].term
      /\ t.tries = 0 /\ t.req = NoMsg /\ t.resp = NoMsg
      /\ \A q \in t.got : Acked(disk[p], disk[q])
  BY <1>3, <1>4 DEF ReplicationInv
<1>6. Leads(p) /\ raft[p].role = "Leader" /\ p \in Peer
  BY <1>5, LeadingPeer DEF Leads
<1>7. t.got \in SUBSET Peer
  BY <1>2 DEF Thread
<1>8. VotesAreSaved /\ QuorumVoted
  BY DEF VoteInv, ElectionInv
<1>9. LogInv' /\ KvInv' /\ e.commit = N
  <2> HIDE DEF t, p, N
  <2> QED
    BY <1>1, <1>3, <1>5, <1>6, <1>7, <1>8, CommitSafe
<1>10. disk'[p] = e /\ p \in Leading'
  <2> HIDE DEF p
  <2> QED
    BY <1>1, <1>6, SavesFacts, SavesLeading
<1>11. e.log = disk[p].log /\ e.term = disk[p].term
  BY <1>1 DEF CommittedTo
<1>12. /\ u.pc = "commit" /\ u.todo = Peer \ {p} /\ u.home = p /\ u.index = N
       /\ u.tries = 0 /\ u.req = NoMsg /\ u.resp = NoMsg
  BY <1>2, <1>5 DEF Commit, Thread
<1> HIDE DEF u
<1>13. ReplicationInv(u, disk', Leading')
  BY <1>5, <1>9, <1>10, <1>11, <1>12 DEF ReplicationInv
<1>14. ThreadInv(u, disk', elected', Leading')
  BY <1>12, <1>13 DEF ThreadInv
<1>15. OperationInv'
  BY <1>14, OneThread DEF u
<1> QED
  BY <1>3, <1>9, <1>15 DEF Kept, SafeInv

LEMMA QuietReceive ==
  ASSUME TypeInv, TypeInv', SafeInv, UNCHANGED <<elected, committed>>,
         NEW q \in Peer, NEW req \in Request, ~Accepted(raft[q], req), NEW e,
         Saves(q, HandlerNode(raft[q], req), e), e.kv = HandledKv(disk[q], raft[q], req)
  PROVE  LogInv' /\ KvInv' /\ e.log = disk[q].log
<1> DEFINE n == raft[q]
           d == disk[q]
           m == HandlerNode(n, req)
<1>1. up[q] /\ SameState(m, e)
  BY DEF Saves
<1>2. n \in Node /\ SameState(n, d)
  BY <1>1, RunningPeer DEF SafeInv
<1>3. QuietHandler(n, m)
  <2> HIDE DEF n
  <2> QED
    BY <1>2, QuietHandlerFacts DEF n
<1>4. e.kv = d.kv
  BY DEF HandledKv
<1> HIDE DEF m
<1>5. SameData(d, e) /\ e.term >= d.term
  BY <1>1, <1>2, <1>3, <1>4 DEF SameData, SameState, QuietHandler
<1>6. m.role = "Leader" => Leads(q) /\ e.term = d.term
  BY <1>1, <1>2, <1>3 DEF SameState, QuietHandler, Leads
<1>7. Saves(q, m, e)
  BY DEF m
<1>8. LogInv' /\ KvInv'
  BY <1>5, <1>6, <1>7, QuietSafe
<1> QED
  BY <1>5, <1>8 DEF SameData

LEMMA VotedThread ==
  ASSUME NEW t \in Thread, ThreadOK(t), t.pc = "vote", t.todo # {},
         NEW D, NEW E, NEW L, ThreadInv(t, D, E, L), NEW M,
         NEW C, \A r \in Peer \ {Min(t.todo)} : C[r] = D[r],
         C[Min(t.todo)].log = D[Min(t.todo)].log,
         NEW u, u = [t EXCEPT !.resp = u.resp],
         u.resp.type = "vote" => (u.resp.granted => UpToDate(t.req, D[Min(t.todo)].log))
  PROVE  ThreadInv(u, C, E, M)
<1> DEFINE q == Min(t.todo)
<1>1. /\ u.pc = t.pc /\ u.home = t.home /\ u.todo = t.todo /\ u.got = t.got /\ u.req = t.req
  BY DEF Thread
<1>2. /\ t.got \in SUBSET Peer /\ q \in t.todo /\ q \in Peer /\ t.home \in Peer
  BY DestFacts DEF Thread, ThreadOK
<1>3. CampaignInv(t, D, E) /\ t.todo \subseteq Peer \ {t.home}
  BY DEF ThreadInv
<1>4. \A r \in Peer : C[r].log = D[r].log
  OBVIOUS
<1> HIDE DEF q
<1>5. C[t.home] = D[t.home]
  BY <1>2, <1>3 DEF q
<1>6. \A r \in u.got : UpToDate(u.req, C[r].log)
  BY <1>1, <1>2, <1>3, <1>4 DEF CampaignInv
<1>7. CampaignInv(u, C, E)
  <2>1. u.resp.type = "vote" => (u.resp.granted => UpToDate(u.req, C[Min(u.todo)].log))
    BY <1>1
  <2> QED
    BY <1>1, <1>3, <1>5, <1>6, <2>1 DEF CampaignInv
<1> QED
  BY <1>1, <1>3, <1>7 DEF ThreadInv

LEMMA AppendedThread ==
  ASSUME NEW t \in Thread, ThreadOK(t), t.pc \in {"append", "commit"}, t.todo # {}, t.req # NoMsg,
         NEW D, NEW E, NEW L, ThreadInv(t, D, E, L), NEW M, t.home \in L => t.home \in M,
         NEW C, \A r \in Peer \ {Min(t.todo)} : C[r] = D[r],
         NEW u, u = [t EXCEPT !.resp = u.resp],
         u.resp.type = "append" => (u.resp.success => Acked(D[t.home], C[Min(t.todo)]))
  PROVE  ThreadInv(u, C, E, M)
<1> DEFINE q == Min(t.todo)
<1>1. /\ u.pc = t.pc /\ u.home = t.home /\ u.todo = t.todo /\ u.got = t.got /\ u.req = t.req
      /\ u.index = t.index /\ u.tries = t.tries /\ u.commit = t.commit
  BY DEF Thread
<1>2. /\ t.got \in SUBSET Peer /\ q \in t.todo /\ q \in Peer /\ t.home \in Peer
  BY DestFacts DEF Thread, ThreadOK
<1>3. ReplicationInv(t, D, L) /\ t.todo \subseteq Peer \ {t.home}
  BY DEF ThreadInv
<1>4. C[t.home] = D[t.home]
  BY <1>2, <1>3
<1>5. t.pc = "append" => \A r \in t.got : C[r] = D[r]
  BY <1>2, <1>3 DEF ReplicationInv
<1>6. u.resp.type = "append" => (u.resp.success => Acked(C[u.home], C[Min(u.todo)]))
  BY <1>1, <1>4
<1> HIDE DEF q
<1>7. ReplicationInv(u, C, M)
  BY <1>1, <1>3, <1>4, <1>5, <1>6 DEF ReplicationInv
<1> QED
  BY <1>1, <1>3, <1>7 DEF ThreadInv

LEMMA ReceiveSafe ==
  ASSUME TypeInv, TypeInv', SafeInv, Serial, StrayTermsDiffer, NEW c \in Client, Receive(c)
  PROVE  Kept'
<1> DEFINE t == th[c]
           q == Dest(c)
           req == th[c].req
           n == raft[q]
           p == t.home
           u == th'[c]
<1>1. Calling(c) /\ Handle(q, req) /\ UNCHANGED <<up, elected, committed, orphans>>
  BY DEF Receive
<1>2. /\ t \in Thread /\ ThreadOK(t) /\ ThreadInv(t, disk, elected, Leading)
      /\ th \in [Client -> Thread]
  BY ThreadFacts
<1>3. /\ t.pc \in {"vote", "append", "commit"} /\ t.todo # {} /\ req.type # "none"
  BY <1>1 DEF Calling
<1>4. q = Min(t.todo) /\ q \in t.todo /\ q \in Peer /\ q # p
  <2>1. t.todo \in SUBSET Peer
    BY <1>2 DEF Thread
  <2> QED
    BY <1>2, <1>3, <2>1, DestFacts DEF Dest, ThreadInv
<1>5. req \in Request /\ p \in Peer /\ req # NoMsg
  BY <1>1, <1>2, <1>3, CallingFacts DEF ThreadOK, NoMsg
<1>6. PICK e : Saves(q, HandlerNode(n, req), e) /\ e.kv = HandledKv(disk[q], n, req)
  BY <1>1, <1>4, <1>5, HandleSaves DEF SafeInv
<1>7. u = [t EXCEPT !.resp = u.resp] /\ u.resp = ReplyOf(n, req)
  BY <1>2 DEF Receive, Thread
<1>8. /\ disk'[q] = e /\ \A r \in Peer \ {q} : disk'[r] = disk[r]
      /\ \A r \in Peer \ {q} : r \in Leading' <=> r \in Leading
  <2> HIDE DEF q
  <2> QED
    BY <1>6, SavesFacts, SavesLeading
<1>9. ASSUME ~Accepted(n, req) PROVE LogInv' /\ KvInv' /\ e.log = disk[q].log
  <2> HIDE DEF q, req
  <2> QED
    BY <1>1, <1>4, <1>5, <1>6, <1>9, QuietReceive
<1>10. CASE t.pc = "vote"
  <2>1. req \in VoteRequest
    BY <1>2, <1>10 DEF ThreadOK
  <2>2. req.type = "vote" /\ ~Accepted(n, req)
    BY <2>1 DEF VoteRequest, Accepted
  <2>3. LogInv' /\ KvInv' /\ e.log = disk[q].log
    BY <1>9, <2>2
  <2>4. u.resp.type = "vote" /\ u.resp.granted = GrantsVote(n, req)
    BY <1>7, <2>2 DEF ReplyOf
  <2>5. ASSUME GrantsVote(n, req) PROVE UpToDate(req, disk[q].log)
    <3>1. up[q]
      BY <1>1 DEF Handle
    <3>2. n.log = disk[q].log
      BY <1>4, <3>1, RunningPeer DEF SafeInv, SameState
    <3> QED
      BY <2>5, <3>2 DEF GrantsVote, IsCandidateLogUpToDate, UpToDate, LastTerm, LastIndex
  <2>6. ThreadInv(u, disk', elected, Leading')
    <3>1. u.resp.type = "vote" => (u.resp.granted => UpToDate(t.req, disk[Min(t.todo)].log))
      BY <1>4, <2>4, <2>5
    <3>2. disk'[Min(t.todo)].log = disk[Min(t.todo)].log
      BY <1>4, <1>8, <2>3
    <3>3. \A r \in Peer \ {Min(t.todo)} : disk'[r] = disk[r]
      BY <1>4, <1>8
    <3> HIDE DEF t, u
    <3> QED
      BY <1>2, <1>3, <1>7, <1>10, <3>1, <3>2, <3>3, VotedThread
  <2> QED
    BY <1>1, <2>3, <2>6, OneThread DEF Kept, SafeInv
<1>11. CASE t.pc \in {"append", "commit"}
  <2>1. ReplicationInv(t, disk, Leading)
    BY <1>2, <1>11 DEF ThreadInv
  <2>2. p \in Leading /\ Sent(req, disk[p])
    BY <1>5, <2>1 DEF ReplicationInv
  <2>3. req.type = "append"
    BY <2>2 DEF Sent
  <2>4. u.resp.type = "append" /\ u.resp.success = AcceptsEntries(n, req)
    BY <1>7, <2>3 DEF ReplyOf, AppendReplyOf
  <2>5. LogInv' /\ KvInv' /\ (Accepted(n, req) => Acked(disk[p], e))
    <3>1. CASE ~Accepted(n, req)
      BY <1>9, <3>1
    <3>2. CASE Accepted(n, req)
      <4>1. Leads(p) /\ SameState(raft[p], disk[p])
        BY <2>2, LeadingPeer
      <4>2. req.prevIndex <= Len(disk[p].log)
        BY <1>1, <2>3, <3>2, <4>1 DEF StrayTermsDiffer, SameState
      <4> HIDE DEF p, q, req
      <4> QED
        BY <1>1, <1>4, <1>5, <1>6, <2>2, <3>2, <4>1, <4>2, FollowSafe
    <3> QED
      BY <3>1, <3>2
  <2>6. ThreadInv(u, disk', elected, Leading')
    <3>1. u.resp.type = "append" => (u.resp.success => Acked(disk[t.home], disk'[Min(t.todo)]))
      BY <1>4, <1>8, <2>3, <2>4, <2>5 DEF Accepted
    <3>2. \A r \in Peer \ {Min(t.todo)} : disk'[r] = disk[r]
      BY <1>4, <1>8
    <3>3. t.home \in Leading => t.home \in Leading'
      BY <1>4, <1>5, <1>8
    <3>4. t.req # NoMsg
      BY <1>5
    <3> HIDE DEF t, u
    <3> QED
      BY <1>2, <1>3, <1>7, <1>11, <3>1, <3>2, <3>3, <3>4, AppendedThread
  <2> QED
    BY <1>1, <2>5, <2>6, OneThread DEF Kept, SafeInv
<1> QED
  BY <1>3, <1>10, <1>11

\* Without room for late requests there are none.
LEMMA NoneLate ==
  ASSUME Serial, NEW late, late = {} \/ Cardinality(late) <= MaxOrphans,
         \A o \in late : \E x \in Client : o \in InFlight(x)
  PROVE  late = {}
<1> SUFFICES ASSUME late # {} PROVE FALSE
  OBVIOUS
<1>1. PICK o \in late : TRUE
  OBVIOUS
<1>2. PICK x \in Client : o \in InFlight(x)
  BY <1>1
<1>3. ASSUME NEW w \in late PROVE w = o
  <2>1. w \in InFlight(x)
    BY <1>3 DEF Serial
  <2> QED
    BY <1>2, <2>1 DEF InFlight
<1>4. late = {o}
  BY <1>1, <1>3
<1>5. Cardinality({o}) = 1
  BY FS_Singleton
<1> QED
  BY <1>4, <1>5 DEF Serial

LEMMA BreaksSafe ==
  ASSUME TypeInv, TypeInv', SafeInv, Serial, NEW c \in Client,
         ConnectFails(c) \/ ConnectionBreaks(c)
  PROVE  Kept'
<1>1. /\ Calling(c) \/ Answered(c)
      /\ th' = [th EXCEPT ![c].resp = FailedMsg]
      /\ UNCHANGED <<serverVars, historyVars>>
  BY DEF ConnectFails, ConnectionBreaks
<1>2. orphans = {}
  BY DEF SafeInv
<1>3. orphans' = orphans
  <2>1. CASE ConnectFails(c)
    BY <2>1 DEF ConnectFails
  <2>2. CASE ConnectionBreaks(c)
    <3>1. PICK late \in SUBSET InFlight(c) :
            /\ orphans' = orphans \cup late
            /\ late = {} \/ Cardinality(orphans') <= MaxOrphans
      BY <2>2 DEF ConnectionBreaks
    <3>2. orphans' = late
      BY <1>2, <3>1
    <3>3. late = {}
      BY <3>1, <3>2, NoneLate
    <3> QED
      BY <1>2, <3>2, <3>3
  <2> QED
    BY <2>1, <2>2
<1> QED
  BY <1>1, <1>3, FailedSafe

LEMMA CrashSafe ==
  ASSUME TypeInv, TypeInv', VoteInv, SafeInv, Serial, NEW p \in Peer, Crash(p)
  PROVE  Kept'
<1>1. Dies(p, disk[p])
  BY DEF Crash
<1>2. /\ \A q \in Peer : disk'[q] = disk[q]
      /\ raft' = [raft EXCEPT ![p] = NewNode] /\ up' = [up EXCEPT ![p] = FALSE]
      /\ UNCHANGED <<elected, committed>>
  BY <1>1, DiesFacts
<1>3. raft \in [Peer -> Node] /\ up \in [Peer -> BOOLEAN]
  BY DEF TypeInv, TypeOK
<1>4. \A q \in Peer : /\ Leads(q)' => Leads(q)
                      /\ q # p /\ q \in Leading => q \in Leading'
  BY <1>2, <1>3 DEF Leads, Leading
<1>5. LogInv' /\ KvInv'
  BY <1>2, <1>4, SameDataSafe
<1>6. orphans' = {}
  <2>1. orphans = {}
    BY DEF SafeInv
  <2>2. PICK late \in SUBSET UNION {InFlight(c) : c \in {x \in Client : RunsOn(x, p)}} :
          /\ orphans' = {o \in orphans : o.to # p} \cup late
          /\ late = {} \/ Cardinality(orphans') <= MaxOrphans
    BY <1>1 DEF Dies
  <2>3. orphans' = late
    BY <2>1, <2>2
  <2>4. \A o \in late : \E x \in Client : o \in InFlight(x)
    BY <2>2
  <2>5. late = {}
    BY <2>2, <2>3, <2>4, NoneLate
  <2> QED
    BY <2>3, <2>5
<1>7. OperationInv'
  <2> SUFFICES ASSUME NEW c \in Client PROVE ThreadInv(th'[c], disk', elected', Leading')
    BY DEF OperationInv
  <2> DEFINE t == th[c]
  <2>1. t \in Thread /\ ThreadOK(t) /\ ThreadInv(t, disk, elected, Leading)
    BY ThreadFacts
  <2>2. th'[c] = IF RunsOn(c, p) THEN IdleThread
                 ELSE IF Calling(c) /\ Dest(c) = p THEN [t EXCEPT !.resp = FailedMsg]
                      ELSE t
    BY <1>1 DEF Dies
  <2>3. CASE RunsOn(c, p)
    BY <2>2, <2>3, IdleThreadInv
  <2>4. CASE ~RunsOn(c, p)
    <3>1. t.pc \notin {"idle", "transfer"} /\ t.home \in Leading => t.home \in Leading'
      BY <1>4, <2>4 DEF RunsOn, Leading
    <3> DEFINE u == th'[c]
    <3>2. \/ u = t
          \/ u = [t EXCEPT !.resp = FailedMsg] /\ t.req # NoMsg
      BY <2>2, <2>4 DEF Calling, NoMsg
    <3> HIDE DEF t, u
    <3>3. ThreadInv(u, disk', elected, Leading')
      BY <1>2, <2>1, <3>1, <3>2, SameDataThread
    <3> QED
      BY <1>2, <3>3 DEF u
  <2> QED
    BY <2>3, <2>4
<1> QED
  BY <1>5, <1>6, <1>7 DEF Kept

LEMMA RestartSafe ==
  ASSUME TypeInv, TypeInv', SafeInv, Serial, NEW p \in Peer, Restart(p)
  PROVE  Kept'
<1> DEFINE n == BootstrapNode(disk[p])
<1>1. /\ disk' = disk /\ raft' = [raft EXCEPT ![p] = n] /\ ~up[p]
      /\ up' = [up EXCEPT ![p] = TRUE] /\ th' = th /\ orphans' = orphans
      /\ UNCHANGED <<elected, committed>>
  BY DEF Restart, historyVars
<1>2. raft \in [Peer -> Node] /\ up \in [Peer -> BOOLEAN]
  BY DEF TypeInv, TypeOK
<1>3. n.role = "Follower"
  BY BootstrapRestores DEF SafeInv, SavedInv
<1> HIDE DEF n
<1>4. \A q \in Peer : Leads(q)' <=> Leads(q)
  BY <1>1, <1>2, <1>3 DEF Leads
<1>5. Leading' = Leading
  BY <1>4 DEF Leading
<1>6. LogInv' /\ KvInv'
  BY <1>1, <1>4, SameDataSafe
<1>7. OperationInv'
  BY <1>1, <1>5 DEF SafeInv, OperationInv
<1> QED
  BY <1>1, <1>6, <1>7 DEF Kept, SafeInv

-----------------------------------------------------------------------------
\* The inductive invariant.

SafeBase == TypeInv /\ VoteInv /\ ElectionInv /\ SafeInv

LEMMA SafeStart ==
  ASSUME TypeInv, TypeInv', SafeInv, Serial, NEW c \in Client, NEW p \in Peer, NEW cmd, up[p],
         AlreadyLeader(c, p, cmd) \/ StartCampaign(c, p, cmd),
         UNCHANGED <<up, elected, committed, orphans>>
  PROVE  Kept'
BY AlreadyLeaderSafe, CampaignSafe

LEMMA SafeOperation ==
  ASSUME SafeBase, TypeInv', ElectedOncePerTerm, ElectedOncePerTerm', Serial, StrayTermsDiffer,
         NEW c \in Client, Step(c)
  PROVE  Kept'
<1> USE DEF SafeBase
<1>1. CASE TransferLeader(c)
  <2> DEFINE p == th[c].home
  <2>1. /\ AlreadyLeader(c, p, NoCommand) \/ StartCampaign(c, p, NoCommand)
        /\ up[p] /\ UNCHANGED <<up, elected, committed, orphans>> /\ th[c].pc = "transfer"
    BY <1>1 DEF TransferLeader
  <2>2. p \in Peer
    BY <2>1 DEF TypeInv, ThreadOK
  <2> HIDE DEF p
  <2> QED
    BY <2>1, <2>2, SafeStart
<1>2. CASE \/ TransferUnreachable(c) \/ LoseElection(c) \/ ProposeRefused(c)
           \/ NoQuorum(c) \/ PutReturns(c)
  BY <1>2, ReturnSafe
<1>3. CASE VoteReturned(c)
  BY <1>3, VoteReturnedSafe
<1>4. CASE WinElection(c)
  BY <1>4, WinElectionSafe
<1>5. CASE ProposeEntry(c)
  BY <1>5, ProposeEntrySafe
<1>6. CASE SendAppend(c)
  BY <1>6, SendAppendSafe
<1>7. CASE StoreDone(c)
  BY <1>7, StoreDoneSafe
<1>8. CASE BackOff(c)
  BY <1>8, BackOffSafe
<1>9. CASE Commit(c)
  BY <1>9, CommitStepSafe
<1>10. CASE Receive(c)
  BY <1>10, ReceiveSafe
<1>11. CASE ConnectFails(c)
  BY <1>11, BreaksSafe
<1> QED
  BY <1>1, <1>2, <1>3, <1>4, <1>5, <1>6, <1>7, <1>8, <1>9, <1>10, <1>11 DEF Step

LEMMA StutterSafe ==
  ASSUME TypeInv, TypeInv', SafeInv, UNCHANGED vars
  PROVE  Kept'
<1>1. UNCHANGED <<up, raft, disk, th, orphans, elected, committed>>
  BY DEF vars, serverVars, historyVars
<1>2. LogInv' /\ KvInv'
  BY <1>1, SameDataSafe DEF Leads
<1>3. Leading' = Leading
  BY <1>1 DEF Leading, Leads
<1>4. OperationInv'
  BY <1>1, <1>3 DEF SafeInv, OperationInv
<1> QED
  BY <1>1, <1>2, <1>4 DEF Kept, SafeInv

LEMMA SafeNext ==
  ASSUME SafeBase, Serial, StrayTermsDiffer, [Next]_vars, ElectedOncePerTerm, ElectedOncePerTerm'
  PROVE  SafeBase'
<1>1. TypeInv /\ VoteInv /\ ElectionInv /\ SafeInv /\ orphans = {}
  BY DEF SafeBase, SafeInv
<1>2. TypeInv' /\ VoteInv' /\ ElectionInv'
  BY <1>1, TypeStep, VoteStep, ElectionStep
<1>3. SavedInv'
  BY <1>1, <1>2, SavedNext DEF SafeInv, Serial
<1>4. ASSUME NEW c \in Client, NEW p \in Peer,
             PdTransferLeader(c, p) \/ \E cmd \in Command : Put(c, p, cmd)
      PROVE  Kept'
  <2>1. CASE PdTransferLeader(c, p)
    <3> DEFINE u == [IdleThread EXCEPT !.pc = "transfer", !.home = p]
    <3>1. th'[c] = u /\ UNCHANGED <<up, raft, disk, orphans, elected, committed>>
      BY <1>1, <2>1, ThreadFacts DEF PdTransferLeader, historyVars
    <3>2. u.pc = "transfer" /\ u.todo = {}
      BY DEF IdleThread
    <3> HIDE DEF u
    <3>3. ThreadInv(u, disk, elected, Leading)
      BY <3>2, RestingThread
    <3> QED
      BY <1>1, <1>2, <3>1, <3>3, LocalSafe
  <2>2. CASE \E cmd \in Command : Put(c, p, cmd)
    BY <1>1, <1>2, <2>2, SafeStart DEF Put
  <2> QED
    BY <1>4, <2>1, <2>2
<1>5. ASSUME NEW c \in Client, Step(c) PROVE Kept'
  BY <1>2, <1>5, SafeOperation
<1>6. ASSUME NEW c \in Client,
             ConnectionBreaks(c) \/ CrashInHandler(c) \/ CrashInCommit(c)
      PROVE  Kept'
  <2>1. ConnectionBreaks(c)
    BY <1>6 DEF CrashInHandler, CrashInCommit, Serial
  <2> QED
    BY <1>1, <1>2, <2>1, BreaksSafe
<1>7. ASSUME ReceiveOrphan PROVE FALSE
  BY <1>1, <1>7 DEF ReceiveOrphan
<1>8. ASSUME NEW p \in Peer, Crash(p) \/ CrashInCampaign(p) \/ Restart(p)
       PROVE  Kept'
  <2>1. Crash(p) \/ Restart(p)
    BY <1>8 DEF CrashInCampaign, Serial
  <2> QED
    BY <1>1, <1>2, <2>1, CrashSafe, RestartSafe
<1>9. ASSUME UNCHANGED vars PROVE Kept'
  BY <1>1, <1>2, <1>9, StutterSafe
<1>10. Kept'
  BY <1>4, <1>5, <1>6, <1>7, <1>8, <1>9 DEF Next
<1> QED
  BY <1>2, <1>3, <1>10 DEF SafeBase, SafeInv, Kept

LEMMA SafeInit == Init => SafeBase
<1> SUFFICES ASSUME Init PROVE SafeBase
  OBVIOUS
<1>1. TypeInv /\ VoteInv /\ ElectionInv /\ SavedInv
  BY TypeInit, VoteInit, ElectionInit, SavedInit
<1>2. ASSUME NEW p \in Peer
      PROVE  disk[p] = EmptyDisk /\ ~Leads(p)
  BY DEF Init, Leads, NewNode
<1>3. elected = {} /\ committed = {} /\ orphans = {}
  BY DEF Init
<1>4. /\ EmptyDisk.log = <<>> /\ DOMAIN EmptyDisk.log = {}
      /\ EmptyDisk.commit = 0 /\ EmptyDisk.applied = 0
  BY DEF EmptyDisk
<1>5. TermsGrow /\ LogsMatch /\ FromElected /\ ElectedTerms /\ LeadersOwn
  BY <1>2, <1>3, <1>4 DEF TermsGrow, LogsMatch, Matches, FromElected, ElectedTerms, LeadersOwn
<1>6. CommittedIsDurable /\ LaterLogsHave /\ LeadersHave
  BY <1>3 DEF CommittedIsDurable, LaterLogsHave, LeadersHave
<1>7. CommitPoints
  BY <1>2, <1>4 DEF CommitPoints, CommitPoint
<1>8. KvAt(EmptyDisk)
  <2> DEFINE d == EmptyDisk
  <2>1. IsDisk(d) /\ d.applied = 0
    BY <1>4, EmptyDiskFacts
  <2> SUFFICES ASSUME NEW k \in Key
               PROVE  d.kv[k] = ApplyKvCommands(d, d.log, 1, d.applied).kv[k]
    BY DEF KvAt
  <2> HIDE DEF d
  <2>2. Writers(d.log, 1, d.applied, k) = {}
    BY <2>1 DEF Writers
  <2> QED
    BY <2>1, <2>2, ApplyKey
<1>9. KvInv
  BY <1>2, <1>8 DEF KvInv
<1>10. OperationInv
  BY IdleThreadInv DEF OperationInv, Init
<1> QED
  BY <1>1, <1>3, <1>5, <1>6, <1>7, <1>9, <1>10 DEF SafeBase, SafeInv, LogInv

-----------------------------------------------------------------------------
\* What the invariant says about the running stores.

LEMMA RunningData ==
  ASSUME SafeBase, NEW p \in Peer, up[p]
  PROVE  /\ raft[p].term = disk[p].term /\ raft[p].log = disk[p].log
         /\ raft[p].applied = disk[p].applied /\ LastIndex(raft[p]) = Len(disk[p].log)
         /\ Len(disk[p].log) \in Nat /\ DOMAIN disk[p].log = 1 .. Len(disk[p].log)
         /\ disk[p].log \in Seq(Entry)
<1>1. SameState(raft[p], disk[p])
  BY RunningPeer DEF SafeBase, SafeInv
<1>2. /\ Len(disk[p].log) \in Nat /\ DOMAIN disk[p].log = 1 .. Len(disk[p].log)
      /\ disk[p].log \in Seq(Entry)
  BY PeerTypes DEF SafeBase, SafeInv
<1> QED
  BY <1>1, <1>2 DEF SameState, LastIndex

LEMMA SafeLeaders ==
  ASSUME SafeBase, ElectedOncePerTerm
  PROVE  ElectionSafety
<1> SUFFICES ASSUME NEW p \in Peer, NEW q \in Peer, up[p], up[q],
                    raft[p].role = "Leader", raft[q].role = "Leader",
                    raft[p].term = raft[q].term
             PROVE  p = q
  BY DEF ElectionSafety
<1>1. disk[p].term = disk[q].term
  BY RunningData
<1>2. <<disk[p].term, p>> \in elected /\ <<disk[q].term, q>> \in elected
  BY DEF SafeBase, SafeInv, LogInv, LeadersOwn, Leads
<1> DEFINE e == <<disk[p].term, p>>
           f == <<disk[q].term, q>>
<1>3. e[1] = f[1] /\ e[2] = p /\ f[2] = q
  BY <1>1
<1> HIDE DEF e, f
<1> QED
  BY <1>2, <1>3 DEF ElectedOncePerTerm, e, f

LEMMA SafeLogs ==
  ASSUME SafeBase
  PROVE  LogMatching
<1> SUFFICES ASSUME NEW p \in Peer, NEW q \in Peer, up[p], up[q],
                    NEW i \in 1 .. Least(LastIndex(raft[p]), LastIndex(raft[q])),
                    raft[p].log[i].term = raft[q].log[i].term
             PROVE  \A j \in 1 .. i : raft[p].log[j] = raft[q].log[j]
  BY DEF LogMatching
<1> DEFINE k == disk[p].log
           l == disk[q].log
<1>1. /\ raft[p].log = k /\ raft[q].log = l
      /\ LastIndex(raft[p]) = Len(k) /\ LastIndex(raft[q]) = Len(l)
      /\ Len(k) \in Nat /\ DOMAIN k = 1 .. Len(k) /\ Len(l) \in Nat /\ DOMAIN l = 1 .. Len(l)
  BY RunningData
<1>2. Matches(k, l)
  BY DEF SafeBase, SafeInv, LogInv, LogsMatch
<1> HIDE DEF k, l
<1>3. i \in DOMAIN k /\ i \in DOMAIN l /\ i <= i /\ k[i].term = l[i].term
  BY <1>1 DEF Least
<1>4. \A h \in 1 .. i : k[h] = l[h]
  BY <1>2, <1>3 DEF Matches
<1> QED
  BY <1>1, <1>4

LEMMA SafeCommits ==
  ASSUME SafeBase
  PROVE  LeaderCompleteness
<1> SUFFICES ASSUME NEW p \in Peer, NEW x \in committed, up[p], raft[p].role = "Leader",
                    raft[p].term >= x[2].term
             PROVE  x[1] <= LastIndex(raft[p]) /\ raft[p].log[x[1]] = x[2]
  BY DEF LeaderCompleteness
<1>1. /\ raft[p].term = disk[p].term /\ raft[p].log = disk[p].log
      /\ LastIndex(raft[p]) = Len(disk[p].log)
      /\ Len(disk[p].log) \in Nat /\ DOMAIN disk[p].log = 1 .. Len(disk[p].log)
  BY RunningData
<1>2. disk[p].term \in Nat /\ x[2].term \in Nat
  <2>1. x[2] \in Entry
    BY DEF SafeBase, TypeInv, TypeOK
  <2> QED
    BY <2>1, PeerTypes DEF SafeBase, SafeInv, Entry
<1>3. Has(disk[p].log, x)
  BY <1>1, <1>2 DEF SafeBase, SafeInv, LogInv, LeadersHave, Leads
<1> QED
  BY <1>1, <1>3 DEF Has

LEMMA SafeKeys ==
  ASSUME SafeBase
  PROVE  KvIsAppliedPrefix
BY RunningData DEF KvIsAppliedPrefix, SafeBase, SafeInv, KvInv, KvAt, Get

-----------------------------------------------------------------------------
\* No step takes back what a peer has applied.

AppliedKept == \A p \in Peer : disk'[p].applied >= disk[p].applied

LEMMA SameApplied ==
  ASSUME TypeInv, SafeInv, \A p \in Peer : disk'[p] = disk[p]
  PROVE  AppliedKept
<1>1. \A p \in Peer : disk[p].applied \in Nat
  BY PeerTypes DEF SafeInv
<1> QED
  BY <1>1 DEF AppliedKept

LEMMA SavesApplied ==
  ASSUME TypeInv, SafeInv, NEW p, NEW m, NEW e, Saves(p, m, e), e.applied >= disk[p].applied
  PROVE  AppliedKept
<1>1. \A q \in Peer : disk[q].applied \in Nat
  BY PeerTypes DEF SafeInv
<1>2. disk'[p] = e /\ \A q \in Peer \ {p} : disk'[q] = disk[q]
  BY SavesFacts
<1> QED
  BY <1>1, <1>2 DEF AppliedKept

LEMMA ReceiveApplied ==
  ASSUME TypeInv, SafeInv, StrayTermsDiffer, NEW c \in Client, Receive(c)
  PROVE  AppliedKept
<1> DEFINE t == th[c]
           q == Dest(c)
           req == th[c].req
           n == raft[q]
           p == t.home
           m == HandlerNode(n, req)
<1>1. Calling(c) /\ Handle(q, req) /\ up' = up /\ up[q]
  BY DEF Receive, Handle
<1>2. q \in Peer /\ req \in Request
  BY <1>1, CallingFacts
<1>3. PICK e : Saves(q, m, e)
  BY <1>1, <1>2, HandleSaves DEF SafeInv
<1>4. n \in Node /\ SameState(n, disk[q]) /\ disk[q].applied \in Nat /\ disk[q].commit \in Nat
  BY <1>1, <1>2, RunningPeer, PeerTypes DEF SafeInv
<1>5. e.applied = m.applied /\ m \in Node
  BY <1>3 DEF Saves, SameState
<1>6. CASE ~Accepted(n, req)
  <2>1. QuietHandler(n, m)
    <3> HIDE DEF n, req
    <3> QED
      BY <1>2, <1>4, <1>6, QuietHandlerFacts DEF req
  <2>2. e.applied = disk[q].applied
    BY <1>4, <1>5, <2>1 DEF QuietHandler, SameState
  <2>3. e.applied >= disk[q].applied
    BY <1>4, <2>2
  <2> HIDE DEF q, m
  <2> QED
    BY <1>3, <2>3, SavesApplied
<1>7. CASE Accepted(n, req)
  <2>1. req.type = "append" /\ req # NoMsg
    BY <1>7 DEF Accepted, NoMsg
  <2>2. t \in Thread /\ ThreadOK(t) /\ ThreadInv(t, disk, elected, Leading)
    BY ThreadFacts
  <2>3. t.pc \in {"append", "commit"}
    <3>1. t.pc = "vote" => req.type = "vote"
      BY <2>2 DEF ThreadOK, VoteRequest
    <3> QED
      BY <1>1, <2>1, <3>1 DEF Calling
  <2>4. p \in Leading /\ Sent(req, disk[p])
    BY <2>1, <2>2, <2>3 DEF ThreadInv, ReplicationInv
  <2>5. Leads(p) /\ SameState(raft[p], disk[p]) /\ p \in Peer
    BY <2>4, LeadingPeer
  <2>6. req.prevIndex <= Len(disk[p].log)
    BY <1>1, <1>7, <2>1, <2>5 DEF StrayTermsDiffer, SameState
  <2>7. TakesOver(disk[q], disk[p], m, HandleAppendEntries(n, req), committed)
    <3> HIDE DEF p, q, req
    <3> QED
      BY <1>1, <1>2, <1>7, <2>4, <2>5, <2>6, FollowerTakesOver DEF SafeInv
  <2> HIDE DEF m
  <2>8. disk[q].commit <= m.applied /\ disk[q].applied <= disk[q].commit
    BY <1>2, <2>7, AppliedInLog DEF TakesOver
  <2>9. m.applied \in Nat
    BY <1>5 DEF Node
  <2>10. e.applied >= disk[q].applied
    BY <1>4, <1>5, <2>8, <2>9
  <2> HIDE DEF q
  <2> QED
    BY <1>3, <2>10, SavesApplied
<1> QED
  BY <1>6, <1>7

LEMMA AppliedNext ==
  ASSUME SafeBase, Serial, StrayTermsDiffer, [Next]_vars
  PROVE  AppliedKept
<1>1. TypeInv /\ VoteInv /\ SavedInv /\ SafeInv /\ orphans = {}
  BY DEF SafeBase, SafeInv
<1>2. \A p \in Peer : disk[p].applied \in Nat
  BY <1>1, PeerTypes
<1>3. ASSUME disk' = disk PROVE AppliedKept
  BY <1>1, <1>3, SameApplied
<1>4. ASSUME NEW c \in Client, NEW p \in Peer, NEW cmd, up[p], up' = up,
             AlreadyLeader(c, p, cmd) \/ StartCampaign(c, p, cmd)
      PROVE  AppliedKept
  <2>1. CASE AlreadyLeader(c, p, cmd)
    BY <1>3, <2>1 DEF AlreadyLeader
  <2>2. CASE StartCampaign(c, p, cmd)
    <3>1. PICK m, e : Saves(p, m, e) /\ SameData(disk[p], e)
      BY <1>1, <1>4, <2>2, CampaignSaves
    <3>2. e.applied >= disk[p].applied
      BY <1>2, <3>1 DEF SameData
    <3> QED
      BY <1>1, <3>1, <3>2, SavesApplied
  <2> QED
    BY <1>4, <2>1, <2>2
<1>5. ASSUME NEW c \in Client, NEW p \in Peer,
             PdTransferLeader(c, p) \/ \E cmd \in Command : Put(c, p, cmd)
      PROVE  AppliedKept
  BY <1>3, <1>4, <1>5 DEF PdTransferLeader, Put
<1>6. ASSUME NEW c \in Client, Step(c) PROVE AppliedKept
  <2> DEFINE p == th[c].home
  <2>1. CASE TransferLeader(c)
    <3>1. /\ AlreadyLeader(c, p, NoCommand) \/ StartCampaign(c, p, NoCommand)
          /\ up[p] /\ up' = up /\ th[c].pc = "transfer"
      BY <2>1 DEF TransferLeader
    <3>2. p \in Peer
      BY <1>1, <3>1 DEF TypeInv, ThreadOK
    <3> HIDE DEF p
    <3> QED
      BY <1>4, <3>1, <3>2
  <2>2. CASE \/ TransferUnreachable(c) \/ LoseElection(c) \/ ProposeRefused(c)
             \/ NoQuorum(c) \/ PutReturns(c) \/ VoteReturned(c) \/ StoreDone(c)
             \/ BackOff(c) \/ ConnectFails(c) \/ SendAppend(c)
    BY <1>3, <2>2, LocalSteps
  <2>3. CASE WinElection(c) \/ ProposeEntry(c) \/ Commit(c)
    <3>1. p \in Peer
      BY <1>1, <2>3, ThreadPeer DEF WinElection, ProposeEntry, Commit
    <3>2. \E m, e : /\ Saves(p, m, e)
                    /\ \/ e.applied = disk[p].applied
                       \/ \E i : CommittedTo(disk[p], e, i)
      <4>1. CASE WinElection(c)
        BY <1>1, <4>1, WinSaves DEF SameData
      <4>2. CASE ProposeEntry(c)
        BY <1>1, <4>2, ProposeSaves, ZenonT(40) DEF Pushed
      <4>3. CASE Commit(c)
        BY <1>1, <4>3, CommitSaves
      <4> QED
        BY <2>3, <4>1, <4>2, <4>3
    <3>3. PICK m, e : /\ Saves(p, m, e)
                      /\ \/ e.applied = disk[p].applied
                         \/ \E i : CommittedTo(disk[p], e, i)
      BY <3>2
    <3> HIDE DEF p
    <3>4. e.applied >= disk[p].applied
      <4>1. e.commit \in Nat
        BY <3>3 DEF Saves, IsDisk
      <4> QED
        BY <1>2, <3>1, <3>3, <4>1 DEF CommittedTo
    <3> QED
      BY <1>1, <3>3, <3>4, SavesApplied
  <2>4. CASE Receive(c)
    BY <1>1, <2>4, ReceiveApplied
  <2> QED
    BY <1>6, <2>1, <2>2, <2>3, <2>4 DEF Step
<1>7. ASSUME NEW c \in Client,
             ConnectionBreaks(c) \/ CrashInHandler(c) \/ CrashInCommit(c)
      PROVE  AppliedKept
  BY <1>3, <1>7 DEF ConnectionBreaks, CrashInHandler, CrashInCommit, Serial, serverVars
<1>8. ASSUME ReceiveOrphan PROVE FALSE
  BY <1>1, <1>8 DEF ReceiveOrphan
<1>9. ASSUME NEW p \in Peer, Crash(p) \/ CrashInCampaign(p) \/ Restart(p) PROVE AppliedKept
  <2>1. \A q \in Peer : disk'[q] = disk[q]
    BY <1>1, <1>9, DiesFacts DEF Crash, CrashInCampaign, Restart, Serial
  <2> QED
    BY <1>1, <2>1, SameApplied
<1>10. ASSUME UNCHANGED vars PROVE AppliedKept
  BY <1>3, <1>10 DEF vars, serverVars
<1> QED
  BY <1>5, <1>6, <1>7, <1>8, <1>9, <1>10 DEF Next

LEMMA AppliedStep ==
  ASSUME SafeBase, SafeBase', AppliedKept
  PROVE  \A p \in Peer : up[p] /\ up'[p] => raft'[p].applied >= raft[p].applied
<1> SUFFICES ASSUME NEW p \in Peer, up[p], up'[p]
             PROVE  raft'[p].applied >= raft[p].applied
  OBVIOUS
<1>1. raft[p].applied = disk[p].applied
  BY RunningData
<1>2. raft'[p].applied = disk'[p].applied
  BY DEF SafeBase, SafeInv, SavedInv, SameState
<1> QED
  BY <1>1, <1>2 DEF AppliedKept

-----------------------------------------------------------------------------
\* The theorems: operations one after the other, no request that outlives its
\* caller, no crash inside a step, and no stray term that happens to fit.

LEMMA SafeStep ==
  Serial => (SafeBase /\ StrayTermsDiffer /\ ElectedOncePerTerm /\ ElectedOncePerTerm'
               /\ [Next]_vars => SafeBase')
BY SafeNext

\* There is never more than one running leader of a term, in a region of any
\* size: a campaign that wins leads the term its votes are for.
THEOREM OneLeaderPerTerm ==
  Serial => (Spec /\ []StrayTermsDiffer => []ElectionSafety)
<1> SUFFICES ASSUME Serial PROVE Spec /\ []StrayTermsDiffer => []ElectionSafety
  OBVIOUS
<1>1. SafeBase /\ StrayTermsDiffer /\ ElectedOncePerTerm /\ ElectedOncePerTerm' /\ [Next]_vars
        => SafeBase'
  BY SafeStep
<1>2. SafeBase /\ ElectedOncePerTerm => ElectionSafety
  BY SafeLeaders
<1> QED
  BY <1>1, <1>2, SafeInit, OneWinnerPerTerm, PTL DEF Spec

\* The logs of any two running stores agree up to every index at which they have
\* an entry of the same term.
THEOREM LogsAgree ==
  Serial => (Spec /\ []StrayTermsDiffer => []LogMatching)
<1> SUFFICES ASSUME Serial PROVE Spec /\ []StrayTermsDiffer => []LogMatching
  OBVIOUS
<1>1. SafeBase /\ StrayTermsDiffer /\ ElectedOncePerTerm /\ ElectedOncePerTerm' /\ [Next]_vars
        => SafeBase'
  BY SafeStep
<1>2. SafeBase => LogMatching
  BY SafeLogs
<1> QED
  BY <1>1, <1>2, SafeInit, OneWinnerPerTerm, PTL DEF Spec

\* Once ProposeAndReplicate has committed an entry, a majority of the data
\* directories holds it for ever, and every leader of that term or a later one
\* has it in its log: no election loses an acknowledged write.
THEOREM CommitsSurvive ==
  Serial => (Spec /\ []StrayTermsDiffer => [](CommittedIsDurable /\ LeaderCompleteness))
<1> SUFFICES ASSUME Serial
             PROVE  Spec /\ []StrayTermsDiffer => [](CommittedIsDurable /\ LeaderCompleteness)
  OBVIOUS
<1>1. SafeBase /\ StrayTermsDiffer /\ ElectedOncePerTerm /\ ElectedOncePerTerm' /\ [Next]_vars
        => SafeBase'
  BY SafeStep
<1>2. SafeBase => CommittedIsDurable /\ LeaderCompleteness
  BY SafeCommits DEF SafeBase, SafeInv, LogInv
<1> QED
  BY <1>1, <1>2, SafeInit, OneWinnerPerTerm, PTL DEF Spec

\* What Get reads at a running store is the effect of the first last_applied_
\* commands of its log, each applied once and in order.
THEOREM KeysAreAppliedPrefix ==
  Serial => (Spec /\ []StrayTermsDiffer => []KvIsAppliedPrefix)
<1> SUFFICES ASSUME Serial PROVE Spec /\ []StrayTermsDiffer => []KvIsAppliedPrefix
  OBVIOUS
<1>1. SafeBase /\ StrayTermsDiffer /\ ElectedOncePerTerm /\ ElectedOncePerTerm' /\ [Next]_vars
        => SafeBase'
  BY SafeStep
<1>2. SafeBase => KvIsAppliedPrefix
  BY SafeKeys
<1> QED
  BY <1>1, <1>2, SafeInit, OneWinnerPerTerm, PTL DEF Spec

\* last_applied_ of a store that stays up never goes back: DeleteFrom, which
\* pulls it back, never meets an entry that has been applied.
THEOREM AppliedNeverGoesBack ==
  Serial => (Spec /\ []StrayTermsDiffer => AppliedOnlyGrows)
<1> SUFFICES ASSUME Serial PROVE Spec /\ []StrayTermsDiffer => AppliedOnlyGrows
  OBVIOUS
<1> DEFINE A == \A p \in Peer : up[p] /\ up'[p] => raft'[p].applied >= raft[p].applied
<1>1. SafeBase /\ StrayTermsDiffer /\ ElectedOncePerTerm /\ ElectedOncePerTerm' /\ [Next]_vars
        => SafeBase'
  BY SafeStep
<1>2. SafeBase /\ SafeBase' /\ StrayTermsDiffer /\ [Next]_vars => [A]_vars
  BY AppliedNext, AppliedStep
<1> QED
  BY <1>1, <1>2, SafeInit, OneWinnerPerTerm, PTL DEF Spec, AppliedOnlyGrows
=============================================================================
