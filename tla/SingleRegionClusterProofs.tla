---------------------- MODULE SingleRegionClusterProofs ----------------------
(***************************************************************************)
(* Theorems about SingleRegionCluster, for every number of stores, any     *)
(* requests and commands and any number of crashes and restarts.           *)
(***************************************************************************)
EXTENDS SingleRegionCluster, RaftStorageProofs

Member == [store : Store, peer : Peer]

\* Nodes and directories, as far as elections look at them.
IsNode(n) ==
  /\ DOMAIN n = {"role", "term", "voted", "commit", "applied", "log"}
  /\ n.term \in Nat

IsImage(d) ==
  /\ DOMAIN d = {"saved", "term", "voted", "commit", "applied", "log", "kv"}
  /\ d.term \in Nat

\* A store and a peer id occur once.
Distinct(ms) ==
  \A i, j \in DOMAIN ms : i # j => ms[i].store # ms[j].store /\ ms[i].peer # ms[j].peer

\* The members that a loop has still to call: all of them, but never peer p.
Called(todo, ms, p) ==
  /\ todo \in Seq(Member)
  /\ \A i \in DOMAIN todo : todo[i].peer # p /\ \E j \in DOMAIN ms : todo[i] = ms[j]

-----------------------------------------------------------------------------
\* What the operators of RaftNode and RaftStorage do to terms and roles.

LEMMA NewNodeIsNode == IsNode(NewNode) /\ NewNode.role = "Follower"
BY DEF NewNode, IsNode

LEMMA EmptyDiskIsImage == IsImage(EmptyDisk)
BY DEF EmptyDisk, IsImage

LEMMA FollowerTerm ==
  ASSUME NEW n, IsNode(n), NEW t \in Nat
  PROVE  LET m == BecomeFollower(n, t)
         IN  /\ IsNode(m) /\ m.role = "Follower" /\ m.term >= n.term /\ m.term >= t
             /\ m.log = n.log
BY DEF BecomeFollower, IsNode

LEMMA CandidateTerm ==
  ASSUME NEW n, IsNode(n), NEW p
  PROVE  LET m == BecomeCandidate(n, p)
         IN  IsNode(m) /\ m.role = "Candidate" /\ m.term = n.term + 1
BY DEF BecomeCandidate, IsNode

LEMMA LeaderTerm ==
  ASSUME NEW n, IsNode(n)
  PROVE  IsNode(BecomeLeader(n)) /\ BecomeLeader(n).term = n.term
BY DEF BecomeLeader, IsNode

\* A leader that is asked for a vote in a later term steps down.
LEMMA VoteRole ==
  ASSUME NEW n, IsNode(n), NEW req, req.term \in Nat
  PROVE  LET m == HandleRequestVote(n, req)
         IN  /\ IsNode(m) /\ m.term >= n.term /\ m.term >= req.term
             /\ m.role = "Leader" => n.role = "Leader" /\ req.term <= n.term
<1> DEFINE v == VoteTerm(n, req)
<1>1. ~(req.term < n.term) =>
        /\ IsNode(v) /\ v.term >= n.term /\ v.term >= req.term
        /\ v.role = "Leader" => n.role = "Leader" /\ req.term <= n.term
  <2>1. CASE req.term > n.term
    <3>1. v = BecomeFollower(n, req.term)
      BY <2>1 DEF VoteTerm
    <3> QED
      BY <3>1, FollowerTerm
  <2>2. CASE ~(req.term > n.term)
    BY <2>2 DEF VoteTerm, IsNode
  <2> QED
    BY <2>1, <2>2
<1> HIDE DEF v
<1>2. CASE req.term < n.term
  BY <1>2 DEF HandleRequestVote, IsNode
<1>3. CASE ~(req.term < n.term) /\ GrantsVote(n, req)
  <2>1. HandleRequestVote(n, req) = [v EXCEPT !.voted = req.from]
    BY <1>3 DEF HandleRequestVote, v
  <2> QED
    BY <1>1, <1>3, <2>1 DEF IsNode
<1>4. CASE ~(req.term < n.term) /\ ~GrantsVote(n, req)
  <2>1. HandleRequestVote(n, req) = v
    BY <1>4 DEF HandleRequestVote, v
  <2> QED
    BY <1>1, <1>4, <2>1
<1> QED
  BY <1>2, <1>3, <1>4

\* A request to append never makes a leader.
LEMMA AppendRole ==
  ASSUME NEW n, IsNode(n), NEW req, req.term \in Nat
  PROVE  LET m == HandleAppendEntries(n, req)
         IN  /\ IsNode(m) /\ m.term >= n.term
             /\ m.role = "Leader" => n.role = "Leader"
<1> DEFINE f == BecomeFollower(n, req.term)
           e == MergeEntries(f, req)
<1>1. IsNode(f) /\ f.role = "Follower" /\ f.term >= n.term
  BY FollowerTerm
<1> HIDE DEF f
<1>2. IsNode(e) /\ e.role = "Follower" /\ e.term >= n.term
  BY <1>1 DEF MergeEntries, IsNode
<1> HIDE DEF e
<1>3. \/ HandleAppendEntries(n, req) \in {n, f, e}
      \/ HandleAppendEntries(n, req) = [e EXCEPT !.commit = Least(req.commit, LastIndex(e))]
  BY DEF HandleAppendEntries, e, f
<1>4. n.term >= n.term
  BY DEF IsNode
<1> QED
  BY <1>1, <1>2, <1>3, <1>4 DEF IsNode

LEMMA ProposeRole ==
  ASSUME NEW n, IsNode(n), NEW cmd
  PROVE  IsNode(Propose(n, cmd)) /\ Propose(n, cmd).term = n.term
           /\ Propose(n, cmd).role = n.role
BY DEF Propose, IsNode

LEMMA TakeRole ==
  ASSUME NEW n, IsNode(n)
  PROVE  LET m == TakeCommittedEntries(n)
         IN  IsNode(m) /\ m.term = n.term /\ m.role = n.role
BY DEF TakeCommittedEntries, IsNode

LEMMA SetCommitRole ==
  ASSUME NEW n, IsNode(n), NEW i
  PROVE  LET m == SetCommitIndex(n, i)
         IN  IsNode(m) /\ m.term = n.term /\ m.role = n.role
BY DEF SetCommitIndex, IsNode

LEMMA BootstrapRole ==
  ASSUME NEW d, IsImage(d)
  PROVE  IsNode(BootstrapNode(d)) /\ BootstrapNode(d).role = "Follower"
BY NewNodeIsNode DEF BootstrapNode, IsNode, IsImage

LEMMA HardStateImage ==
  ASSUME NEW d, IsImage(d), NEW n, IsNode(n)
  PROVE  IsImage(SaveHardState(d, n)) /\ \A e \in TornHardState(d, n) : IsImage(e)
<1>1. ASSUME NEW w \in 0 .. HardStateKeys
      PROVE  IsImage(SaveHardStatePrefix(d, n, w))
  BY DEF SaveHardStatePrefix, IsImage, IsNode
<1> QED
  BY <1>1 DEF SaveHardState, TornHardState, HardStateKeys

LEMMA LogImage ==
  ASSUME NEW d, IsImage(d), NEW log, NEW i
  PROVE  IsImage(AppendLog(d, log, i)) /\ IsImage(CopyLogUpTo(d, log, i))
BY DEF AppendLog, CopyLogUpTo, IsImage

LEMMA KeysImage ==
  ASSUME NEW d, IsImage(d), NEW kv
  PROVE  \A ks : IsImage(CopyKeys(d, kv, ks))
BY DEF CopyKeys, IsImage

LEMMA ApplyImage ==
  ASSUME NEW d, IsImage(d), NEW n
  PROVE  /\ IsImage(ApplyCommitted(d, n))
         /\ \A e \in TornApply(d, n) : IsImage(e)
<1>1. \A i : IsImage(ApplyKvCommands(d, n.log, n.applied + 1, i))
  BY DEF ApplyKvCommands, IsImage
<1>2. ASSUME NEW e, IsImage(e), NEW f PROVE IsImage([e EXCEPT !.kv = f])
  BY <1>2 DEF IsImage
<1>3. \A e \in TornApply(d, n) : IsImage(e)
  BY <1>1, <1>2 DEF TornApply
<1> QED
  BY <1>1, <1>3 DEF ApplyCommitted

LEMMA AppliedImage ==
  ASSUME NEW d, IsImage(d), NEW n, IsNode(n)
  PROVE  IsImage(AppliedDisk(d, n)) /\ \A e \in TornApplied(d, n) : IsImage(e)
<1>1. IsNode(TakeCommittedEntries(n)) /\ IsImage(ApplyCommitted(d, n))
  BY TakeRole, ApplyImage
<1> QED
  BY <1>1, ApplyImage, HardStateImage DEF AppliedDisk, TornApplied

-----------------------------------------------------------------------------
\* The list of members.

LEMMA SeqFacts ==
  ASSUME NEW S, NEW s \in Seq(S)
  PROVE  /\ Len(s) \in Nat /\ DOMAIN s = 1 .. Len(s) /\ \A i \in DOMAIN s : s[i] \in S
         /\ s # <<>> => /\ Len(s) > 0 /\ Head(s) = s[1] /\ Tail(s) \in Seq(S)
                        /\ Len(Tail(s)) = Len(s) - 1
                        /\ \A i \in 1 .. Len(s) - 1 : Tail(s)[i] = s[i + 1]
BY HeadTailProperties, EmptySeq

LEMMA RemoveAtFacts ==
  ASSUME NEW S, NEW s \in Seq(S), NEW i \in DOMAIN s
  PROVE  LET t == RemoveAt(s, i)
         IN  /\ t \in Seq(S) /\ Len(t) = Len(s) - 1 /\ DOMAIN t = 1 .. Len(s) - 1
             /\ \A j \in DOMAIN t : t[j] = s[IF j < i THEN j ELSE j + 1]
<1> DEFINE a == SubSeq(s, 1, i - 1)
           b == SubSeq(s, i + 1, Len(s))
<1>1. Len(s) \in Nat /\ i \in 1 .. Len(s) /\ DOMAIN s = 1 .. Len(s)
  BY SeqFacts
<1>2. a \in Seq(S) /\ Len(a) = i - 1 /\ \A j \in 1 .. i - 1 : a[j] = s[j]
  BY <1>1, SubSeqProperties
<1>3. b \in Seq(S) /\ Len(b) = Len(s) - i /\ \A j \in 1 .. Len(s) - i : b[j] = s[j + i]
  BY <1>1, SubSeqProperties
<1> HIDE DEF a, b
<1>4. /\ a \o b \in Seq(S) /\ Len(a \o b) = Len(a) + Len(b)
      /\ \A j \in 1 .. Len(a) + Len(b) :
           (a \o b)[j] = IF j <= Len(a) THEN a[j] ELSE b[j - Len(a)]
  BY <1>2, <1>3, ConcatProperties
<1>5. RemoveAt(s, i) = a \o b
  BY DEF RemoveAt, a, b
<1>6. Len(a \o b) = Len(s) - 1
  BY <1>1, <1>2, <1>3, <1>4
<1>7. DOMAIN (a \o b) = 1 .. Len(s) - 1
  BY <1>4, <1>6, SeqFacts
<1>8. ASSUME NEW j \in 1 .. Len(s) - 1
      PROVE  (a \o b)[j] = s[IF j < i THEN j ELSE j + 1]
  <2>1. CASE j < i
    BY <1>1, <1>2, <1>3, <1>4, <2>1
  <2>2. CASE ~(j < i)
    <3>1. (a \o b)[j] = b[j - (i - 1)] /\ j - (i - 1) \in 1 .. Len(s) - i
      <4>1. /\ j \in 1 .. Len(a) + Len(b) /\ ~(j <= Len(a)) /\ Len(a) = i - 1
            /\ j - (i - 1) \in 1 .. Len(s) - i
        <5>1. Len(a) = i - 1 /\ Len(b) = Len(s) - i
          BY <1>2, <1>3
        <5> QED
          BY <1>1, <2>2, <5>1
      <4>2. (a \o b)[j] = IF j <= Len(a) THEN a[j] ELSE b[j - Len(a)]
        BY <1>4, <4>1
      <4> QED
        BY <4>1, <4>2, Zenon
    <3>2. b[j - (i - 1)] = s[j - (i - 1) + i]
      BY <1>3, <3>1
    <3>3. j - (i - 1) + i = j + 1
      BY <1>1
    <3> QED
      BY <2>2, <3>1, <3>2, <3>3, Zenon
  <2> QED
    BY <2>1, <2>2
<1> QED
  BY <1>4, <1>5, <1>6, <1>7, <1>8

LEMMA AddedFacts ==
  ASSUME NEW S, NEW s \in Seq(S), NEW m \in S
  PROVE  LET t == s \o <<m>>
         IN  /\ t \in Seq(S) /\ DOMAIN t = 1 .. Len(s) + 1
             /\ t[Len(s) + 1] = m /\ \A i \in DOMAIN s : t[i] = s[i]
<1>1. <<m>> \in Seq(S) /\ Len(<<m>>) = 1 /\ <<m>>[1] = m
  OBVIOUS
<1>2. /\ s \o <<m>> \in Seq(S) /\ Len(s \o <<m>>) = Len(s) + 1
      /\ \A j \in 1 .. Len(s) + 1 :
           (s \o <<m>>)[j] = IF j <= Len(s) THEN s[j] ELSE <<m>>[j - Len(s)]
  BY <1>1, ConcatProperties
<1>3. Len(s) \in Nat /\ DOMAIN s = 1 .. Len(s)
  BY SeqFacts
<1>4. DOMAIN (s \o <<m>>) = 1 .. Len(s) + 1
  BY <1>2, SeqFacts
<1> QED
  BY <1>1, <1>2, <1>3, <1>4

-----------------------------------------------------------------------------
\* The inductive invariant of the leader.

LeadTypes ==
  /\ members \in Seq(Member) /\ Distinct(members)
  /\ \A i \in DOMAIN members : members[i].peer \in peerIds
  /\ DOMAIN joined = Store
  /\ DOMAIN raft = Store /\ \A s \in Store : IsNode(raft[s])
  /\ DOMAIN disk = Store /\ \A s \in Store : IsImage(disk[s])
  /\ DOMAIN op = {"pc", "boot", "peer", "todo", "got", "index"}

\* Only the replica the cluster sends writes to leads, and no member is in an
\* earlier term.
Ruled ==
  \A i, j \in DOMAIN members : raft[members[i].store].role = "Leader" =>
    /\ HasPeer(leader) /\ members[i].store = StoreOf(leader)
    /\ raft[members[j].store].term >= raft[members[i].store].term

\* During an election a leader is in an earlier term than the candidate and has
\* still to be asked; whoever was asked is not in an earlier term.
Voting ==
  LET t == raft[StoreOf(op.peer)].term
  IN  /\ HasPeer(op.peer) /\ Called(op.todo, members, op.peer)
      /\ \A j \in DOMAIN members :
           /\ raft[members[j].store].role = "Leader" => raft[members[j].store].term < t
           /\ (\A i \in DOMAIN op.todo : op.todo[i] # members[j]) =>
                raft[members[j].store].role # "Leader" /\ raft[members[j].store].term >= t

\* The replica that AddPeer is about to add.
Joining ==
  \E m \in Member :
    /\ op.todo = <<m>> /\ m.peer \in peerIds
    /\ \A i \in DOMAIN members : members[i].store # m.store /\ members[i].peer # m.peer

LeadInv ==
  /\ LeadTypes
  /\ op.pc # "votes" => Ruled
  /\ op.pc = "candidate" => HasPeer(op.peer)
  /\ op.pc = "votes" => Voting
  /\ op.pc = "join" => Joining
  /\ op.pc = "copy" => \E m \in Member : op.todo = <<m>>
  /\ op.pc \in {"append", "commit"} => HasPeer(leader) /\ Called(op.todo, members, leader)

LEMMA MemberFacts ==
  ASSUME LeadTypes, NEW i \in DOMAIN members
  PROVE  members[i] \in Member /\ members[i].store \in Store /\ members[i].peer \in Peer
<1>1. members[i] \in Member
  BY SeqFacts DEF LeadTypes
<1> QED
  BY <1>1 DEF Member

LEMMA PeerFacts ==
  ASSUME LeadTypes, NEW p, HasPeer(p)
  PROVE  /\ PositionOf(p) \in DOMAIN members /\ members[PositionOf(p)].peer = p
         /\ StoreOf(p) \in Store /\ p \in Peer
         /\ \A i \in DOMAIN members : members[i].peer # p => members[i].store # StoreOf(p)
<1>1. PositionOf(p) \in DOMAIN members /\ members[PositionOf(p)].peer = p
  BY DEF HasPeer, PositionOf
<1>2. StoreOf(p) = members[PositionOf(p)].store
  BY DEF StoreOf
<1> QED
  BY <1>1, <1>2, MemberFacts DEF LeadTypes, Distinct

LEMMA OthersFacts ==
  ASSUME LeadTypes, NEW p, HasPeer(p)
  PROVE  /\ Called(Others(p), members, p)
         /\ \A j \in DOMAIN members :
              members[j].peer # p => \E i \in DOMAIN Others(p) : Others(p)[i] = members[j]
         /\ Distinct(Others(p)) /\ \A i \in DOMAIN Others(p) : Others(p)[i].peer \in peerIds
<1> DEFINE k == PositionOf(p)
           o == Others(p)
<1>1. k \in DOMAIN members /\ members[k].peer = p
  BY PeerFacts
<1>2. members \in Seq(Member) /\ Len(members) \in Nat /\ DOMAIN members = 1 .. Len(members)
  BY SeqFacts DEF LeadTypes
<1>3. /\ o \in Seq(Member) /\ DOMAIN o = 1 .. Len(members) - 1
      /\ \A j \in DOMAIN o : o[j] = members[IF j < k THEN j ELSE j + 1]
  BY <1>1, <1>2, RemoveAtFacts DEF Others
<1> HIDE DEF k, o
<1>4. ASSUME NEW i \in DOMAIN o
      PROVE  /\ o[i].peer # p /\ o[i].peer \in peerIds
             /\ \E j \in DOMAIN members : o[i] = members[j]
  <2> DEFINE j == IF i < k THEN i ELSE i + 1
  <2>1. j \in DOMAIN members /\ j # k /\ o[i] = members[j]
    BY <1>1, <1>2, <1>3
  <2> HIDE DEF j
  <2> QED
    BY <1>1, <2>1 DEF LeadTypes, Distinct
<1>5. ASSUME NEW j \in DOMAIN members, members[j].peer # p
      PROVE  \E i \in DOMAIN o : o[i] = members[j]
  <2> DEFINE i == IF j < k THEN j ELSE j - 1
  <2>1. j # k
    BY <1>1, <1>5
  <2>2. i \in DOMAIN o /\ o[i] = members[j]
    BY <1>1, <1>2, <1>3, <2>1
  <2> QED
    BY <2>2
<1>6. ASSUME NEW i \in DOMAIN o, NEW j \in DOMAIN o, i # j
      PROVE  o[i].store # o[j].store /\ o[i].peer # o[j].peer
  <2> DEFINE a == IF i < k THEN i ELSE i + 1
             b == IF j < k THEN j ELSE j + 1
  <2>1. a \in DOMAIN members /\ b \in DOMAIN members /\ a # b
    BY <1>1, <1>2, <1>3, <1>6
  <2>2. o[i] = members[a] /\ o[j] = members[b]
    BY <1>3
  <2> HIDE DEF a, b
  <2> QED
    BY <2>1, <2>2 DEF LeadTypes, Distinct
<1> QED
  BY <1>3, <1>4, <1>5, <1>6 DEF Called, Distinct, o

\* The next replica of a loop is a member, and the rest of the loop is a loop.
LEMMA CalledFacts ==
  ASSUME LeadTypes, NEW p, HasPeer(p), Called(op.todo, members, p), op.todo # <<>>
  PROVE  /\ \E j \in DOMAIN members : Head(op.todo) = members[j]
         /\ Head(op.todo).store \in Store /\ Head(op.todo).store # StoreOf(p)
         /\ Called(Tail(op.todo), members, p)
         /\ \A i \in DOMAIN op.todo :
              op.todo[i] = Head(op.todo) \/ \E j \in DOMAIN Tail(op.todo) : Tail(op.todo)[j] = op.todo[i]
<1> DEFINE q == op.todo
<1>1. q \in Seq(Member) /\ q # <<>>
  BY DEF Called
<1>2. /\ Len(q) \in Nat /\ DOMAIN q = 1 .. Len(q) /\ Len(q) > 0 /\ Head(q) = q[1]
      /\ Tail(q) \in Seq(Member) /\ Len(Tail(q)) = Len(q) - 1
      /\ \A i \in 1 .. Len(q) - 1 : Tail(q)[i] = q[i + 1]
  BY <1>1, SeqFacts
<1>3. DOMAIN Tail(q) = 1 .. Len(q) - 1
  BY <1>2, SeqFacts
<1>4. \A i \in DOMAIN q : q[i].peer # p /\ \E j \in DOMAIN members : q[i] = members[j]
  BY DEF Called
<1> HIDE DEF q
<1>5. ASSUME NEW i \in DOMAIN Tail(q)
      PROVE  Tail(q)[i].peer # p /\ \E j \in DOMAIN members : Tail(q)[i] = members[j]
  <2>1. Tail(q)[i] = q[i + 1] /\ i + 1 \in DOMAIN q
    BY <1>2, <1>3
  <2> QED
    BY <1>4, <2>1
<1>6. Called(Tail(q), members, p)
  BY <1>2, <1>5 DEF Called
<1>7. PICK j \in DOMAIN members : Head(q) = members[j] /\ members[j].peer # p
  <2>1. 1 \in DOMAIN q
    BY <1>2
  <2> QED
    BY <1>2, <1>4, <2>1
<1>8. Head(q).store \in Store /\ Head(q).store # StoreOf(p)
  BY <1>7, MemberFacts, PeerFacts
<1>9. ASSUME NEW i \in DOMAIN q
      PROVE  q[i] = Head(q) \/ \E k \in DOMAIN Tail(q) : Tail(q)[k] = q[i]
  <2>1. CASE i = 1
    BY <1>2, <2>1
  <2>2. CASE i # 1
    <3>1. i - 1 \in DOMAIN Tail(q) /\ Tail(q)[i - 1] = q[i]
      BY <1>2, <1>3, <2>2
    <3> QED
      BY <3>1
  <2> QED
    BY <2>1, <2>2
<1> QED
  BY <1>6, <1>7, <1>8, <1>9 DEF q

-----------------------------------------------------------------------------
\* Kinds of steps.

LEMMA LeadInit == Init => LeadInv
<1> SUFFICES ASSUME Init PROVE LeadInv
  OBVIOUS
<1>1. members = <<>> /\ DOMAIN members = {} /\ members \in Seq(Member)
  BY DEF Init
<1>2. DOMAIN joined = Store
  BY DEF Init
<1>3. DOMAIN raft = Store /\ \A s \in Store : IsNode(raft[s])
  BY NewNodeIsNode DEF Init
<1>4. DOMAIN disk = Store /\ \A s \in Store : IsImage(disk[s])
  BY EmptyDiskIsImage DEF Init
<1>5. DOMAIN op = {"pc", "boot", "peer", "todo", "got", "index"} /\ op.pc = "idle"
  BY DEF Init, Idle
<1>6. LeadTypes
  BY <1>1, <1>2, <1>3, <1>4, <1>5 DEF LeadTypes, Distinct, Init
<1> QED
  BY <1>1, <1>5, <1>6 DEF LeadInv, Ruled

LEMMA StopKeeps ==
  ASSUME LeadInv, Stop, DOMAIN disk' = Store, \A s \in Store : IsImage(disk'[s])
  PROVE  LeadInv'
<1>1. members' = <<>> /\ DOMAIN members' = {} /\ members' \in Seq(Member)
  BY DEF Stop
<1>2. DOMAIN raft' = Store /\ \A s \in Store : IsNode(raft'[s])
  BY NewNodeIsNode DEF Stop
<1>3. DOMAIN op' = {"pc", "boot", "peer", "todo", "got", "index"} /\ op'.pc = "idle"
  BY DEF Stop, Idle
<1>4. DOMAIN joined' = Store
  BY DEF Stop
<1>5. LeadTypes'
  BY <1>1, <1>2, <1>3, <1>4 DEF LeadInv, LeadTypes, Distinct
<1> QED
  BY <1>1, <1>3, <1>5 DEF LeadInv, Ruled

LEMMA DieKeeps ==
  ASSUME LeadInv, NEW s \in Store, NEW images, \A d \in images : IsImage(d),
         DieWriting(s, images)
  PROVE  LeadInv'
<1>1. PICK d \in images : disk' = [disk EXCEPT ![s] = d]
  BY DEF DieWriting
<1>2. DOMAIN disk' = Store /\ \A t \in Store : IsImage(disk'[t])
  BY <1>1 DEF LeadInv, LeadTypes
<1> QED
  BY <1>2, StopKeeps DEF DieWriting

\* The types after a whole step of one replica.
LEMMA ReplicaTypes ==
  ASSUME LeadInv, NEW s \in Store, NEW n, IsNode(n), NEW d, IsImage(d), NEW o,
         DOMAIN o = {"pc", "boot", "peer", "todo", "got", "index"}, Replica(s, n, d, o)
  PROVE  /\ LeadTypes' /\ members' = members /\ op' = o /\ raft'[s] = n
         /\ \A t \in Store \ {s} : raft'[t] = raft[t]
<1>1. /\ raft' = [raft EXCEPT ![s] = n] /\ disk' = [disk EXCEPT ![s] = d]
      /\ op' = o /\ members' = members /\ peerIds' = peerIds /\ joined' = joined
  BY DEF Replica
<1>2. DOMAIN raft' = Store /\ \A t \in Store : IsNode(raft'[t])
  BY <1>1 DEF LeadInv, LeadTypes
<1>3. DOMAIN disk' = Store /\ \A t \in Store : IsImage(disk'[t])
  BY <1>1 DEF LeadInv, LeadTypes
<1>4. LeadTypes'
  BY <1>1, <1>2, <1>3 DEF LeadInv, LeadTypes
<1> QED
  BY <1>1, <1>4 DEF LeadInv, LeadTypes

\* A member that does not come to lead, or to an earlier term, changes nothing
\* about who leads.
LEMMA StillRuled ==
  ASSUME LeadTypes, Ruled, NEW s \in Store, members' = members, leader' = leader,
         \A t \in Store \ {s} : raft'[t] = raft[t], IsNode(raft'[s]),
         raft'[s].term >= raft[s].term,
         raft'[s].role = "Leader" => raft[s].role = "Leader" /\ raft'[s].term = raft[s].term
  PROVE  Ruled'
<1>1. HasPeer(leader)' <=> HasPeer(leader)
  BY DEF HasPeer
<1>2. StoreOf(leader)' = StoreOf(leader)
  BY DEF StoreOf, PositionOf
<1>3. \A t \in Store : /\ raft'[t].role = "Leader" => raft[t].role = "Leader" /\ raft'[t].term = raft[t].term
                       /\ raft'[t].term >= raft[t].term
                       /\ raft'[t].term \in Nat /\ raft[t].term \in Nat
  BY DEF LeadTypes, IsNode
<1>4. SUFFICES ASSUME NEW i \in DOMAIN members, NEW j \in DOMAIN members,
                      raft'[members[i].store].role = "Leader"
               PROVE  /\ HasPeer(leader) /\ members[i].store = StoreOf(leader)
                      /\ raft'[members[j].store].term >= raft'[members[i].store].term
  BY <1>1, <1>2 DEF Ruled
<1>5. members[i].store \in Store /\ members[j].store \in Store
  BY MemberFacts
<1>6. raft[members[i].store].role = "Leader"
  BY <1>3, <1>4, <1>5
<1>7. /\ HasPeer(leader) /\ members[i].store = StoreOf(leader)
      /\ raft[members[j].store].term >= raft[members[i].store].term
  BY <1>6 DEF Ruled
<1> QED
  BY <1>3, <1>4, <1>5, <1>7

-----------------------------------------------------------------------------
\* Elections.

LEMMA StartLeads == ASSUME LeadInv, Start PROVE LeadInv'
<1> DEFINE ms == [s \in 1 .. StoreCount |-> [store |-> s, peer |-> s]]
<1>1. StoreCount \in Nat \ {0} /\ 1 .. StoreCount \subseteq Store /\ 1 .. StoreCount \subseteq Peer
  BY ClusterAssumption
<1>2. /\ members' = ms /\ leader' = leader /\ disk' = disk /\ joined' = joined
      /\ peerIds' = 1 .. StoreCount
      /\ op' = [Idle EXCEPT !.pc = "candidate", !.boot = TRUE, !.peer = 1]
      /\ raft' = [s \in Store |-> IF s <= StoreCount THEN BootstrapNode(disk[s]) ELSE NewNode]
  BY DEF Start
<1>3. \A s \in 1 .. StoreCount : [store |-> s, peer |-> s] \in Member
  BY <1>1 DEF Member
<1>4. ms \in Seq(Member) /\ DOMAIN ms = 1 .. StoreCount
  BY <1>1, <1>3
<1>5. Distinct(ms) /\ \A i \in DOMAIN ms : ms[i].peer \in peerIds'
  BY <1>1, <1>2 DEF Distinct
<1>6. DOMAIN raft' = Store /\ \A s \in Store : IsNode(raft'[s]) /\ raft'[s].role = "Follower"
  BY <1>2, NewNodeIsNode, BootstrapRole DEF LeadInv, LeadTypes
<1>7. /\ op'.pc = "candidate" /\ op'.peer = 1
      /\ DOMAIN op' = {"pc", "boot", "peer", "todo", "got", "index"}
  BY <1>2 DEF Idle
<1>8. ms[1].peer = 1 /\ 1 \in DOMAIN ms /\ \A i \in DOMAIN ms : ms[i].store \in Store
  BY <1>1
<1> HIDE DEF ms
<1>9. LeadTypes'
  BY <1>2, <1>4, <1>5, <1>6, <1>7 DEF LeadInv, LeadTypes
<1>10. Ruled'
  BY <1>2, <1>6, <1>8 DEF Ruled
<1>11. HasPeer(op.peer)'
  BY <1>2, <1>7, <1>8 DEF HasPeer
<1> QED
  BY <1>7, <1>9, <1>10, <1>11 DEF LeadInv

LEMMA BecomesCandidateLeads == ASSUME LeadInv, BecomesCandidate PROVE LeadInv'
<1> DEFINE p == op.peer
           s == StoreOf(op.peer)
           n == BecomeCandidate(raft[s], op.peer)
           d == SaveHardState(disk[s], n)
           o == [op EXCEPT !.pc = "votes", !.todo = Others(op.peer), !.got = 1]
<1>1. op.pc = "candidate" /\ ReplicaOrDie(s, n, d, o, TornHardState(disk[s], n))
  BY DEF BecomesCandidate
<1>2. LeadTypes /\ Ruled /\ HasPeer(p)
  BY <1>1 DEF LeadInv
<1>3. s \in Store /\ \A i \in DOMAIN members : members[i].peer # p => members[i].store # s
  BY <1>2, PeerFacts
<1>4. IsNode(raft[s]) /\ IsImage(disk[s])
  BY <1>2, <1>3 DEF LeadTypes
<1>5. IsNode(n) /\ n.role = "Candidate" /\ n.term = raft[s].term + 1
  BY <1>4, CandidateTerm
<1>6. IsImage(d) /\ \A e \in TornHardState(disk[s], n) : IsImage(e)
  BY <1>4, <1>5, HardStateImage
<1>7. /\ DOMAIN o = {"pc", "boot", "peer", "todo", "got", "index"}
      /\ o.pc = "votes" /\ o.peer = p /\ o.todo = Others(p)
  BY <1>2 DEF LeadTypes
<1>8. PositionOf(p) \in DOMAIN members /\ members[PositionOf(p)].store = s
  BY <1>2, PeerFacts DEF StoreOf
<1>9. Called(Others(p), members, p) /\ \A j \in DOMAIN members :
        members[j].peer # p => \E i \in DOMAIN Others(p) : Others(p)[i] = members[j]
  BY <1>2, OthersFacts
<1>10. \A j \in DOMAIN members : members[j].peer = p => members[j].store = s
  BY <1>2, <1>8, PeerFacts DEF LeadTypes, Distinct
<1> HIDE DEF p, s, n, d, o
<1>11. CASE DieWriting(s, TornHardState(disk[s], n))
  BY <1>3, <1>6, <1>11, DieKeeps
<1>12. CASE Replica(s, n, d, o) /\ UNCHANGED <<leader, ops, acked>>
  <2>1. /\ LeadTypes' /\ members' = members /\ op' = o /\ raft'[s] = n
        /\ \A t \in Store \ {s} : raft'[t] = raft[t]
    BY <1>3, <1>5, <1>6, <1>7, <1>12, ReplicaTypes
  <2>2. HasPeer(op.peer)'
    BY <1>2, <1>7, <2>1 DEF HasPeer
  <2>3. StoreOf(op.peer)' = s
    BY <1>7, <2>1 DEF StoreOf, PositionOf, s, p
  <2>4. Called(op.todo, members, op.peer)'
    BY <1>7, <1>9, <2>1
  <2>5. ASSUME NEW j \in DOMAIN members, members[j].store # s
        PROVE  raft'[members[j].store].role = "Leader" => raft'[members[j].store].term < n.term
    <3>1. members[j].store \in Store
      BY <1>2, MemberFacts
    <3>2. raft'[members[j].store] = raft[members[j].store]
      BY <2>1, <2>5, <3>1
    <3>3. raft[members[j].store].role = "Leader" => raft[s].term >= raft[members[j].store].term
      BY <1>2, <1>8 DEF Ruled
    <3>4. raft[s].term \in Nat /\ raft[members[j].store].term \in Nat
      BY <1>2, <1>4, <3>1 DEF LeadTypes, IsNode
    <3> QED
      BY <1>5, <3>2, <3>3, <3>4
  <2>6. raft'[s].role # "Leader" /\ raft'[s].term >= n.term
    BY <1>5, <2>1 DEF IsNode
  <2>7. ASSUME NEW j \in DOMAIN members, \A i \in DOMAIN Others(p) : Others(p)[i] # members[j]
        PROVE  members[j].store = s
    BY <1>9, <1>10, <2>7
  <2>8. \A j \in DOMAIN members :
          /\ raft'[members[j].store].role = "Leader" => raft'[members[j].store].term < n.term
          /\ (\A i \in DOMAIN Others(p) : Others(p)[i] # members[j]) =>
               raft'[members[j].store].role # "Leader" /\ raft'[members[j].store].term >= n.term
    BY <2>5, <2>6, <2>7
  <2>9. Voting'
    BY <1>7, <2>1, <2>2, <2>3, <2>4, <2>8 DEF Voting
  <2> QED
    BY <1>7, <2>1, <2>9 DEF LeadInv
<1> QED
  BY <1>1, <1>11, <1>12 DEF ReplicaOrDie

LEMMA VoteLeads == ASSUME LeadInv, Vote PROVE LeadInv'
<1> DEFINE p == op.peer
           h == Head(op.todo)
           s == h.store
           c == raft[StoreOf(op.peer)]
           req == [type |-> "vote", term |-> c.term, from |-> op.peer,
                   lastIndex |-> LastIndex(c), lastTerm |-> LastTerm(c)]
           n == HandleRequestVote(raft[s], req)
           d == SaveHardState(disk[s], n)
           o == [op EXCEPT !.todo = Tail(op.todo),
                           !.got = IF GrantsVote(raft[s], req) THEN op.got + 1 ELSE op.got]
<1>1. op.pc = "votes" /\ op.todo # <<>> /\ ReplicaOrDie(s, n, d, o, TornHardState(disk[s], n))
  BY DEF Vote
<1>2. LeadTypes /\ Voting /\ HasPeer(p) /\ Called(op.todo, members, p)
  BY <1>1 DEF LeadInv, Voting
<1>3. /\ \E j \in DOMAIN members : h = members[j]
      /\ s \in Store /\ s # StoreOf(p) /\ Called(Tail(op.todo), members, p)
      /\ \A i \in DOMAIN op.todo :
           op.todo[i] = h \/ \E j \in DOMAIN Tail(op.todo) : Tail(op.todo)[j] = op.todo[i]
  BY <1>1, <1>2, CalledFacts
<1>4. StoreOf(p) \in Store
  BY <1>2, PeerFacts
<1>5. IsNode(raft[s]) /\ IsImage(disk[s]) /\ c.term \in Nat
  BY <1>2, <1>3, <1>4 DEF LeadTypes, IsNode
<1>6. /\ IsNode(n) /\ n.term >= raft[s].term /\ n.term >= c.term
      /\ n.role = "Leader" => raft[s].role = "Leader" /\ c.term <= raft[s].term
  <2>1. req.term = c.term
    OBVIOUS
  <2> HIDE DEF req
  <2> QED
    BY <1>5, <2>1, VoteRole
<1>7. raft[s].role = "Leader" => raft[s].term < c.term
  BY <1>2, <1>3 DEF Voting
<1>8. n.role # "Leader"
  <2>1. raft[s].term \in Nat
    BY <1>5 DEF IsNode
  <2> HIDE DEF n, c
  <2> QED
    BY <1>5, <1>6, <1>7, <2>1
<1>9. IsImage(d) /\ \A e \in TornHardState(disk[s], n) : IsImage(e)
  BY <1>5, <1>6, HardStateImage
<1>10. /\ DOMAIN o = {"pc", "boot", "peer", "todo", "got", "index"}
       /\ o.pc = "votes" /\ o.peer = p /\ o.todo = Tail(op.todo)
  BY <1>1, <1>2 DEF LeadTypes
<1> HIDE DEF p, h, s, req, n, d, o, c
<1>11. CASE DieWriting(s, TornHardState(disk[s], n))
  BY <1>3, <1>9, <1>11, DieKeeps
<1>12. CASE Replica(s, n, d, o) /\ UNCHANGED <<leader, ops, acked>>
  <2>1. /\ LeadTypes' /\ members' = members /\ op' = o /\ raft'[s] = n
        /\ \A t \in Store \ {s} : raft'[t] = raft[t]
    BY <1>3, <1>6, <1>9, <1>10, <1>12, ReplicaTypes
  <2>2. HasPeer(op.peer)'
    BY <1>2, <1>10, <2>1 DEF HasPeer
  <2>3. StoreOf(op.peer)' = StoreOf(p)
    BY <1>10, <2>1 DEF StoreOf, PositionOf
  <2>4. Called(op.todo, members, op.peer)'
    BY <1>3, <1>10, <2>1
  <2>5. raft'[StoreOf(p)] = c
    BY <1>3, <1>4, <2>1 DEF c, p
  <2>6. ASSUME NEW j \in DOMAIN members
        PROVE  /\ raft'[members[j].store].role = "Leader" => raft'[members[j].store].term < c.term
               /\ (\A i \in DOMAIN Tail(op.todo) : Tail(op.todo)[i] # members[j]) =>
                    raft'[members[j].store].role # "Leader" /\ raft'[members[j].store].term >= c.term
    <3>1. CASE members[j].store = s
      BY <1>6, <1>8, <2>1, <3>1
    <3>2. CASE members[j].store # s
      <4>1. raft'[members[j].store] = raft[members[j].store]
        BY <1>2, <2>1, <3>2, MemberFacts
      <4>2. /\ raft[members[j].store].role = "Leader" => raft[members[j].store].term < c.term
            /\ (\A i \in DOMAIN op.todo : op.todo[i] # members[j]) =>
                 raft[members[j].store].role # "Leader" /\ raft[members[j].store].term >= c.term
        BY <1>2 DEF Voting, c
      <4>3. members[j] # h
        BY <3>2 DEF s
      <4>4. (\A i \in DOMAIN Tail(op.todo) : Tail(op.todo)[i] # members[j]) =>
              \A i \in DOMAIN op.todo : op.todo[i] # members[j]
        BY <1>3, <4>3
      <4> QED
        BY <4>1, <4>2, <4>4
    <3> QED
      BY <3>1, <3>2
  <2>7. Voting'
    BY <1>10, <2>1, <2>2, <2>3, <2>4, <2>5, <2>6 DEF Voting
  <2> QED
    BY <1>10, <2>1, <2>7 DEF LeadInv
<1> QED
  BY <1>1, <1>11, <1>12 DEF ReplicaOrDie

\* At the end of the loop nobody leads and nobody is in an earlier term than the
\* candidate.
LEMMA LoopEnds ==
  ASSUME LeadInv, op.pc = "votes", op.todo = <<>>
  PROVE  /\ LeadTypes /\ HasPeer(op.peer)
         /\ \A j \in DOMAIN members :
              /\ raft[members[j].store].role # "Leader"
              /\ raft[members[j].store].term >= raft[StoreOf(op.peer)].term
BY DEF LeadInv, Voting

LEMMA ElectedLeads == ASSUME LeadInv, Elected PROVE LeadInv'
<1> DEFINE p == op.peer
           s == StoreOf(op.peer)
           n == BecomeLeader(raft[s])
           d == SaveHardState(disk[s], n)
<1>1. /\ op.pc = "votes" /\ op.todo = <<>> /\ Replica(s, n, d, Idle) /\ leader' = p
  BY DEF Elected
<1>2. /\ LeadTypes /\ HasPeer(p)
      /\ \A j \in DOMAIN members :
           /\ raft[members[j].store].role # "Leader"
           /\ raft[members[j].store].term >= raft[s].term
  BY <1>1, LoopEnds
<1>3. s \in Store
  BY <1>2, PeerFacts
<1>4. IsNode(raft[s]) /\ IsImage(disk[s])
  BY <1>2, <1>3 DEF LeadTypes
<1>5. IsNode(n) /\ n.term = raft[s].term
  BY <1>4, LeaderTerm
<1>6. IsImage(d)
  BY <1>4, <1>5, HardStateImage
<1>7. Idle.pc = "idle" /\ DOMAIN Idle = {"pc", "boot", "peer", "todo", "got", "index"}
  BY DEF Idle
<1> HIDE DEF n, d, s, p
<1>8. /\ LeadTypes' /\ members' = members /\ op' = Idle /\ raft'[s] = n
      /\ \A t \in Store \ {s} : raft'[t] = raft[t]
  BY <1>1, <1>3, <1>5, <1>6, <1>7, ReplicaTypes
<1>9. HasPeer(leader)'
  BY <1>1, <1>2, <1>8 DEF HasPeer
<1>10. StoreOf(leader)' = s
  BY <1>1, <1>8 DEF StoreOf, PositionOf, s, p
<1>11. ASSUME NEW i \in DOMAIN members, NEW j \in DOMAIN members,
              raft'[members[i].store].role = "Leader"
       PROVE  members[i].store = s /\ raft'[members[j].store].term >= raft'[members[i].store].term
  <2>1. members[i].store \in Store /\ members[j].store \in Store
    BY <1>2, MemberFacts
  <2>2. members[i].store = s
    BY <1>2, <1>8, <1>11, <2>1
  <2>3. raft'[members[j].store].term = raft[members[j].store].term
    BY <1>5, <1>8, <2>1
  <2> QED
    BY <1>2, <1>5, <1>8, <2>2, <2>3
<1>12. Ruled'
  BY <1>8, <1>9, <1>10, <1>11 DEF Ruled
<1> QED
  BY <1>7, <1>8, <1>12 DEF LeadInv

LEMMA NotElectedLeads == ASSUME LeadInv, NotElected PROVE LeadInv'
<1>1. op.pc = "votes" /\ op.todo = <<>>
  BY DEF NotElected
<1>2. CASE op.boot
  <2>1. Stop /\ disk' = disk
    BY <1>2 DEF NotElected
  <2> QED
    BY <2>1, StopKeeps DEF LeadInv, LeadTypes
<1>3. CASE ~op.boot
  <2>1. /\ op' = Idle /\ members' = members /\ leader' = leader /\ raft' = raft
        /\ disk' = disk /\ peerIds' = peerIds /\ joined' = joined
    BY <1>3 DEF NotElected
  <2>2. LeadTypes' /\ op'.pc = "idle"
    BY <2>1 DEF LeadInv, LeadTypes, Idle
  <2>3. Ruled'
    BY <1>1, <2>1, LoopEnds DEF Ruled
  <2> QED
    BY <2>2, <2>3 DEF LeadInv
<1> QED
  BY <1>2, <1>3

-----------------------------------------------------------------------------
\* Membership.

LEMMA ServingFacts ==
  ASSUME LeadInv, Serving
  PROVE  LeadTypes /\ Ruled /\ op = Idle /\ op.pc = "idle"
BY DEF LeadInv, Serving, Idle

LEMMA SameRule ==
  ASSUME members' = members, leader' = leader, raft' = raft, Ruled
  PROVE  Ruled'
BY DEF Ruled, HasPeer, StoreOf, PositionOf

LEMMA TransferLeads ==
  ASSUME LeadInv, NEW p \in Peer, TransferLeader(p)
  PROVE  LeadInv'
<1>1. /\ Serving /\ HasPeer(p) /\ op' = [Idle EXCEPT !.pc = "candidate", !.peer = p]
      /\ members' = members /\ leader' = leader /\ raft' = raft /\ disk' = disk
      /\ peerIds' = peerIds /\ joined' = joined
  BY DEF TransferLeader
<1>2. /\ op'.pc = "candidate" /\ op'.peer = p
      /\ DOMAIN op' = {"pc", "boot", "peer", "todo", "got", "index"}
  BY <1>1 DEF Idle
<1>3. LeadTypes /\ Ruled
  BY <1>1, ServingFacts
<1>4. LeadTypes'
  BY <1>1, <1>2, <1>3 DEF LeadTypes
<1>5. Ruled' /\ HasPeer(op.peer)'
  BY <1>1, <1>2, <1>3, SameRule DEF HasPeer
<1> QED
  BY <1>2, <1>4, <1>5 DEF LeadInv

LEMMA AddPeerLeads ==
  ASSUME LeadInv, NEW s \in Store, NEW p \in Peer, AddPeer(s, p)
  PROVE  LeadInv'
<1> DEFINE m == [store |-> s, peer |-> p]
<1>1. /\ Serving /\ p \notin peerIds /\ ~\E i \in DOMAIN members : members[i].store = s
      /\ op' = op \/ op' = [Idle EXCEPT !.pc = "join", !.todo = <<m>>]
      /\ members' = members /\ leader' = leader /\ raft' = raft /\ disk' = disk
      /\ joined' = joined /\ peerIds' = peerIds \cup {p}
  BY DEF AddPeer
<1>2. LeadTypes /\ Ruled /\ op.pc = "idle"
  BY <1>1, ServingFacts
<1>3. /\ op'.pc = "idle" \/ (op'.pc = "join" /\ op'.todo = <<m>>)
      /\ DOMAIN op' = {"pc", "boot", "peer", "todo", "got", "index"}
  BY <1>1, <1>2 DEF Idle, LeadTypes
<1>4. m \in Member /\ m.store = s /\ m.peer = p
  BY DEF Member
<1> HIDE DEF m
<1>5. LeadTypes'
  BY <1>1, <1>2, <1>3 DEF LeadTypes
<1>6. Ruled'
  BY <1>1, <1>2, SameRule
<1>7. \A i \in DOMAIN members : members[i].store # m.store /\ members[i].peer # m.peer
  BY <1>1, <1>2, <1>4 DEF LeadTypes
<1>8. op'.pc = "join" => Joining'
  BY <1>1, <1>3, <1>4, <1>7 DEF Joining
<1> QED
  BY <1>3, <1>5, <1>6, <1>8 DEF LeadInv

\* A replica that joins the members and does not lead.
LEMMA JoinedLeads ==
  ASSUME LeadTypes, Ruled, NEW m \in Member, m.peer \in peerIds,
         \A i \in DOMAIN members : members[i].store # m.store /\ members[i].peer # m.peer,
         NEW n, IsNode(n), n.role = "Follower",
         \A i \in DOMAIN members : raft[members[i].store].role = "Leader" =>
           n.term >= raft[members[i].store].term,
         raft' = [raft EXCEPT ![m.store] = n], members' = members \o <<m>>,
         leader' = leader, peerIds' = peerIds, DOMAIN joined' = Store,
         DOMAIN disk' = Store, \A s \in Store : IsImage(disk'[s]),
         DOMAIN op' = {"pc", "boot", "peer", "todo", "got", "index"}
  PROVE  LeadTypes' /\ Ruled'
<1> DEFINE k == Len(members) + 1
<1>1. members \in Seq(Member) /\ Len(members) \in Nat /\ DOMAIN members = 1 .. Len(members)
  BY SeqFacts DEF LeadTypes
<1>2. /\ members' \in Seq(Member) /\ DOMAIN members' = 1 .. k
      /\ members'[k] = m /\ \A i \in DOMAIN members : members'[i] = members[i]
  BY <1>1, AddedFacts
<1>3. \A i \in DOMAIN members' : i \in DOMAIN members \/ i = k
  BY <1>1, <1>2
<1>4. k \notin DOMAIN members
  BY <1>1
<1> HIDE DEF k
<1>5. m.store \in Store
  BY DEF Member
<1>6. /\ DOMAIN raft' = Store /\ \A s \in Store : IsNode(raft'[s])
      /\ raft'[m.store] = n /\ \A s \in Store \ {m.store} : raft'[s] = raft[s]
  BY <1>5 DEF LeadTypes
<1>7. Distinct(members') /\ \A i \in DOMAIN members' : members'[i].peer \in peerIds
  BY <1>2, <1>3, <1>4 DEF LeadTypes, Distinct
<1>8. LeadTypes'
  BY <1>2, <1>6, <1>7 DEF LeadTypes
<1>9. \A i \in DOMAIN members : raft'[members'[i].store] = raft[members[i].store]
  BY <1>2, <1>6, MemberFacts
<1>10. SUFFICES ASSUME NEW i \in DOMAIN members', NEW j \in DOMAIN members',
                       raft'[members'[i].store].role = "Leader"
                PROVE  /\ HasPeer(leader)' /\ members'[i].store = StoreOf(leader)'
                       /\ raft'[members'[j].store].term >= raft'[members'[i].store].term
  BY <1>8 DEF Ruled
<1>11. i \in DOMAIN members /\ raft[members[i].store].role = "Leader"
  BY <1>2, <1>3, <1>6, <1>9, <1>10
<1>12. HasPeer(leader) /\ members[i].store = StoreOf(leader)
  BY <1>11 DEF Ruled
<1>13. PositionOf(leader) \in DOMAIN members /\ members[PositionOf(leader)].peer = leader
  BY <1>12, PeerFacts
<1>14. HasPeer(leader)'
  BY <1>2, <1>3, <1>13, <1>1 DEF HasPeer
<1>15. PositionOf(leader)' = PositionOf(leader)
  <2>1. PositionOf(leader)' \in DOMAIN members' /\ members'[PositionOf(leader)'].peer = leader
    BY <1>14 DEF HasPeer, PositionOf
  <2>2. PositionOf(leader) \in DOMAIN members' /\ members'[PositionOf(leader)].peer = leader
    BY <1>1, <1>2, <1>13
  <2> QED
    BY <1>7, <2>1, <2>2 DEF Distinct
<1>16. members'[i].store = StoreOf(leader)'
  BY <1>2, <1>11, <1>12, <1>13, <1>15 DEF StoreOf
<1>17. raft'[members'[j].store].term >= raft'[members'[i].store].term
  <2>1. CASE j = k
    BY <1>2, <1>6, <1>9, <1>11, <2>1
  <2>2. CASE j \in DOMAIN members
    <3>1. raft[members[j].store].term >= raft[members[i].store].term
      BY <1>11, <2>2 DEF Ruled
    <3> QED
      BY <1>9, <1>11, <2>2, <3>1
  <2> QED
    BY <1>3, <2>1, <2>2
<1> QED
  BY <1>14, <1>16, <1>17

LEMMA JoinLeads == ASSUME LeadInv, Join PROVE LeadInv'
<1> DEFINE s == Head(op.todo).store
           l == raft[StoreOf(leader)]
           n == [l EXCEPT !.role = "Follower"]
           d == CopyLogUpTo(disk[s], n.log, Len(n.log))
<1>1. op.pc = "join"
  BY DEF Join
<1>2. LeadTypes /\ Ruled /\ Joining
  BY <1>1 DEF LeadInv
<1>3. PICK m \in Member :
        /\ op.todo = <<m>> /\ m.peer \in peerIds
        /\ \A i \in DOMAIN members : members[i].store # m.store /\ members[i].peer # m.peer
  BY <1>2 DEF Joining
<1>4. s = m.store /\ m.store \in Store
  BY <1>3 DEF Member
<1>5. IsNode(raft[s]) /\ IsImage(disk[s])
  BY <1>2, <1>4 DEF LeadTypes
<1>6. CASE HasPeer(leader)
  <2>1. StoreOf(leader) \in Store /\ PositionOf(leader) \in DOMAIN members
    BY <1>2, <1>6, PeerFacts
  <2>2. IsNode(l)
    BY <1>2, <2>1 DEF LeadTypes
  <2> HIDE DEF l
  <2>3. IsNode(n) /\ n.role = "Follower" /\ n.term = l.term
    BY <2>2 DEF IsNode
  <2>4. IsImage(d) /\ \A i : IsImage(CopyLogUpTo(disk[s], n.log, i))
    BY <1>5, LogImage
  <2>5. IsImage(SaveHardState(d, n)) /\ \A e \in TornHardState(d, n) : IsImage(e)
    BY <2>3, <2>4, HardStateImage
  <2>6. \/ /\ raft' = [raft EXCEPT ![s] = n]
           /\ disk' = [disk EXCEPT ![s] = SaveHardState(d, n)]
           /\ members' = members \o op.todo
           /\ op' = [op EXCEPT !.pc = "copy"]
           /\ leader' = leader /\ peerIds' = peerIds
           /\ joined' = [joined EXCEPT ![s] = Len(n.log)]
        \/ DieWriting(s, {CopyLogUpTo(disk[s], n.log, i) : i \in 0 .. Len(n.log)}
                           \cup TornHardState(d, n))
    BY <1>6 DEF Join, l
  <2> HIDE DEF s, n, d
  <2>7. CASE DieWriting(s, {CopyLogUpTo(disk[s], n.log, i) : i \in 0 .. Len(n.log)}
                             \cup TornHardState(d, n))
    <3> DEFINE images == {CopyLogUpTo(disk[s], n.log, i) : i \in 0 .. Len(n.log)}
                           \cup TornHardState(d, n)
    <3>1. \A e \in images : IsImage(e)
      BY <2>4, <2>5
    <3> HIDE DEF images
    <3> QED
      BY <1>4, <2>7, <3>1, DieKeeps DEF images
  <2>8. CASE /\ raft' = [raft EXCEPT ![s] = n]
             /\ disk' = [disk EXCEPT ![s] = SaveHardState(d, n)]
             /\ members' = members \o op.todo
             /\ op' = [op EXCEPT !.pc = "copy"]
             /\ leader' = leader /\ peerIds' = peerIds
             /\ joined' = [joined EXCEPT ![s] = Len(n.log)]
    <3>1. /\ op'.pc = "copy" /\ op'.todo = <<m>>
          /\ DOMAIN op' = {"pc", "boot", "peer", "todo", "got", "index"}
      BY <1>2, <1>3, <2>8 DEF LeadTypes
    <3>2. DOMAIN disk' = Store /\ \A t \in Store : IsImage(disk'[t])
      BY <1>2, <1>4, <2>5, <2>8 DEF LeadTypes
    <3>3. \A i \in DOMAIN members : raft[members[i].store].role = "Leader" =>
            n.term >= raft[members[i].store].term
      BY <1>2, <2>1, <2>3 DEF Ruled, l, StoreOf
    <3>4. DOMAIN joined' = Store
      BY <1>2, <2>8 DEF LeadTypes
    <3>5. LeadTypes' /\ Ruled'
      BY <1>2, <1>3, <1>4, <2>3, <2>8, <3>1, <3>2, <3>3, <3>4, JoinedLeads
    <3> QED
      BY <3>1, <3>5 DEF LeadInv
  <2> QED
    BY <2>6, <2>7, <2>8
<1>7. CASE ~HasPeer(leader)
  <2>1. /\ raft' = [raft EXCEPT ![s] = BootstrapNode(disk[s])] /\ members' = members \o op.todo
        /\ op' = Idle /\ leader' = leader /\ disk' = disk /\ peerIds' = peerIds
        /\ joined' = joined
    BY <1>7 DEF Join
  <2> HIDE DEF s
  <2>2. op'.pc = "idle" /\ DOMAIN op' = {"pc", "boot", "peer", "todo", "got", "index"}
    BY <2>1 DEF Idle
  <2>3. IsNode(BootstrapNode(disk[s])) /\ BootstrapNode(disk[s]).role = "Follower"
    BY <1>5, BootstrapRole
  <2>4. \A i \in DOMAIN members : raft[members[i].store].role # "Leader"
    BY <1>2, <1>7 DEF Ruled
  <2>5. DOMAIN disk' = Store /\ DOMAIN joined' = Store /\ \A t \in Store : IsImage(disk'[t])
    BY <1>2, <2>1 DEF LeadTypes
  <2>6. LeadTypes' /\ Ruled'
    BY <1>2, <1>3, <1>4, <2>1, <2>2, <2>3, <2>4, <2>5, JoinedLeads
  <2> QED
    BY <2>2, <2>6 DEF LeadInv
<1> QED
  BY <1>6, <1>7

LEMMA CopyDataLeads == ASSUME LeadInv, CopyData PROVE LeadInv'
<1> DEFINE s == Head(op.todo).store
           kv == disk[StoreOf(leader)].kv
           torn == {CopyKeys(disk[s], kv, ks) : ks \in SUBSET Key}
<1>1. op.pc = "copy" /\ ReplicaOrDie(s, raft[s], CopyKeys(disk[s], kv, Key), Idle, torn)
  BY DEF CopyData
<1>2. LeadTypes /\ Ruled /\ \E m \in Member : op.todo = <<m>>
  BY <1>1 DEF LeadInv
<1>3. s \in Store
  BY <1>2 DEF Member
<1>4. IsNode(raft[s]) /\ IsImage(disk[s])
  BY <1>2, <1>3 DEF LeadTypes
<1>5. IsImage(CopyKeys(disk[s], kv, Key)) /\ \A e \in torn : IsImage(e)
  BY <1>4, KeysImage
<1>6. Idle.pc = "idle" /\ DOMAIN Idle = {"pc", "boot", "peer", "todo", "got", "index"}
  BY DEF Idle
<1> HIDE DEF s, kv, torn
<1>7. CASE DieWriting(s, torn)
  BY <1>3, <1>5, <1>7, DieKeeps
<1>8. CASE Replica(s, raft[s], CopyKeys(disk[s], kv, Key), Idle) /\ UNCHANGED <<leader, ops, acked>>
  <2>1. /\ LeadTypes' /\ members' = members /\ op' = Idle /\ raft'[s] = raft[s]
        /\ \A t \in Store \ {s} : raft'[t] = raft[t]
    BY <1>3, <1>4, <1>5, <1>6, <1>8, ReplicaTypes
  <2>2. raft'[s].term >= raft[s].term
    BY <1>4, <2>1 DEF IsNode
  <2>3. Ruled'
    BY <1>2, <1>3, <1>4, <1>8, <2>1, <2>2, StillRuled
  <2> QED
    BY <1>6, <2>1, <2>3 DEF LeadInv
<1> QED
  BY <1>1, <1>7, <1>8 DEF ReplicaOrDie

LEMMA RemovePeerLeads ==
  ASSUME LeadInv, NEW p \in Peer, RemovePeer(p)
  PROVE  LeadInv'
<1> DEFINE o == Others(p)
           s == StoreOf(p)
<1>1. /\ Serving /\ HasPeer(p) /\ Len(members) > 1
      /\ members' = o /\ raft' = [raft EXCEPT ![s] = NewNode]
      /\ disk' = disk /\ joined' = joined /\ peerIds' = peerIds \ {p}
  BY DEF RemovePeer
<1>2. LeadTypes /\ Ruled /\ op = Idle /\ op.pc = "idle"
  BY <1>1, ServingFacts
<1>3. /\ s \in Store /\ PositionOf(p) \in DOMAIN members
      /\ members[PositionOf(p)].peer = p /\ members[PositionOf(p)].store = s
      /\ \A i \in DOMAIN members : members[i].peer # p => members[i].store # s
  BY <1>1, <1>2, PeerFacts DEF StoreOf
<1>4. /\ Called(o, members, p) /\ Distinct(o)
      /\ \A i \in DOMAIN o : o[i].peer \in peerIds
      /\ \A j \in DOMAIN members : members[j].peer # p => \E i \in DOMAIN o : o[i] = members[j]
  BY <1>1, <1>2, OthersFacts
<1>5. Len(o) = Len(members) - 1 /\ o \in Seq(Member)
  BY <1>2, <1>3, RemoveAtFacts DEF LeadTypes, Others
<1>6. o # <<>> /\ Head(o) = o[1] /\ 1 \in DOMAIN o
  <2>1. Len(o) > 0 /\ Len(members) \in Nat
    BY <1>1, <1>2, <1>5, SeqFacts DEF LeadTypes
  <2> HIDE DEF o
  <2>2. o # <<>>
    BY <2>1
  <2> QED
    BY <1>5, <2>1, <2>2, SeqFacts
<1> HIDE DEF o, s
<1>7. DOMAIN raft' = Store /\ \A t \in Store : IsNode(raft'[t])
  BY <1>1, <1>2, NewNodeIsNode DEF LeadTypes
<1>8. /\ DOMAIN op' = {"pc", "boot", "peer", "todo", "got", "index"}
      /\ leader = p => op'.pc = "candidate" /\ op'.peer = Head(o).peer /\ leader' = None
      /\ leader # p => op'.pc = "idle" /\ leader' = leader
  BY <1>2 DEF RemovePeer, Idle, o
<1>9. LeadTypes'
  BY <1>1, <1>2, <1>4, <1>7, <1>8, <1>5 DEF LeadTypes, Called
<1>10. ASSUME NEW i \in DOMAIN o
       PROVE  /\ o[i].peer # p /\ raft'[o[i].store] = raft[o[i].store]
              /\ \E j \in DOMAIN members : o[i] = members[j]
  <2>1. PICK j \in DOMAIN members : o[i] = members[j] /\ members[j].peer # p
    BY <1>4 DEF Called
  <2>2. members[j].store # s /\ members[j].store \in Store
    BY <1>2, <1>3, <2>1, MemberFacts
  <2> QED
    BY <1>1, <1>2, <2>1, <2>2 DEF LeadTypes
<1>11. Ruled'
  <2> SUFFICES ASSUME NEW i \in DOMAIN o, NEW j \in DOMAIN o,
                      raft'[o[i].store].role = "Leader"
               PROVE  /\ HasPeer(leader)' /\ o[i].store = StoreOf(leader)'
                      /\ raft'[o[j].store].term >= raft'[o[i].store].term
    BY <1>1 DEF Ruled
  <2>1. PICK a \in DOMAIN members : o[i] = members[a]
    BY <1>10
  <2>2. PICK b \in DOMAIN members : o[j] = members[b]
    BY <1>10
  <2>3. /\ HasPeer(leader) /\ members[a].store = StoreOf(leader)
        /\ raft[members[b].store].term >= raft[members[a].store].term
    BY <1>2, <1>10, <2>1, <2>2 DEF Ruled
  <2>4. members[a].peer = leader /\ leader # p
    BY <1>2, <1>10, <2>1, <2>3, PeerFacts
  <2>5. leader' = leader
    BY <1>8, <2>4
  <2>6. HasPeer(leader)'
    BY <1>1, <2>1, <2>4, <2>5 DEF HasPeer
  <2>7. PositionOf(leader)' \in DOMAIN o /\ o[PositionOf(leader)'].peer = leader
    BY <1>1, <2>5, <2>6 DEF HasPeer, PositionOf
  <2>8. PositionOf(leader)' = i
    BY <1>4, <2>1, <2>4, <2>7 DEF Distinct
  <2>9. StoreOf(leader)' = o[i].store
    BY <1>1, <2>8 DEF StoreOf
  <2> QED
    BY <1>10, <2>1, <2>2, <2>3, <2>6, <2>9
<1>12. op'.pc = "candidate" => HasPeer(op.peer)'
  BY <1>1, <1>6, <1>8 DEF HasPeer
<1>13. op'.pc \in {"candidate", "idle"}
  BY <1>8
<1> QED
  BY <1>9, <1>11, <1>12, <1>13 DEF LeadInv

-----------------------------------------------------------------------------
\* Writes.

\* A step of a replica that does not come to lead, or to an earlier term, after
\* which the request is not at an election.
LEMMA ReplicaLeads ==
  ASSUME LeadInv, LeadTypes, Ruled, NEW s \in Store, NEW n, IsNode(n), NEW d, IsImage(d), NEW o,
         DOMAIN o = {"pc", "boot", "peer", "todo", "got", "index"}, Replica(s, n, d, o),
         leader' = leader, n.term >= raft[s].term,
         n.role = "Leader" => raft[s].role = "Leader" /\ n.term = raft[s].term,
         o.pc \in {"idle", "append", "commit"},
         o.pc # "idle" => HasPeer(leader) /\ Called(o.todo, members, leader)
  PROVE  LeadInv'
<1>1. /\ LeadTypes' /\ members' = members /\ op' = o /\ raft'[s] = n
      /\ \A t \in Store \ {s} : raft'[t] = raft[t]
  BY ReplicaTypes
<1>2. Ruled'
  BY <1>1, StillRuled
<1>3. o.pc # "idle" => HasPeer(leader)' /\ Called(op.todo, members, leader)'
  BY <1>1 DEF HasPeer
<1> QED
  BY <1>1, <1>2, <1>3 DEF LeadInv

LEMMA WriteLeads ==
  ASSUME LeadInv, NEW cmd \in Command, Write(cmd)
  PROVE  LeadInv'
<1> DEFINE s == StoreOf(leader)
           n == Propose(raft[s], cmd)
           d == AppendLog(disk[s], n.log, Len(n.log))
           o == [Idle EXCEPT !.pc = "append", !.todo = Others(leader), !.got = 1,
                             !.index = Len(n.log)]
<1>1. Serving /\ HasPeer(leader) /\ Replica(s, n, d, o) /\ leader' = leader
  BY DEF Write
<1>2. LeadTypes /\ Ruled
  BY <1>1, ServingFacts
<1>3. s \in Store
  BY <1>1, <1>2, PeerFacts
<1>4. IsNode(raft[s]) /\ IsImage(disk[s])
  BY <1>2, <1>3 DEF LeadTypes
<1>5. IsNode(n) /\ n.term = raft[s].term /\ n.role = raft[s].role /\ n.term >= raft[s].term
  BY <1>4, ProposeRole DEF IsNode
<1>6. IsImage(d)
  BY <1>4, LogImage
<1>7. /\ DOMAIN o = {"pc", "boot", "peer", "todo", "got", "index"}
      /\ o.pc = "append" /\ o.todo = Others(leader)
  BY DEF Idle
<1>8. Called(Others(leader), members, leader)
  BY <1>1, <1>2, OthersFacts
<1> HIDE DEF s, n, d, o
<1> QED
  BY <1>1, <1>2, <1>3, <1>5, <1>6, <1>7, <1>8, ReplicaLeads

LEMMA LoopFacts ==
  ASSUME LeadInv, op.pc \in {"append", "commit"}
  PROVE  /\ LeadTypes /\ Ruled /\ HasPeer(leader) /\ Called(op.todo, members, leader)
         /\ StoreOf(leader) \in Store
         /\ IsNode(raft[StoreOf(leader)]) /\ IsImage(disk[StoreOf(leader)])
<1>1. LeadTypes /\ Ruled /\ HasPeer(leader) /\ Called(op.todo, members, leader)
  BY DEF LeadInv
<1>2. StoreOf(leader) \in Store
  BY <1>1, PeerFacts
<1> QED
  BY <1>1, <1>2 DEF LeadTypes

\* The replica a loop calls does not lead.
LEMMA NextFacts ==
  ASSUME LeadInv, op.pc \in {"append", "commit"}, op.todo # <<>>
  PROVE  LET s == Head(op.todo).store
         IN  /\ s \in Store /\ raft[s].role # "Leader" /\ IsNode(raft[s]) /\ IsImage(disk[s])
             /\ Called(Tail(op.todo), members, leader)
<1> DEFINE s == Head(op.todo).store
<1>1. LeadTypes /\ Ruled /\ HasPeer(leader) /\ Called(op.todo, members, leader)
  BY LoopFacts
<1>2. /\ \E j \in DOMAIN members : Head(op.todo) = members[j]
      /\ s \in Store /\ s # StoreOf(leader) /\ Called(Tail(op.todo), members, leader)
  BY <1>1, CalledFacts
<1>3. raft[s].role # "Leader"
  BY <1>1, <1>2 DEF Ruled
<1> QED
  BY <1>1, <1>2, <1>3 DEF LeadTypes

LEMMA AppendLeads == ASSUME LeadInv, AppendToReplica PROVE LeadInv'
<1> DEFINE s == Head(op.todo).store
           req == EntryRequest(raft[StoreOf(leader)])
           n == HandleAppendEntries(raft[s], req)
           next == [op EXCEPT !.todo = Tail(op.todo)]
           o == [next EXCEPT !.got = op.got + 1]
           d == AcceptedDisk(disk[s], n)
           torn == TornHardState(AppendLog(disk[s], n.log, op.index), n)
<1>1. op.pc = "append" /\ op.todo # <<>>
  BY DEF AppendToReplica
<1>2. \/ ReplicaOrDie(s, n, d, o, torn)
      \/ Replica(s, n, disk[s], next) /\ UNCHANGED <<leader, ops, acked>>
  BY DEF AppendToReplica
<1>3. LeadTypes /\ Ruled /\ HasPeer(leader) /\ IsNode(raft[StoreOf(leader)])
  BY <1>1, LoopFacts
<1>4. /\ s \in Store /\ raft[s].role # "Leader" /\ IsNode(raft[s]) /\ IsImage(disk[s])
      /\ Called(Tail(op.todo), members, leader)
  BY <1>1, NextFacts
<1>5. req.term \in Nat
  BY <1>3 DEF EntryRequest, IsNode
<1> HIDE DEF req
<1>6. IsNode(n) /\ n.term >= raft[s].term /\ n.role # "Leader"
  BY <1>4, <1>5, AppendRole
<1> HIDE DEF n
<1>7. IsImage(AppendLog(disk[s], n.log, op.index))
  BY <1>4, LogImage
<1>8. IsImage(d) /\ \A e \in torn : IsImage(e)
  BY <1>6, <1>7, HardStateImage DEF AcceptedDisk
<1>9. /\ DOMAIN next = {"pc", "boot", "peer", "todo", "got", "index"}
      /\ next.pc = "append" /\ next.todo = Tail(op.todo)
  BY <1>1, <1>3 DEF LeadTypes
<1> HIDE DEF next
<1>10. /\ DOMAIN o = {"pc", "boot", "peer", "todo", "got", "index"}
       /\ o.pc = "append" /\ o.todo = Tail(op.todo)
  BY <1>9
<1> HIDE DEF s, d, o, torn
<1>11. CASE DieWriting(s, torn)
  BY <1>4, <1>8, <1>11, DieKeeps
<1>12. CASE Replica(s, n, d, o) /\ UNCHANGED <<leader, ops, acked>>
  BY <1>3, <1>4, <1>6, <1>8, <1>10, <1>12, ReplicaLeads
<1>13. CASE Replica(s, n, disk[s], next) /\ UNCHANGED <<leader, ops, acked>>
  BY <1>3, <1>4, <1>6, <1>9, <1>13, ReplicaLeads
<1> QED
  BY <1>2, <1>11, <1>12, <1>13 DEF ReplicaOrDie

LEMMA CommitLeads == ASSUME LeadInv, Commit PROVE LeadInv'
<1> DEFINE s == StoreOf(leader)
           n == SetCommitIndex(raft[s], op.index)
           m == TakeCommittedEntries(n)
           d == AppliedDisk(disk[s], n)
           o == [op EXCEPT !.pc = "commit", !.todo = Others(leader)]
<1>1. op.pc = "append" /\ ReplicaOrDie(s, m, d, o, TornApplied(disk[s], n))
  BY DEF Commit
<1>2. /\ LeadTypes /\ Ruled /\ HasPeer(leader) /\ s \in Store /\ IsNode(raft[s])
      /\ IsImage(disk[s])
  BY <1>1, LoopFacts
<1>3. IsNode(n) /\ n.term = raft[s].term /\ n.role = raft[s].role
  BY <1>2, SetCommitRole
<1> HIDE DEF n
<1>4. IsNode(m) /\ m.term = raft[s].term /\ m.role = raft[s].role
  BY <1>3, TakeRole
<1>5. IsImage(d) /\ \A e \in TornApplied(disk[s], n) : IsImage(e)
  BY <1>2, <1>3, AppliedImage
<1>6. /\ DOMAIN o = {"pc", "boot", "peer", "todo", "got", "index"}
      /\ o.pc = "commit" /\ o.todo = Others(leader)
  BY <1>2 DEF LeadTypes
<1>7. Called(Others(leader), members, leader)
  BY <1>2, OthersFacts
<1>8. m.term >= raft[s].term
  BY <1>2, <1>4 DEF IsNode
<1> HIDE DEF s, m, d, o
<1>9. CASE DieWriting(s, TornApplied(disk[s], n))
  BY <1>2, <1>5, <1>9, DieKeeps
<1>10. CASE Replica(s, m, d, o) /\ UNCHANGED <<leader, ops, acked>>
  BY <1>2, <1>4, <1>5, <1>6, <1>7, <1>8, <1>10, ReplicaLeads
<1> QED
  BY <1>1, <1>9, <1>10 DEF ReplicaOrDie

LEMMA BroadcastLeads == ASSUME LeadInv, BroadcastCommit PROVE LeadInv'
<1> DEFINE s == Head(op.todo).store
           req == CommitRequest(raft[StoreOf(leader)], raft[s])
           n == HandleAppendEntries(raft[s], req)
           m == TakeCommittedEntries(n)
           d == AppliedDisk(disk[s], n)
           o == [op EXCEPT !.todo = Tail(op.todo)]
<1>1. op.pc = "commit" /\ op.todo # <<>>
  BY DEF BroadcastCommit
<1>2. \/ ReplicaOrDie(s, m, d, o, TornApplied(disk[s], n))
      \/ Replica(s, n, disk[s], Idle) /\ UNCHANGED <<leader, ops, acked>>
  BY DEF BroadcastCommit
<1>3. LeadTypes /\ Ruled /\ HasPeer(leader) /\ IsNode(raft[StoreOf(leader)])
  BY <1>1, LoopFacts
<1>4. /\ s \in Store /\ raft[s].role # "Leader" /\ IsNode(raft[s]) /\ IsImage(disk[s])
      /\ Called(Tail(op.todo), members, leader)
  BY <1>1, NextFacts
<1>5. req.term \in Nat
  BY <1>3 DEF CommitRequest, IsNode
<1> HIDE DEF req
<1>6. IsNode(n) /\ n.term >= raft[s].term /\ n.role # "Leader"
  BY <1>4, <1>5, AppendRole
<1> HIDE DEF n
<1>7. IsNode(m) /\ m.term >= raft[s].term /\ m.role # "Leader"
  BY <1>6, TakeRole
<1>8. IsImage(d) /\ \A e \in TornApplied(disk[s], n) : IsImage(e)
  BY <1>4, <1>6, AppliedImage
<1>9. /\ DOMAIN o = {"pc", "boot", "peer", "todo", "got", "index"}
      /\ o.pc = "commit" /\ o.todo = Tail(op.todo)
  BY <1>1, <1>3 DEF LeadTypes
<1>10. Idle.pc = "idle" /\ DOMAIN Idle = {"pc", "boot", "peer", "todo", "got", "index"}
  BY DEF Idle
<1> HIDE DEF s, m, d, o
<1>11. CASE DieWriting(s, TornApplied(disk[s], n))
  BY <1>4, <1>8, <1>11, DieKeeps
<1>12. CASE Replica(s, m, d, o) /\ UNCHANGED <<leader, ops, acked>>
  BY <1>3, <1>4, <1>7, <1>8, <1>9, <1>12, ReplicaLeads
<1>13. CASE Replica(s, n, disk[s], Idle) /\ UNCHANGED <<leader, ops, acked>>
  BY <1>3, <1>4, <1>6, <1>10, <1>13, ReplicaLeads
<1> QED
  BY <1>2, <1>11, <1>12, <1>13 DEF ReplicaOrDie

\* A request ends without a change of a replica.
LEMMA ReturnLeads ==
  ASSUME LeadInv, op.pc = "append" \/ op.pc = "commit", op' = Idle, members' = members,
         leader' = leader, raft' = raft, disk' = disk, peerIds' = peerIds,
         joined' = joined
  PROVE  LeadInv'
<1>1. LeadTypes /\ Ruled
  BY DEF LeadInv
<1>2. LeadTypes' /\ op'.pc = "idle"
  BY <1>1 DEF LeadTypes, Idle
<1> QED
  BY <1>1, <1>2, SameRule DEF LeadInv

LEMMA LeadNext == LeadInv /\ [Next]_vars => LeadInv'
<1> SUFFICES ASSUME LeadInv, [Next]_vars PROVE LeadInv'
  OBVIOUS
<1>1. CASE UNCHANGED vars
  <2>1. /\ members' = members /\ leader' = leader /\ raft' = raft /\ disk' = disk
        /\ op' = op /\ peerIds' = peerIds /\ joined' = joined
    BY <1>1 DEF vars
  <2>2. LeadTypes'
    BY <2>1 DEF LeadInv, LeadTypes
  <2>3. op.pc # "votes" => Ruled'
    BY <2>1, SameRule DEF LeadInv
  <2>4. op.pc = "votes" => Voting'
    BY <2>1 DEF LeadInv, Voting, HasPeer, StoreOf, PositionOf
  <2>5. op.pc = "join" => Joining'
    BY <2>1 DEF LeadInv, Joining
  <2> QED
    BY <2>1, <2>2, <2>3, <2>4, <2>5 DEF LeadInv, HasPeer
<1>2. CASE Crash
  BY <1>2, StopKeeps DEF Crash, LeadInv, LeadTypes
<1>3. CASE NotReplicated \/ Acknowledge
  BY <1>3, ReturnLeads DEF NotReplicated, Acknowledge
<1> QED
  BY <1>1, <1>2, <1>3, StartLeads, BecomesCandidateLeads, VoteLeads, ElectedLeads,
     NotElectedLeads, TransferLeads, RemovePeerLeads, AddPeerLeads, JoinLeads,
     CopyDataLeads, WriteLeads, AppendLeads, CommitLeads, BroadcastLeads
  DEF Next

\* Between requests at most one replica of an in-process region leads, and it is
\* the one the cluster sends writes to: for any number of stores, through failed
\* elections, membership changes and crashes between any two writes (ElectLeader,
\* AddPeer, RemovePeer, ProposeAndReplicate).
THEOREM AtMostOneLeader == Spec => []OneLeader
<1>1. LeadInv => OneLeader
  <2> SUFFICES ASSUME LeadInv, Serving, NEW i \in DOMAIN members,
                      raft[members[i].store].role = "Leader"
               PROVE  HasPeer(leader) /\ members[i].store = StoreOf(leader)
    BY DEF OneLeader, MemberStores
  <2> QED
    BY ServingFacts DEF Ruled
<1> QED
  BY <1>1, LeadInit, LeadNext, PTL DEF Spec

-----------------------------------------------------------------------------
\* The inductive invariant of the replicas of a process that was started once and
\* has not died.  L is the log and T the term they agree on, or are about to.

EvenNode(n, L, c, t) ==
  IsNode(n) /\ n.log = L /\ n.commit = c /\ n.applied = c /\ n.term = t

\* The data of a store that joined at index i and has applied the log A.
Good(kv, A, i) ==
  /\ i \in Nat
  /\ \A k \in Key :
       \/ kv[k] = Effect(A)[k]
       \/ /\ ~WrittenAfter(A, i, k) /\ WrittenAfter(A, 0, k)
          /\ k \in Reserved \/ Effect(A)[k] = NoValue

Even(j, L, c, t, A) ==
  LET s == members[j].store
  IN  EvenNode(raft[s], L, c, t) /\ Good(disk[s].kv, A, joined[s])

\* A key that is in any directory, a removed replica's too, was written.
Common(L, T) ==
  /\ L \in Seq(Entry) /\ T \in Nat
  /\ \A s \in Store : \A k \in Key : disk[s].kv[k] # NoValue => WrittenAfter(L, 0, k)

Led == HasPeer(leader) /\ raft[StoreOf(leader)].role = "Leader"

Pending(j) == \E i \in DOMAIN op.todo : op.todo[i] = members[j]

Counted == Distinct(op.todo) /\ op.got = Len(members) - Len(op.todo)

\* The data after the last entry of L, before which it was K.
After(K, L) == [k \in Key |-> IF k \in DOMAIN L[Len(L)].cmd THEN L[Len(L)].cmd[k] ELSE K[k]]

EvenLog(L, T) ==
  /\ op.pc \in {"idle", "join", "candidate"} =>
       \A j \in DOMAIN members : Even(j, L, Len(L), T, L)
  /\ op.pc \in {"idle", "join", "copy", "append", "commit"} => Led
  /\ op.pc = "copy" =>
       /\ \A j \in DOMAIN members :
            /\ EvenNode(raft[members[j].store], L, Len(L), T)
            /\ members[j] # op.todo[1] => Even(j, L, Len(L), T, L)
       /\ op.todo[1].peer # leader /\ joined[op.todo[1].store] = Len(L)
  /\ op.pc = "votes" =>
       /\ Counted
       /\ \A j \in DOMAIN members : Even(j, L, Len(L), IF Pending(j) THEN T ELSE T + 1, L)
  /\ op.pc = "append" =>
       /\ Counted /\ op.index = Len(L) + 1
       /\ \E cmd \in Command : \A j \in DOMAIN members :
            Even(j, IF Pending(j) THEN L ELSE Append(L, [term |-> T, cmd |-> cmd]),
                 Len(L), T, L)
  /\ op.pc = "commit" =>
       /\ Distinct(op.todo) /\ op.index = Len(L) /\ L # <<>>
       /\ \E A \in Seq(Entry), e \in Entry :
            /\ L = Append(A, e)
            /\ \A j \in DOMAIN members :
                 IF Pending(j) THEN Even(j, L, Len(L) - 1, T, A) ELSE Even(j, L, Len(L), T, L)

AgreeInv ==
  /\ starts \in Nat /\ (members = <<>> => op = Idle)
  /\ op.pc \in {"idle", "candidate", "votes", "join", "copy", "append", "commit"}
  /\ starts = 0 =>
       members = <<>> /\ \A s \in Store : disk[s] = EmptyDisk /\ joined[s] = 0
  /\ starts = 1 /\ members # <<>> => \E L, T : Common(L, T) /\ EvenLog(L, T)

-----------------------------------------------------------------------------
\* What the operators do to replicas that agree.

LEMMA EvenVote ==
  ASSUME NEW n, NEW c, NEW L \in Seq(Entry), NEW T \in Nat, EvenNode(n, L, Len(L), T), NEW p,
         EvenNode(c, L, Len(L), T + 1)
  PROVE  LET req == [type |-> "vote", term |-> c.term, from |-> p,
                     lastIndex |-> LastIndex(c), lastTerm |-> LastTerm(c)]
         IN  GrantsVote(n, req) /\ EvenNode(HandleRequestVote(n, req), L, Len(L), T + 1)
<1> DEFINE req == [type |-> "vote", term |-> c.term, from |-> p,
                   lastIndex |-> LastIndex(c), lastTerm |-> LastTerm(c)]
<1>1. /\ n.term = T /\ n.log = L /\ n.commit = Len(L) /\ n.applied = Len(L) /\ IsNode(n)
      /\ req.term = T + 1 /\ req.from = p
      /\ req.lastIndex = LastIndex(n) /\ req.lastTerm = LastTerm(n)
  BY DEF EvenNode, LastIndex, LastTerm
<1> HIDE DEF req
<1>2. VoteTerm(n, req) = [n EXCEPT !.role = "Follower", !.term = T + 1, !.voted = None]
  BY <1>1 DEF VoteTerm, BecomeFollower
<1>3. LastIndex(n) \in Nat
  BY <1>1 DEF LastIndex
<1>4. GrantsVote(n, req)
  <2>1. VoteTerm(n, req).voted = None
    BY <1>1, <1>2 DEF IsNode
  <2>2. IsCandidateLogUpToDate(n, req)
    BY <1>1, <1>3 DEF IsCandidateLogUpToDate
  <2> QED
    BY <1>1, <2>1, <2>2 DEF GrantsVote
<1>5. HandleRequestVote(n, req) = [VoteTerm(n, req) EXCEPT !.voted = p]
  BY <1>1, <1>4 DEF HandleRequestVote
<1> QED
  BY <1>1, <1>2, <1>4, <1>5 DEF EvenNode, IsNode, req

LEMMA AppendOne ==
  ASSUME NEW L \in Seq(Entry), NEW e \in Entry
  PROVE  /\ SubSeq(L, 1, Len(L)) \o SubSeq(<<e>>, 1, 1) = Append(L, e)
         /\ Append(L, e) \in Seq(Entry) /\ Len(Append(L, e)) = Len(L) + 1
         /\ Append(L, e)[Len(L) + 1] = e
         /\ \A i \in 1 .. Len(L) : Append(L, e)[i] = L[i]
<1>1. SubSeq(L, 1, Len(L)) = L
  OBVIOUS
<1>2. SubSeq(<<e>>, 1, 1) = <<e>>
  <2> DEFINE s == <<e>>
  <2>1. s \in Seq(Entry) /\ Len(s) = 1
    OBVIOUS
  <2> HIDE DEF s
  <2>2. SubSeq(s, 1, Len(s)) = s
    BY <2>1
  <2> QED
    BY <2>1, <2>2 DEF s
<1>3. L \o <<e>> = Append(L, e)
  OBVIOUS
<1>4. Append(L, e) \in Seq(Entry) /\ Len(Append(L, e)) = Len(L) + 1
  OBVIOUS
<1>5. Append(L, e)[Len(L) + 1] = e /\ \A i \in 1 .. Len(L) : Append(L, e)[i] = L[i]
  OBVIOUS
<1> QED
  BY <1>1, <1>2, <1>3, <1>4, <1>5

\* The request for the next entry is accepted and the entry appended.
LEMMA EvenAppend ==
  ASSUME NEW n, NEW L \in Seq(Entry), NEW T \in Nat, EvenNode(n, L, Len(L), T),
         NEW e \in Entry, NEW req, req.term = T, req.prevIndex = Len(L),
         req.prevTerm = (IF Len(L) = 0 THEN 0 ELSE L[Len(L)].term),
         req.entries = <<e>>, req.commit = Len(L)
  PROVE  /\ AcceptsEntries(n, req)
         /\ EvenNode(HandleAppendEntries(n, req), Append(L, e), Len(L), T)
<1> DEFINE f == BecomeFollower(n, req.term)
           m == MergeEntries(f, req)
<1>1. /\ n.term = T /\ n.log = L /\ n.commit = Len(L) /\ n.applied = Len(L) /\ IsNode(n)
      /\ Len(L) \in Nat
  BY DEF EvenNode
<1>2. HasLogAt(n, req.prevIndex, req.prevTerm)
  BY <1>1 DEF HasLogAt
<1>3. AcceptsEntries(n, req)
  BY <1>1, <1>2 DEF AcceptsEntries
<1>4. f = [n EXCEPT !.role = "Follower"]
  BY <1>1 DEF BecomeFollower
<1>5. IsNode(f) /\ f.log = L /\ f.commit = Len(L) /\ f.applied = Len(L) /\ f.term = T
  BY <1>1, <1>4 DEF IsNode
<1> HIDE DEF f
<1>6. NewEntries(f, req) = {1}
  <2>1. Len(req.entries) = 1
    OBVIOUS
  <2>2. 1 .. Len(req.entries) = {1}
    BY <2>1
  <2>3. req.prevIndex + 1 > Len(f.log)
    BY <1>1, <1>5
  <2> QED
    BY <2>2, <2>3 DEF NewEntries
<1>7. Min({1}) = 1
  <2>1. {1} \in SUBSET Nat /\ {1} # {}
    OBVIOUS
  <2>2. Min({1}) \in {1}
    BY <2>1, MinOfNats
  <2> QED
    BY <2>2
<1>8. req.prevIndex + 1 - 1 = Len(L) /\ Least(Len(L), Len(L)) = Len(L)
  BY <1>1 DEF Least
<1>9. m = [f EXCEPT !.log = SubSeq(f.log, 1, Len(L)) \o SubSeq(req.entries, 1, Len(req.entries)),
                    !.commit = Least(f.commit, Len(L)),
                    !.applied = Least(f.applied, Len(L))]
  BY <1>6, <1>7, <1>8 DEF MergeEntries
<1>10. SubSeq(f.log, 1, Len(L)) \o SubSeq(req.entries, 1, Len(req.entries)) = Append(L, e)
  BY <1>5, AppendOne
<1>11. EvenNode(m, Append(L, e), Len(L), T)
  BY <1>5, <1>8, <1>9, <1>10 DEF EvenNode, IsNode
<1> HIDE DEF m
<1>12. HandleAppendEntries(n, req) = m
  <2>1. ~(req.term < n.term)
    BY <1>1
  <2>2. ~(req.commit > m.commit)
    BY <1>1, <1>11 DEF EvenNode
  <2> QED
    BY <1>3, <2>1, <2>2 DEF HandleAppendEntries, m, f
<1> QED
  BY <1>3, <1>11, <1>12

\* BroadcastCommit's request is accepted and moves the commit index to the end.
LEMMA EvenCommit ==
  ASSUME NEW n, NEW L \in Seq(Entry), L # <<>>, NEW T \in Nat,
         EvenNode(n, L, Len(L) - 1, T), NEW req, req.term = T,
         req.prevIndex = LastIndex(n), req.prevTerm = LastTerm(n), req.entries = <<>>,
         req.commit = Len(L)
  PROVE  /\ AcceptsEntries(n, req)
         /\ LET m == HandleAppendEntries(n, req)
            IN  /\ IsNode(m) /\ m.log = L /\ m.commit = Len(L)
                /\ m.applied = Len(L) - 1 /\ m.term = T
<1> DEFINE f == BecomeFollower(n, req.term)
<1>1. /\ n.term = T /\ n.log = L /\ n.commit = Len(L) - 1 /\ n.applied = Len(L) - 1
      /\ IsNode(n) /\ Len(L) \in Nat /\ Len(L) > 0
  BY DEF EvenNode
<1>2. HasLogAt(n, req.prevIndex, req.prevTerm)
  BY <1>1 DEF HasLogAt, LastIndex, LastTerm
<1>3. AcceptsEntries(n, req)
  BY <1>1, <1>2 DEF AcceptsEntries
<1>4. f = [n EXCEPT !.role = "Follower"]
  BY <1>1 DEF BecomeFollower
<1>5. IsNode(f) /\ f.log = L /\ f.commit = Len(L) - 1 /\ f.applied = Len(L) - 1 /\ f.term = T
  BY <1>1, <1>4 DEF IsNode
<1> HIDE DEF f
<1>6. NewEntries(f, req) = {}
  BY DEF NewEntries
<1>7. MergeEntries(f, req) = f
  BY <1>6 DEF MergeEntries
<1>8. HandleAppendEntries(n, req) = [f EXCEPT !.commit = Least(req.commit, LastIndex(f))]
  <2>1. ~(req.term < n.term) /\ req.commit > f.commit
    BY <1>1, <1>5
  <2> QED
    BY <1>3, <1>7, <2>1 DEF HandleAppendEntries, f
<1>9. Least(req.commit, LastIndex(f)) = Len(L)
  BY <1>1, <1>5 DEF Least, LastIndex
<1> QED
  BY <1>3, <1>5, <1>8, <1>9 DEF IsNode

LEMMA EvenCandidate ==
  ASSUME NEW n, NEW L, NEW c, NEW T, EvenNode(n, L, c, T), NEW p
  PROVE  EvenNode(BecomeCandidate(n, p), L, c, T + 1)
BY DEF EvenNode, BecomeCandidate, IsNode

LEMMA EvenLeader ==
  ASSUME NEW n, NEW L, NEW c, NEW T, EvenNode(n, L, c, T)
  PROVE  EvenNode(BecomeLeader(n), L, c, T) /\ BecomeLeader(n).role = "Leader"
BY DEF EvenNode, BecomeLeader, IsNode

LEMMA EvenTake ==
  ASSUME NEW n, NEW L \in Seq(Entry), NEW T, IsNode(n), n.log = L, n.commit = Len(L),
         n.applied = Len(L) - 1, n.term = T
  PROVE  /\ EvenNode(TakeCommittedEntries(n), L, Len(L), T)
         /\ TakeCommittedEntries(n).role = n.role
<1>1. n.applied < n.commit
  OBVIOUS
<1> QED
  BY <1>1 DEF EvenNode, TakeCommittedEntries, IsNode

LEMMA SameKeys ==
  ASSUME NEW d, IsImage(d), NEW n, NEW log, NEW i
  PROVE  /\ SaveHardState(d, n).kv = d.kv /\ AppendLog(d, log, i).kv = d.kv
         /\ CopyLogUpTo(d, log, i).kv = d.kv
BY DEF SaveHardState, SaveHardStatePrefix, AppendLog, CopyLogUpTo, IsImage

\* Applying the last entry.
LEMMA EvenApply ==
  ASSUME NEW d, IsImage(d), NEW n, IsNode(n), NEW L \in Seq(Entry), L # <<>>,
         n.log = L, n.commit = Len(L), n.applied = Len(L) - 1
  PROVE  AppliedDisk(d, n).kv = After(d.kv, L)
<1> DEFINE e == Len(L)
           w(k) == {i \in e .. e : k \in DOMAIN L[i].cmd}
<1>1. e \in Nat /\ n.applied + 1 = e
  OBVIOUS
<1> HIDE DEF e
<1>2. e .. e = {e}
  BY <1>1
<1>3. {e} \in SUBSET Nat /\ {e} # {} /\ \A y \in {e} : y <= e
  BY <1>1
<1>4. Max({e}) = e
  <2>1. Max({e}) \in {e}
    BY <1>1, <1>3, MaxOfBoundedNats
  <2> QED
    BY <2>1
<1>5. ASSUME NEW k \in Key
      PROVE  (IF w(k) = {} THEN d.kv[k] ELSE L[Max(w(k))].cmd[k]) =
             (IF k \in DOMAIN L[e].cmd THEN L[e].cmd[k] ELSE d.kv[k])
  <2>1. CASE k \in DOMAIN L[e].cmd
    <3>1. w(k) = {e}
      BY <1>2, <2>1
    <3> QED
      BY <1>4, <2>1, <3>1
  <2>2. CASE k \notin DOMAIN L[e].cmd
    <3>1. w(k) = {}
      BY <1>2, <2>2
    <3> QED
      BY <2>2, <3>1
  <2> QED
    BY <2>1, <2>2
<1>6. ApplyCommitted(d, n) = [d EXCEPT !.kv = [k \in Key |->
        IF w(k) = {} THEN d.kv[k] ELSE L[Max(w(k))].cmd[k]]]
  BY <1>1 DEF ApplyCommitted, ApplyKvCommands, e
<1>7. ApplyCommitted(d, n).kv = [k \in Key |->
        IF w(k) = {} THEN d.kv[k] ELSE L[Max(w(k))].cmd[k]]
  BY <1>6 DEF IsImage
<1> HIDE DEF w
<1>8. ApplyCommitted(d, n).kv = After(d.kv, L)
  BY <1>5, <1>7 DEF After, e
<1>9. IsImage(ApplyCommitted(d, n))
  BY ApplyImage
<1> QED
  BY <1>8, <1>9, SameKeys DEF AppliedDisk

\* An entry that writes key k decides it; another one leaves it alone.
LEMMA EffectAppend ==
  ASSUME NEW L \in Seq(Entry), NEW e \in Entry, NEW k \in Key
  PROVE  Effect(Append(L, e))[k] = IF k \in DOMAIN e.cmd THEN e.cmd[k] ELSE Effect(L)[k]
<1> DEFINE M == Append(L, e)
           w(l) == {i \in 1 .. Len(l) : k \in DOMAIN l[i].cmd}
<1>1. /\ Len(M) = Len(L) + 1 /\ Len(L) \in Nat /\ M[Len(L) + 1] = e
      /\ \A i \in 1 .. Len(L) : M[i] = L[i]
  BY AppendOne
<1>2. ASSUME NEW l
      PROVE  Effect(l)[k] = IF w(l) = {} THEN EmptyDisk.kv[k] ELSE l[Max(w(l))].cmd[k]
  BY DEF Effect, ApplyKvCommands, EmptyDisk
<1> HIDE DEF M
<1>3. CASE k \in DOMAIN e.cmd
  <2>1. Len(M) \in w(M) /\ w(M) \subseteq Nat /\ \A y \in w(M) : y <= Len(M)
    BY <1>1, <1>3
  <2>2. Max(w(M)) \in w(M) /\ \A y \in w(M) : y <= Max(w(M))
    BY <1>1, <2>1, MaxOfBoundedNats
  <2>3. Max(w(M)) = Len(L) + 1
    BY <1>1, <2>1, <2>2
  <2> QED
    BY <1>1, <1>2, <1>3, <2>1, <2>3 DEF M
<1>4. CASE k \notin DOMAIN e.cmd
  <2>1. w(M) = w(L)
    BY <1>1, <1>4
  <2>2. w(L) # {} => Max(w(L)) \in w(L)
    <3>1. w(L) \subseteq Nat /\ \A y \in w(L) : y <= Len(L)
      BY <1>1
    <3> QED
      BY <1>1, <3>1, MaxOfBoundedNats
  <2>3. w(L) # {} => M[Max(w(L))] = L[Max(w(L))]
    BY <1>1, <2>2
  <2> HIDE DEF w
  <2> QED
    BY <1>2, <1>4, <2>1, <2>3 DEF M
<1> QED
  BY <1>3, <1>4

LEMMA Unwritten ==
  ASSUME NEW L \in Seq(Entry), NEW k \in Key, ~WrittenAfter(L, 0, k)
  PROVE  Effect(L)[k] = NoValue
<1>1. {i \in 1 .. Len(L) : k \in DOMAIN L[i].cmd} = {}
  BY DEF WrittenAfter
<1> QED
  BY <1>1 DEF Effect, ApplyKvCommands, EmptyDisk

LEMMA WrittenAppend ==
  ASSUME NEW L \in Seq(Entry), NEW e \in Entry, NEW k \in Key
  PROVE  /\ k \in DOMAIN e.cmd => WrittenAfter(Append(L, e), 0, k)
         /\ WrittenAfter(L, 0, k) => WrittenAfter(Append(L, e), 0, k)
         /\ k \notin DOMAIN e.cmd => \A i \in Nat :
              WrittenAfter(Append(L, e), i, k) <=> WrittenAfter(L, i, k)
<1> DEFINE M == Append(L, e)
<1>1. /\ Len(M) = Len(L) + 1 /\ Len(L) \in Nat /\ M[Len(L) + 1] = e
      /\ \A i \in 1 .. Len(L) : M[i] = L[i]
  BY AppendOne
<1> HIDE DEF M
<1>2. k \in DOMAIN e.cmd => WrittenAfter(M, 0, k)
  BY <1>1 DEF WrittenAfter
<1>3. WrittenAfter(L, 0, k) => WrittenAfter(M, 0, k)
  BY <1>1 DEF WrittenAfter
<1>4. ASSUME k \notin DOMAIN e.cmd, NEW i \in Nat
      PROVE  WrittenAfter(M, i, k) <=> WrittenAfter(L, i, k)
  <2>1. \A j \in i + 1 .. Len(L) : j \in i + 1 .. Len(M) /\ M[j] = L[j]
    BY <1>1
  <2>2. \A j \in i + 1 .. Len(M) : j \in i + 1 .. Len(L) \/ M[j] = e
    BY <1>1
  <2> QED
    BY <1>4, <2>1, <2>2 DEF WrittenAfter
<1> QED
  BY <1>2, <1>3, <1>4 DEF M

\* A replica that applies the next entry.
LEMMA GoodApply ==
  ASSUME NEW d, IsImage(d), NEW n, IsNode(n), NEW A \in Seq(Entry), NEW e \in Entry,
         n.log = Append(A, e), n.commit = Len(A) + 1, n.applied = Len(A), NEW i,
         Good(d.kv, A, i)
  PROVE  /\ Good(AppliedDisk(d, n).kv, Append(A, e), i)
         /\ \A k \in Key : AppliedDisk(d, n).kv[k] # NoValue =>
              k \in DOMAIN e.cmd \/ d.kv[k] # NoValue
<1> DEFINE M == Append(A, e)
           kv == AppliedDisk(d, n).kv
<1>1. /\ M \in Seq(Entry) /\ Len(M) = Len(A) + 1 /\ Len(A) \in Nat /\ M[Len(A) + 1] = e
      /\ M # <<>>
  <2>1. M \in Seq(Entry) /\ Len(M) = Len(A) + 1 /\ Len(A) \in Nat /\ M[Len(A) + 1] = e
    BY AppendOne
  <2>2. Len(M) # 0
    BY <2>1
  <2> HIDE DEF M
  <2> QED
    BY <2>1, <2>2
<1> HIDE DEF M
<1>2. kv = After(d.kv, M)
  <2>1. n.log = M /\ n.commit = Len(M) /\ n.applied = Len(M) - 1
    BY <1>1 DEF M
  <2> QED
    BY <1>1, <2>1, EvenApply
<1>3. \A k \in Key : kv[k] = IF k \in DOMAIN e.cmd THEN e.cmd[k] ELSE d.kv[k]
  BY <1>1, <1>2 DEF After
<1> HIDE DEF kv
<1>4. ASSUME NEW k \in Key
      PROVE  \/ kv[k] = Effect(M)[k]
             \/ /\ ~WrittenAfter(M, i, k) /\ WrittenAfter(M, 0, k)
                /\ k \in Reserved \/ Effect(M)[k] = NoValue
  <2>1. CASE k \in DOMAIN e.cmd
    BY <1>3, <2>1, EffectAppend DEF M
  <2>2. CASE k \notin DOMAIN e.cmd
    <3>1. kv[k] = d.kv[k] /\ Effect(M)[k] = Effect(A)[k]
      BY <1>3, <2>2, EffectAppend DEF M
    <3>2. i \in Nat
      BY DEF Good
    <3>3. WrittenAfter(M, i, k) <=> WrittenAfter(A, i, k)
      BY <2>2, <3>2, WrittenAppend DEF M
    <3>4. WrittenAfter(A, 0, k) => WrittenAfter(M, 0, k)
      BY WrittenAppend DEF M
    <3> QED
      BY <3>1, <3>3, <3>4 DEF Good
  <2> QED
    BY <2>1, <2>2
<1> QED
  BY <1>3, <1>4 DEF Good, M, kv

\* A directory with written keys only, into which a good replica's keys were copied.
LEMMA GoodCopy ==
  ASSUME NEW d, IsImage(d), NEW L \in Seq(Entry), NEW kv, NEW i, Good(kv, L, i),
         \A k \in Key : d.kv[k] # NoValue => WrittenAfter(L, 0, k)
  PROVE  Good(CopyKeys(d, kv, Key).kv, L, Len(L))
<1> DEFINE c == CopyKeys(d, kv, Key).kv
<1>1. c = [k \in Key |-> IF k \in Key \ Reserved /\ kv[k] # NoValue THEN kv[k] ELSE d.kv[k]]
  BY DEF CopyKeys, IsImage
<1> HIDE DEF c
<1>2. Len(L) \in Nat /\ \A k \in Key : ~WrittenAfter(L, Len(L), k)
  BY DEF WrittenAfter
<1>3. ASSUME NEW k \in Key
      PROVE  \/ c[k] = Effect(L)[k]
             \/ WrittenAfter(L, 0, k) /\ (k \in Reserved \/ Effect(L)[k] = NoValue)
  <2>1. \/ kv[k] = Effect(L)[k]
        \/ WrittenAfter(L, 0, k) /\ (k \in Reserved \/ Effect(L)[k] = NoValue)
    BY DEF Good
  <2>2. WrittenAfter(L, 0, k) \/ (d.kv[k] = NoValue /\ Effect(L)[k] = NoValue)
    BY Unwritten
  <2>3. c[k] = IF k \notin Reserved /\ kv[k] # NoValue THEN kv[k] ELSE d.kv[k]
    BY <1>1
  <2> QED
    BY <2>1, <2>2, <2>3
<1> QED
  BY <1>2, <1>3 DEF Good, c

-----------------------------------------------------------------------------
\* Kinds of steps.

LEMMA AgreeInit == Init => AgreeInv
<1> SUFFICES ASSUME Init PROVE AgreeInv
  OBVIOUS
<1>1. op.pc = "idle"
  BY DEF Init, Idle
<1>2. \A s \in Store : disk[s] = EmptyDisk /\ joined[s] = 0
  BY DEF Init
<1> QED
  BY <1>1, <1>2 DEF AgreeInv, Init

\* Only a process that runs has requests, and it was started.
LEMMA Running ==
  ASSUME AgreeInv, op # Idle \/ members # <<>>
  PROVE  members # <<>> /\ starts # 0
BY DEF AgreeInv

LEMMA StopAgrees ==
  ASSUME AgreeInv, members # <<>>, Stop
  PROVE  AgreeInv'
<1>1. starts # 0 /\ starts' = starts /\ members' = <<>> /\ op' = Idle
  BY Running DEF Stop
<1>2. Idle.pc = "idle"
  BY DEF Idle
<1> QED
  BY <1>1, <1>2 DEF AgreeInv

\* A step of a process that goes on.
LEMMA StepAgrees ==
  ASSUME AgreeInv, members # <<>>, members' # <<>>, starts' = starts,
         op'.pc \in {"idle", "candidate", "votes", "join", "copy", "append", "commit"},
         starts = 1 => \E L, T : Common(L, T)' /\ EvenLog(L, T)'
  PROVE  AgreeInv'
<1>1. starts # 0
  BY Running
<1> QED
  BY <1>1 DEF AgreeInv

LEMMA CommonKept ==
  ASSUME NEW L, NEW T, Common(L, T), NEW M \in Seq(Entry), NEW U \in Nat, LeadTypes,
         NEW s \in Store, NEW d,
         \A k \in Key : WrittenAfter(L, 0, k) => WrittenAfter(M, 0, k),
         \A k \in Key : d.kv[k] # NoValue => WrittenAfter(M, 0, k),
         disk' = [disk EXCEPT ![s] = d]
  PROVE  Common(M, U)'
<1>1. ASSUME NEW t \in Store, NEW k \in Key, disk'[t].kv[k] # NoValue
      PROVE  WrittenAfter(M, 0, k)
  <2>1. CASE t = s
    BY <1>1, <2>1 DEF LeadTypes
  <2>2. CASE t # s
    <3>1. disk'[t] = disk[t]
      BY <2>2 DEF LeadTypes
    <3> QED
      BY <1>1, <3>1 DEF Common
  <2> QED
    BY <2>1, <2>2
<1> QED
  BY <1>1 DEF Common

\* A step that writes no user key.
LEMMA CommonStays ==
  ASSUME NEW L, NEW T, Common(L, T), NEW U \in Nat, LeadTypes, NEW s \in Store, NEW d,
         d.kv = disk[s].kv, disk' = [disk EXCEPT ![s] = d]
  PROVE  Common(L, U)'
<1>1. L \in Seq(Entry) /\ \A k \in Key : d.kv[k] # NoValue => WrittenAfter(L, 0, k)
  BY DEF Common
<1> QED
  BY <1>1, CommonKept

\* What a step of the replica of store s does to the members.
LEMMA EvenKept ==
  ASSUME LeadTypes, NEW s \in Store, NEW n, NEW d, NEW o, Replica(s, n, d, o),
         NEW j \in DOMAIN members, NEW L, NEW c, NEW t, NEW A
  PROVE  /\ members[j].store # s /\ Even(j, L, c, t, A) => Even(j, L, c, t, A)'
         /\ members[j].store = s /\ EvenNode(n, L, c, t) /\ Good(d.kv, A, joined[s]) =>
              Even(j, L, c, t, A)'
<1>1. /\ raft' = [raft EXCEPT ![s] = n] /\ disk' = [disk EXCEPT ![s] = d] /\ members' = members
      /\ joined' = joined
  BY DEF Replica
<1>2. members[j].store \in Store
  BY MemberFacts
<1>3. /\ members[j].store # s => raft'[members[j].store] = raft[members[j].store]
      /\ members[j].store # s => disk'[members[j].store] = disk[members[j].store]
      /\ members[j].store = s => raft'[members[j].store] = n /\ disk'[members[j].store] = d
  BY <1>1, <1>2 DEF LeadTypes
<1> QED
  BY <1>1, <1>3, Zenon DEF Even

LEMMA LedKept ==
  ASSUME LeadTypes, NEW s \in Store, NEW n, NEW d, NEW o, Replica(s, n, d, o),
         leader' = leader, Led, s = StoreOf(leader) => n.role = "Leader"
  PROVE  Led'
<1>1. raft' = [raft EXCEPT ![s] = n] /\ members' = members
  BY DEF Replica
<1>2. HasPeer(leader)' /\ StoreOf(leader)' = StoreOf(leader)
  BY <1>1 DEF Led, HasPeer, StoreOf, PositionOf
<1>3. StoreOf(leader) \in Store
  BY PeerFacts DEF Led
<1>4. raft'[StoreOf(leader)].role = "Leader"
  BY <1>1, <1>3 DEF LeadTypes, Led
<1> QED
  BY <1>2, <1>4 DEF Led

\* A loop that begins has to call every member but p.
LEMMA LoopBegins ==
  ASSUME LeadTypes, NEW p, HasPeer(p), op'.todo = Others(p), members' = members
  PROVE  /\ Distinct(op'.todo) /\ Len(op'.todo) = Len(members) - 1
         /\ \A j \in DOMAIN members : Pending(j)' <=> members[j].store # StoreOf(p)
<1>1. PositionOf(p) \in DOMAIN members /\ members[PositionOf(p)].peer = p
  BY PeerFacts
<1>2. Len(Others(p)) = Len(members) - 1
  BY <1>1, RemoveAtFacts DEF LeadTypes, Others
<1>3. \A j \in DOMAIN members : members[j].peer # p <=> members[j].store # StoreOf(p)
  BY <1>1 DEF LeadTypes, Distinct, StoreOf
<1>4. /\ Called(Others(p), members, p) /\ Distinct(Others(p))
      /\ \A j \in DOMAIN members :
           members[j].peer # p => \E i \in DOMAIN Others(p) : Others(p)[i] = members[j]
  BY OthersFacts
<1>5. ASSUME NEW j \in DOMAIN members
      PROVE  Pending(j)' <=> members[j].peer # p
  <2>1. Pending(j)' <=> \E i \in DOMAIN Others(p) : Others(p)[i] = members[j]
    BY DEF Pending
  <2> QED
    BY <1>4, <2>1 DEF Called
<1> QED
  BY <1>2, <1>3, <1>4, <1>5

\* A loop that has called its next replica.
LEMMA LoopGoesOn ==
  ASSUME LeadTypes, NEW p, HasPeer(p), Called(op.todo, members, p), op.todo # <<>>,
         Distinct(op.todo), op'.todo = Tail(op.todo), members' = members
  PROVE  /\ Distinct(op'.todo) /\ Len(op'.todo) = Len(op.todo) - 1 /\ Len(op.todo) \in Nat
         /\ Head(op.todo).store \in Store /\ Head(op.todo).store # StoreOf(p)
         /\ \A j \in DOMAIN members :
              /\ members[j].store = Head(op.todo).store => Pending(j) /\ ~Pending(j)'
              /\ members[j].store # Head(op.todo).store => (Pending(j)' <=> Pending(j))
<1> DEFINE q == op.todo
           h == Head(op.todo)
<1>1. q \in Seq(Member) /\ q # <<>>
  BY DEF Called
<1>2. /\ Len(q) \in Nat /\ DOMAIN q = 1 .. Len(q) /\ Len(q) > 0 /\ h = q[1]
      /\ Tail(q) \in Seq(Member) /\ Len(Tail(q)) = Len(q) - 1
      /\ \A i \in 1 .. Len(q) - 1 : Tail(q)[i] = q[i + 1]
  BY <1>1, SeqFacts
<1>3. DOMAIN Tail(q) = 1 .. Len(q) - 1
  BY <1>2, SeqFacts
<1>4. /\ \E j \in DOMAIN members : h = members[j]
      /\ h.store \in Store /\ h.store # StoreOf(p)
      /\ \A i \in DOMAIN q : q[i] = h \/ \E j \in DOMAIN Tail(q) : Tail(q)[j] = q[i]
  BY CalledFacts
<1>5. \A i, j \in DOMAIN q : i # j => q[i].store # q[j].store /\ q[i].peer # q[j].peer
  BY DEF Distinct
<1>6. op'.todo = Tail(q)
  OBVIOUS
<1> HIDE DEF q, h
<1>7. Distinct(Tail(q))
  <2> SUFFICES ASSUME NEW i \in DOMAIN Tail(q), NEW j \in DOMAIN Tail(q), i # j
               PROVE  Tail(q)[i].store # Tail(q)[j].store /\ Tail(q)[i].peer # Tail(q)[j].peer
    BY DEF Distinct
  <2>1. /\ i + 1 \in DOMAIN q /\ j + 1 \in DOMAIN q /\ i + 1 # j + 1
        /\ Tail(q)[i] = q[i + 1] /\ Tail(q)[j] = q[j + 1]
    BY <1>2, <1>3
  <2> QED
    BY <1>5, <2>1
<1>8. \A i \in DOMAIN Tail(q) : Tail(q)[i].store # h.store /\ \E k \in DOMAIN q : Tail(q)[i] = q[k]
  <2> SUFFICES ASSUME NEW i \in DOMAIN Tail(q)
               PROVE  Tail(q)[i].store # h.store /\ \E k \in DOMAIN q : Tail(q)[i] = q[k]
    OBVIOUS
  <2>1. i + 1 \in DOMAIN q /\ 1 \in DOMAIN q /\ i + 1 # 1 /\ Tail(q)[i] = q[i + 1]
    BY <1>2, <1>3
  <2> QED
    BY <1>2, <1>5, <2>1
<1>9. ASSUME NEW j \in DOMAIN members
      PROVE  /\ Pending(j) <=> \E i \in DOMAIN q : q[i] = members[j]
             /\ Pending(j)' <=> \E i \in DOMAIN Tail(q) : Tail(q)[i] = members[j]
  BY <1>6 DEF Pending, q
<1>10. ASSUME NEW j \in DOMAIN members, members[j].store = h.store
       PROVE  Pending(j) /\ ~Pending(j)'
  <2>1. members[j] = h
    BY <1>4, <1>10 DEF LeadTypes, Distinct
  <2>2. 1 \in DOMAIN q
    BY <1>2
  <2> QED
    BY <1>2, <1>8, <1>9, <2>1, <2>2
<1>11. ASSUME NEW j \in DOMAIN members, members[j].store # h.store
       PROVE  Pending(j)' <=> Pending(j)
  BY <1>4, <1>8, <1>9, <1>11
<1> QED
  BY <1>2, <1>4, <1>6, <1>7, <1>10, <1>11 DEF q, h

-----------------------------------------------------------------------------
\* One lemma per action.

LEMMA StartAgrees ==
  ASSUME LeadInv, AgreeInv, Start
  PROVE  AgreeInv'
<1>1. /\ starts' = starts + 1 /\ disk' = disk /\ joined' = joined
      /\ members' = [s \in 1 .. StoreCount |-> [store |-> s, peer |-> s]]
      /\ raft' = [s \in Store |-> IF s <= StoreCount THEN BootstrapNode(disk[s]) ELSE NewNode]
      /\ op' = [Idle EXCEPT !.pc = "candidate", !.boot = TRUE, !.peer = 1]
  BY DEF Start
<1>2. op'.pc = "candidate" /\ starts \in Nat
  BY <1>1 DEF Idle, AgreeInv
<1>3. DOMAIN members' = 1 .. StoreCount /\ 1 \in DOMAIN members' /\ members' # <<>>
  <2>1. DOMAIN members' = 1 .. StoreCount /\ 1 \in DOMAIN members'
    BY <1>1, ClusterAssumption
  <2>2. DOMAIN <<>> = {}
    OBVIOUS
  <2> QED
    BY <2>1, <2>2, Zenon
<1>4. CASE starts # 0
  <2>1. starts' # 0 /\ starts' # 1 /\ starts' \in Nat
    BY <1>1, <1>2, <1>4
  <2> QED
    BY <1>2, <1>3, <2>1 DEF AgreeInv
<1>5. CASE starts = 0
  <2>1. \A s \in Store : disk[s] = EmptyDisk /\ joined[s] = 0
    BY <1>5 DEF AgreeInv
  <2>2. BootstrapNode(EmptyDisk) = NewNode
    BY DEF BootstrapNode, HasHardState, HardStateKeys, EmptyDisk
  <2>3. EvenNode(NewNode, <<>>, 0, 0)
    BY NewNodeIsNode DEF EvenNode, NewNode
  <2>4. Good(EmptyDisk.kv, <<>>, 0) /\ \A k \in Key : EmptyDisk.kv[k] = NoValue
    <3>1. \A k \in Key : ~WrittenAfter(<<>>, 0, k)
      BY DEF WrittenAfter
    <3>2. \A k \in Key : Effect(<<>>)[k] = NoValue
      <4>1. <<>> \in Seq(Entry)
        OBVIOUS
      <4> QED
        BY <3>1, <4>1, Unwritten, Zenon
    <3>3. \A k \in Key : EmptyDisk.kv[k] = NoValue
      BY DEF EmptyDisk
    <3> QED
      BY <3>2, <3>3 DEF Good
  <2>5. ASSUME NEW j \in DOMAIN members'
        PROVE  Even(j, <<>>, 0, 0, <<>>)'
    <3>1. members'[j].store = j /\ j \in Store /\ j <= StoreCount
      BY <1>1, <1>3, ClusterAssumption
    <3>2. raft'[j] = NewNode /\ disk'[j] = EmptyDisk /\ joined'[j] = 0
      BY <1>1, <2>1, <2>2, <3>1
    <3> QED
      BY <2>3, <2>4, <3>1, <3>2 DEF Even
  <2>6. Common(<<>>, 0)'
    BY <1>1, <2>1, <2>4 DEF Common
  <2>7. EvenLog(<<>>, 0)'
    <3>1. Len(<<>>) = 0
      OBVIOUS
    <3> QED
      BY <1>2, <2>5, <3>1 DEF EvenLog
  <2>8. starts' = 1
    BY <1>1, <1>5
  <2> QED
    BY <1>2, <1>3, <2>6, <2>7, <2>8 DEF AgreeInv
<1> QED
  BY <1>4, <1>5

\* The state of a request of a process that was started once.
LEMMA OnceFacts ==
  ASSUME AgreeInv, members # <<>>, starts = 1
  PROVE  \E L, T : Common(L, T) /\ EvenLog(L, T) /\ L \in Seq(Entry) /\ T \in Nat
BY DEF AgreeInv, Common

LEMMA BecomesCandidateAgrees ==
  ASSUME LeadInv, AgreeInv, BecomesCandidate
  PROVE  AgreeInv'
<1> DEFINE p == op.peer
           s == StoreOf(op.peer)
           n == BecomeCandidate(raft[s], op.peer)
           d == SaveHardState(disk[s], n)
           o == [op EXCEPT !.pc = "votes", !.todo = Others(op.peer), !.got = 1]
<1>1. op.pc = "candidate" /\ ReplicaOrDie(s, n, d, o, TornHardState(disk[s], n))
  BY DEF BecomesCandidate
<1>2. LeadTypes /\ HasPeer(p)
  BY <1>1 DEF LeadInv
<1>3. s \in Store /\ PositionOf(p) \in DOMAIN members /\ members[PositionOf(p)].store = s
  BY <1>2, PeerFacts DEF StoreOf
<1>4. members # <<>>
  BY <1>1, Running DEF Idle
<1>5. o.pc = "votes" /\ o.todo = Others(p) /\ o.got = 1
  BY <1>2 DEF LeadTypes
<1>6. d.kv = disk[s].kv
  BY <1>2, <1>3, SameKeys DEF LeadTypes
<1> HIDE DEF p, n, d, o, s
<1>7. CASE DieWriting(s, TornHardState(disk[s], n))
  BY <1>4, <1>7, StopAgrees DEF DieWriting
<1>8. CASE Replica(s, n, d, o)
  <2>1. op' = o /\ members' = members /\ starts' = starts /\ disk' = [disk EXCEPT ![s] = d]
    BY <1>8 DEF Replica
  <2>2. /\ Distinct(op'.todo) /\ Len(op'.todo) = Len(members) - 1
        /\ \A j \in DOMAIN members : Pending(j)' <=> members[j].store # s
    BY <1>2, <1>5, <2>1, LoopBegins DEF s, p
  <2>3. ASSUME starts = 1 PROVE \E L, T : Common(L, T)' /\ EvenLog(L, T)'
    <3>1. PICK L, T : Common(L, T) /\ EvenLog(L, T) /\ L \in Seq(Entry) /\ T \in Nat
      BY <1>4, <2>3, OnceFacts
    <3>2. \A j \in DOMAIN members : Even(j, L, Len(L), T, L)
      BY <1>1, <3>1 DEF EvenLog
    <3>3. EvenNode(raft[s], L, Len(L), T) /\ Good(disk[s].kv, L, joined[s])
      BY <1>3, <3>2 DEF Even
    <3>4. EvenNode(n, L, Len(L), T + 1)
      BY <3>3, EvenCandidate DEF n
    <3>5. Common(L, T)'
      BY <1>2, <1>3, <1>6, <2>1, <3>1, CommonStays
    <3>6. ASSUME NEW j \in DOMAIN members
          PROVE  Even(j, L, Len(L), IF Pending(j) THEN T ELSE T + 1, L)'
      <4>1. CASE members[j].store = s
        BY <1>2, <1>3, <1>6, <1>8, <2>2, <3>3, <3>4, <4>1, EvenKept
      <4>2. CASE members[j].store # s
        BY <1>2, <1>3, <1>8, <2>2, <3>2, <4>2, EvenKept
      <4> QED
        BY <4>1, <4>2
    <3>7. Counted'
      <4>1. Len(members) \in Nat
        BY <1>2, SeqFacts DEF LeadTypes
      <4> QED
        BY <1>5, <2>1, <2>2, <4>1 DEF Counted
    <3>8. EvenLog(L, T)'
      BY <1>5, <2>1, <3>6, <3>7 DEF EvenLog
    <3> QED
      BY <3>5, <3>8
  <2> QED
    BY <1>4, <1>5, <2>1, <2>3, StepAgrees
<1> QED
  BY <1>1, <1>7, <1>8 DEF ReplicaOrDie

LEMMA VoteAgrees ==
  ASSUME LeadInv, AgreeInv, Vote
  PROVE  AgreeInv'
<1> DEFINE p == op.peer
           s == Head(op.todo).store
           c == raft[StoreOf(op.peer)]
           req == [type |-> "vote", term |-> c.term, from |-> op.peer,
                   lastIndex |-> LastIndex(c), lastTerm |-> LastTerm(c)]
           n == HandleRequestVote(raft[s], req)
           d == SaveHardState(disk[s], n)
           o == [op EXCEPT !.todo = Tail(op.todo),
                           !.got = IF GrantsVote(raft[s], req) THEN op.got + 1 ELSE op.got]
<1>1. op.pc = "votes" /\ op.todo # <<>> /\ ReplicaOrDie(s, n, d, o, TornHardState(disk[s], n))
  BY DEF Vote
<1>2. LeadTypes /\ HasPeer(p) /\ Called(op.todo, members, p)
  BY <1>1 DEF LeadInv, Voting
<1>3. s \in Store /\ s # StoreOf(p) /\ \E j \in DOMAIN members : Head(op.todo) = members[j]
  BY <1>1, <1>2, CalledFacts
<1>4. members # <<>>
  BY <1>1, Running DEF Idle
<1>5. /\ o.pc = "votes" /\ o.todo = Tail(op.todo)
      /\ GrantsVote(raft[s], req) => o.got = op.got + 1
  BY <1>1, <1>2 DEF LeadTypes
<1>6. d.kv = disk[s].kv
  BY <1>2, <1>3, SameKeys DEF LeadTypes
<1>7. PositionOf(p) \in DOMAIN members /\ members[PositionOf(p)].store = StoreOf(p)
  BY <1>2, PeerFacts DEF StoreOf
<1> HIDE DEF p, n, d, o, s, c, req
<1>8. CASE DieWriting(s, TornHardState(disk[s], n))
  BY <1>4, <1>8, StopAgrees DEF DieWriting
<1>9. CASE Replica(s, n, d, o)
  <2>1. op' = o /\ members' = members /\ starts' = starts /\ disk' = [disk EXCEPT ![s] = d]
    BY <1>9 DEF Replica
  <2>2. ASSUME starts = 1 PROVE \E L, T : Common(L, T)' /\ EvenLog(L, T)'
    <3>1. PICK L, T : Common(L, T) /\ EvenLog(L, T) /\ L \in Seq(Entry) /\ T \in Nat
      BY <1>4, <2>2, OnceFacts
    <3>2. /\ Counted /\ Distinct(op.todo) /\ op.got = Len(members) - Len(op.todo)
          /\ \A j \in DOMAIN members : Even(j, L, Len(L), IF Pending(j) THEN T ELSE T + 1, L)
      BY <1>1, <3>1 DEF EvenLog, Counted
    <3>3. /\ Distinct(op'.todo) /\ Len(op'.todo) = Len(op.todo) - 1 /\ Len(op.todo) \in Nat
          /\ \A j \in DOMAIN members :
               /\ members[j].store = s => Pending(j) /\ ~Pending(j)'
               /\ members[j].store # s => (Pending(j)' <=> Pending(j))
      BY <1>1, <1>2, <1>5, <2>1, <3>2, LoopGoesOn DEF s
    <3>4. EvenNode(raft[s], L, Len(L), T) /\ Good(disk[s].kv, L, joined[s])
      <4>1. PICK j \in DOMAIN members : members[j].store = s
        BY <1>3 DEF s
      <4> QED
        BY <3>2, <3>3, <4>1 DEF Even
    <3>5. EvenNode(c, L, Len(L), T + 1)
      <4>1. ~Pending(PositionOf(p))
        BY <1>2, <1>7, PeerFacts DEF Pending, Called
      <4> QED
        BY <1>7, <3>2, <4>1 DEF Even, c, p
    <3>6. GrantsVote(raft[s], req) /\ EvenNode(n, L, Len(L), T + 1)
      BY <3>1, <3>4, <3>5, EvenVote DEF req, n
    <3>7. Common(L, T)'
      BY <1>2, <1>3, <1>6, <2>1, <3>1, CommonStays
    <3>8. ASSUME NEW j \in DOMAIN members
          PROVE  Even(j, L, Len(L), IF Pending(j) THEN T ELSE T + 1, L)'
      <4>1. CASE members[j].store = s
        BY <1>2, <1>3, <1>6, <1>9, <3>3, <3>4, <3>6, <4>1, EvenKept
      <4>2. CASE members[j].store # s
        <5>1. Even(j, L, Len(L), IF Pending(j) THEN T ELSE T + 1, L)'
              <=> IF Pending(j) THEN Even(j, L, Len(L), T, L)' ELSE Even(j, L, Len(L), T + 1, L)'
          BY <3>3, <4>2
        <5>2. IF Pending(j) THEN Even(j, L, Len(L), T, L) ELSE Even(j, L, Len(L), T + 1, L)
          BY <3>2
        <5> QED
          BY <1>2, <1>3, <1>9, <4>2, <5>1, <5>2, EvenKept
      <4> QED
        BY <4>1, <4>2
    <3>9. Counted'
      <4>1. Len(members) \in Nat
        BY <1>2, SeqFacts DEF LeadTypes
      <4>2. op'.got = op.got + 1
        BY <1>5, <2>1, <3>6
      <4>3. op'.got = Len(members) - Len(op'.todo)
        <5>1. op.got = Len(members) - Len(op.todo) /\ Len(op.todo) \in Nat
          BY <3>2, <3>3
        <5>2. Len(op'.todo) = Len(op.todo) - 1
          BY <3>3
        <5> QED
          BY <4>1, <4>2, <5>1, <5>2
      <4> QED
        BY <2>1, <3>3, <4>3 DEF Counted
    <3>10. EvenLog(L, T)'
      BY <1>5, <2>1, <3>8, <3>9 DEF EvenLog
    <3> QED
      BY <3>7, <3>10
  <2> QED
    BY <1>4, <1>5, <2>1, <2>2, StepAgrees
<1> QED
  BY <1>1, <1>8, <1>9 DEF ReplicaOrDie

LEMMA ElectedAgrees ==
  ASSUME LeadInv, AgreeInv, Elected
  PROVE  AgreeInv'
<1> DEFINE p == op.peer
           s == StoreOf(op.peer)
           n == BecomeLeader(raft[s])
           d == SaveHardState(disk[s], n)
<1>1. /\ op.pc = "votes" /\ op.todo = <<>> /\ Replica(s, n, d, Idle) /\ leader' = p
  BY DEF Elected
<1>2. LeadTypes /\ HasPeer(p)
  BY <1>1, LoopEnds
<1>3. s \in Store /\ PositionOf(p) \in DOMAIN members /\ members[PositionOf(p)].store = s
  BY <1>2, PeerFacts DEF StoreOf
<1>4. members # <<>>
  BY <1>1, Running DEF Idle
<1>5. Idle.pc = "idle"
  BY DEF Idle
<1>6. d.kv = disk[s].kv
  BY <1>2, <1>3, SameKeys DEF LeadTypes
<1> HIDE DEF p, n, d, s
<1>7. /\ op' = Idle /\ members' = members /\ starts' = starts
      /\ disk' = [disk EXCEPT ![s] = d] /\ raft' = [raft EXCEPT ![s] = n]
  BY <1>1 DEF Replica
<1>8. ASSUME starts = 1 PROVE \E L, T : Common(L, T)' /\ EvenLog(L, T)'
  <2>1. PICK L, T : Common(L, T) /\ EvenLog(L, T) /\ L \in Seq(Entry) /\ T \in Nat
    BY <1>4, <1>8, OnceFacts
  <2>2. \A j \in DOMAIN members : Even(j, L, Len(L), T + 1, L)
    <3>1. \A j \in DOMAIN members : ~Pending(j)
      BY <1>1 DEF Pending
    <3> QED
      BY <1>1, <2>1, <3>1 DEF EvenLog
  <2>3. EvenNode(raft[s], L, Len(L), T + 1) /\ Good(disk[s].kv, L, joined[s])
    BY <1>3, <2>2 DEF Even
  <2>4. EvenNode(n, L, Len(L), T + 1) /\ n.role = "Leader"
    BY <2>3, EvenLeader DEF n
  <2>5. Common(L, T + 1)'
    <3>1. T + 1 \in Nat
      BY <2>1
    <3> QED
      BY <1>2, <1>3, <1>6, <1>7, <2>1, <3>1, CommonStays
  <2>6. \A j \in DOMAIN members : Even(j, L, Len(L), T + 1, L)'
    BY <1>1, <1>2, <1>3, <1>6, <2>2, <2>3, <2>4, EvenKept
  <2>7. Led'
    <3>1. HasPeer(leader)' /\ StoreOf(leader)' = s
      BY <1>1, <1>2, <1>7 DEF HasPeer, StoreOf, PositionOf, s, p
    <3>2. raft'[s] = n
      BY <1>2, <1>3, <1>7 DEF LeadTypes
    <3> QED
      BY <2>4, <3>1, <3>2 DEF Led
  <2>8. EvenLog(L, T + 1)'
    BY <1>5, <1>7, <2>6, <2>7 DEF EvenLog
  <2> QED
    BY <2>5, <2>8
<1> QED
  BY <1>4, <1>5, <1>7, <1>8, StepAgrees

LEMMA NotElectedAgrees ==
  ASSUME LeadInv, AgreeInv, NotElected
  PROVE  AgreeInv'
<1>1. op.pc = "votes" /\ op.todo = <<>> /\ ~Majority(op.got)
  BY DEF NotElected
<1>2. members # <<>>
  BY <1>1, Running DEF Idle
<1>3. CASE op.boot
  BY <1>2, <1>3, StopAgrees DEF NotElected
<1>4. CASE ~op.boot
  <2>1. op' = Idle /\ members' = members /\ starts' = starts
    BY <1>4 DEF NotElected
  <2>2. Idle.pc = "idle"
    BY DEF Idle
  <2>3. starts # 1
    <3> SUFFICES ASSUME starts = 1 PROVE FALSE
      OBVIOUS
    <3>1. Counted
      BY <1>1, <1>2, OnceFacts DEF EvenLog
    <3>2. op.got = Len(members)
      <4>1. Len(members) \in Nat
        BY SeqFacts DEF LeadInv, LeadTypes
      <4>2. Len(op.todo) = 0
        BY <1>1
      <4> QED
        BY <3>1, <4>1, <4>2 DEF Counted
    <3>3. Len(members) \in Nat /\ Len(members) > 0
      BY <1>2, SeqFacts DEF LeadInv, LeadTypes
    <3> QED
      BY <1>1, <3>2, <3>3 DEF Majority
  <2> QED
    BY <1>2, <2>1, <2>2, <2>3, StepAgrees
<1> QED
  BY <1>3, <1>4

\* A request that begins changes no replica.
LEMMA BeginAgrees ==
  ASSUME AgreeInv, Serving, op'.pc \in {"idle", "candidate", "join"}, members' = members,
         leader' = leader, raft' = raft, disk' = disk, starts' = starts, joined' = joined
  PROVE  AgreeInv'
<1>1. members # <<>> /\ op.pc = "idle"
  BY DEF Serving, Idle
<1>2. ASSUME starts = 1 PROVE \E L, T : Common(L, T)' /\ EvenLog(L, T)'
  <2>1. PICK L, T : Common(L, T) /\ EvenLog(L, T)
    BY <1>1, <1>2, OnceFacts
  <2>2. Led /\ \A j \in DOMAIN members : Even(j, L, Len(L), T, L)
    BY <1>1, <2>1 DEF EvenLog
  <2>3. Led'
    BY <2>2 DEF Led, HasPeer, StoreOf, PositionOf
  <2>4. \A j \in DOMAIN members' : Even(j, L, Len(L), T, L)'
    BY <2>2 DEF Even
  <2>5. EvenLog(L, T)'
    BY <2>3, <2>4 DEF EvenLog
  <2>6. Common(L, T)'
    BY <2>1 DEF Common
  <2> QED
    BY <2>5, <2>6
<1> QED
  BY <1>1, <1>2, StepAgrees

LEMMA TransferAgrees ==
  ASSUME AgreeInv, NEW p \in Peer, TransferLeader(p)
  PROVE  AgreeInv'
<1>1. op'.pc = "candidate"
  BY DEF TransferLeader, Idle
<1> QED
  BY <1>1, BeginAgrees DEF TransferLeader

LEMMA AddPeerAgrees ==
  ASSUME AgreeInv, NEW s \in Store, NEW p \in Peer, AddPeer(s, p)
  PROVE  AgreeInv'
<1>1. op'.pc \in {"idle", "join"}
  <2>1. op = Idle /\ (op' = op \/ \E m : op' = [Idle EXCEPT !.pc = "join", !.todo = m])
    BY DEF AddPeer, Serving
  <2> QED
    <3>1. op'.pc = op.pc \/ \E m : op' = [Idle EXCEPT !.pc = "join", !.todo = m]
      BY <2>1
    <3>2. Idle.pc = "idle" /\ \A m : [Idle EXCEPT !.pc = "join", !.todo = m].pc = "join"
      BY DEF Idle
    <3> QED
      BY <2>1, <3>1, <3>2
<1> QED
  BY <1>1, BeginAgrees DEF AddPeer

\* The leader after the members have changed.
LEMMA LedMoves ==
  ASSUME LeadTypes', NEW i \in DOMAIN members', members'[i].peer = leader',
         raft'[members'[i].store].role = "Leader"
  PROVE  Led'
<1>1. HasPeer(leader)'
  BY DEF HasPeer
<1>2. PositionOf(leader)' \in DOMAIN members' /\ members'[PositionOf(leader)'].peer = leader'
  BY <1>1 DEF HasPeer, PositionOf
<1>3. PositionOf(leader)' = i
  BY <1>2 DEF LeadTypes, Distinct
<1> QED
  BY <1>1, <1>3 DEF Led, StoreOf

LEMMA JoinAgrees ==
  ASSUME LeadInv, LeadInv', AgreeInv, Join
  PROVE  AgreeInv'
<1> DEFINE s == Head(op.todo).store
           l == raft[StoreOf(leader)]
           n == [l EXCEPT !.role = "Follower"]
           d == CopyLogUpTo(disk[s], n.log, Len(n.log))
           f == SaveHardState(d, n)
<1>1. op.pc = "join"
  BY DEF Join
<1>2. LeadTypes /\ Joining /\ LeadTypes'
  BY <1>1 DEF LeadInv
<1>3. PICK m \in Member :
        /\ op.todo = <<m>> /\ m.peer \in peerIds
        /\ \A i \in DOMAIN members : members[i].store # m.store /\ members[i].peer # m.peer
  BY <1>2 DEF Joining
<1>4. s = m.store /\ s \in Store
  BY <1>3 DEF Member
<1>5. members # <<>>
  BY <1>1, Running DEF Idle
<1>6. members \in Seq(Member) /\ Len(members) \in Nat /\ DOMAIN members = 1 .. Len(members)
  BY <1>2, SeqFacts DEF LeadTypes
<1>7. IsImage(disk[s])
  BY <1>2, <1>4 DEF LeadTypes
<1>8. IsImage(d)
  BY <1>7, LogImage
<1>9. f.kv = disk[s].kv
  BY <1>7, <1>8, SameKeys
<1> HIDE DEF s, n, d, l, f
<1>10. CASE Stop
  BY <1>5, <1>10, StopAgrees
<1>11. CASE members' = members \o op.todo /\ starts' = starts
  <2> DEFINE k == Len(members) + 1
  <2>1. /\ DOMAIN members' = 1 .. k /\ members'[k] = m
        /\ \A i \in DOMAIN members : members'[i] = members[i]
    BY <1>3, <1>6, <1>11, AddedFacts
  <2>2. \A i \in DOMAIN members' : i \in DOMAIN members \/ i = k
    BY <1>6, <2>1
  <2>3. k \in DOMAIN members' /\ \A i \in DOMAIN members : i \in DOMAIN members'
    BY <1>6, <2>1
  <2>4. members' # <<>>
    <3>1. DOMAIN <<>> = {}
      OBVIOUS
    <3> QED
      BY <2>3, <3>1, Zenon
  <2> HIDE DEF k
  <2>5. op'.pc \in {"idle", "copy"}
    <3>1. op'.pc = "idle" \/ op' = [op EXCEPT !.pc = "copy"]
      BY <1>11, <2>4 DEF Join, DieWriting, Stop, Idle
    <3> QED
      BY <1>2, <3>1 DEF LeadTypes
  <2>6. ASSUME starts = 1 PROVE \E L, T : Common(L, T)' /\ EvenLog(L, T)'
    <3>1. PICK L, T : Common(L, T) /\ EvenLog(L, T) /\ L \in Seq(Entry) /\ T \in Nat
      BY <1>5, <2>6, OnceFacts
    <3>2. Led /\ \A j \in DOMAIN members : Even(j, L, Len(L), T, L)
      BY <1>1, <3>1 DEF EvenLog
    <3>3. /\ raft' = [raft EXCEPT ![s] = n] /\ disk' = [disk EXCEPT ![s] = f]
          /\ op' = [op EXCEPT !.pc = "copy"] /\ leader' = leader
          /\ joined' = [joined EXCEPT ![s] = Len(n.log)]
      <4>1. HasPeer(leader)
        BY <3>2 DEF Led
      <4> QED
        BY <2>4, <4>1 DEF Join, DieWriting, Stop, s, n, d, l, f
    <3>4. op'.pc = "copy" /\ op'.todo[1] = m
      BY <1>2, <1>3, <3>3 DEF LeadTypes
    <3>5. /\ PositionOf(leader) \in DOMAIN members /\ members[PositionOf(leader)].peer = leader
          /\ members[PositionOf(leader)].store = StoreOf(leader) /\ m.peer # leader
      BY <1>2, <1>3, <3>2, PeerFacts DEF Led, StoreOf
    <3>6. EvenNode(n, L, Len(L), T)
      <4>1. EvenNode(l, L, Len(L), T)
        BY <3>2, <3>5 DEF Even, l
      <4> QED
        BY <4>1 DEF EvenNode, IsNode, n
    <3>7. ASSUME NEW i \in DOMAIN members
          PROVE  /\ members'[i] = members[i] /\ raft'[members[i].store] = raft[members[i].store]
                 /\ disk'[members[i].store] = disk[members[i].store]
                 /\ joined'[members[i].store] = joined[members[i].store]
      BY <1>2, <1>3, <1>4, <2>1, <3>3, MemberFacts DEF LeadTypes
    <3>8. Led'
      BY <1>2, <2>3, <3>2, <3>3, <3>5, <3>7, LedMoves DEF Led
    <3>9. Common(L, T)'
      BY <1>2, <1>4, <1>9, <3>1, <3>3, CommonStays
    <3>10. ASSUME NEW j \in DOMAIN members'
           PROVE  /\ EvenNode(raft'[members'[j].store], L, Len(L), T)
                  /\ members'[j] # m => Even(j, L, Len(L), T, L)'
      <4>1. CASE j = k
        BY <1>2, <1>4, <2>1, <3>3, <3>6, <4>1 DEF LeadTypes
      <4>2. CASE j \in DOMAIN members
        BY <3>2, <3>7, <4>2 DEF Even
      <4> QED
        BY <2>2, <4>1, <4>2
    <3>11. joined'[m.store] = Len(L)
      BY <1>2, <1>4, <3>3, <3>6 DEF LeadTypes, EvenNode
    <3>12. EvenLog(L, T)'
      BY <3>3, <3>4, <3>5, <3>8, <3>10, <3>11 DEF EvenLog
    <3> QED
      BY <3>9, <3>12
  <2> QED
    BY <1>5, <1>11, <2>4, <2>5, <2>6, StepAgrees
<1> QED
  BY <1>10, <1>11 DEF Join, DieWriting

LEMMA CopyDataAgrees ==
  ASSUME LeadInv, AgreeInv, CopyData
  PROVE  AgreeInv'
<1> DEFINE s == Head(op.todo).store
           kv == disk[StoreOf(leader)].kv
           d == CopyKeys(disk[s], kv, Key)
           torn == {CopyKeys(disk[s], kv, ks) : ks \in SUBSET Key}
<1>1. /\ op.pc = "copy"
      /\ \/ DieWriting(s, torn)
         \/ Replica(s, raft[s], d, Idle) /\ leader' = leader
  BY DEF CopyData, ReplicaOrDie
<1>2. LeadTypes /\ \E m \in Member : op.todo = <<m>>
  BY <1>1 DEF LeadInv
<1>3. s \in Store /\ op.todo[1].store = s
  BY <1>2 DEF Member
<1>4. IsImage(disk[s])
  BY <1>2, <1>3 DEF LeadTypes
<1>5. members # <<>>
  BY <1>1, Running DEF Idle
<1>6. Idle.pc = "idle"
  BY DEF Idle
<1> HIDE DEF s, kv, d, torn
<1>7. CASE DieWriting(s, torn)
  BY <1>5, <1>7, StopAgrees DEF DieWriting
<1>8. CASE Replica(s, raft[s], d, Idle) /\ leader' = leader
  <2>1. op' = Idle /\ members' = members /\ starts' = starts /\ disk' = [disk EXCEPT ![s] = d]
    BY <1>8 DEF Replica
  <2>2. ASSUME starts = 1 PROVE \E L, T : Common(L, T)' /\ EvenLog(L, T)'
    <3>1. PICK L, T : Common(L, T) /\ EvenLog(L, T) /\ L \in Seq(Entry) /\ T \in Nat
      BY <1>5, <2>2, OnceFacts
    <3>2. /\ Led /\ op.todo[1].peer # leader /\ joined[s] = Len(L)
          /\ \A j \in DOMAIN members :
               /\ EvenNode(raft[members[j].store], L, Len(L), T)
               /\ members[j] # op.todo[1] => Even(j, L, Len(L), T, L)
      BY <1>1, <1>3, <3>1 DEF EvenLog
    <3>3. /\ Good(kv, L, joined[StoreOf(leader)])
          /\ \A k \in Key : kv[k] # NoValue => WrittenAfter(L, 0, k)
      <4>1. /\ PositionOf(leader) \in DOMAIN members /\ members[PositionOf(leader)].peer = leader
            /\ members[PositionOf(leader)].store = StoreOf(leader) /\ StoreOf(leader) \in Store
        BY <1>2, <3>2, PeerFacts DEF Led, StoreOf
      <4>2. Even(PositionOf(leader), L, Len(L), T, L)
        BY <3>2, <4>1
      <4> QED
        BY <3>1, <4>1, <4>2 DEF kv, Even, Common
    <3>4. Good(d.kv, L, joined[s])
      BY <1>3, <1>4, <3>1, <3>2, <3>3, GoodCopy DEF d, Common
    <3>5. Common(L, T)'
      <4>1. d.kv = [k \in Key |-> IF k \in Key \ Reserved /\ kv[k] # NoValue
                                 THEN kv[k] ELSE disk[s].kv[k]]
        BY <1>4 DEF d, CopyKeys, IsImage
      <4>2. \A k \in Key : d.kv[k] # NoValue => WrittenAfter(L, 0, k)
        BY <1>3, <3>1, <3>3, <4>1 DEF Common
      <4> QED
        BY <1>2, <1>3, <2>1, <3>1, <4>2, CommonKept
    <3>6. ASSUME NEW j \in DOMAIN members
          PROVE  Even(j, L, Len(L), T, L)'
      <4>1. CASE members[j].store = s
        BY <1>2, <1>3, <1>8, <3>2, <3>4, <4>1, EvenKept
      <4>2. CASE members[j].store # s
        <5>1. Even(j, L, Len(L), T, L)
          BY <1>3, <3>2, <4>2
        <5> QED
          BY <1>2, <1>3, <1>8, <4>2, <5>1, EvenKept
      <4> QED
        BY <4>1, <4>2
    <3>7. Led'
      <4>1. s = StoreOf(leader) => raft[s].role = "Leader"
        BY <3>2 DEF Led
      <4> QED
        BY <1>2, <1>3, <1>8, <3>2, <4>1, LedKept
    <3>8. EvenLog(L, T)'
      BY <1>6, <2>1, <3>6, <3>7 DEF EvenLog
    <3> QED
      BY <3>5, <3>8
  <2> QED
    BY <1>5, <1>6, <2>1, <2>2, StepAgrees
<1> QED
  BY <1>1, <1>7, <1>8

LEMMA RemovePeerAgrees ==
  ASSUME LeadInv, LeadInv', AgreeInv, NEW p \in Peer, RemovePeer(p)
  PROVE  AgreeInv'
<1> DEFINE q == Others(p)
           s == StoreOf(p)
<1>1. /\ Serving /\ HasPeer(p) /\ Len(members) > 1 /\ members # <<>> /\ starts' = starts
      /\ members' = q /\ raft' = [raft EXCEPT ![s] = NewNode] /\ disk' = disk
      /\ joined' = joined
  BY DEF RemovePeer, Serving
<1>2. LeadTypes /\ op = Idle /\ op.pc = "idle" /\ LeadTypes'
  BY <1>1, ServingFacts DEF LeadInv
<1>3. s \in Store /\ \A i \in DOMAIN members : members[i].peer # p => members[i].store # s
  BY <1>1, <1>2, PeerFacts
<1>4. /\ Called(q, members, p)
      /\ \A j \in DOMAIN members : members[j].peer # p => \E i \in DOMAIN q : q[i] = members[j]
  BY <1>1, <1>2, OthersFacts
<1>5. q # <<>>
  <2>1. Len(q) = Len(members) - 1
    BY <1>1, <1>2, PeerFacts, RemoveAtFacts DEF LeadTypes, Others
  <2>2. Len(q) # 0
    BY <1>1, <1>2, <2>1, SeqFacts DEF LeadTypes
  <2> HIDE DEF q
  <2> QED
    BY <2>2
<1> HIDE DEF q, s
<1>6. /\ leader = p => op'.pc = "candidate"
      /\ leader # p => op'.pc = "idle" /\ leader' = leader
  BY <1>2 DEF RemovePeer, Idle
<1>7. ASSUME NEW i \in DOMAIN q
      PROVE  \E j \in DOMAIN members : q[i] = members[j] /\ raft'[q[i].store] = raft[members[j].store]
  <2>1. PICK j \in DOMAIN members : q[i] = members[j] /\ members[j].peer # p
    BY <1>4 DEF Called
  <2>2. members[j].store # s /\ members[j].store \in Store
    BY <1>2, <1>3, <2>1, MemberFacts
  <2> QED
    BY <1>1, <1>2, <2>1, <2>2 DEF LeadTypes
<1>8. ASSUME starts = 1 PROVE \E L, T : Common(L, T)' /\ EvenLog(L, T)'
  <2>1. PICK L, T : Common(L, T) /\ EvenLog(L, T)
    BY <1>1, <1>8, OnceFacts
  <2>2. Led /\ \A j \in DOMAIN members : Even(j, L, Len(L), T, L)
    BY <1>2, <2>1 DEF EvenLog
  <2>3. ASSUME NEW i \in DOMAIN members'
        PROVE  Even(i, L, Len(L), T, L)'
    <3>1. PICK j \in DOMAIN members : q[i] = members[j] /\ raft'[q[i].store] = raft[members[j].store]
      BY <1>1, <1>7
    <3> QED
      BY <1>1, <2>2, <3>1 DEF Even
  <2>4. Common(L, T)'
    BY <1>1, <2>1 DEF Common
  <2>5. ASSUME leader # p PROVE Led'
    <3>1. /\ PositionOf(leader) \in DOMAIN members /\ members[PositionOf(leader)].peer = leader
          /\ members[PositionOf(leader)].store = StoreOf(leader)
      BY <1>2, <2>2, PeerFacts DEF Led, StoreOf
    <3>2. PICK i \in DOMAIN q : q[i] = members[PositionOf(leader)]
      BY <1>4, <2>5, <3>1
    <3>3. raft'[q[i].store].role = "Leader"
      BY <1>7, <2>2, <3>1, <3>2 DEF Led
    <3> QED
      BY <1>1, <1>2, <1>6, <2>5, <3>1, <3>2, <3>3, LedMoves
  <2>6. EvenLog(L, T)'
    <3>1. CASE leader = p
      BY <1>6, <2>3, <3>1 DEF EvenLog
    <3>2. CASE leader # p
      BY <1>6, <2>3, <2>5, <3>2 DEF EvenLog
    <3> QED
      BY <3>1, <3>2
  <2> QED
    BY <2>4, <2>6
<1> QED
  BY <1>1, <1>5, <1>6, <1>8, StepAgrees

LEMMA WriteAgrees ==
  ASSUME LeadInv, AgreeInv, NEW cmd \in Command, Write(cmd)
  PROVE  AgreeInv'
<1> DEFINE s == StoreOf(leader)
           n == Propose(raft[s], cmd)
           d == AppendLog(disk[s], n.log, Len(n.log))
           o == [Idle EXCEPT !.pc = "append", !.todo = Others(leader), !.got = 1,
                             !.index = Len(n.log)]
<1>1. Serving /\ HasPeer(leader) /\ Replica(s, n, d, o) /\ leader' = leader /\ members # <<>>
  BY DEF Write, Serving
<1>2. LeadTypes /\ op.pc = "idle"
  BY <1>1, ServingFacts
<1>3. s \in Store /\ PositionOf(leader) \in DOMAIN members /\ members[PositionOf(leader)].store = s
  BY <1>1, <1>2, PeerFacts DEF StoreOf
<1>4. o.pc = "append" /\ o.todo = Others(leader) /\ o.got = 1 /\ o.index = Len(n.log)
  BY DEF Idle
<1>5. d.kv = disk[s].kv
  BY <1>2, <1>3, SameKeys DEF LeadTypes
<1> HIDE DEF s, n, d, o
<1>6. op' = o /\ members' = members /\ starts' = starts /\ disk' = [disk EXCEPT ![s] = d]
  BY <1>1 DEF Replica
<1>7. /\ Distinct(op'.todo) /\ Len(op'.todo) = Len(members) - 1
      /\ \A j \in DOMAIN members : Pending(j)' <=> members[j].store # s
  BY <1>1, <1>2, <1>4, <1>6, LoopBegins DEF s
<1>8. ASSUME starts = 1 PROVE \E L, T : Common(L, T)' /\ EvenLog(L, T)'
  <2>1. PICK L, T : Common(L, T) /\ EvenLog(L, T) /\ L \in Seq(Entry) /\ T \in Nat
    BY <1>1, <1>8, OnceFacts
  <2>2. Led /\ \A j \in DOMAIN members : Even(j, L, Len(L), T, L)
    BY <1>2, <2>1 DEF EvenLog
  <2>3. EvenNode(raft[s], L, Len(L), T) /\ Good(disk[s].kv, L, joined[s]) /\ raft[s].role = "Leader"
    BY <1>3, <2>2 DEF Even, Led, s
  <2> DEFINE e == [term |-> T, cmd |-> cmd]
             M == Append(L, e)
  <2>4. EvenNode(n, M, Len(L), T) /\ n.role = "Leader" /\ n.log = M
    BY <2>3 DEF EvenNode, IsNode, n, Propose
  <2>5. Len(M) = Len(L) + 1
    BY <2>1
  <2> HIDE DEF M
  <2>6. Common(L, T)'
    BY <1>2, <1>3, <1>5, <1>6, <2>1, CommonStays
  <2>7. ASSUME NEW j \in DOMAIN members
        PROVE  Even(j, IF Pending(j) THEN L ELSE M, Len(L), T, L)'
    <3>1. CASE members[j].store = s
      BY <1>1, <1>2, <1>3, <1>5, <1>7, <2>3, <2>4, <3>1, EvenKept
    <3>2. CASE members[j].store # s
      BY <1>1, <1>2, <1>3, <1>7, <2>2, <3>2, EvenKept
    <3> QED
      BY <3>1, <3>2
  <2>8. Counted'
    <3>1. Len(members) \in Nat
      BY <1>2, SeqFacts DEF LeadTypes
    <3>2. op'.got = Len(members) - Len(op'.todo)
      BY <1>4, <1>6, <1>7, <3>1
    <3> QED
      BY <1>6, <1>7, <3>2 DEF Counted
  <2>9. Led'
    BY <1>1, <1>2, <1>3, <2>2, <2>4, LedKept
  <2>10. EvenLog(L, T)'
    <3>1. op'.pc = "append" /\ op'.index = Len(L) + 1
      BY <1>4, <1>6, <2>4, <2>5
    <3> QED
      BY <1>6, <2>7, <2>8, <2>9, <3>1 DEF EvenLog, M
  <2> QED
    BY <2>6, <2>10
<1> QED
  BY <1>1, <1>4, <1>6, <1>8, StepAgrees

\* The leader is never among the replicas a loop has still to call.
LEMMA LeaderCalled ==
  ASSUME LeadTypes, HasPeer(leader), Called(op.todo, members, leader)
  PROVE  /\ PositionOf(leader) \in DOMAIN members /\ ~Pending(PositionOf(leader))
         /\ members[PositionOf(leader)].store = StoreOf(leader)
BY PeerFacts DEF Pending, Called, StoreOf

LEMMA AppendAgrees ==
  ASSUME LeadInv, AgreeInv, AppendToReplica
  PROVE  AgreeInv'
<1> DEFINE s == Head(op.todo).store
           l == raft[StoreOf(leader)]
           req == EntryRequest(l)
           n == HandleAppendEntries(raft[s], req)
           next == [op EXCEPT !.todo = Tail(op.todo)]
           o == [next EXCEPT !.got = op.got + 1]
           d == AcceptedDisk(disk[s], n)
           torn == TornHardState(AppendLog(disk[s], n.log, op.index), n)
<1>1. op.pc = "append" /\ op.todo # <<>>
  BY DEF AppendToReplica
<1>2. \/ DieWriting(s, torn)
      \/ /\ leader' = leader
         /\ \/ AcceptsEntries(raft[s], req) /\ Replica(s, n, d, o)
            \/ ~AcceptsEntries(raft[s], req) /\ Replica(s, n, disk[s], next)
  BY DEF AppendToReplica, ReplicaOrDie
<1>3. LeadTypes /\ HasPeer(leader) /\ Called(op.todo, members, leader)
  BY <1>1, LoopFacts
<1>4. s \in Store /\ \E j \in DOMAIN members : Head(op.todo) = members[j]
  BY <1>1, <1>3, CalledFacts
<1>5. members # <<>>
  BY <1>1, Running DEF Idle
<1>6. next.pc = "append" /\ o.pc = "append" /\ o.todo = Tail(op.todo) /\ o.got = op.got + 1
      /\ o.index = op.index
  BY <1>1, <1>3 DEF LeadTypes
<1>7. IsImage(disk[s]) /\ IsImage(AppendLog(disk[s], n.log, op.index))
  BY <1>3, <1>4, LogImage DEF LeadTypes
<1>8. d.kv = disk[s].kv
  BY <1>7, SameKeys DEF AcceptedDisk
<1>9. /\ req.term = l.term /\ req.prevIndex = op.index - 1 /\ req.commit = l.commit
      /\ req.prevTerm = (IF op.index = 1 THEN 0 ELSE l.log[op.index - 1].term)
      /\ req.entries = <<l.log[op.index]>>
  BY DEF EntryRequest
<1> HIDE DEF s, l, req, n, next, o, d, torn
<1>10. CASE DieWriting(s, torn)
  BY <1>5, <1>10, StopAgrees DEF DieWriting
<1>11. ASSUME starts = 1, ~DieWriting(s, torn)
       PROVE  \E L, T : Common(L, T)' /\ EvenLog(L, T)'
  <2>1. PICK L, T : Common(L, T) /\ EvenLog(L, T) /\ L \in Seq(Entry) /\ T \in Nat
    BY <1>5, <1>11, OnceFacts
  <2>2. PICK cmd \in Command : \A j \in DOMAIN members :
          Even(j, IF Pending(j) THEN L ELSE Append(L, [term |-> T, cmd |-> cmd]), Len(L), T, L)
    BY <1>1, <2>1 DEF EvenLog
  <2>3. /\ Led /\ Distinct(op.todo) /\ op.got = Len(members) - Len(op.todo)
        /\ op.index = Len(L) + 1
    BY <1>1, <2>1 DEF EvenLog, Counted
  <2> DEFINE e == [term |-> T, cmd |-> cmd]
             M == Append(L, e)
  <2>4. e \in Entry
    BY <2>1 DEF Entry
  <2>5. \A j \in DOMAIN members : Even(j, IF Pending(j) THEN L ELSE M, Len(L), T, L)
    BY <2>2
  <2> HIDE DEF e
  <2>6. /\ M[Len(L) + 1] = e /\ \A i \in 1 .. Len(L) : M[i] = L[i]
    BY <2>1, <2>4, AppendOne
  <2> HIDE DEF M
  <2>7. EvenNode(l, M, Len(L), T)
    BY <1>3, <2>5, LeaderCalled DEF Even, l
  <2>8. /\ req.term = T /\ req.prevIndex = Len(L) /\ req.commit = Len(L) /\ req.entries = <<e>>
        /\ req.prevTerm = (IF Len(L) = 0 THEN 0 ELSE L[Len(L)].term)
    <3>1. l.log = M /\ l.term = T /\ l.commit = Len(L) /\ Len(L) \in Nat
      BY <2>1, <2>7 DEF EvenNode
    <3>2. op.index - 1 = Len(L) /\ (op.index = 1 <=> Len(L) = 0)
      BY <2>3, <3>1
    <3>3. Len(L) # 0 => M[Len(L)] = L[Len(L)]
      BY <2>6, <3>1
    <3> QED
      BY <1>9, <2>3, <2>6, <3>1, <3>2, <3>3
  <2>9. EvenNode(raft[s], L, Len(L), T) /\ Good(disk[s].kv, L, joined[s]) /\ s # StoreOf(leader)
    <3>1. s # StoreOf(leader)
      BY <1>1, <1>3, CalledFacts DEF s
    <3>2. PICK j \in DOMAIN members : Head(op.todo) = members[j]
      BY <1>4
    <3>3. Pending(j)
      <4>1. op.todo \in Seq(Member)
        BY <1>3 DEF Called
      <4>2. 1 \in DOMAIN op.todo /\ op.todo[1] = Head(op.todo)
        BY <1>1, <4>1, SeqFacts
      <4> QED
        BY <3>2, <4>2 DEF Pending
    <3> QED
      BY <2>5, <3>1, <3>2, <3>3 DEF Even, s
  <2>10. AcceptsEntries(raft[s], req) /\ EvenNode(n, M, Len(L), T)
    BY <2>1, <2>4, <2>8, <2>9, EvenAppend DEF n, M
  <2>11. Replica(s, n, d, o) /\ leader' = leader
    BY <1>2, <1>11, <2>10
  <2>12. op' = o /\ members' = members /\ disk' = [disk EXCEPT ![s] = d]
    BY <2>11 DEF Replica
  <2>13. /\ Distinct(op'.todo) /\ Len(op'.todo) = Len(op.todo) - 1 /\ Len(op.todo) \in Nat
         /\ \A j \in DOMAIN members :
              /\ members[j].store = s => Pending(j) /\ ~Pending(j)'
              /\ members[j].store # s => (Pending(j)' <=> Pending(j))
    BY <1>1, <1>3, <1>6, <2>3, <2>12, LoopGoesOn DEF s
  <2>14. Common(L, T)'
    BY <1>3, <1>4, <1>8, <2>1, <2>12, CommonStays
  <2>15. ASSUME NEW j \in DOMAIN members
         PROVE  Even(j, IF Pending(j) THEN L ELSE M, Len(L), T, L)'
    <3>1. CASE members[j].store = s
      BY <1>3, <1>4, <1>8, <2>9, <2>10, <2>11, <2>13, <3>1, EvenKept
    <3>2. CASE members[j].store # s
      <4>1. Even(j, IF Pending(j) THEN L ELSE M, Len(L), T, L)'
            <=> IF Pending(j) THEN Even(j, L, Len(L), T, L)' ELSE Even(j, M, Len(L), T, L)'
        BY <2>13, <3>2
      <4>2. IF Pending(j) THEN Even(j, L, Len(L), T, L) ELSE Even(j, M, Len(L), T, L)
        BY <2>5
      <4> QED
        BY <1>3, <1>4, <2>11, <3>2, <4>1, <4>2, EvenKept
    <3> QED
      BY <3>1, <3>2
  <2>16. Counted'
    <3>1. Len(members) \in Nat
      BY <1>3, SeqFacts DEF LeadTypes
    <3>2. op'.got = op.got + 1 /\ Len(op'.todo) = Len(op.todo) - 1 /\ Len(op.todo) \in Nat
      BY <1>6, <2>12, <2>13
    <3>3. op'.got = Len(members) - Len(op'.todo)
      BY <2>3, <3>1, <3>2
    <3> QED
      BY <2>12, <2>13, <3>3 DEF Counted
  <2>17. Led'
    BY <1>3, <1>4, <2>3, <2>9, <2>11, LedKept
  <2>18. EvenLog(L, T)'
    <3>1. op'.pc = "append" /\ op'.index = Len(L) + 1
      BY <1>6, <2>3, <2>12
    <3> QED
      BY <2>12, <2>15, <2>16, <2>17, <3>1 DEF EvenLog, M, e
  <2> QED
    BY <2>14, <2>18
<1>12. CASE ~DieWriting(s, torn)
  <2>1. members' = members /\ starts' = starts /\ op'.pc = "append"
    BY <1>2, <1>6, <1>12 DEF Replica
  <2> QED
    BY <1>5, <1>11, <1>12, <2>1, StepAgrees
<1> QED
  BY <1>10, <1>12

LEMMA NotReplicatedAgrees ==
  ASSUME LeadInv, AgreeInv, NotReplicated
  PROVE  AgreeInv'
<1>1. /\ op.pc = "append" /\ op.todo = <<>> /\ ~Majority(op.got)
      /\ op' = Idle /\ members' = members /\ starts' = starts
  BY DEF NotReplicated
<1>2. members # <<>>
  BY <1>1, Running DEF Idle
<1>3. Idle.pc = "idle"
  BY DEF Idle
<1>4. starts # 1
  <2> SUFFICES ASSUME starts = 1 PROVE FALSE
    OBVIOUS
  <2>1. Counted
    BY <1>1, <1>2, OnceFacts DEF EvenLog
  <2>2. Len(members) \in Nat /\ Len(members) > 0
    BY <1>2, SeqFacts DEF LeadInv, LeadTypes
  <2>3. op.got = Len(members)
    <3>1. Len(op.todo) = 0
      BY <1>1
    <3> QED
      BY <2>1, <2>2, <3>1 DEF Counted
  <2> QED
    BY <1>1, <2>2, <2>3 DEF Majority
<1> QED
  BY <1>1, <1>2, <1>3, <1>4, StepAgrees

LEMMA CommitAgrees ==
  ASSUME LeadInv, AgreeInv, Commit
  PROVE  AgreeInv'
<1> DEFINE s == StoreOf(leader)
           n == SetCommitIndex(raft[s], op.index)
           m == TakeCommittedEntries(n)
           d == AppliedDisk(disk[s], n)
           o == [op EXCEPT !.pc = "commit", !.todo = Others(leader)]
           torn == TornApplied(disk[s], n)
<1>1. /\ op.pc = "append" /\ op.todo = <<>>
      /\ \/ DieWriting(s, torn)
         \/ Replica(s, m, d, o) /\ leader' = leader
  BY DEF Commit, ReplicaOrDie
<1>2. LeadTypes /\ HasPeer(leader) /\ Called(op.todo, members, leader) /\ s \in Store
  BY <1>1, LoopFacts
<1>3. PositionOf(leader) \in DOMAIN members /\ members[PositionOf(leader)].store = s
  BY <1>2, PeerFacts DEF StoreOf
<1>4. members # <<>>
  BY <1>1, Running DEF Idle
<1>5. o.pc = "commit" /\ o.todo = Others(leader) /\ o.index = op.index
  BY <1>2 DEF LeadTypes
<1>6. IsImage(disk[s]) /\ IsNode(raft[s])
  BY <1>2 DEF LeadTypes
<1> HIDE DEF s, n, m, d, o, torn
<1>7. CASE DieWriting(s, torn)
  BY <1>4, <1>7, StopAgrees DEF DieWriting
<1>8. CASE Replica(s, m, d, o) /\ leader' = leader
  <2>1. op' = o /\ members' = members /\ starts' = starts /\ disk' = [disk EXCEPT ![s] = d]
    BY <1>8 DEF Replica
  <2>2. /\ Distinct(op'.todo)
        /\ \A j \in DOMAIN members : Pending(j)' <=> members[j].store # s
    BY <1>2, <1>5, <2>1, LoopBegins DEF s
  <2>3. ASSUME starts = 1 PROVE \E L, T : Common(L, T)' /\ EvenLog(L, T)'
    <3>1. PICK L, T : Common(L, T) /\ EvenLog(L, T) /\ L \in Seq(Entry) /\ T \in Nat
      BY <1>4, <2>3, OnceFacts
    <3>2. PICK cmd \in Command : \A j \in DOMAIN members :
            Even(j, IF Pending(j) THEN L ELSE Append(L, [term |-> T, cmd |-> cmd]), Len(L), T, L)
      BY <1>1, <3>1 DEF EvenLog
    <3>3. Led /\ op.index = Len(L) + 1
      BY <1>1, <3>1 DEF EvenLog
    <3> DEFINE e == [term |-> T, cmd |-> cmd]
    <3>4. PICK M : M = Append(L, e)
      OBVIOUS
    <3>6. \A j \in DOMAIN members : Even(j, M, Len(L), T, L)
      <4>1. \A j \in DOMAIN members : ~Pending(j)
        BY <1>1 DEF Pending
      <4> QED
        BY <3>2, <3>4, <4>1
    <3>7. e \in Entry
      BY <3>1 DEF Entry
    <3>8. M \in Seq(Entry) /\ Len(M) = Len(L) + 1 /\ Len(L) \in Nat /\ M # <<>>
      <4> HIDE DEF e
      <4>1. M \in Seq(Entry) /\ Len(M) = Len(L) + 1 /\ Len(L) \in Nat
        BY <3>1, <3>7, <3>4, AppendOne
      <4>2. Len(M) # 0
        BY <4>1
      <4> QED
        BY <4>1, <4>2
    <3> HIDE DEF e
    <3>9. EvenNode(raft[s], M, Len(L), T) /\ Good(disk[s].kv, L, joined[s]) /\ raft[s].role = "Leader"
      BY <1>3, <3>3, <3>6 DEF Even, Led, s
    <3>10. /\ IsNode(n) /\ n.log = M /\ n.commit = Len(M) /\ n.applied = Len(M) - 1
          /\ n.term = T /\ n.role = "Leader"
      <4>1. /\ raft[s].log = M /\ raft[s].applied = Len(L) /\ raft[s].term = T
        BY <3>9 DEF EvenNode
      <4>2. Least(op.index, LastIndex(raft[s])) = Len(M)
        BY <3>3, <3>8, <4>1 DEF Least, LastIndex
      <4> QED
        BY <1>6, <3>8, <3>9, <4>1, <4>2 DEF n, SetCommitIndex, IsNode
    <3>11. EvenNode(m, M, Len(M), T) /\ m.role = "Leader"
      BY <3>8, <3>10, EvenTake DEF m
    <3>12. /\ Good(d.kv, M, joined[s])
           /\ \A k \in Key : d.kv[k] # NoValue => k \in DOMAIN e.cmd \/ disk[s].kv[k] # NoValue
      <4>1. n.log = Append(L, e) /\ n.commit = Len(L) + 1 /\ n.applied = Len(L)
        BY <3>4, <3>8, <3>10
      <4> QED
        BY <1>6, <3>1, <3>4, <3>7, <3>9, <3>10, <4>1, GoodApply DEF d
    <3>13. \A k \in Key : /\ WrittenAfter(L, 0, k) => WrittenAfter(M, 0, k)
                          /\ k \in DOMAIN e.cmd => WrittenAfter(M, 0, k)
      BY <3>1, <3>4, <3>7, WrittenAppend
    <3>14. Common(M, T)'
      <4>1. \A k \in Key : d.kv[k] # NoValue => WrittenAfter(M, 0, k)
        BY <1>2, <3>1, <3>12, <3>13 DEF Common
      <4> QED
        BY <1>2, <2>1, <3>1, <3>8, <3>13, <4>1, CommonKept
    <3>15. ASSUME NEW j \in DOMAIN members
           PROVE  IF Pending(j)' THEN Even(j, M, Len(M) - 1, T, L)' ELSE Even(j, M, Len(M), T, M)'
      <4>1. CASE members[j].store = s
        BY <1>2, <1>8, <2>2, <3>11, <3>12, <4>1, EvenKept
      <4>2. CASE members[j].store # s
        <5>1. Len(M) - 1 = Len(L)
          BY <3>8
        <5> QED
          BY <1>2, <1>8, <2>2, <3>6, <4>2, <5>1, EvenKept
      <4> QED
        BY <4>1, <4>2
    <3>16. Led'
      BY <1>2, <1>8, <3>3, <3>11, LedKept
    <3>17. EvenLog(M, T)'
      <4>1. op'.pc = "commit" /\ op'.index = Len(M)
        BY <1>5, <2>1, <3>3, <3>8
      <4> QED
        BY <2>1, <2>2, <3>1, <3>4, <3>7, <3>8, <3>15, <3>16, <4>1 DEF EvenLog
    <3> QED
      BY <3>14, <3>17
  <2> QED
    BY <1>4, <1>5, <2>1, <2>3, StepAgrees
<1> QED
  BY <1>1, <1>7, <1>8

LEMMA BroadcastAgrees ==
  ASSUME LeadInv, AgreeInv, BroadcastCommit
  PROVE  AgreeInv'
<1> DEFINE s == Head(op.todo).store
           l == raft[StoreOf(leader)]
           req == CommitRequest(l, raft[s])
           n == HandleAppendEntries(raft[s], req)
           m == TakeCommittedEntries(n)
           d == AppliedDisk(disk[s], n)
           o == [op EXCEPT !.todo = Tail(op.todo)]
           torn == TornApplied(disk[s], n)
<1>1. op.pc = "commit" /\ op.todo # <<>>
  BY DEF BroadcastCommit
<1>2. \/ DieWriting(s, torn)
      \/ /\ leader' = leader
         /\ \/ AcceptsEntries(raft[s], req) /\ Replica(s, m, d, o)
            \/ ~AcceptsEntries(raft[s], req) /\ Replica(s, n, disk[s], Idle)
  BY DEF BroadcastCommit, ReplicaOrDie
<1>3. LeadTypes /\ HasPeer(leader) /\ Called(op.todo, members, leader)
  BY <1>1, LoopFacts
<1>4. s \in Store /\ s # StoreOf(leader) /\ \E j \in DOMAIN members : Head(op.todo) = members[j]
  BY <1>1, <1>3, CalledFacts
<1>5. members # <<>>
  BY <1>1, Running DEF Idle
<1>6. o.pc = "commit" /\ o.todo = Tail(op.todo) /\ o.index = op.index /\ Idle.pc = "idle"
  BY <1>1, <1>3 DEF LeadTypes, Idle
<1>7. IsImage(disk[s])
  BY <1>3, <1>4 DEF LeadTypes
<1>8. /\ req.term = l.term /\ req.prevIndex = LastIndex(raft[s])
      /\ req.prevTerm = LastTerm(raft[s]) /\ req.entries = <<>> /\ req.commit = op.index
  BY DEF CommitRequest
<1> HIDE DEF s, l, req, n, m, o, d, torn
<1>9. CASE DieWriting(s, torn)
  BY <1>5, <1>9, StopAgrees DEF DieWriting
<1>10. ASSUME starts = 1, ~DieWriting(s, torn)
       PROVE  \E L, T : Common(L, T)' /\ EvenLog(L, T)'
  <2>1. PICK L, T : Common(L, T) /\ EvenLog(L, T) /\ L \in Seq(Entry) /\ T \in Nat
    BY <1>5, <1>10, OnceFacts
  <2>2. Led /\ Distinct(op.todo) /\ op.index = Len(L) /\ L # <<>>
    BY <1>1, <2>1 DEF EvenLog
  <2>3. PICK A \in Seq(Entry), e \in Entry :
          /\ L = Append(A, e)
          /\ \A j \in DOMAIN members :
               IF Pending(j) THEN Even(j, L, Len(L) - 1, T, A) ELSE Even(j, L, Len(L), T, L)
    BY <1>1, <2>1 DEF EvenLog
  <2>4. l.term = T
    BY <1>3, <2>3, LeaderCalled DEF Even, EvenNode, l
  <2>5. EvenNode(raft[s], L, Len(L) - 1, T) /\ Good(disk[s].kv, A, joined[s])
    <3>1. PICK j \in DOMAIN members : Head(op.todo) = members[j]
      BY <1>4
    <3>2. Pending(j)
      <4>1. op.todo \in Seq(Member)
        BY <1>3 DEF Called
      <4>2. 1 \in DOMAIN op.todo /\ op.todo[1] = Head(op.todo)
        BY <1>1, <4>1, SeqFacts
      <4> QED
        BY <3>1, <4>2 DEF Pending
    <3> QED
      BY <2>3, <3>1, <3>2 DEF Even, s
  <2>6. /\ AcceptsEntries(raft[s], req) /\ IsNode(n) /\ n.log = L /\ n.commit = Len(L)
        /\ n.applied = Len(L) - 1 /\ n.term = T
    BY <1>8, <2>1, <2>2, <2>4, <2>5, EvenCommit DEF n
  <2>7. EvenNode(m, L, Len(L), T)
    BY <2>1, <2>6, EvenTake DEF m
  <2>8. /\ Good(d.kv, L, joined[s])
        /\ \A k \in Key : d.kv[k] # NoValue => k \in DOMAIN e.cmd \/ disk[s].kv[k] # NoValue
    <3>1. Len(L) = Len(A) + 1 /\ Len(A) \in Nat
      BY <2>3, AppendOne
    <3>2. n.log = Append(A, e) /\ n.commit = Len(A) + 1 /\ n.applied = Len(A)
      BY <2>3, <2>6, <3>1
    <3> QED
      BY <1>7, <2>3, <2>5, <2>6, <3>2, GoodApply DEF d
  <2>9. Replica(s, m, d, o) /\ leader' = leader
    BY <1>2, <1>10, <2>6
  <2>10. op' = o /\ members' = members /\ disk' = [disk EXCEPT ![s] = d]
    BY <2>9 DEF Replica
  <2>11. /\ Distinct(op'.todo)
         /\ \A j \in DOMAIN members :
              /\ members[j].store = s => Pending(j) /\ ~Pending(j)'
              /\ members[j].store # s => (Pending(j)' <=> Pending(j))
    BY <1>1, <1>3, <1>6, <2>2, <2>10, LoopGoesOn DEF s
  <2>12. Common(L, T)'
    <3>1. \A k \in Key : k \in DOMAIN e.cmd => WrittenAfter(L, 0, k)
      BY <2>3, WrittenAppend
    <3>2. \A k \in Key : d.kv[k] # NoValue => WrittenAfter(L, 0, k)
      BY <1>4, <2>1, <2>8, <3>1 DEF Common
    <3> QED
      BY <1>3, <1>4, <2>1, <2>10, <3>2, CommonKept
  <2>13. ASSUME NEW j \in DOMAIN members
         PROVE  IF Pending(j)' THEN Even(j, L, Len(L) - 1, T, A)' ELSE Even(j, L, Len(L), T, L)'
    <3>1. CASE members[j].store = s
      BY <1>3, <1>4, <2>7, <2>8, <2>9, <2>11, <3>1, EvenKept
    <3>2. CASE members[j].store # s
      BY <1>3, <1>4, <2>3, <2>9, <2>11, <3>2, EvenKept
    <3> QED
      BY <3>1, <3>2
  <2>14. Led'
    BY <1>3, <1>4, <2>2, <2>9, LedKept
  <2>15. EvenLog(L, T)'
    <3>1. op'.pc = "commit" /\ op'.index = Len(L)
      BY <1>6, <2>2, <2>10
    <3> QED
      BY <2>2, <2>3, <2>10, <2>11, <2>13, <2>14, <3>1 DEF EvenLog
  <2> QED
    BY <2>12, <2>15
<1>11. CASE ~DieWriting(s, torn)
  <2>1. members' = members /\ starts' = starts /\ op'.pc \in {"commit", "idle"}
    BY <1>2, <1>6, <1>11 DEF Replica
  <2> QED
    BY <1>5, <1>10, <1>11, <2>1, StepAgrees
<1> QED
  BY <1>9, <1>11

LEMMA AcknowledgeAgrees ==
  ASSUME AgreeInv, Acknowledge
  PROVE  AgreeInv'
<1>1. /\ op.pc = "commit" /\ op.todo = <<>> /\ op' = Idle /\ members' = members
      /\ leader' = leader /\ raft' = raft /\ disk' = disk /\ starts' = starts
      /\ joined' = joined
  BY DEF Acknowledge
<1>2. members # <<>> /\ Idle.pc = "idle"
  BY <1>1, Running DEF Idle
<1>3. ASSUME starts = 1 PROVE \E L, T : Common(L, T)' /\ EvenLog(L, T)'
  <2>1. PICK L, T : Common(L, T) /\ EvenLog(L, T)
    BY <1>2, <1>3, OnceFacts
  <2>2. Led /\ \A j \in DOMAIN members : Even(j, L, Len(L), T, L)
    <3>1. \A j \in DOMAIN members : ~Pending(j)
      BY <1>1 DEF Pending
    <3> QED
      BY <1>1, <2>1, <3>1 DEF EvenLog
  <2>3. Led'
    BY <1>1, <2>2 DEF Led, HasPeer, StoreOf, PositionOf
  <2>4. \A j \in DOMAIN members' : Even(j, L, Len(L), T, L)'
    BY <1>1, <2>2 DEF Even
  <2>5. EvenLog(L, T)'
    BY <1>1, <1>2, <2>3, <2>4 DEF EvenLog
  <2>6. Common(L, T)'
    BY <1>1, <2>1 DEF Common
  <2> QED
    BY <2>5, <2>6
<1> QED
  BY <1>1, <1>2, <1>3, StepAgrees

LEMMA AgreeNext ==
  ASSUME LeadInv, LeadInv', AgreeInv, [Next]_vars
  PROVE  AgreeInv'
<1>1. CASE UNCHANGED vars
  <2>1. /\ members' = members /\ leader' = leader /\ raft' = raft /\ disk' = disk /\ op' = op
        /\ starts' = starts /\ joined' = joined
    BY <1>1 DEF vars
  <2>2. ASSUME NEW L, NEW T, Common(L, T) PROVE Common(L, T)'
    BY <2>1, <2>2 DEF Common
  <2>3. ASSUME NEW L, NEW T, EvenLog(L, T) PROVE EvenLog(L, T)'
    <3>1. \A j \in DOMAIN members : Pending(j)' <=> Pending(j)
      BY <2>1 DEF Pending
    <3>2. (Led' <=> Led) /\ (Counted' <=> Counted)
      BY <2>1 DEF Led, HasPeer, StoreOf, PositionOf, Counted
    <3>3. ASSUME NEW j \in DOMAIN members, NEW M, NEW c, NEW t, NEW N
          PROVE  Even(j, M, c, t, N)' <=> Even(j, M, c, t, N)
      BY <2>1 DEF Even
    <3> QED
      BY <2>1, <2>3, <3>1, <3>2, <3>3 DEF EvenLog
  <2> QED
    BY <2>1, <2>2, <2>3 DEF AgreeInv
<1>2. CASE Crash
  BY <1>2, StopAgrees DEF Crash
<1> QED
  BY <1>1, <1>2, StartAgrees, BecomesCandidateAgrees, VoteAgrees, ElectedAgrees,
     NotElectedAgrees, TransferAgrees, RemovePeerAgrees, AddPeerAgrees, JoinAgrees,
     CopyDataAgrees, WriteAgrees, AppendAgrees, NotReplicatedAgrees, CommitAgrees,
     BroadcastAgrees, AcknowledgeAgrees
  DEF Next

\* Until the process first dies the replicas of an in-process region have, between
\* requests, the same log, all of it applied, and the data that the log says, for any
\* number of stores, any commands and whatever replicas were added, removed or added
\* again, except for deleted and reserved keys that nobody wrote since the store was
\* added (ProposeAndReplicate, BroadcastCommit, ElectLeader, AddPeer).
THEOREM ReplicasStayEqual == Spec => []ReplicasAgree
<1>1. AgreeInv => ReplicasAgree
  <2> SUFFICES ASSUME AgreeInv, Serving, starts = 1, NEW i \in DOMAIN members,
                      NEW j \in DOMAIN members
               PROVE  LET s == members[i].store
                          log == raft[s].log
                      IN  /\ log = raft[members[j].store].log
                          /\ raft[s].applied = Len(log)
                          /\ Good(disk[s].kv, log, joined[s])
    BY DEF ReplicasAgree, MemberStores, Good
  <2>1. PICK L, T : EvenLog(L, T)
    BY OnceFacts DEF Serving
  <2>2. \A k \in DOMAIN members : Even(k, L, Len(L), T, L)
    BY <2>1 DEF EvenLog, Serving, Idle
  <2> QED
    BY <2>2 DEF Even, EvenNode
<1>2. AgreeInv /\ LeadInv /\ LeadInv' /\ [Next]_vars => AgreeInv'
  BY AgreeNext
<1> QED
  BY <1>1, <1>2, LeadInit, LeadNext, AgreeInit, PTL DEF Spec
=============================================================================
