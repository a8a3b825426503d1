-------------------------- MODULE RaftStorageProofs --------------------------
(***************************************************************************)
(* What the operators of RaftNode and RaftStorage return, for every value  *)
(* of the constants: the facts the proofs about DistributedRegion rest on. *)
(***************************************************************************)
EXTENDS RaftStorage, FiniteSetTheorems, SequenceTheorems, WellFoundedInduction, TLAPS

-----------------------------------------------------------------------------
\* The least and the greatest element of a set of numbers.

\* Min of a nonempty set of naturals is its least element.
LEMMA MinOfNats ==
  ASSUME NEW S \in SUBSET Nat, S # {}
  PROVE  Min(S) \in S /\ \A y \in S : Min(S) <= y
<1>1. IsWellFoundedOn({ss \in Nat \X Nat : ss[1] < ss[2]}, Nat)
  BY NatLessThanWellFounded DEF OpToRel
<1>2. PICK x \in S : \A y \in S : ~(<<y, x>> \in {ss \in Nat \X Nat : ss[1] < ss[2]})
  BY <1>1, WFMin, Zenon
<1>3. \A y \in S : x \in Nat /\ y \in Nat /\ ~(y < x)
  BY <1>2
<1>4. \A y \in S : x <= y
  BY <1>3
<1> QED
  BY <1>4 DEF Min

\* Max of a nonempty set of naturals with an upper bound is its greatest element.
LEMMA MaxOfBoundedNats ==
  ASSUME NEW S \in SUBSET Nat, S # {}, NEW b \in Nat, \A s \in S : s <= b
  PROVE  Max(S) \in S /\ \A y \in S : Max(S) >= y
<1> DEFINE D == {b - s : s \in S}
<1>1. \A s \in S : b - s \in Nat
  OBVIOUS
<1>2. D \in SUBSET Nat /\ D # {}
  BY <1>1
<1>3. Min(D) \in D /\ \A d \in D : Min(D) <= d
  BY <1>2, MinOfNats
<1>4. PICK x \in S : \A y \in S : b - x <= b - y
  BY <1>3
<1>5. \A y \in S : x >= y
  BY <1>4
<1> QED
  BY <1>5 DEF Max

-----------------------------------------------------------------------------
\* The promise about votes that every step of a node keeps: the term does not
\* fall, and a vote given in a term stays as long as the term does.
KeepsVote(n, m) ==
  /\ m.term >= n.term
  /\ m.term = n.term /\ n.voted # None => m.voted = n.voted

\* commit_index_ and last_applied_ point into the log.
InLog(n) == n.commit <= Len(n.log) /\ n.applied <= Len(n.log)

LEMMA BecomeFollowerFacts ==
  ASSUME NEW n \in Node, NEW t \in Nat
  PROVE  LET m == BecomeFollower(n, t)
         IN  /\ m \in Node /\ KeepsVote(n, m)
             /\ m.term = IF t > n.term THEN t ELSE n.term
             /\ m.log = n.log /\ m.commit = n.commit /\ m.applied = n.applied
<1> DEFINE m == BecomeFollower(n, t)
<1>1. m \in Node
  BY DEF BecomeFollower, Node, Role, None
<1>2. KeepsVote(n, m)
  BY DEF BecomeFollower, Node, KeepsVote
<1>3. m.term = IF t > n.term THEN t ELSE n.term
  BY DEF BecomeFollower, Node
<1>4. m.log = n.log /\ m.commit = n.commit /\ m.applied = n.applied
  BY DEF BecomeFollower, Node
<1> QED
  BY <1>1, <1>2, <1>3, <1>4

LEMMA BecomeCandidateFacts ==
  ASSUME NEW n \in Node, NEW p \in Peer
  PROVE  LET m == BecomeCandidate(n, p)
         IN  /\ m \in Node /\ KeepsVote(n, m)
             /\ m.term = n.term + 1 /\ m.voted = p
             /\ m.log = n.log /\ m.commit = n.commit /\ m.applied = n.applied
<1> DEFINE m == BecomeCandidate(n, p)
<1>1. m \in Node
  <2>1. n.term + 1 \in Nat
    BY DEF Node
  <2>2. DOMAIN m = DOMAIN n
    BY DEF BecomeCandidate
  <2> QED
    BY <2>1 DEF BecomeCandidate, Node, Role
<1>2. m.term = n.term + 1 /\ m.voted = p
  BY DEF BecomeCandidate, Node
<1>3. m.log = n.log /\ m.commit = n.commit /\ m.applied = n.applied
  BY DEF BecomeCandidate, Node
<1>4. KeepsVote(n, m)
  BY <1>2 DEF KeepsVote, Node
<1> QED
  BY <1>1, <1>2, <1>3, <1>4

LEMMA LastFacts ==
  ASSUME NEW n \in Node
  PROVE  LastIndex(n) \in Nat /\ LastTerm(n) \in Nat
<1>1. n.log \in Seq(Entry)
  BY DEF Node
<1>2. n.log # <<>> => n.log[Len(n.log)] \in Entry
  BY <1>1
<1> QED
  BY <1>1, <1>2 DEF LastIndex, LastTerm, Entry

\* HandleRequestVote keeps its promise, and a granted vote is recorded.
LEMMA RequestVoteFacts ==
  ASSUME NEW n \in Node, NEW req \in VoteRequest
  PROVE  LET m == HandleRequestVote(n, req)
         IN  /\ m \in Node /\ KeepsVote(n, m)
             /\ m.log = n.log /\ m.commit = n.commit /\ m.applied = n.applied
             /\ GrantsVote(n, req) => /\ m.term = req.term /\ m.voted = req.from
                                      /\ req.term = n.term =>
                                           n.voted \in {None, req.from}
<1> DEFINE v == VoteTerm(n, req)
<1>1. req.term \in Nat /\ req.from \in Peer
  BY DEF VoteRequest
<1>2. /\ v \in Node /\ KeepsVote(n, v)
      /\ v.log = n.log /\ v.commit = n.commit /\ v.applied = n.applied
      /\ req.term >= n.term => v.term = req.term
      /\ req.term = n.term => v = n
  <2>1. n.term \in Nat
    BY DEF Node
  <2>2. CASE req.term > n.term
    <3>1. v = BecomeFollower(n, req.term)
      BY <2>2 DEF VoteTerm
    <3>2. /\ v \in Node /\ KeepsVote(n, v)
          /\ v.log = n.log /\ v.commit = n.commit /\ v.applied = n.applied
          /\ v.term = IF req.term > n.term THEN req.term ELSE n.term
      BY <1>1, <3>1, BecomeFollowerFacts
    <3> QED
      BY <1>1, <2>1, <2>2, <3>2
  <2>3. CASE ~(req.term > n.term)
    BY <1>1, <2>1, <2>3 DEF VoteTerm, KeepsVote
  <2> QED
    BY <2>2, <2>3
<1>3. CASE req.term < n.term
  BY <1>1, <1>3 DEF HandleRequestVote, GrantsVote, KeepsVote, Node
<1>4. CASE ~(req.term < n.term) /\ GrantsVote(n, req)
  <2>1. HandleRequestVote(n, req) = [v EXCEPT !.voted = req.from]
    BY <1>4 DEF HandleRequestVote
  <2>2. v.voted \in {None, req.from} /\ req.term >= n.term
    BY <1>4 DEF GrantsVote
  <2> QED
    BY <1>1, <1>2, <2>1, <2>2 DEF KeepsVote, Node
<1>5. CASE ~(req.term < n.term) /\ ~GrantsVote(n, req)
  BY <1>2, <1>5 DEF HandleRequestVote
<1> QED
  BY <1>3, <1>4, <1>5

-----------------------------------------------------------------------------
\* AppendEntries: the log stays a log and the indexes stay inside it.

LEMMA LeastFacts ==
  ASSUME NEW a \in Nat, NEW b \in Nat
  PROVE  Least(a, b) \in Nat /\ Least(a, b) <= a /\ Least(a, b) <= b
BY DEF Least

\* The position at which the merge loop starts to write is inside the log or
\* just behind it.
LEMMA FirstNewEntry ==
  ASSUME NEW n \in Node, NEW req \in AppendRequest,
         req.prevIndex <= Len(n.log), NewEntries(n, req) # {}
  PROVE  LET k == Min(NewEntries(n, req))
         IN  /\ k \in 1 .. Len(req.entries)
             /\ req.prevIndex + k - 1 \in 0 .. Len(n.log)
<1> DEFINE k == Min(NewEntries(n, req))
<1>1. /\ n.log \in Seq(Entry) /\ Len(n.log) \in Nat /\ req.prevIndex \in Nat
      /\ req.entries \in Seq(Entry) /\ Len(req.entries) \in Nat
  BY DEF Node, AppendRequest
<1>2. NewEntries(n, req) \in SUBSET (1 .. Len(req.entries))
  BY DEF NewEntries
<1>3. NewEntries(n, req) \in SUBSET Nat
  BY <1>1, <1>2
<1>4. k \in NewEntries(n, req) /\ \A y \in NewEntries(n, req) : k <= y
  BY <1>3, MinOfNats
<1>5. k \in 1 .. Len(req.entries)
  BY <1>2, <1>4
<1>6. CASE k = 1
  BY <1>1, <1>5, <1>6
<1>7. CASE k # 1
  <2>1. k - 1 \in 1 .. Len(req.entries)
    BY <1>1, <1>5, <1>7
  <2>2. ~(k <= k - 1)
    BY <1>1, <1>5
  <2>3. k - 1 \notin NewEntries(n, req)
    BY <1>4, <2>2
  <2>4. ~(req.prevIndex + (k - 1) > Len(n.log))
    BY <2>1, <2>3 DEF NewEntries
  <2> QED
    BY <1>1, <1>5, <2>4
<1> QED
  BY <1>5, <1>6, <1>7

LEMMA MergeEntriesFacts ==
  ASSUME NEW n \in Node, InLog(n), NEW req \in AppendRequest,
         req.prevIndex <= Len(n.log)
  PROVE  LET m == MergeEntries(n, req)
         IN  m \in Node /\ InLog(m) /\ m.term = n.term /\ m.voted = n.voted
<1>1. CASE NewEntries(n, req) = {}
  BY <1>1 DEF MergeEntries
<1>2. CASE NewEntries(n, req) # {}
  <2> DEFINE k    == Min(NewEntries(n, req))
             keep == req.prevIndex + k - 1
             log  == SubSeq(n.log, 1, keep) \o SubSeq(req.entries, k, Len(req.entries))
             m    == [n EXCEPT !.log = log, !.commit = Least(n.commit, keep),
                               !.applied = Least(n.applied, keep)]
  <2>1. MergeEntries(n, req) = m
    BY <1>2 DEF MergeEntries
  <2>2. k \in 1 .. Len(req.entries) /\ keep \in 0 .. Len(n.log)
    BY <1>2, FirstNewEntry
  <2>3. /\ n.log \in Seq(Entry) /\ Len(n.log) \in Nat
        /\ n.commit \in Nat /\ n.applied \in Nat
    BY DEF Node
  <2>4. req.entries \in Seq(Entry) /\ Len(req.entries) \in Nat
    BY DEF AppendRequest
  <2> HIDE DEF k, keep
  <2>5. /\ SubSeq(n.log, 1, keep) \in Seq(Entry)
        /\ Len(SubSeq(n.log, 1, keep)) = keep
    <3>1. \A i \in 1 .. keep : n.log[i] \in Entry
      BY <2>2, <2>3
    <3>2. keep \in Int
      BY <2>2, <2>3
    <3> QED
      BY <2>2, <3>1, <3>2, SubSeqProperties
  <2>6. SubSeq(req.entries, k, Len(req.entries)) \in Seq(Entry)
    <3>1. \A i \in k .. Len(req.entries) : req.entries[i] \in Entry
      BY <2>2, <2>4
    <3>2. k \in Int /\ Len(req.entries) \in Int
      BY <2>2, <2>4
    <3> QED
      BY <3>1, <3>2, SubSeqProperties
  <2>7. log \in Seq(Entry) /\ Len(log) >= keep
    <3>1. /\ log \in Seq(Entry)
          /\ Len(log) = keep + Len(SubSeq(req.entries, k, Len(req.entries)))
      BY <2>5, <2>6, ConcatProperties
    <3>2. Len(SubSeq(req.entries, k, Len(req.entries))) \in Nat
      BY <2>6
    <3>3. keep \in Nat
      BY <2>2, <2>3
    <3> QED
      BY <3>1, <3>2, <3>3
  <2> HIDE DEF log
  <2>8. /\ Least(n.commit, keep) \in Nat /\ Least(n.commit, keep) <= keep
        /\ Least(n.applied, keep) \in Nat /\ Least(n.applied, keep) <= keep
    <3>1. keep \in Nat
      BY <2>2, <2>3
    <3> QED
      BY <2>3, <3>1 DEF Least
  <2>9. m \in Node /\ m.term = n.term /\ m.voted = n.voted
    BY <2>7, <2>8 DEF Node
  <2>10. InLog(m)
    <3>1. /\ m.log = log /\ m.commit = Least(n.commit, keep)
          /\ m.applied = Least(n.applied, keep)
      BY DEF Node
    <3>2. keep \in Nat /\ Len(log) \in Nat
      BY <2>2, <2>3, <2>7
    <3> QED
      BY <2>7, <2>8, <3>1, <3>2 DEF InLog
  <2> QED
    BY <2>1, <2>9, <2>10
<1> QED
  BY <1>1, <1>2

\* HandleAppendEntries keeps the promise about votes and the indexes in the log;
\* its reply is a reply.
LEMMA AppendEntriesFacts ==
  ASSUME NEW n \in Node, InLog(n), NEW req \in AppendRequest
  PROVE  LET m == HandleAppendEntries(n, req)
         IN  /\ m \in Node /\ InLog(m) /\ KeepsVote(n, m)
             /\ AppendReplyOf(n, req) \in AppendReply
<1> DEFINE f == BecomeFollower(n, req.term)
           e == MergeEntries(f, req)
           m == HandleAppendEntries(n, req)
<1>1. req.term \in Nat /\ req.prevIndex \in Nat /\ req.commit \in Nat
  BY DEF AppendRequest
<1>2. n.term \in Nat /\ n.log \in Seq(Entry) /\ Len(n.log) \in Nat
  BY DEF Node
<1>3. /\ f \in Node /\ KeepsVote(n, f)
      /\ f.log = n.log /\ f.commit = n.commit /\ f.applied = n.applied
  BY <1>1, BecomeFollowerFacts
<1>4. InLog(f)
  BY <1>3 DEF InLog
<1> HIDE DEF f
<1>5. m \in Node /\ InLog(m) /\ KeepsVote(n, m)
  <2>1. CASE req.term < n.term
    <3>1. m = n
      BY <2>1 DEF HandleAppendEntries
    <3> QED
      BY <1>2, <3>1 DEF KeepsVote
  <2>2. CASE ~(req.term < n.term) /\ ~AcceptsEntries(n, req)
    <3>1. m = f
      BY <2>2 DEF HandleAppendEntries, f
    <3> QED
      BY <1>3, <1>4, <3>1
  <2>3. CASE ~(req.term < n.term) /\ AcceptsEntries(n, req)
    <3>1. req.prevIndex <= Len(f.log)
      <4>1. CASE req.prevIndex = 0
        BY <1>2, <1>3, <4>1
      <4>2. CASE req.prevIndex # 0
        BY <1>3, <2>3, <4>2 DEF AcceptsEntries, HasLogAt
      <4> QED
        BY <4>1, <4>2
    <3>2. e \in Node /\ InLog(e) /\ e.term = f.term /\ e.voted = f.voted
      BY <1>3, <1>4, <3>1, MergeEntriesFacts
    <3>3. KeepsVote(n, e)
      BY <1>3, <3>2 DEF KeepsVote
    <3> HIDE DEF e
    <3>4. CASE req.commit > e.commit
      <4> DEFINE c == Least(req.commit, Len(e.log))
      <4>1. m = [e EXCEPT !.commit = c]
        BY <2>3, <3>4 DEF HandleAppendEntries, LastIndex, f, e
      <4>2. Len(e.log) \in Nat /\ e.applied \in Nat /\ e.log \in Seq(Entry)
        BY <3>2 DEF Node
      <4>3. c \in Nat /\ c <= Len(e.log)
        BY <1>1, <4>2 DEF Least
      <4> HIDE DEF c
      <4>4. /\ m \in Node /\ m.log = e.log /\ m.commit = c
            /\ m.applied = e.applied /\ m.term = e.term /\ m.voted = e.voted
        BY <3>2, <4>1, <4>3 DEF Node
      <4>5. InLog(m)
        BY <3>2, <4>3, <4>4 DEF InLog
      <4>6. KeepsVote(n, m)
        BY <3>3, <4>4 DEF KeepsVote
      <4> QED
        BY <4>4, <4>5, <4>6
    <3>5. CASE ~(req.commit > e.commit)
      <4>1. m = e
        BY <2>3, <3>5 DEF HandleAppendEntries, f, e
      <4> QED
        BY <3>2, <3>3, <4>1
    <3> QED
      BY <3>4, <3>5
  <2> QED
    BY <2>1, <2>2, <2>3
<1>6. AppendReplyOf(n, req) \in AppendReply
  <2>1. LastIndex(m) \in Nat
    BY <1>5, LastFacts
  <2>2. AcceptsEntries(n, req) \in BOOLEAN
    BY DEF AcceptsEntries, HasLogAt
  <2> QED
    BY <2>1, <2>2 DEF AppendReplyOf, AppendReply
<1> QED
  BY <1>5, <1>6

LEMMA TakeCommittedFacts ==
  ASSUME NEW n \in Node, InLog(n)
  PROVE  LET m == TakeCommittedEntries(n)
         IN  /\ m \in Node /\ InLog(m) /\ m.log = n.log
             /\ m.term = n.term /\ m.voted = n.voted
<1>1. CASE n.applied < n.commit
  <2> DEFINE m == [n EXCEPT !.applied = n.commit]
  <2>1. TakeCommittedEntries(n) = m
    BY <1>1 DEF TakeCommittedEntries
  <2>2. /\ m \in Node /\ m.log = n.log /\ m.commit = n.commit
        /\ m.applied = n.commit /\ m.term = n.term /\ m.voted = n.voted
    BY DEF Node
  <2>3. InLog(m)
    BY <2>2 DEF InLog
  <2> QED
    BY <2>1, <2>2, <2>3
<1>2. CASE ~(n.applied < n.commit)
  BY <1>2 DEF TakeCommittedEntries
<1> QED
  BY <1>1, <1>2

LEMMA SetCommitIndexFacts ==
  ASSUME NEW n \in Node, InLog(n), NEW i \in Nat
  PROVE  LET m == SetCommitIndex(n, i)
         IN  /\ m \in Node /\ InLog(m) /\ m.log = n.log
             /\ m.term = n.term /\ m.voted = n.voted
<1> DEFINE c == Least(i, LastIndex(n))
           m == SetCommitIndex(n, i)
<1>1. c \in Nat /\ c <= Len(n.log)
  <2>1. LastIndex(n) \in Nat
    BY LastFacts
  <2> QED
    BY <2>1 DEF Least, LastIndex
<1> HIDE DEF c
<1>2. m = [n EXCEPT !.commit = c]
  BY DEF SetCommitIndex, c
<1>3. /\ m \in Node /\ m.log = n.log /\ m.commit = c
      /\ m.applied = n.applied /\ m.term = n.term /\ m.voted = n.voted
  BY <1>1, <1>2 DEF Node
<1>4. InLog(m)
  BY <1>1, <1>3 DEF InLog
<1> QED
  BY <1>3, <1>4

LEMMA ProposeFacts ==
  ASSUME NEW n \in Node, InLog(n), NEW cmd \in Command
  PROVE  LET m == Propose(n, cmd)
         IN  /\ m \in Node /\ InLog(m) /\ LastIndex(m) \in 1 .. Len(m.log)
             /\ m.term = n.term /\ m.voted = n.voted
<1> DEFINE e == [term |-> n.term, cmd |-> cmd]
           l == Append(n.log, e)
           m == Propose(n, cmd)
<1>1. e \in Entry /\ n.log \in Seq(Entry) /\ n.commit \in Nat /\ n.applied \in Nat
  BY DEF Node, Entry
<1> HIDE DEF e
<1>2. l \in Seq(Entry) /\ Len(l) = Len(n.log) + 1 /\ Len(n.log) \in Nat
  BY <1>1
<1> HIDE DEF l
<1>3. m = [n EXCEPT !.log = l]
  BY DEF Propose, l, e
<1>4. /\ m \in Node /\ m.log = l /\ m.commit = n.commit
      /\ m.applied = n.applied /\ m.term = n.term /\ m.voted = n.voted
  BY <1>2, <1>3 DEF Node
<1>5. InLog(m)
  BY <1>1, <1>2, <1>4 DEF InLog
<1>6. LastIndex(m) \in 1 .. Len(m.log)
  BY <1>2, <1>4 DEF LastIndex
<1> QED
  BY <1>4, <1>5, <1>6

LEMMA NewNodeFacts == NewNode \in Node /\ InLog(NewNode)
BY DEF NewNode, Node, Role, InLog, None

-----------------------------------------------------------------------------
\* The data directory: every write, and every prefix of one, leaves a disk.

LEMMA EmptyDiskFacts == IsDisk(EmptyDisk)
<1>1. IsLogImage(EmptyDisk.log)
  BY DEF EmptyDisk, IsLogImage
<1>2. EmptyDisk.kv \in [Key -> Value \cup {NoValue}]
  BY DEF EmptyDisk
<1> QED
  BY <1>1, <1>2 DEF EmptyDisk, IsDisk, HardStateKeys, None

LEMMA SaveHardStateFacts ==
  ASSUME NEW d, IsDisk(d), NEW n \in Node, NEW w \in 0 .. HardStateKeys
  PROVE  LET e == SaveHardStatePrefix(d, n, w)
         IN  /\ IsDisk(e) /\ e.log = d.log /\ e.kv = d.kv
             /\ e.saved  = IF w > d.saved THEN w ELSE d.saved
             /\ e.term   = IF w >= 1 THEN n.term ELSE d.term
             /\ e.voted  = IF w >= 2 THEN n.voted ELSE d.voted
<1> DEFINE e == SaveHardStatePrefix(d, n, w)
<1>1. DOMAIN d = {"saved", "term", "voted", "commit", "applied", "log", "kv"}
  BY DEF IsDisk
<1>2. /\ DOMAIN e = DOMAIN d /\ e.log = d.log /\ e.kv = d.kv
      /\ e.saved   = IF w > d.saved THEN w ELSE d.saved
      /\ e.term    = IF w >= 1 THEN n.term ELSE d.term
      /\ e.voted   = IF w >= 2 THEN n.voted ELSE d.voted
      /\ e.commit  = IF w >= 3 THEN n.commit ELSE d.commit
      /\ e.applied = IF w >= 4 THEN n.applied ELSE d.applied
  BY <1>1 DEF SaveHardStatePrefix
<1> HIDE DEF e
<1>3. /\ n.term \in Nat /\ n.voted \in Peer \cup {None}
      /\ n.commit \in Nat /\ n.applied \in Nat
  BY DEF Node
<1>4. /\ d.saved \in 0 .. HardStateKeys /\ d.term \in Nat
      /\ d.voted \in Peer \cup {None} /\ d.commit \in Nat /\ d.applied \in Nat
      /\ IsLogImage(d.log) /\ d.kv \in [Key -> Value \cup {NoValue}]
  BY DEF IsDisk
<1>5. /\ e.saved \in 0 .. HardStateKeys /\ e.term \in Nat
      /\ e.voted \in Peer \cup {None} /\ e.commit \in Nat /\ e.applied \in Nat
  BY <1>2, <1>3, <1>4
<1>6. IsDisk(e)
  BY <1>1, <1>2, <1>4, <1>5 DEF IsDisk
<1> QED
  BY <1>2, <1>6 DEF e

\* A write to the log keeps the rest of the disk.
LEMMA LogWriteFacts ==
  ASSUME NEW d, IsDisk(d), NEW l, IsLogImage(l)
  PROVE  LET e == [d EXCEPT !.log = l]
         IN  /\ IsDisk(e) /\ e.saved = d.saved /\ e.term = d.term
             /\ e.voted = d.voted
<1> DEFINE e == [d EXCEPT !.log = l]
<1>1. DOMAIN d = {"saved", "term", "voted", "commit", "applied", "log", "kv"}
  BY DEF IsDisk
<1>2. /\ DOMAIN e = DOMAIN d /\ e.log = l /\ e.kv = d.kv /\ e.saved = d.saved
      /\ e.term = d.term /\ e.voted = d.voted /\ e.commit = d.commit
      /\ e.applied = d.applied
  BY <1>1
<1> HIDE DEF e
<1>3. IsDisk(e)
  BY <1>1, <1>2 DEF IsDisk
<1> QED
  BY <1>2, <1>3 DEF e

\* So does a write to the user keys.
LEMMA KvWriteFacts ==
  ASSUME NEW d, IsDisk(d), NEW kv \in [Key -> Value \cup {NoValue}]
  PROVE  LET e == [d EXCEPT !.kv = kv]
         IN  /\ IsDisk(e) /\ e.saved = d.saved /\ e.term = d.term
             /\ e.voted = d.voted /\ e.kv = kv
<1> DEFINE e == [d EXCEPT !.kv = kv]
<1>1. DOMAIN d = {"saved", "term", "voted", "commit", "applied", "log", "kv"}
  BY DEF IsDisk
<1>2. /\ DOMAIN e = DOMAIN d /\ e.log = d.log /\ e.kv = kv /\ e.saved = d.saved
      /\ e.term = d.term /\ e.voted = d.voted /\ e.commit = d.commit
      /\ e.applied = d.applied
  BY <1>1
<1> HIDE DEF e
<1>3. IsDisk(e)
  BY <1>1, <1>2 DEF IsDisk
<1> QED
  BY <1>2, <1>3 DEF e

\* The writes outside SaveHardState leave the saved hard state alone.
SameHardState(d, e) == e.saved = d.saved /\ e.term = d.term /\ e.voted = d.voted

LEMMA AppendLogFacts ==
  ASSUME NEW d, IsDisk(d), NEW log \in Seq(Entry), NEW i \in 1 .. Len(log)
  PROVE  IsDisk(AppendLog(d, log, i)) /\ SameHardState(d, AppendLog(d, log, i))
<1> DEFINE l == [j \in DOMAIN d.log \cup {i} |-> IF j = i THEN log[i] ELSE d.log[j]]
<1>1. IsLogImage(l)
  <2>1. IsLogImage(d.log)
    BY DEF IsDisk
  <2>2. log[i] \in Entry /\ i \in Nat \ {0}
    OBVIOUS
  <2> QED
    BY <2>1, <2>2 DEF IsLogImage
<1> HIDE DEF l
<1>2. AppendLog(d, log, i) = [d EXCEPT !.log = l]
  BY DEF AppendLog, l
<1> QED
  BY <1>1, <1>2, LogWriteFacts DEF SameHardState

LEMMA PersistLogFacts ==
  ASSUME NEW d, IsDisk(d), NEW log \in Seq(Entry), NEW first \in Nat \ {0},
         NEW upto \in Int, upto <= Len(log)
  PROVE  LET e == PersistLogUpTo(d, log, first, upto)
         IN  IsDisk(e) /\ SameHardState(d, e)
<1> DEFINE l == [j \in {i \in DOMAIN d.log : i < first} \cup first .. upto |->
                   IF j < first THEN d.log[j] ELSE log[j]]
<1>1. IsLogImage(l)
  <2>1. IsLogImage(d.log)
    BY DEF IsDisk
  <2>2. ASSUME NEW j \in {i \in DOMAIN d.log : i < first} \cup first .. upto
        PROVE  j \in Nat \ {0} /\ (IF j < first THEN d.log[j] ELSE log[j]) \in Entry
    <3>1. CASE j \in DOMAIN d.log /\ j < first
      BY <2>1, <3>1 DEF IsLogImage
    <3>2. CASE j \in first .. upto
      <4>1. j \in 1 .. Len(log) /\ ~(j < first)
        BY <3>2
      <4>2. log[j] \in Entry
        BY <4>1, ElementOfSeq
      <4> QED
        BY <4>1, <4>2
    <3> QED
      BY <3>1, <3>2
  <2> QED
    BY <2>2 DEF IsLogImage
<1> HIDE DEF l
<1>2. PersistLogUpTo(d, log, first, upto) = [d EXCEPT !.log = l]
  BY DEF PersistLogUpTo, l
<1> QED
  BY <1>1, <1>2, LogWriteFacts DEF SameHardState

LEMMA TornLogFacts ==
  ASSUME NEW d, IsDisk(d), NEW log \in Seq(Entry), NEW first \in Nat \ {0},
         NEW e \in TornLogFrom(d, log, first)
  PROVE  IsDisk(e) /\ SameHardState(d, e)
<1>1. ASSUME NEW upto, e = [d EXCEPT !.log = Restrict(d.log, DOMAIN d.log \ (first .. upto))]
      PROVE  IsDisk(e) /\ SameHardState(d, e)
  <2> DEFINE l == Restrict(d.log, DOMAIN d.log \ (first .. upto))
  <2>1. IsLogImage(d.log)
    BY DEF IsDisk
  <2>2. IsLogImage(l)
    BY <2>1 DEF IsLogImage, Restrict
  <2> HIDE DEF l
  <2>3. e = [d EXCEPT !.log = l]
    BY <1>1 DEF l
  <2> QED
    BY <2>2, <2>3, LogWriteFacts DEF SameHardState
<1>2. ASSUME NEW upto \in (first - 1) .. Len(log), e = PersistLogUpTo(d, log, first, upto)
      PROVE  IsDisk(e) /\ SameHardState(d, e)
  <2>1. upto \in Int /\ upto <= Len(log)
    BY <1>2
  <2> QED
    BY <1>2, <2>1, PersistLogFacts
<1> QED
  BY <1>1, <1>2 DEF TornLogFrom

\* A command writes values to keys.
LEMMA CommandFacts ==
  ASSUME NEW cmd \in Command, NEW k \in DOMAIN cmd
  PROVE  cmd[k] \in Value \cup {NoValue}
<1>1. PICK ks \in SUBSET Key : cmd \in [ks -> Value \cup {NoValue}]
  BY CommandAssumption
<1> QED
  BY <1>1

LEMMA ApplyKvFacts ==
  ASSUME NEW d, IsDisk(d), NEW log \in Seq(Entry),
         NEW from \in Nat \ {0}, NEW to \in Int, to <= Len(log)
  PROVE  LET e == ApplyKvCommands(d, log, from, to)
         IN  IsDisk(e) /\ SameHardState(d, e) /\ e.kv \in [Key -> Value \cup {NoValue}]
<1> DEFINE writers(k) == {i \in from .. to : k \in DOMAIN log[i].cmd}
           kv == [k \in Key |-> IF writers(k) = {} THEN d.kv[k]
                                ELSE log[Max(writers(k))].cmd[k]]
<1>1. Len(log) \in Nat /\ d.kv \in [Key -> Value \cup {NoValue}]
  BY DEF IsDisk
<1>2. ASSUME NEW k \in Key, writers(k) # {}
      PROVE  log[Max(writers(k))].cmd[k] \in Value \cup {NoValue}
  <2>1. writers(k) \in SUBSET Nat /\ \A s \in writers(k) : s <= Len(log)
    BY <1>1
  <2>2. Max(writers(k)) \in writers(k)
    BY <1>1, <1>2, <2>1, MaxOfBoundedNats
  <2>3. PICK i \in from .. to : i = Max(writers(k)) /\ k \in DOMAIN log[i].cmd
    BY <2>2
  <2>4. i \in 1 .. Len(log)
    BY <1>1
  <2>5. log[i] \in Entry
    BY <2>4, ElementOfSeq
  <2>6. log[i].cmd \in Command
    BY <2>5 DEF Entry
  <2> QED
    BY <2>3, <2>6, CommandFacts
<1>3. kv \in [Key -> Value \cup {NoValue}]
  BY <1>1, <1>2
<1>4. ApplyKvCommands(d, log, from, to) = [d EXCEPT !.kv = kv]
  BY DEF ApplyKvCommands
<1> HIDE DEF kv
<1> QED
  BY <1>3, <1>4, KvWriteFacts DEF SameHardState

LEMMA ApplyCommittedFacts ==
  ASSUME NEW d, IsDisk(d), NEW n \in Node, InLog(n)
  PROVE  IsDisk(ApplyCommitted(d, n)) /\ SameHardState(d, ApplyCommitted(d, n))
<1>1. /\ n.log \in Seq(Entry) /\ n.applied + 1 \in Nat \ {0}
      /\ n.commit \in Int /\ n.commit <= Len(n.log)
  BY DEF Node, InLog
<1> QED
  BY <1>1, ApplyKvFacts DEF ApplyCommitted

LEMMA TornApplyFacts ==
  ASSUME NEW d, IsDisk(d), NEW n \in Node, InLog(n), NEW e \in TornApply(d, n)
  PROVE  IsDisk(e) /\ SameHardState(d, e)
<1>1. /\ n.log \in Seq(Entry) /\ n.applied + 1 \in Nat \ {0} /\ Len(n.log) \in Nat
      /\ n.commit \in Nat /\ n.applied \in Nat /\ n.commit <= Len(n.log)
  BY DEF Node, InLog
<1>2. ASSUME NEW i \in n.applied .. n.commit,
             e = ApplyKvCommands(d, n.log, n.applied + 1, i)
      PROVE  IsDisk(e) /\ SameHardState(d, e)
  <2>1. i \in Int /\ i <= Len(n.log)
    BY <1>1
  <2> QED
    BY <1>1, <1>2, <2>1, ApplyKvFacts
<1>3. ASSUME NEW i \in CommittedEntries(n), NEW ks \in SUBSET DOMAIN n.log[i].cmd,
             LET f == ApplyKvCommands(d, n.log, n.applied + 1, i - 1)
             IN  e = [f EXCEPT !.kv = [k \in Key |-> IF k \in ks THEN n.log[i].cmd[k]
                                                     ELSE f.kv[k]]]
      PROVE  IsDisk(e) /\ SameHardState(d, e)
  <2> DEFINE f  == ApplyKvCommands(d, n.log, n.applied + 1, i - 1)
             kv == [k \in Key |-> IF k \in ks THEN n.log[i].cmd[k] ELSE f.kv[k]]
  <2>1. i \in 1 .. Len(n.log) /\ i - 1 \in Int /\ i - 1 <= Len(n.log)
    BY <1>1 DEF CommittedEntries
  <2>2. /\ IsDisk(f) /\ SameHardState(d, f)
        /\ f.kv \in [Key -> Value \cup {NoValue}]
    BY <1>1, <2>1, ApplyKvFacts
  <2>3. n.log[i] \in Entry
    BY <1>1, <2>1, ElementOfSeq
  <2>4. n.log[i].cmd \in Command
    BY <2>3 DEF Entry
  <2>5. \A k \in ks : n.log[i].cmd[k] \in Value \cup {NoValue}
    BY <2>4, CommandFacts
  <2>6. kv \in [Key -> Value \cup {NoValue}]
    BY <2>2, <2>5
  <2>7. e = [f EXCEPT !.kv = kv]
    BY <1>3
  <2> HIDE DEF f, kv
  <2>8. IsDisk(e) /\ SameHardState(f, e)
    BY <2>2, <2>6, <2>7, KvWriteFacts DEF SameHardState
  <2> QED
    BY <2>2, <2>8 DEF SameHardState
<1>4. \/ \E i \in n.applied .. n.commit :
           e = ApplyKvCommands(d, n.log, n.applied + 1, i)
      \/ \E i \in CommittedEntries(n) : \E ks \in SUBSET DOMAIN n.log[i].cmd :
           LET f == ApplyKvCommands(d, n.log, n.applied + 1, i - 1)
           IN  e = [f EXCEPT !.kv = [k \in Key |-> IF k \in ks THEN n.log[i].cmd[k]
                                                   ELSE f.kv[k]]]
  BY DEF TornApply
<1> QED
  BY <1>2, <1>3, <1>4

\* What Bootstrap restores is a node, with its indexes inside its log.
LEMMA BootstrapFacts ==
  ASSUME NEW d, IsDisk(d), CanBootstrap(d)
  PROVE  LET n == BootstrapNode(d)
         IN  /\ n \in Node /\ InLog(n)
             /\ HasHardState(d)  => n.term = d.term /\ n.voted = d.voted
             /\ ~HasHardState(d) => n.term = 0 /\ n.voted = None
<1>1. CASE ~HasHardState(d)
  BY <1>1, NewNodeFacts DEF BootstrapNode, NewNode
<1>2. CASE HasHardState(d)
  <2> DEFINE n == [role |-> "Follower", term |-> d.term, voted |-> d.voted,
                   commit |-> d.commit, applied |-> d.applied, log |-> d.log]
  <2>1. BootstrapNode(d) = n
    BY <1>2 DEF BootstrapNode
  <2>2. PICK len \in 0 .. Cardinality(DOMAIN d.log) : DOMAIN d.log = 1 .. len
    BY <1>2 DEF CanBootstrap, Restorable
  <2>3. len \in Nat
    BY <2>2
  <2>4. d.log \in [1 .. len -> Entry]
    BY <2>2 DEF IsDisk, IsLogImage
  <2>5. d.log \in Seq(Entry) /\ Len(d.log) = len
    BY <2>3, <2>4
  <2>6. Cardinality(DOMAIN d.log) = len
    BY <2>2, <2>3, FS_Interval
  <2>7. /\ d.term \in Nat /\ d.voted \in Peer \cup {None}
        /\ d.commit \in Nat /\ d.applied \in Nat
    BY DEF IsDisk
  <2>8. n \in Node
    BY <2>5, <2>7 DEF Node, Role
  <2>9. d.commit <= len /\ d.applied <= len
    BY <1>2, <2>3, <2>6, <2>7 DEF CanBootstrap, Restorable
  <2>10. InLog(n)
    BY <2>5, <2>9 DEF InLog
  <2> QED
    BY <1>2, <2>1, <2>8, <2>10
<1> QED
  BY <1>1, <1>2
=============================================================================
