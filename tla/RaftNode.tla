------------------------------ MODULE RaftNode ------------------------------
(***************************************************************************)
(* The Raft core of one peer (class RaftNode): pure operators that take    *)
(* the peer's in-memory state, a record n of type Node, and return the     *)
(* state, the reply or the truth value that the C++ method computes.  The  *)
(* class does no I/O and has no lock; who calls a method, when the result  *)
(* is saved and what runs in between is the business of DistributedRegion. *)
(*                                                                         *)
(* A log is a sequence of entries: log_[i - 1].index = i holds for every   *)
(* log the class builds (Propose and the appends keep it, Restore checks   *)
(* it), so an entry's index is its position.  A command is the function    *)
(* from the keys it writes to their new values; the empty value NoValue    *)
(* stands for a deletion.                                                  *)
(***************************************************************************)
EXTENDS Integers, Sequences, FiniteSetsExt

CONSTANTS
  Peer,     \* the peer ids of the region, in the order of region_.peers
  Key,      \* user keys of the region
  Value,    \* values of the keys
  NoValue,  \* a key that is not in the engine
  Command   \* the commands clients propose: Put, Delete and Batch payloads

None == 0   \* voted_for_ without a value; peer ids start at 1

ASSUME PeerAssumption ==
  /\ Peer \in SUBSET (Nat \ {0})
  /\ Peer # {}
  /\ IsFiniteSet(Peer)

ASSUME CommandAssumption ==
  /\ NoValue \notin Value
  /\ \A cmd \in Command : \E ks \in SUBSET Key :
       ks # {} /\ cmd \in [ks -> Value \cup {NoValue}]

Role  == {"Follower", "Candidate", "Leader"}
Entry == [term : Nat, cmd : Command]
Node  == [role : Role, term : Nat, voted : Peer \cup {None},
          commit : Nat, applied : Nat, log : Seq(Entry)]

\* Messages, as their Put...Fields write and their Get...Fields read them.  The
\* region id is fixed; the term of a reply is sent but no caller looks at it, so
\* it is left out.  `entries' starts at index prevIndex + 1: ReplicateToStore.
VoteRequest   == [type : {"vote"}, term : Nat, from : Peer,
                  lastIndex : Nat, lastTerm : Nat]
AppendRequest == [type : {"append"}, term : Nat, from : Peer, prevIndex : Nat,
                  prevTerm : Nat, entries : Seq(Entry), commit : Nat]
VoteReply     == [type : {"vote"}, granted : BOOLEAN]
AppendReply   == [type : {"append"}, success : BOOLEAN, match : Nat]

-----------------------------------------------------------------------------
\* A freshly constructed RaftNode.
NewNode == [role |-> "Follower", term |-> 0, voted |-> None,
            commit |-> 0, applied |-> 0, log |-> <<>>]

LastIndex(n) == Len(n.log)

LastTerm(n) == IF n.log = <<>> THEN 0 ELSE n.log[Len(n.log)].term

Least(a, b) == IF a < b THEN a ELSE b

\* Mutant of BecomeFollower: the vote is cleared in the current term, too.
BecomeFollowerForgetsVote(n, term) ==
  [n EXCEPT !.role = "Follower", !.term = IF term > n.term THEN term ELSE n.term,
            !.voted = None]

\* A higher term clears the vote; an equal or lower one only changes the role.
BecomeFollower(n, term) ==
  IF term > n.term
  THEN [n EXCEPT !.role = "Follower", !.term = term, !.voted = None]
  ELSE [n EXCEPT !.role = "Follower"]

BecomeCandidate(n, self) ==
  [n EXCEPT !.role = "Candidate", !.term = n.term + 1, !.voted = self]

\* The term is not checked: whatever term the node is in, it leads it.
BecomeLeader(n) == [n EXCEPT !.role = "Leader"]

\* Mutant of IsCandidateLogUpToDate: the comparison is dropped.
AnyLogIsUpToDate(n, req) == req.lastIndex >= 0

IsCandidateLogUpToDate(n, req) ==
  IF req.lastTerm # LastTerm(n)
  THEN req.lastTerm > LastTerm(n)
  ELSE req.lastIndex >= LastIndex(n)

\* Mutant of VoteTerm: a leader that learns of a later term goes on leading.
VoteTermKeepsRole(n, req) ==
  IF req.term > n.term THEN [n EXCEPT !.term = req.term, !.voted = None] ELSE n

\* The node after the term comparison of HandleRequestVote (not stale).
VoteTerm(n, req) == IF req.term > n.term THEN BecomeFollower(n, req.term) ELSE n

\* Mutant of GrantsVote: an earlier vote in the same term is not looked at.
GrantsVoteAgain(n, req) == req.term >= n.term /\ IsCandidateLogUpToDate(n, req)

GrantsVote(n, req) ==
  /\ req.term >= n.term
  /\ VoteTerm(n, req).voted \in {None, req.from}
  /\ IsCandidateLogUpToDate(n, req)

HandleRequestVote(n, req) ==
  IF req.term < n.term THEN n
  ELSE IF GrantsVote(n, req) THEN [VoteTerm(n, req) EXCEPT !.voted = req.from]
       ELSE VoteTerm(n, req)

HasLogAt(n, index, term) ==
  IF index = 0 THEN term = 0
               ELSE index <= Len(n.log) /\ n.log[index].term = term

\* Positions of req.entries that are not already in the log with that term.
NewEntries(n, req) ==
  {i \in 1 .. Len(req.entries) :
     \/ req.prevIndex + i > Len(n.log)
     \/ n.log[req.prevIndex + i].term # req.entries[i].term}

\* The loop over request.entries: the first new entry deletes the log from
\* its index on (DeleteFrom, which also pulls commit_index_ and last_applied_
\* back), then it and all entries after it are pushed.
MergeEntries(n, req) ==
  IF NewEntries(n, req) = {} THEN n
  ELSE LET k    == Min(NewEntries(n, req))
           keep == req.prevIndex + k - 1
       IN  [n EXCEPT !.log = SubSeq(n.log, 1, keep) \o
                               SubSeq(req.entries, k, Len(req.entries)),
                     !.commit = Least(n.commit, keep),
                     !.applied = Least(n.applied, keep)]

AcceptsEntries(n, req) ==
  /\ req.term >= n.term
  /\ HasLogAt(n, req.prevIndex, req.prevTerm)

HandleAppendEntries(n, req) ==
  IF req.term < n.term THEN n
  ELSE LET f == BecomeFollower(n, req.term)
           m == MergeEntries(f, req)
       IN  IF ~AcceptsEntries(n, req) THEN f
           ELSE IF req.commit > m.commit
                THEN [m EXCEPT !.commit = Least(req.commit, LastIndex(m))]
                ELSE m

\* Mutant of AppendReplyOf: one before the end, without a guard for an empty log.
AppendReplyOffByOne(n, req) ==
  [type |-> "append", success |-> AcceptsEntries(n, req),
   match |-> LastIndex(HandleAppendEntries(n, req)) - 1]

\* Both replies report the end of the log, on rejection too.
AppendReplyOf(n, req) ==
  [type |-> "append", success |-> AcceptsEntries(n, req),
   match |-> LastIndex(HandleAppendEntries(n, req))]

Propose(n, cmd) ==
  [n EXCEPT !.log = Append(n.log, [term |-> n.term, cmd |-> cmd])]

\* Not monotone: a smaller argument lowers the commit index.
SetCommitIndex(n, index) == [n EXCEPT !.commit = Least(index, LastIndex(n))]

\* The indexes TakeCommittedEntries returns, and the node it leaves behind.
CommittedEntries(n) == (n.applied + 1) .. n.commit

TakeCommittedEntries(n) ==
  IF n.applied < n.commit THEN [n EXCEPT !.applied = n.commit] ELSE n
=============================================================================
