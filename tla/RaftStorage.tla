----------------------------- MODULE RaftStorage -----------------------------
(***************************************************************************)
(* What a peer keeps in its FileKvEngine: the hard state and the log that  *)
(* RaftStorage writes under raft/..., and the user keys that committed     *)
(* commands write.  The engine appends one line to kv.log per mutation, so *)
(* a process that dies in the middle of a WriteBatch, or between two of    *)
(* them, leaves a prefix of its mutations: the operators Torn...(...) give *)
(* the sets of images such a crash can leave.                              *)
(*                                                                         *)
(* d.saved is the number of hard-state keys that exist: SaveHardState puts *)
(* current_term, voted_for, commit_index, last_applied in this order.      *)
(* d.log maps the indexes that have a log record to their entries; after a *)
(* torn DeleteLogsFrom they need not be contiguous.                        *)
(***************************************************************************)
EXTENDS RaftNode

HardStateKeys == 4

\* A type test for d.log: a function from some indexes to entries.
IsLogImage(l) ==
  /\ DOMAIN l \subseteq Nat \ {0}
  /\ l \in [DOMAIN l -> Entry]

IsDisk(d) ==
  /\ DOMAIN d = {"saved", "term", "voted", "commit", "applied", "log", "kv"}
  /\ d.saved \in 0 .. HardStateKeys
  /\ d.term \in Nat
  /\ d.voted \in Peer \cup {None}
  /\ d.commit \in Nat
  /\ d.applied \in Nat
  /\ IsLogImage(d.log)
  /\ d.kv \in [Key -> Value \cup {NoValue}]

\* An empty data directory.
EmptyDisk == [saved |-> 0, term |-> 0, voted |-> None, commit |-> 0,
              applied |-> 0, log |-> <<>>, kv |-> [k \in Key |-> NoValue]]

-----------------------------------------------------------------------------
\* The first w of the four puts of SaveHardState.
SaveHardStatePrefix(d, n, w) ==
  [d EXCEPT !.saved   = IF w > d.saved THEN w ELSE d.saved,
            !.term    = IF w >= 1 THEN n.term ELSE d.term,
            !.voted   = IF w >= 2 THEN n.voted ELSE d.voted,
            !.commit  = IF w >= 3 THEN n.commit ELSE d.commit,
            !.applied = IF w >= 4 THEN n.applied ELSE d.applied]

SaveHardState(d, n) == SaveHardStatePrefix(d, n, HardStateKeys)

TornHardState(d, n) ==
  {SaveHardStatePrefix(d, n, w) : w \in 0 .. HardStateKeys}

\* AppendLog of the entry at index i of log.
AppendLog(d, log, i) ==
  [d EXCEPT !.log = [j \in DOMAIN d.log \cup {i} |->
                       IF j = i THEN log[i] ELSE d.log[j]]]

\* PersistLogFrom(first) once the records first .. upto have been written
\* again: all old records from first on are gone (DeleteLogsFrom).
PersistLogUpTo(d, log, first, upto) ==
  [d EXCEPT !.log = [j \in {i \in DOMAIN d.log : i < first} \cup first .. upto |->
                       IF j < first THEN d.log[j] ELSE log[j]]]

PersistLogFrom(d, log, first) == PersistLogUpTo(d, log, first, Len(log))

\* Crash inside PersistLogFrom: the deletes run in index order, then the puts.
TornLogFrom(d, log, first) ==
       {[d EXCEPT !.log = Restrict(d.log, DOMAIN d.log \ (first .. upto))] :
          upto \in {first - 1} \cup {i \in DOMAIN d.log : i >= first}}
  \cup {PersistLogUpTo(d, log, first, upto) : upto \in (first - 1) .. Len(log)}

\* The user keys after ApplyKvCommand on the entries `from' .. `to' of log:
\* the last command that writes a key decides.
ApplyKvCommands(d, log, from, to) ==
  LET writers(k) == {i \in from .. to : k \in DOMAIN log[i].cmd}
  IN  [d EXCEPT !.kv = [k \in Key |->
         IF writers(k) = {} THEN d.kv[k] ELSE log[Max(writers(k))].cmd[k]]]

\* Mutant of ApplyCommitted: the last committed entry is left out.
ApplyAllButLast(d, n) == ApplyKvCommands(d, n.log, n.applied + 1, n.commit - 1)

\* ApplyCommitted: TakeCommittedEntries, then one engine write per entry.
ApplyCommitted(d, n) == ApplyKvCommands(d, n.log, n.applied + 1, n.commit)

\* Crash inside ApplyCommitted: some commands whole, at most one batch in part
\* (its mutations are written in some fixed order, so any subset may be there).
TornApply(d, n) ==
  {ApplyKvCommands(d, n.log, n.applied + 1, i) : i \in n.applied .. n.commit}
    \cup
  UNION {LET e == ApplyKvCommands(d, n.log, n.applied + 1, i - 1)
         IN  {[e EXCEPT !.kv = [k \in Key |-> IF k \in ks THEN n.log[i].cmd[k]
                                                          ELSE e.kv[k]]] :
                ks \in SUBSET DOMAIN n.log[i].cmd} :
         i \in CommittedEntries(n)}

-----------------------------------------------------------------------------
\* LoadHardState finds all four keys; otherwise the peer starts afresh, with
\* an empty log whatever log records there are.
HasHardState(d) == d.saved = HardStateKeys

\* The checks of RaftNode::Restore on what LoadLog found.
Restorable(d) ==
  /\ \E len \in 0 .. Cardinality(DOMAIN d.log) : DOMAIN d.log = 1 .. len
  /\ d.commit <= Cardinality(DOMAIN d.log)
  /\ d.applied <= d.commit

\* DistributedRegionNode::Bootstrap succeeds on this data directory ...
CanBootstrap(d) == HasHardState(d) => Restorable(d)

\* Mutant of BootstrapNode: voted_for is not restored.
BootstrapForgetsVote(d) ==
  IF HasHardState(d)
  THEN [role |-> "Follower", term |-> d.term, voted |-> None,
        commit |-> d.commit, applied |-> d.applied, log |-> d.log]
  ELSE NewNode

\* ... and the RaftNode it then holds.
BootstrapNode(d) ==
  IF HasHardState(d)
  THEN [role |-> "Follower", term |-> d.term, voted |-> d.voted,
        commit |-> d.commit, applied |-> d.applied, log |-> d.log]
  ELSE NewNode
=============================================================================
