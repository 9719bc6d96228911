-------------------------------- MODULE Raft --------------------------------
(***************************************************************************)
(* The Raft core of noedb-raft: raft_core.rs driven by node.rs.            *)
(*                                                                         *)
(* A handler of raft_core.rs changes the node's memory and returns a list  *)
(* of actions; RaftNode::exec persists them, syncs the storage and only    *)
(* then hands the outgoing messages to the transport.  A handler is        *)
(* therefore one step, and a crash falls either between two steps (the     *)
(* messages are lost, which the network below does anyway) or inside the   *)
(* sync, between the write of hard_state.bin and that of log.bin.          *)
(*                                                                         *)
(* The transport opens one connection per RPC, so messages are delivered   *)
(* at most once and in any order.  A message that is lost is one that was  *)
(* never put on the network: each send keeps an arbitrary part of the      *)
(* messages, bounded by MaxInFlight.                                       *)
(*                                                                         *)
(* Timers: an election timeout may fire at any time on a node that is not  *)
(* leader, a heartbeat at any time on a leader.  soft.leader_id is left    *)
(* out (nothing reads it), and so is joint_config, which apply_conf_change *)
(* fills and empties again within the same call.                           *)
(***************************************************************************)
EXTENDS RaftLog, FiniteSets, FiniteSetsExt

CONSTANTS
  Server,            \* node ids
  Nil,               \* no vote
  Command,           \* client commands
  ConfChange,        \* membership changes a leader may propose: [op, id]
  InitConfig,        \* the voters each node's RaftConfig lists
  CompactThreshold,  \* raft_core.rs: compact_threshold
  MaxAppendBatch,    \* config.rs: max_append_batch
  Candidates,        \* bound: the nodes whose election timer may run out
  Crashers,          \* bound: the nodes that may crash
  Readers,           \* bound: the nodes that ask for linearizable reads
  MaxInFlight,       \* bound: messages on the network at a time
  MaxTerm,           \* bound: no election beyond this term
  MaxLog             \* bound: no entry beyond this index

ASSUME ServerAssumption == IsFiniteSet(Server) /\ Nil \notin Server
ASSUME ConfigAssumption == InitConfig \in [Server -> SUBSET Server]
ASSUME CommandAssumption ==
  /\ Noop \notin Command /\ Noop \notin ConfChange
  /\ Command \cap ConfChange = {}
  /\ ConfChange \subseteq [op : {"add", "remove"}, id : Server]
ASSUME BoundAssumption ==
  /\ MaxTerm \in Nat /\ MaxLog \in Nat /\ MaxInFlight \in Nat
  /\ Candidates \subseteq Server /\ Crashers \subseteq Server
  /\ Readers \subseteq Server
  /\ CompactThreshold \in Nat /\ MaxAppendBatch \in Nat \ {0}

VARIABLES
  currentTerm, votedFor, commitIndex, lastApplied,  \* HardState
  log,                                              \* RaftLog
  role, votes, progress, pendingReads,              \* volatile
  voters,                                           \* config.voters
  applied,                                          \* RaftNode.applied
  msgs,                                             \* messages in flight
  ballots,  \* history: the votes cast, as <<voter, term, candidate>>
  reigns    \* history: the elections won, as <<term, leader>>

hardVars == <<currentTerm, votedFor, commitIndex, lastApplied>>
softVars == <<role, votes, progress, pendingReads>>
history == <<ballots, reigns>>
vars == <<hardVars, log, softVars, voters, applied, msgs, history>>

NoProgress == [p \in {} |-> 0]

Quorum(i) == Cardinality(voters[i]) \div 2 + 1

\* The messages received leave the network and some of those sent enter it.
Exchange(received, sent) ==
  \E kept \in SUBSET sent :
    /\ msgs' = (msgs \ received) \cup kept
    /\ Cardinality(msgs') <= MaxInFlight

Send(sent) == Exchange({}, sent)
Reply(m, sent) == Exchange({m}, sent)

-----------------------------------------------------------------------------
(* Messages *)

RequestVoteReq(i, to, term) ==
  [type |-> "RequestVote", from |-> i, to |-> to, term |-> term,
   lastLogIndex |-> LastIndex(log[i]),
   lastLogTerm |-> TermAt(log[i], LastIndex(log[i]))]

RequestVoteResp(i, to, term, granted) ==
  [type |-> "RequestVoteResp", from |-> i, to |-> to, term |-> term,
   granted |-> granted]

AppendEntriesResp(i, to, term, success, last) ==
  [type |-> "AppendEntriesResp", from |-> i, to |-> to, term |-> term,
   success |-> success, lastLogIndex |-> last]

InstallSnapshotResp(i, to, term) ==
  [type |-> "InstallSnapshotResp", from |-> i, to |-> to, term |-> term]

ReadIndexResp(i, to, term, index) ==
  [type |-> "ReadIndexResp", from |-> i, to |-> to, term |-> term,
   readIndex |-> index]

\* The part of node i's state that append_to_peer reads.
Sender(i) == [term |-> currentTerm[i], progress |-> progress[i], log |-> log[i],
              commit |-> commitIndex[i], applied |-> lastApplied[i]]

\* What leader i, in state n, sends to peer p: a snapshot when the peer is at
\* the start of a log longer than the threshold, otherwise the next entries.
AppendToPeer(i, p, n) ==
  LET next == IF p \in DOMAIN n.progress THEN n.progress[p].next ELSE 1
  IN IF next = 1 /\ LastIndex(n.log) > CompactThreshold
     THEN [type |-> "InstallSnapshot", from |-> i, to |-> p, term |-> n.term,
           lastIndex |-> n.applied, lastTerm |-> TermAt(n.log, n.applied)]
     ELSE [type |-> "AppendEntries", from |-> i, to |-> p, term |-> n.term,
           prevLogIndex |-> next - 1, prevLogTerm |-> TermAt(n.log, next - 1),
           entries |-> SliceFrom(n.log, next, MaxAppendBatch),
           leaderCommit |-> n.commit]

BroadcastAppend(i, n) == {AppendToPeer(i, p, n) : p \in voters[i] \ {i}}

FreshProgress(i, vs, l) ==
  [p \in vs \ {i} |-> [next |-> LastIndex(l) + 1, match |-> 0]]

-----------------------------------------------------------------------------
(* Applying committed entries *)

ClientCommands(es) ==
  LET cs == SelectSeq(es, LAMBDA e : e.cmd \in Command)
  IN [k \in DOMAIN cs |-> cs[k].cmd]

\* apply_conf_change: the voter set after one entry, and whether it made the
\* leader rebuild its progress table.
ApplyConfChange(e, c) ==
  IF e.cmd \notin ConfChange THEN c
  ELSE IF e.cmd.op = "add"
       THEN IF e.cmd.id \in c.voters THEN c
            ELSE [voters |-> c.voters \cup {e.cmd.id}, rebuilt |-> TRUE]
       ELSE IF Cardinality(c.voters) > 1
            THEN [voters |-> c.voters \ {e.cmd.id}, rebuilt |-> TRUE]
            ELSE c

ConfAfter(i, es) ==
  IF \E k \in DOMAIN es : es[k].cmd \in ConfChange
  THEN MapThenFoldSet(ApplyConfChange, [voters |-> voters[i], rebuilt |-> FALSE],
                      LAMBDA k : es[k], Max, DOMAIN es)
  ELSE [voters |-> voters[i], rebuilt |-> FALSE]

\* apply_committed on node i with log l and commit index commit: everything
\* between last_applied and commit that the log holds is applied, in order.
ApplyCommitted(i, l, commit) ==
  LET es == EntriesBetween(l, lastApplied[i], commit)
  IN /\ lastApplied' = [lastApplied EXCEPT ![i] = Max({@, commit})]
     /\ applied' = [applied EXCEPT ![i] = @ \o ClientCommands(es)]
     /\ voters' = [voters EXCEPT ![i] = ConfAfter(i, es).voters]

-----------------------------------------------------------------------------
Init ==
  /\ currentTerm = [i \in Server |-> 0]
  /\ votedFor = [i \in Server |-> Nil]
  /\ commitIndex = [i \in Server |-> 0]
  /\ lastApplied = [i \in Server |-> 0]
  /\ log = [i \in Server |-> EmptyLog]
  /\ role = [i \in Server |-> "Follower"]
  /\ votes = [i \in Server |-> {}]
  /\ progress = [i \in Server |-> NoProgress]
  /\ pendingReads = [i \in Server |-> {}]
  /\ voters = InitConfig
  /\ applied = [i \in Server |-> <<>>]
  /\ msgs = {}
  /\ ballots = {}
  /\ reigns = {}

\* Mutant: the role is not reset.
StepDownKeepsRole(i) ==
  /\ votes' = [votes EXCEPT ![i] = {}]
  /\ progress' = [progress EXCEPT ![i] = NoProgress]
  /\ pendingReads' = [pendingReads EXCEPT ![i] = {}]
  /\ UNCHANGED role

\* The volatile half of become_follower.
StepDown(i) ==
  /\ role' = [role EXCEPT ![i] = "Follower"]
  /\ votes' = [votes EXCEPT ![i] = {}]
  /\ progress' = [progress EXCEPT ![i] = NoProgress]
  /\ pendingReads' = [pendingReads EXCEPT ![i] = {}]

\* Mutant: the vote is dropped by a message of the same term too.
AdoptTermForgets(i, term) ==
  /\ currentTerm' = [currentTerm EXCEPT ![i] = Max({@, term})]
  /\ votedFor' = [votedFor EXCEPT ![i] = Nil]

\* The durable half: the vote is dropped only when the term grows.
AdoptTerm(i, term) ==
  /\ currentTerm' = [currentTerm EXCEPT ![i] = Max({@, term})]
  /\ votedFor' = [votedFor EXCEPT ![i] = IF term > currentTerm[i] THEN Nil ELSE @]

\* Raft::tick on a node that is not leader, when its election timer runs out:
\* become_candidate, and become_leader at once when its own vote is a quorum.
ElectionTimeout(i) ==
  LET term == currentTerm[i] + 1
      wins == Quorum(i) <= 1
      fresh == FreshProgress(i, voters[i], log[i])
  IN /\ i \in Candidates
     /\ role[i] # "Leader"
     /\ currentTerm[i] < MaxTerm
     /\ currentTerm' = [currentTerm EXCEPT ![i] = term]
     /\ votedFor' = [votedFor EXCEPT ![i] = i]
     /\ votes' = [votes EXCEPT ![i] = {i}]
     /\ role' = [role EXCEPT ![i] = IF wins THEN "Leader" ELSE "Candidate"]
     /\ progress' = [progress EXCEPT ![i] = IF wins THEN fresh ELSE @]
     /\ Send({RequestVoteReq(i, p, term) : p \in voters[i] \ {i}}
             \cup (IF wins
                   THEN BroadcastAppend(i, [Sender(i) EXCEPT !.term = term,
                                                             !.progress = fresh])
                   ELSE {}))
     /\ ballots' = ballots \cup {<<i, term, i>>}
     /\ reigns' = IF wins THEN reigns \cup {<<term, i>>} ELSE reigns
     /\ UNCHANGED <<commitIndex, lastApplied, log, pendingReads, voters, applied>>

\* Raft::tick on a leader whose heartbeat timer runs out.
HeartbeatTimeout(i) ==
  /\ role[i] = "Leader"
  /\ Send(BroadcastAppend(i, Sender(i)))
  /\ UNCHANGED <<hardVars, log, softVars, voters, applied, history>>

\* RaftNode::propose on the leader, for a command or a membership change.
Propose(i, c) ==
  LET l == Append(log[i], [term |-> currentTerm[i], cmd |-> c])
  IN /\ role[i] = "Leader"
     /\ LastIndex(log[i]) < MaxLog
     /\ log' = [log EXCEPT ![i] = l]
     /\ Send(BroadcastAppend(i, [Sender(i) EXCEPT !.log = l]))
     /\ UNCHANGED <<hardVars, softVars, voters, applied, history>>

\* RaftNode::read_index: a barrier entry, and a read waiting for its index.
ReadIndex(i) ==
  LET l == Append(log[i], [term |-> currentTerm[i], cmd |-> Noop])
  IN /\ role[i] = "Leader"
     /\ LastIndex(log[i]) < MaxLog
     /\ log' = [log EXCEPT ![i] = l]
     /\ pendingReads' = [pendingReads EXCEPT ![i] = @ \cup {LastIndex(l)}]
     /\ Send(BroadcastAppend(i, [Sender(i) EXCEPT !.log = l]))
     /\ UNCHANGED <<hardVars, role, votes, progress, voters, applied, history>>

-----------------------------------------------------------------------------
(* Elections *)

LogIsUpToDate(i, lastIndex, lastTerm) ==
  LET myTerm == TermAt(log[i], LastIndex(log[i]))
  IN \/ lastTerm > myTerm
     \/ lastTerm = myTerm /\ lastIndex >= LastIndex(log[i])

\* Mutant: an earlier vote of the term does not count.
GrantsAgain(i, m) ==
  /\ m.term >= currentTerm[i]
  /\ LogIsUpToDate(i, m.lastLogIndex, m.lastLogTerm)

\* The vote goes to a candidate that is not behind, once per term.
Grants(i, m) ==
  /\ m.term >= currentTerm[i]
  /\ m.term > currentTerm[i] \/ votedFor[i] \in {Nil, m.from}
  /\ LogIsUpToDate(i, m.lastLogIndex, m.lastLogTerm)

HandleRequestVote(i, m) ==
  LET newer == m.term > currentTerm[i]
      grant == Grants(i, m)
  IN /\ m.type = "RequestVote"
     /\ IF newer THEN StepDown(i) ELSE UNCHANGED softVars
     /\ currentTerm' = [currentTerm EXCEPT ![i] = Max({@, m.term})]
     /\ votedFor' = [votedFor EXCEPT ![i] = IF grant THEN m.from
                                            ELSE IF newer THEN Nil ELSE @]
     /\ Reply(m, {RequestVoteResp(i, m.from, Max({currentTerm[i], m.term}), grant)})
     /\ ballots' = IF grant THEN ballots \cup {<<i, m.term, m.from>>} ELSE ballots
     /\ UNCHANGED <<commitIndex, lastApplied, log, voters, applied, reigns>>

\* step_vote_response: a higher term, an answer that no longer matters, or a
\* vote that may complete the quorum.
VoteFromHigherTerm(i, m) ==
  /\ m.type = "RequestVoteResp"
  /\ m.term > currentTerm[i]
  /\ StepDown(i)
  /\ AdoptTerm(i, m.term)
  /\ Reply(m, {})
  /\ UNCHANGED <<commitIndex, lastApplied, log, voters, applied, history>>

CountVote(i, m) ==
  LET vs == IF m.granted THEN votes[i] \cup {m.from} ELSE votes[i]
      wins == Cardinality(vs) >= Quorum(i)
      fresh == FreshProgress(i, voters[i], log[i])
  IN /\ m.type = "RequestVoteResp"
     /\ m.term = currentTerm[i]
     /\ role[i] = "Candidate"
     /\ votes' = [votes EXCEPT ![i] = vs]
     /\ IF wins
        THEN /\ role' = [role EXCEPT ![i] = "Leader"]
             /\ progress' = [progress EXCEPT ![i] = fresh]
             /\ Reply(m, BroadcastAppend(i, [Sender(i) EXCEPT !.progress = fresh]))
             /\ reigns' = reigns \cup {<<currentTerm[i], i>>}
        ELSE /\ Reply(m, {})
             /\ UNCHANGED <<role, progress, reigns>>
     /\ UNCHANGED <<hardVars, log, pendingReads, voters, applied, ballots>>

\* An answer that comes too late changes nothing.
IgnoreResponse(i, m) ==
  /\ \/ /\ m.type = "RequestVoteResp"
        /\ m.term < currentTerm[i] \/ (m.term = currentTerm[i] /\ role[i] # "Candidate")
     \/ /\ m.type = "AppendEntriesResp"
        /\ m.term <= currentTerm[i]
        /\ role[i] # "Leader" \/ m.from \notin DOMAIN progress[i]
  /\ Reply(m, {})
  /\ UNCHANGED <<hardVars, log, softVars, voters, applied, history>>

-----------------------------------------------------------------------------
(* Replication *)

\* handle_append_entries, first early return: a leader of an older term.
RejectStaleAppend(i, m) ==
  /\ m.type = "AppendEntries"
  /\ m.term < currentTerm[i]
  /\ Reply(m, {AppendEntriesResp(i, m.from, currentTerm[i], FALSE, LastIndex(log[i]))})
  /\ UNCHANGED <<hardVars, log, softVars, voters, applied, history>>

\* A node follows the sender when the term is newer, or when it is itself the
\* leader of that term; a candidate of the same term stays candidate.
Follows(i, m) ==
  m.term > currentTerm[i] \/ (m.term = currentTerm[i] /\ role[i] = "Leader")

\* Mutant: an entry of any term at prevLogIndex will do.
LogReaches(i, m) == m.prevLogIndex <= LastIndex(log[i])

LogMatches(i, m) == TermAt(log[i], m.prevLogIndex) = m.prevLogTerm

\* Second early return: the log does not hold the entry before the new ones.
RejectMismatchedAppend(i, m) ==
  /\ m.type = "AppendEntries"
  /\ m.term >= currentTerm[i]
  /\ ~LogMatches(i, m)
  /\ IF Follows(i, m) THEN StepDown(i) ELSE UNCHANGED softVars
  /\ AdoptTerm(i, m.term)
  /\ Reply(m, {AppendEntriesResp(i, m.from, m.term, FALSE, LastIndex(log[i]))})
  /\ UNCHANGED <<commitIndex, lastApplied, log, voters, applied, history>>

\* The log after the new entries: whatever followed prevLogIndex is cut, also
\* when it agrees with the request.
AppendedLog(i, m) ==
  IF m.entries = <<>> THEN log[i]
  ELSE TruncateFrom(log[i], m.prevLogIndex) \o m.entries

\* The commit index after an accepted request.
CommitAfterAppend(i, m) ==
  LET l == AppendedLog(i, m)
      commit == Min({m.leaderCommit, LastIndex(l)})
  IN IF m.leaderCommit > commitIndex[i] /\ TermAt(l, commit) = m.term
     THEN commit ELSE commitIndex[i]

AcceptAppend(i, m) ==
  LET l == AppendedLog(i, m)
      commit == CommitAfterAppend(i, m)
  IN /\ m.type = "AppendEntries"
     /\ m.term >= currentTerm[i]
     /\ LogMatches(i, m)
     /\ IF Follows(i, m) THEN StepDown(i) ELSE UNCHANGED softVars
     /\ AdoptTerm(i, m.term)
     /\ log' = [log EXCEPT ![i] = l]
     /\ commitIndex' = [commitIndex EXCEPT ![i] = commit]
     /\ ApplyCommitted(i, l, commit)
     /\ Reply(m, {AppendEntriesResp(i, m.from, m.term, TRUE, LastIndex(l))})
     /\ UNCHANGED history

\* step_append_response: a higher term ends the leadership.
AppendRespFromHigherTerm(i, m) ==
  /\ m.type = "AppendEntriesResp"
  /\ m.term > currentTerm[i]
  /\ StepDown(i)
  /\ AdoptTerm(i, m.term)
  /\ Reply(m, {})
  /\ UNCHANGED <<commitIndex, lastApplied, log, voters, applied, history>>

\* Mutant: next_index is lowered without the floor at 1.
ProgressUnfloored(i, m) ==
  [progress[i] EXCEPT ![m.from] =
     IF m.success
     THEN [next |-> m.lastLogIndex + 1, match |-> m.lastLogIndex]
     ELSE [@ EXCEPT !.next = @ - 1]]

\* The leader's progress after an answer.  On success the peer is taken to
\* match up to the end of its own log.
ProgressAfter(i, m) ==
  LET old == progress[i][m.from]
  IN [progress[i] EXCEPT ![m.from] =
        IF m.success
        THEN [next |-> m.lastLogIndex + 1, match |-> m.lastLogIndex]
        ELSE [next |-> Max({old.next - 1, 1}), match |-> old.match]]

\* has_quorum_for_index: the leader counts itself, member or not.
HasQuorumForIndex(i, pr, k) ==
  1 + Cardinality({p \in voters[i] \ {i} :
                     p \in DOMAIN pr /\ pr[p].match >= k}) >= Quorum(i)

\* The loop of try_advance_commit: the last index of the current term, above
\* the commit index, that a quorum holds.
AdvancedCommit(i, pr) ==
  Max({commitIndex[i]} \cup
      {k \in commitIndex[i] + 1 .. LastIndex(log[i]) :
         TermAt(log[i], k) = currentTerm[i] /\ HasQuorumForIndex(i, pr, k)})

\* The rest of step_append_response with try_advance_commit: commit, apply,
\* release reads, compact the log when too much of it is unapplied (node.rs
\* replaces the log by the snapshot after the messages were built), and send
\* the peer what it still lacks.
HandleAppendResp(i, m) ==
  LET pr == ProgressAfter(i, m)
      commit == AdvancedCommit(i, pr)
      es == EntriesBetween(log[i], lastApplied[i], commit)
      appl == Max({lastApplied[i], commit})
      conf == ConfAfter(i, es)
      pr2 == IF conf.rebuilt THEN FreshProgress(i, conf.voters, log[i]) ELSE pr
      next == IF m.from \in DOMAIN pr2 THEN pr2[m.from].next ELSE 0
  IN /\ m.type = "AppendEntriesResp"
     /\ m.term <= currentTerm[i]
     /\ role[i] = "Leader"
     /\ m.from \in DOMAIN progress[i]
     /\ progress' = [progress EXCEPT ![i] = pr2]
     /\ commitIndex' = [commitIndex EXCEPT ![i] = commit]
     /\ ApplyCommitted(i, log[i], commit)
     /\ pendingReads' = [pendingReads EXCEPT ![i] = {k \in @ : k > commit}]
     /\ log' = [log EXCEPT ![i] = IF LastIndex(@) - appl > CompactThreshold
                                  THEN Restore(appl, TermAt(@, appl)) ELSE @]
     /\ IF next <= LastIndex(log[i])
        THEN Reply(m, {AppendToPeer(i, m.from,
                         [term |-> currentTerm[i], progress |-> pr2, log |-> log[i],
                          commit |-> commit, applied |-> appl])})
        ELSE Reply(m, {})
     /\ UNCHANGED <<currentTerm, votedFor, role, votes, history>>

-----------------------------------------------------------------------------
(* Snapshots and read requests *)

\* handle_install_snapshot: the log becomes the snapshot's, and the commit and
\* applied indexes are set to the snapshot's even when that moves them back.
HandleInstallSnapshot(i, m) ==
  /\ m.type = "InstallSnapshot"
  /\ m.term >= currentTerm[i]
  /\ StepDown(i)
  /\ AdoptTerm(i, m.term)
  /\ log' = [log EXCEPT ![i] = Restore(m.lastIndex, m.lastTerm)]
  /\ commitIndex' = [commitIndex EXCEPT ![i] = m.lastIndex]
  /\ lastApplied' = [lastApplied EXCEPT ![i] = m.lastIndex]
  /\ Reply(m, {InstallSnapshotResp(i, m.from, m.term)})
  /\ UNCHANGED <<voters, applied, history>>

RejectStaleSnapshot(i, m) ==
  /\ m.type = "InstallSnapshot"
  /\ m.term < currentTerm[i]
  /\ Reply(m, {InstallSnapshotResp(i, m.from, currentTerm[i])})
  /\ UNCHANGED <<hardVars, log, softVars, voters, applied, history>>

\* handle_read_index, for a request of node j in the leader's term.
HandleReadIndex(i, j) ==
  LET k == LastIndex(log[i])
  IN /\ role[i] = "Leader" /\ i # j
     /\ pendingReads' = [pendingReads EXCEPT ![i] =
                           {r \in @ \cup {k} : r > commitIndex[i]}]
     /\ Send(BroadcastAppend(i, Sender(i))
             \cup {ReadIndexResp(i, j, currentTerm[i], k)})
     /\ UNCHANGED <<hardVars, log, role, votes, progress, voters, applied, history>>

\* Raft::step sends any other message back to the node it came from.
EchoOther(i, m) ==
  /\ m.type \in {"InstallSnapshotResp", "ReadIndexResp"}
  /\ Reply(m, {IF m.type = "InstallSnapshotResp"
               THEN InstallSnapshotResp(i, m.from, m.term)
               ELSE ReadIndexResp(i, m.from, m.term, m.readIndex)})
  /\ UNCHANGED <<hardVars, log, softVars, voters, applied, history>>

-----------------------------------------------------------------------------
(* Crashes *)

\* RaftNode::open after a crash: hard state and log come from the storage, the
\* voters from the configuration file, and applied starts empty.
Reopen(i) ==
  /\ i \in Crashers
  /\ StepDown(i)
  /\ voters' = [voters EXCEPT ![i] = InitConfig[i]]
  /\ applied' = [applied EXCEPT ![i] = <<>>]
  /\ UNCHANGED <<log, history>>

Restart(i) == Reopen(i) /\ UNCHANGED <<hardVars, msgs>>

\* Mutant: log.bin is written first.
CrashAfterLog(i, m) ==
  /\ m.type = "AppendEntries"
  /\ m.term >= currentTerm[i]
  /\ LogMatches(i, m)
  /\ AppendedLog(i, m) # log[i]
  /\ i \in Crashers
  /\ log' = [log EXCEPT ![i] = AppendedLog(i, m)]
  /\ StepDown(i)
  /\ voters' = [voters EXCEPT ![i] = InitConfig[i]]
  /\ applied' = [applied EXCEPT ![i] = <<>>]
  /\ Reply(m, {})
  /\ UNCHANGED <<hardVars, history>>

\* FileStorage::sync writes hard_state.bin, then log.bin.  A crash between the
\* two keeps the hard state of the step and the log of the step before.
CrashInSyncOfAppend(i, m) ==
  /\ m.type = "AppendEntries"
  /\ m.term >= currentTerm[i]
  /\ LogMatches(i, m)
  /\ AppendedLog(i, m) # log[i]
  /\ AdoptTerm(i, m.term)
  /\ commitIndex' = [commitIndex EXCEPT ![i] = CommitAfterAppend(i, m)]
  /\ lastApplied' = [lastApplied EXCEPT ![i] = Max({@, CommitAfterAppend(i, m)})]
  /\ Reopen(i)
  /\ Reply(m, {})

CrashInSyncOfSnapshot(i, m) ==
  /\ m.type = "InstallSnapshot"
  /\ m.term >= currentTerm[i]
  /\ AdoptTerm(i, m.term)
  /\ commitIndex' = [commitIndex EXCEPT ![i] = m.lastIndex]
  /\ lastApplied' = [lastApplied EXCEPT ![i] = m.lastIndex]
  /\ Reopen(i)
  /\ Reply(m, {})

\* The sync of a compaction: the leader's new commit index is on disk, its log
\* is still the uncompacted one.
CrashInSyncOfCompaction(i, m) ==
  LET commit == AdvancedCommit(i, ProgressAfter(i, m))
  IN /\ m.type = "AppendEntriesResp"
     /\ m.term <= currentTerm[i]
     /\ role[i] = "Leader"
     /\ m.from \in DOMAIN progress[i]
     /\ LastIndex(log[i]) - Max({lastApplied[i], commit}) > CompactThreshold
     /\ commitIndex' = [commitIndex EXCEPT ![i] = commit]
     /\ lastApplied' = [lastApplied EXCEPT ![i] = Max({@, commit})]
     /\ Reopen(i)
     /\ Reply(m, {})
     /\ UNCHANGED <<currentTerm, votedFor>>

-----------------------------------------------------------------------------
Receive(m) ==
  \/ HandleRequestVote(m.to, m)
  \/ VoteFromHigherTerm(m.to, m)
  \/ CountVote(m.to, m)
  \/ IgnoreResponse(m.to, m)
  \/ RejectStaleAppend(m.to, m)
  \/ RejectMismatchedAppend(m.to, m)
  \/ AcceptAppend(m.to, m)
  \/ AppendRespFromHigherTerm(m.to, m)
  \/ HandleAppendResp(m.to, m)
  \/ HandleInstallSnapshot(m.to, m)
  \/ RejectStaleSnapshot(m.to, m)
  \/ EchoOther(m.to, m)
  \/ CrashInSyncOfAppend(m.to, m)
  \/ CrashInSyncOfSnapshot(m.to, m)
  \/ CrashInSyncOfCompaction(m.to, m)

Next ==
  \/ \E i \in Server : ElectionTimeout(i)
  \/ \E i \in Server : HeartbeatTimeout(i)
  \/ \E i \in Server, c \in Command \cup ConfChange : Propose(i, c)
  \/ \E i \in Readers : ReadIndex(i)
  \/ \E i \in Server, j \in Readers : HandleReadIndex(i, j)
  \/ \E i \in Server : Restart(i)
  \/ \E m \in msgs : Receive(m)

Spec == Init /\ [][Next]_vars

-----------------------------------------------------------------------------
(* Properties *)

Role == {"Follower", "Candidate", "Leader"}

Entry == [term : 0 .. MaxTerm, cmd : Command \cup ConfChange \cup {Noop}]

\* The state of a node has the types its Rust fields have.
TypeOK ==
  /\ currentTerm \in [Server -> 0 .. MaxTerm]
  /\ votedFor \in [Server -> Server \cup {Nil}]
  /\ commitIndex \in [Server -> 0 .. MaxLog]
  /\ lastApplied \in [Server -> 0 .. MaxLog]
  /\ \A i \in Server : log[i] # <<>> /\ \A k \in DOMAIN log[i] : log[i][k] \in Entry
  /\ role \in [Server -> Role]
  /\ votes \in [Server -> SUBSET Server]
  /\ \A i \in Server : \A p \in DOMAIN progress[i] :
       progress[i][p] \in [next : 1 .. MaxLog + 1, match : 0 .. MaxLog]
  /\ pendingReads \in [Server -> SUBSET (0 .. MaxLog)]
  /\ voters \in [Server -> SUBSET Server]

\* At most one node ever becomes leader in a term (become_leader), however
\* messages are lost, delayed or reordered and whichever voters restart.
OneLeaderPerTerm ==
  \A r1, r2 \in reigns : r1[1] = r2[1] => r1 = r2

\* Two logs that hold an entry of the same term at the same index agree on
\* everything up to that index (raft_core.rs, the check of prev_log_term).
LogMatching ==
  \A i, j \in Server : \A k \in DOMAIN log[i] \cap DOMAIN log[j] :
    log[i][k].term = log[j][k].term
      => SubSeq(log[i], 1, k) = SubSeq(log[j], 1, k)

\* While a node leads, nothing but its own proposals enters its log: the log only
\* grows, until compaction leaves exactly what the node has applied, which is
\* never less than it had applied before (Action::Snapshot in node.rs).
LeaderAppendOnly ==
  [][\A i \in Server :
       role[i] = "Leader" /\ role'[i] = "Leader" =>
         \/ Prefix(log[i], log'[i])
         \/ LastIndex(log'[i]) = lastApplied'[i] /\ lastApplied[i] <= lastApplied'[i]]_vars

\* A node's term never goes back, and the vote of a term, once given, is kept
\* through restarts and crashes inside a sync.
VotesAreFinal ==
  [][\A i \in Server :
       /\ currentTerm[i] <= currentTerm'[i]
       /\ currentTerm[i] = currentTerm'[i] /\ votedFor[i] # Nil
            => votedFor'[i] = votedFor[i]]_vars

\* No entry of a node's log is of a term the node has not reached: sync writes
\* hard_state.bin before log.bin, so that a node that stops between the two never
\* comes back to vote in a term older than its own entries.
TermCoversLog ==
  \A i \in Server : \A k \in DOMAIN log[i] : log[i][k].term <= currentTerm[i]

\* The commit index of HardState names an entry of the log (FileStorage::sync).
CommitWithinLog == \A i \in Server : commitIndex[i] <= LastIndex(log[i])

\* The commit index of a node never goes back (handle_install_snapshot).
CommitNeverBack == [][\A i \in Server : commitIndex[i] <= commitIndex'[i]]_vars

\* An answer to a ReadIndex request names an index that is committed
\* (rpc.rs, ReadIndexResp).
ReadIsCommitted ==
  \A m \in msgs : m.type = "ReadIndexResp" =>
    \E i \in Server : m.readIndex <= commitIndex[i]

\* Nodes apply the same commands in the same order: of two nodes that did not
\* restart, one has applied a prefix of what the other has (apply_committed).
AppliedPrefix ==
  \A i, j \in Server :
    Prefix(applied[i], applied[j]) \/ Prefix(applied[j], applied[i])

\* A leader's log never gets shorter: compaction may replace what is applied,
\* not what is not (Action::Snapshot in node.rs).
LeaderKeepsTail ==
  [][\A i \in Server :
       role[i] = "Leader" /\ role'[i] = "Leader"
         => LastIndex(log[i]) <= LastIndex(log'[i])]_vars

\* What a leader has committed in its term is in the logs of a quorum
\* (has_quorum_for_index counts match_index, which an answer sets).
CommittedOnQuorum ==
  \A i \in Server :
    LET k == commitIndex[i] + 1
    IN /\ role[i] = "Leader" /\ k > 1 /\ k \in DOMAIN log[i]
       /\ log[i][k].term = currentTerm[i]
       => Cardinality({j \in Server : k \in DOMAIN log[j] /\ log[j][k] = log[i][k]})
            >= Quorum(i)

\* A snapshot is acknowledged once: an acknowledgement answers a snapshot, never
\* another acknowledgement (the last arm of Raft::step).
AnswersHaveRequests ==
  [][\A m \in msgs' \ msgs : m.type = "InstallSnapshotResp" =>
       \E q \in msgs \ msgs' : q.type = "InstallSnapshot"]_vars

\* A leader that is the only voter has committed its whole log (propose).
SoleVoterCommits ==
  \A i \in Server : role[i] = "Leader" /\ voters[i] = {i} => commitIndex[i] = LastIndex(log[i])
=============================================================================
