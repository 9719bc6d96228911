--------------------------- MODULE RaftLogProofs ---------------------------
(***************************************************************************)
(* The types of the Raft core's state, the two indexes of its HardState    *)
(* and the logs of its leaders, for any number of nodes, terms, entries    *)
(* and messages in flight, while the membership does not change.           *)
(***************************************************************************)
EXTENDS RaftLogs

-----------------------------------------------------------------------------
(* What the parts of a handler do to the types *)

LEMMA TermsAdopted ==
  ASSUME Terms, NEW i \in Server, NEW t \in 0 .. MaxTerm, AdoptTerm(i, t)
  PROVE  Terms'
<1> DEFINE n == Max({currentTerm[i], t})
<1>1. currentTerm[i] \in 0 .. MaxTerm /\ currentTerm[i] \in Nat /\ t \in Nat
  BY BoundAssumption DEF Terms
<1>2. n \in 0 .. MaxTerm
  BY <1>1, LargerOfTwo
<1>3. currentTerm' = [currentTerm EXCEPT ![i] = n]
  BY DEF AdoptTerm
<1> HIDE DEF n
<1>4. currentTerm' \in [Server -> 0 .. MaxTerm]
  BY <1>2, <1>3 DEF Terms
<1>5. votedFor' \in [Server -> Server \cup {Nil}]
  BY DEF Terms, AdoptTerm
<1>. QED BY <1>4, <1>5 DEF Terms

LEMMA NoProgressTyped == NoProgress \in ProgressTables
<1>1. NoProgress \in [{} -> Progress]
  BY DEF NoProgress
<1>. QED BY <1>1 DEF ProgressTables

LEMMA SoftDown ==
  ASSUME Soft, NEW i \in Server, StepDown(i)
  PROVE  Soft'
<1>1. role' \in [Server -> Role] /\ votes' \in [Server -> SUBSET Server]
  BY DEF Soft, StepDown, Role
<1>2. progress' \in [Server -> ProgressTables]
  BY NoProgressTyped DEF Soft, StepDown
<1>3. pendingReads' \in [Server -> SUBSET (0 .. MaxLog)]
  BY DEF Soft, StepDown
<1>. QED BY <1>1, <1>2, <1>3 DEF Soft

LEMMA IndexesSet ==
  ASSUME Indexes, NEW i \in Server, NEW c \in 0 .. MaxLog, NEW a \in 0 .. MaxLog, c <= a,
         commitIndex' = [commitIndex EXCEPT ![i] = c], lastApplied' = [lastApplied EXCEPT ![i] = a]
  PROVE  Indexes'
BY DEF Indexes, CommittedIsApplied

\* apply_committed never leaves last_applied behind the commit index.
LEMMA IndexesApplied ==
  ASSUME Indexes, NEW i \in Server, NEW c \in 0 .. MaxLog,
         commitIndex' = [commitIndex EXCEPT ![i] = c],
         lastApplied' = [lastApplied EXCEPT ![i] = Max({lastApplied[i], c})]
  PROVE  Indexes' /\ Max({lastApplied[i], c}) \in 0 .. MaxLog
<1> DEFINE a == Max({lastApplied[i], c})
<1>1. lastApplied[i] \in 0 .. MaxLog /\ lastApplied[i] \in Nat /\ c \in Nat
  BY BoundAssumption DEF Indexes
<1>2. a \in 0 .. MaxLog /\ c <= a
  BY <1>1, LargerOfTwo
<1>. QED BY <1>2, IndexesSet, Zenon

LEMMA IndexesSame ==
  ASSUME Indexes, UNCHANGED <<commitIndex, lastApplied>>
  PROVE  Indexes'
BY DEF Indexes, CommittedIsApplied

LEMMA NetKept ==
  ASSUME \A m \in msgs : MsgTyped(m), NEW R, NEW S, Exchange(R, S), \A m \in S : MsgTyped(m)
  PROVE  \A m \in msgs' : MsgTyped(m)
BY SentOrLost

LEMMA BroadcastTyped ==
  ASSUME voters \in [Server -> SUBSET Server], NEW i \in Server, NEW n, SenderOK(n)
  PROVE  \A m \in BroadcastAppend(i, n) : MsgTyped(m)
<1> SUFFICES ASSUME NEW p \in voters[i] \ {i} PROVE MsgTyped(AppendToPeer(i, p, n))
  BY DEF BroadcastAppend
<1>. QED BY AppendTyped

LEMMA AnswersTyped ==
  ASSUME NEW i \in Server, NEW j \in Server, NEW t \in 0 .. MaxTerm
  PROVE  /\ \A g : MsgTyped(RequestVoteResp(i, j, t, g)) /\ MsgTyped(ReadIndexResp(i, j, t, g))
         /\ \A ok : \A k \in 0 .. MaxLog : MsgTyped(AppendEntriesResp(i, j, t, ok, k))
         /\ MsgTyped(InstallSnapshotResp(i, j, t))
         /\ MsgTyped(RequestVoteReq(i, j, t))
BY DEF MsgTyped, RequestVoteResp, ReadIndexResp, AppendEntriesResp, InstallSnapshotResp, RequestVoteReq

LEMMA AppliedKeepsVoters ==
  ASSUME FixedMembership, voters \in [Server -> SUBSET Server], NEW i, NEW l, NEW c,
         ApplyCommitted(i, l, c)
  PROVE  voters' = voters
<1> DEFINE es == EntriesBetween(l, lastApplied[i], c)
<1>1. voters' = [voters EXCEPT ![i] = ConfAfter(i, es).voters]
  BY DEF ApplyCommitted
<1>2. ConfAfter(i, es).voters = voters[i]
  BY MembersStay
<1>. QED BY ONLY <1>1, <1>2, voters \in [Server -> SUBSET Server]

LEMMA CommitAfterTyped ==
  ASSUME Indexes, NEW i \in Server, log[i] \in Logs, NEW m, MsgTyped(m), m.type = "AppendEntries"
  PROVE  CommitAfterAppend(i, m) \in 0 .. MaxLog
<1> DEFINE l == AppendedLog(i, m)
           c == Min({m.leaderCommit, LastIndex(l)})
<1>1. LastIndex(l) \in 0 .. MaxLog /\ m.leaderCommit \in 0 .. MaxLog /\ commitIndex[i] \in 0 .. MaxLog
  BY AppendedTyped, LogTyped, Zenon DEF MsgTyped, Indexes
<1>2. c \in 0 .. MaxLog
  BY <1>1, MinOfTwo
<1>3. CommitAfterAppend(i, m) \in {c, commitIndex[i]}
  BY DEF CommitAfterAppend
<1>. QED BY <1>1, <1>2, <1>3

LEMMA RestoreTyped ==
  ASSUME NEW k \in 0 .. MaxLog, NEW t \in 0 .. MaxTerm
  PROVE  Restore(k, t) \in Logs
<1> DEFINE e == [term |-> t, cmd |-> Noop]
           l == [x \in 1 .. k + 1 |-> e]
<1>1. k + 1 \in Nat /\ k + 1 \in 1 .. MaxLog + 1 /\ e \in Entry
  BY BoundAssumption DEF Entry
<1>2. Restore(k, t) = l
  BY DEF Restore
<1> HIDE DEF e
<1>3. l \in Seq(Entry) /\ Len(l) = k + 1
  BY <1>1
<1>. QED BY <1>1, <1>2, <1>3 DEF Logs

-----------------------------------------------------------------------------
(* Types are kept *)

LEMMA TypedInit == Init => Typed
<1> SUFFICES ASSUME Init PROVE Typed
  OBVIOUS
<1>1. EmptyLog \in Logs
  <2>1. [term |-> 0, cmd |-> Noop] \in Entry /\ MaxLog \in Nat
    BY BoundAssumption DEF Entry
  <2>. QED BY <2>1 DEF EmptyLog, Logs
<1>2. Terms /\ Indexes
  BY BoundAssumption DEF Init, Terms, Indexes, CommittedIsApplied
<1>3. Soft
  BY NoProgressTyped DEF Init, Soft, Role
<1>4. log \in [Server -> Logs] /\ voters \in [Server -> SUBSET Server] /\ msgs = {}
  BY <1>1, ConfigAssumption DEF Init
<1>. QED BY <1>2, <1>3, <1>4 DEF Typed

LEMMA ElectionTimeoutTyped ==
  ASSUME Typed, NEW i \in Server, ElectionTimeout(i)
  PROVE  Typed'
<1> DEFINE t == currentTerm[i] + 1
           fresh == FreshProgress(i, voters[i], log[i])
           n == [Sender(i) EXCEPT !.term = t, !.progress = fresh]
           R == {RequestVoteReq(i, p, t) : p \in voters[i] \ {i}}
           B == BroadcastAppend(i, n)
<1>0. Terms /\ Indexes /\ Soft /\ log \in [Server -> Logs] /\ voters \in [Server -> SUBSET Server]
  BY DEF Typed
<1>1. t \in 0 .. MaxTerm
  BY <1>0, BoundAssumption DEF Terms, ElectionTimeout
<1>2. fresh \in ProgressTables
  BY <1>0, FreshTyped
<1>3. Terms'
  <2>1. currentTerm' = [currentTerm EXCEPT ![i] = t] /\ votedFor' = [votedFor EXCEPT ![i] = i]
    BY DEF ElectionTimeout
  <2> HIDE DEF t
  <2>. QED BY <1>0, <1>1, <2>1 DEF Terms
<1>4. Soft'
  <2>1. /\ votes' = [votes EXCEPT ![i] = {i}] /\ pendingReads' = pendingReads
        /\ role' = [role EXCEPT ![i] = IF Quorum(i) <= 1 THEN "Leader" ELSE "Candidate"]
        /\ progress' = [progress EXCEPT ![i] = IF Quorum(i) <= 1 THEN fresh ELSE progress[i]]
    BY DEF ElectionTimeout
  <2> HIDE DEF fresh
  <2>2. progress' \in [Server -> ProgressTables]
    BY <1>0, <1>2, <2>1 DEF Soft
  <2>3. role' \in [Server -> Role]
    BY <1>0, <2>1 DEF Soft, Role
  <2>. QED BY <1>0, <2>1, <2>2, <2>3 DEF Soft
<1>5. SenderOK(n)
  <2>1. SenderOK(Sender(i))
    BY SenderTyped
  <2> HIDE DEF t, fresh
  <2>. QED BY <1>1, <1>2, <2>1 DEF SenderOK, Sender
<1>6. \A m \in R \cup B : MsgTyped(m)
  <2>1. \A m \in R : MsgTyped(m)
    <3>1. \A p \in voters[i] : p \in Server
      BY <1>0
    <3> HIDE DEF t
    <3>. QED BY <1>1, <3>1, AnswersTyped
  <2>2. \A m \in B : MsgTyped(m)
    <3> HIDE DEF n
    <3>. QED BY <1>0, <1>5, BroadcastTyped
  <2>. QED BY <2>1, <2>2
<1>7. Exchange({}, R \cup B) \/ Exchange({}, R \cup {})
  BY Zenon DEF ElectionTimeout, Send
<1> HIDE DEF R, B
<1>8. \A m \in msgs' : MsgTyped(m)
  BY <1>6, <1>7, NetKept DEF Typed
<1>9. UNCHANGED <<commitIndex, lastApplied, log, voters>>
  BY DEF ElectionTimeout
<1>. QED BY <1>0, <1>3, <1>4, <1>8, <1>9, IndexesSame DEF Typed

LEMMA LeaderStepsTyped ==
  ASSUME Typed, NEW i \in Server,
         HeartbeatTimeout(i) \/ ReadIndex(i)
           \/ (\E c \in Command \cup ConfChange : Propose(i, c))
           \/ (\E j \in Server : HandleReadIndex(i, j))
  PROVE  Typed'
<1>0. Terms /\ Indexes /\ Soft /\ log \in [Server -> Logs] /\ voters \in [Server -> SUBSET Server]
  BY DEF Typed
<1>1. SenderOK(Sender(i))
  BY SenderTyped
<1>2. UNCHANGED <<currentTerm, votedFor, commitIndex, lastApplied, role, votes, progress, voters>>
  BY Zenon DEF HeartbeatTimeout, ReadIndex, Propose, HandleReadIndex, hardVars, softVars
<1>3. Terms' /\ Indexes' /\ voters' \in [Server -> SUBSET Server]
  BY <1>0, <1>2, IndexesSame DEF Terms
<1>4. ASSUME NEW c \in Command \cup ConfChange \cup {Noop}, NEW l,
             l = Append(log[i], [term |-> currentTerm[i], cmd |-> c]),
             LastIndex(log[i]) < MaxLog, log' = [log EXCEPT ![i] = l],
             Send(BroadcastAppend(i, [Sender(i) EXCEPT !.log = l]))
      PROVE  l \in Logs /\ log' \in [Server -> Logs] /\ \A m \in msgs' : MsgTyped(m)
  <2> DEFINE n == [Sender(i) EXCEPT !.log = l]
  <2>1. l \in Logs /\ SenderOK(n)
    BY <1>4, ProposedTyped, Zenon
  <2>2. Exchange({}, BroadcastAppend(i, n))
    BY <1>4 DEF Send
  <2> HIDE DEF n
  <2>3. \A m \in BroadcastAppend(i, n) : MsgTyped(m)
    BY <1>0, <2>1, BroadcastTyped
  <2>. QED BY <1>0, <1>4, <2>1, <2>2, <2>3, NetKept DEF Typed
<1>5. CASE HeartbeatTimeout(i)
  <2>1. \A m \in msgs' : MsgTyped(m)
    BY <1>0, <1>1, <1>5, BroadcastTyped, NetKept DEF HeartbeatTimeout, Send, Typed
  <2>2. Soft' /\ log' = log
    BY <1>0, <1>5 DEF HeartbeatTimeout, softVars, Soft
  <2>. QED BY <1>0, <1>3, <2>1, <2>2 DEF Typed
<1>6. CASE ReadIndex(i)
  <2> DEFINE l == Append(log[i], [term |-> currentTerm[i], cmd |-> Noop])
  <2>1. /\ LastIndex(log[i]) < MaxLog /\ log' = [log EXCEPT ![i] = l]
        /\ Send(BroadcastAppend(i, [Sender(i) EXCEPT !.log = l]))
        /\ pendingReads' = [pendingReads EXCEPT ![i] = pendingReads[i] \cup {LastIndex(l)}]
    BY <1>6 DEF ReadIndex
  <2>2. l \in Logs /\ log' \in [Server -> Logs] /\ \A m \in msgs' : MsgTyped(m)
    BY <1>4, <2>1, Zenon
  <2> HIDE DEF l
  <2>3. LastIndex(l) \in 0 .. MaxLog
    BY <2>2, LogTyped
  <2>4. Soft'
    BY <1>0, <1>2, <2>1, <2>3 DEF Soft
  <2>. QED BY <1>3, <2>2, <2>4 DEF Typed
<1>7. ASSUME NEW c \in Command \cup ConfChange, Propose(i, c) PROVE Typed'
  <2> DEFINE l == Append(log[i], [term |-> currentTerm[i], cmd |-> c])
  <2>1. /\ LastIndex(log[i]) < MaxLog /\ log' = [log EXCEPT ![i] = l]
        /\ Send(BroadcastAppend(i, [Sender(i) EXCEPT !.log = l]))
        /\ pendingReads' = pendingReads
    BY <1>7 DEF Propose, softVars
  <2>2. log' \in [Server -> Logs] /\ \A m \in msgs' : MsgTyped(m)
    BY <1>4, <2>1, Zenon
  <2>4. Soft'
    BY <1>0, <1>2, <2>1 DEF Soft
  <2>. QED BY <1>3, <2>2, <2>4 DEF Typed
<1>8. ASSUME NEW j \in Server, HandleReadIndex(i, j) PROVE Typed'
  <2> DEFINE k == LastIndex(log[i])
             a == ReadIndexResp(i, j, currentTerm[i], k)
  <2>1. k \in 0 .. MaxLog /\ currentTerm[i] \in 0 .. MaxTerm
    BY <1>0, LogTyped DEF Terms
  <2>2. /\ pendingReads' = [pendingReads EXCEPT ![i] = {r \in pendingReads[i] \cup {k} : r > commitIndex[i]}]
        /\ log' = log /\ Exchange({}, BroadcastAppend(i, Sender(i)) \cup {a})
    BY <1>8 DEF HandleReadIndex, Send
  <2>3. MsgTyped(a)
    BY <2>1, AnswersTyped
  <2> HIDE DEF a, k
  <2>4. \A m \in msgs' : MsgTyped(m)
    <3>1. \A m \in BroadcastAppend(i, Sender(i)) : MsgTyped(m)
      BY <1>0, <1>1, BroadcastTyped
    <3>. QED BY <2>2, <2>3, <3>1, NetKept DEF Typed
  <2>5. Soft'
    BY <1>0, <1>2, <2>1, <2>2 DEF Soft
  <2>. QED BY <1>0, <1>3, <2>2, <2>4, <2>5 DEF Typed
<1>. QED BY <1>5, <1>6, <1>7, <1>8

LEMMA SoftFollows ==
  ASSUME Soft, NEW i \in Server, NEW m, IF Follows(i, m) THEN StepDown(i) ELSE UNCHANGED softVars
  PROVE  Soft'
<1>1. StepDown(i) \/ UNCHANGED softVars
  OBVIOUS
<1>2. CASE UNCHANGED softVars
  BY <1>2 DEF softVars, Soft
<1>. QED BY <1>1, <1>2, SoftDown

LEMMA ReopenTyped ==
  ASSUME Soft, log \in [Server -> Logs], voters \in [Server -> SUBSET Server], NEW i \in Server, Reopen(i)
  PROVE  Soft' /\ log' \in [Server -> Logs] /\ voters' \in [Server -> SUBSET Server]
<1>1. Soft'
  BY SoftDown DEF Reopen
<1>2. voters' \in [Server -> SUBSET Server]
  BY ConfigAssumption, Zenon DEF Reopen
<1>. QED BY <1>1, <1>2 DEF Reopen

LEMMA RestartTyped ==
  ASSUME Typed, NEW i \in Server, Restart(i)
  PROVE  Typed'
<1>1. Soft' /\ log' \in [Server -> Logs] /\ voters' \in [Server -> SUBSET Server]
  BY ReopenTyped DEF Typed, Restart
<1>2. UNCHANGED <<currentTerm, votedFor, commitIndex, lastApplied, msgs>>
  BY DEF Restart, hardVars
<1>3. Terms' /\ Indexes'
  BY <1>2, IndexesSame DEF Typed, Terms
<1>. QED BY <1>1, <1>2, <1>3 DEF Typed

\* Messages that leave the log and the indexes alone.
LEMMA VoteMessagesTyped ==
  ASSUME Typed, NEW m \in msgs,
         \/ HandleRequestVote(m.to, m) \/ CountVote(m.to, m)
         \/ VoteFromHigherTerm(m.to, m) \/ AppendRespFromHigherTerm(m.to, m)
  PROVE  Typed'
<1> DEFINE i == m.to
<1>0. /\ Terms /\ Indexes /\ Soft /\ log \in [Server -> Logs] /\ voters \in [Server -> SUBSET Server]
      /\ MsgTyped(m) /\ i \in Server /\ m.from \in Server /\ m.term \in 0 .. MaxTerm
  BY DEF Typed, MsgTyped
<1>1. UNCHANGED <<commitIndex, lastApplied, log, voters>>
  BY DEF HandleRequestVote, CountVote, VoteFromHigherTerm, AppendRespFromHigherTerm, hardVars
<1>2. Indexes'
  BY <1>0, <1>1, IndexesSame
<1>3. CASE HandleRequestVote(i, m)
  <2> DEFINE t == Max({currentTerm[i], m.term})
             a == RequestVoteResp(i, m.from, t, Grants(i, m))
  <2>1. t \in 0 .. MaxTerm
    <3>1. currentTerm[i] \in 0 .. MaxTerm
      BY <1>0 DEF Terms
    <3>. QED BY <1>0, <3>1, LargerOfTwo
  <2>2. /\ currentTerm' = [currentTerm EXCEPT ![i] = t] /\ Exchange({m}, {a})
        /\ votedFor' = [votedFor EXCEPT ![i] = IF Grants(i, m) THEN m.from
                                               ELSE IF m.term > currentTerm[i] THEN Nil ELSE votedFor[i]]
        /\ IF m.term > currentTerm[i] THEN StepDown(i) ELSE UNCHANGED softVars
    BY <1>3 DEF HandleRequestVote, Reply
  <2> HIDE DEF t
  <2>3. MsgTyped(a)
    BY <1>0, <2>1, AnswersTyped
  <2> HIDE DEF a
  <2>4. Terms'
    BY <1>0, <2>1, <2>2 DEF Terms
  <2>5. Soft'
    <3>1. CASE StepDown(i)
      BY <1>0, <3>1, SoftDown
    <3>2. CASE UNCHANGED softVars
      BY <1>0, <3>2 DEF softVars, Soft
    <3>. QED BY <2>2, <3>1, <3>2
  <2>6. \A x \in msgs' : MsgTyped(x)
    BY <2>2, <2>3, NetKept DEF Typed
  <2>. QED BY <1>0, <1>1, <1>2, <2>4, <2>5, <2>6 DEF Typed
<1>4. CASE CountVote(i, m)
  <2> DEFINE vs == IF m.granted THEN votes[i] \cup {m.from} ELSE votes[i]
             fresh == FreshProgress(i, voters[i], log[i])
             n == [Sender(i) EXCEPT !.progress = fresh]
  <2>1. fresh \in ProgressTables
    BY <1>0, FreshTyped
  <2>2. SenderOK(n)
    <3>1. SenderOK(Sender(i))
      BY <1>0, SenderTyped
    <3> HIDE DEF fresh
    <3>. QED BY <2>1, <3>1 DEF SenderOK, Sender
  <2>3. /\ votes' = [votes EXCEPT ![i] = vs] /\ pendingReads' = pendingReads
        /\ UNCHANGED <<currentTerm, votedFor>>
        /\ \/ /\ role' = [role EXCEPT ![i] = "Leader"]
              /\ progress' = [progress EXCEPT ![i] = fresh]
              /\ Exchange({m}, BroadcastAppend(i, n))
           \/ /\ UNCHANGED <<role, progress>>
              /\ Exchange({m}, {})
    BY <1>4 DEF CountVote, Reply, hardVars
  <2> HIDE DEF fresh, n
  <2>4. Soft'
    <3>1. votes' \in [Server -> SUBSET Server]
      BY <1>0, <2>3 DEF Soft
    <3>2. role' \in [Server -> Role]
      BY <1>0, <2>3 DEF Soft, Role
    <3>3. progress' \in [Server -> ProgressTables]
      BY <1>0, <2>1, <2>3 DEF Soft
    <3>. QED BY <1>0, <2>3, <3>1, <3>2, <3>3 DEF Soft
  <2>5. \A x \in msgs' : MsgTyped(x)
    <3>1. \A x \in BroadcastAppend(i, n) : MsgTyped(x)
      BY <1>0, <2>2, BroadcastTyped
    <3>. QED BY <2>3, <3>1, NetKept DEF Typed
  <2>6. Terms'
    BY <1>0, <2>3 DEF Terms
  <2>. QED BY <1>0, <1>1, <1>2, <2>4, <2>5, <2>6 DEF Typed
<1>5. CASE VoteFromHigherTerm(i, m) \/ AppendRespFromHigherTerm(i, m)
  <2>1. StepDown(i) /\ AdoptTerm(i, m.term) /\ Exchange({m}, {})
    BY <1>5 DEF VoteFromHigherTerm, AppendRespFromHigherTerm, Reply
  <2>2. Terms' /\ Soft'
    BY <1>0, <2>1, TermsAdopted, SoftDown
  <2>3. \A x \in msgs' : MsgTyped(x)
    BY <2>1, NetKept DEF Typed
  <2>. QED BY <1>0, <1>1, <1>2, <2>2, <2>3 DEF Typed
<1>. QED BY <1>3, <1>4, <1>5

LEMMA PassiveMessagesTyped ==
  ASSUME Typed, NEW m \in msgs,
         \/ IgnoreResponse(m.to, m) \/ RejectStaleAppend(m.to, m)
         \/ RejectStaleSnapshot(m.to, m) \/ EchoOther(m.to, m)
  PROVE  Typed'
<1> DEFINE i == m.to
<1>0. /\ Terms /\ Indexes /\ Soft /\ log \in [Server -> Logs] /\ voters \in [Server -> SUBSET Server]
      /\ MsgTyped(m) /\ i \in Server /\ m.from \in Server /\ m.term \in 0 .. MaxTerm
  BY DEF Typed, MsgTyped
<1>1. UNCHANGED <<currentTerm, votedFor, commitIndex, lastApplied, log, voters,
                  role, votes, progress, pendingReads>>
  BY DEF IgnoreResponse, RejectStaleAppend, RejectStaleSnapshot, EchoOther, hardVars, softVars
<1>2. Terms' /\ Indexes' /\ Soft'
  BY <1>0, <1>1, IndexesSame DEF Terms, Soft
<1>3. currentTerm[i] \in 0 .. MaxTerm /\ LastIndex(log[i]) \in 0 .. MaxLog
  BY <1>0, LogTyped DEF Terms
<1>4. \E S : Exchange({m}, S) /\ \A x \in S : MsgTyped(x)
  <2>1. CASE IgnoreResponse(i, m)
    BY <2>1 DEF IgnoreResponse, Reply
  <2>2. CASE RejectStaleAppend(i, m)
    <3> DEFINE a == AppendEntriesResp(i, m.from, currentTerm[i], FALSE, LastIndex(log[i]))
    <3>1. MsgTyped(a)
      BY <1>0, <1>3, AnswersTyped, Zenon
    <3>2. Exchange({m}, {a})
      BY <2>2 DEF RejectStaleAppend, Reply
    <3> HIDE DEF a
    <3>. QED BY <3>1, <3>2
  <2>3. CASE RejectStaleSnapshot(i, m)
    <3> DEFINE a == InstallSnapshotResp(i, m.from, currentTerm[i])
    <3>1. MsgTyped(a)
      BY <1>0, <1>3, AnswersTyped
    <3>2. Exchange({m}, {a})
      BY <2>3 DEF RejectStaleSnapshot, Reply
    <3> HIDE DEF a
    <3>. QED BY <3>1, <3>2
  <2>4. CASE EchoOther(i, m)
    <3> DEFINE a == IF m.type = "InstallSnapshotResp" THEN InstallSnapshotResp(i, m.from, m.term)
                    ELSE ReadIndexResp(i, m.from, m.term, m.readIndex)
    <3>1. MsgTyped(a)
      BY <1>0, AnswersTyped
    <3>2. Exchange({m}, {a})
      BY <2>4 DEF EchoOther, Reply
    <3> HIDE DEF a
    <3>. QED BY <3>1, <3>2
  <2>. QED BY <2>1, <2>2, <2>3, <2>4
<1>5. \A x \in msgs' : MsgTyped(x)
  BY <1>4, NetKept DEF Typed
<1>. QED BY <1>0, <1>1, <1>2, <1>5 DEF Typed

LEMMA AppendMessagesTyped ==
  ASSUME FixedMembership, Typed, NEW m \in msgs,
         RejectMismatchedAppend(m.to, m) \/ AcceptAppend(m.to, m)
  PROVE  Typed'
<1> DEFINE i == m.to
           l == AppendedLog(i, m)
<1>0. /\ Terms /\ Indexes /\ Soft /\ log \in [Server -> Logs] /\ voters \in [Server -> SUBSET Server]
      /\ MsgTyped(m) /\ i \in Server /\ m.from \in Server /\ m.term \in 0 .. MaxTerm
  BY DEF Typed, MsgTyped
<1>1. m.type = "AppendEntries" /\ AdoptTerm(i, m.term)
      /\ (IF Follows(i, m) THEN StepDown(i) ELSE UNCHANGED softVars)
  BY DEF RejectMismatchedAppend, AcceptAppend
<1>2. Terms' /\ Soft'
  BY <1>0, <1>1, TermsAdopted, SoftFollows
<1>3. l \in Logs /\ log[i] \in Logs
  BY <1>0, <1>1, AppendedTyped
<1>4. ASSUME NEW ok, NEW k \in Logs, Exchange({m}, {AppendEntriesResp(i, m.from, m.term, ok, LastIndex(k))})
      PROVE  \A x \in msgs' : MsgTyped(x)
  <2> DEFINE a == AppendEntriesResp(i, m.from, m.term, ok, LastIndex(k))
  <2>1. MsgTyped(a)
    BY <1>0, LogTyped, AnswersTyped
  <2> HIDE DEF a
  <2>2. Exchange({m}, {a})
    BY <1>4 DEF a
  <2>. QED BY <2>1, <2>2, NetKept DEF Typed
<1>5. CASE RejectMismatchedAppend(i, m)
  <2>1. \A x \in msgs' : MsgTyped(x)
    BY <1>3, <1>4, <1>5, Zenon DEF RejectMismatchedAppend, Reply
  <2>2. UNCHANGED <<commitIndex, lastApplied, log, voters>>
    BY <1>5 DEF RejectMismatchedAppend
  <2>. QED BY <1>0, <1>2, <2>1, <2>2, IndexesSame DEF Typed
<1>6. CASE AcceptAppend(i, m)
  <2> DEFINE c == CommitAfterAppend(i, m)
  <2>1. c \in 0 .. MaxLog
    BY <1>0, <1>1, CommitAfterTyped
  <2>2. /\ log' = [log EXCEPT ![i] = l] /\ commitIndex' = [commitIndex EXCEPT ![i] = c]
        /\ ApplyCommitted(i, l, c)
        /\ Exchange({m}, {AppendEntriesResp(i, m.from, m.term, TRUE, LastIndex(l))})
    BY <1>6 DEF AcceptAppend, Reply
  <2>3. lastApplied' = [lastApplied EXCEPT ![i] = Max({lastApplied[i], c})]
    BY <2>2 DEF ApplyCommitted
  <2> HIDE DEF c, l
  <2>4. Indexes'
    BY <1>0, <2>1, <2>2, <2>3, IndexesApplied, Zenon
  <2>5. voters' = voters
    BY <1>0, <2>2, AppliedKeepsVoters
  <2>6. log' \in [Server -> Logs]
    BY <1>0, <1>3, <2>2
  <2>7. \A x \in msgs' : MsgTyped(x)
    BY <1>3, <1>4, <2>2, Zenon
  <2>. QED BY <1>0, <1>2, <2>4, <2>5, <2>6, <2>7 DEF Typed
<1>. QED BY <1>5, <1>6

LEMMA AppendRespTyped ==
  ASSUME FixedMembership, Typed, NEW m \in msgs, HandleAppendResp(m.to, m)
  PROVE  Typed'
<1> DEFINE i == m.to
<1> PICK n : SenderOK(n) /\ AnswersWith(i, m, n)
  BY AppendRespStep
<1>0. /\ Terms /\ Indexes /\ Soft /\ log \in [Server -> Logs] /\ voters \in [Server -> SUBSET Server]
      /\ i \in Server /\ m.from \in Server /\ log[i] \in Logs
  BY DEF Typed, MsgTyped
<1>1. /\ SenderOK(n) /\ n.applied = Max({lastApplied[i], n.commit})
      /\ progress' = [progress EXCEPT ![i] = n.progress]
      /\ commitIndex' = [commitIndex EXCEPT ![i] = n.commit]
      /\ lastApplied' = [lastApplied EXCEPT ![i] = n.applied] /\ ApplyCommitted(i, log[i], n.commit)
      /\ pendingReads' = [pendingReads EXCEPT ![i] = {k \in pendingReads[i] : k > n.commit}]
      /\ log' = [log EXCEPT ![i] = IF LastIndex(log[i]) - n.applied > CompactThreshold
                                   THEN Restore(n.applied, TermAt(log[i], n.applied)) ELSE log[i]]
      /\ Exchange({m}, {AppendToPeer(i, m.from, n)}) \/ Exchange({m}, {})
      /\ UNCHANGED <<currentTerm, votedFor, role, votes>>
  BY DEF AnswersWith
<1>2. n.commit \in 0 .. MaxLog /\ n.applied \in 0 .. MaxLog /\ n.progress \in ProgressTables
  BY <1>1 DEF SenderOK
<1>3. Indexes'
  BY <1>0, <1>1, <1>2, IndexesApplied, Zenon
<1>4. voters' = voters
  BY <1>0, <1>1, AppliedKeepsVoters
<1>5. log' \in [Server -> Logs]
  <2>1. n.applied \in Int
    BY <1>2, BoundAssumption
  <2>2. \A k \in Int : TermAt(log[i], k) \in 0 .. MaxTerm
    BY <1>0, EntriesTyped
  <2>3. Restore(n.applied, TermAt(log[i], n.applied)) \in Logs
    BY <1>2, <2>1, <2>2, RestoreTyped
  <2>. QED BY <1>0, <1>1, <2>3
<1>6. Soft'
  <2>1. progress' \in [Server -> ProgressTables] /\ pendingReads' \in [Server -> SUBSET (0 .. MaxLog)]
    BY <1>0, <1>1, <1>2 DEF Soft
  <2>. QED BY <1>0, <1>1, <2>1 DEF Soft
<1>7. \A x \in msgs' : MsgTyped(x)
  <2> DEFINE q == AppendToPeer(i, m.from, n)
  <2>1. MsgTyped(q)
    BY <1>0, <1>1, AppendTyped
  <2> HIDE DEF q
  <2>2. Exchange({m}, {q}) \/ Exchange({m}, {})
    BY <1>1 DEF q
  <2>. QED BY <2>1, <2>2, NetKept DEF Typed
<1>8. Terms'
  BY <1>0, <1>1 DEF Terms
<1>. QED BY <1>0, <1>3, <1>4, <1>5, <1>6, <1>7, <1>8 DEF Typed

LEMMA SnapshotTyped ==
  ASSUME Typed, NEW m \in msgs, HandleInstallSnapshot(m.to, m)
  PROVE  Typed'
<1> DEFINE i == m.to
           l == Restore(m.lastIndex, m.lastTerm)
           a == InstallSnapshotResp(i, m.from, m.term)
<1>0. /\ Terms /\ Indexes /\ Soft /\ log \in [Server -> Logs] /\ voters \in [Server -> SUBSET Server]
      /\ i \in Server /\ m.from \in Server /\ m.term \in 0 .. MaxTerm
      /\ m.lastIndex \in 0 .. MaxLog /\ m.lastTerm \in 0 .. MaxTerm
  BY DEF Typed, MsgTyped, HandleInstallSnapshot
<1>1. /\ StepDown(i) /\ AdoptTerm(i, m.term) /\ voters' = voters
      /\ log' = [log EXCEPT ![i] = l]
      /\ commitIndex' = [commitIndex EXCEPT ![i] = m.lastIndex]
      /\ lastApplied' = [lastApplied EXCEPT ![i] = m.lastIndex]
      /\ Exchange({m}, {a})
  BY DEF HandleInstallSnapshot, Reply
<1>2. MsgTyped(a) /\ l \in Logs
  BY <1>0, AnswersTyped, RestoreTyped
<1> HIDE DEF a, l
<1>3. Terms' /\ Soft'
  BY <1>0, <1>1, TermsAdopted, SoftDown
<1>4. Indexes'
  <2>1. m.lastIndex <= m.lastIndex
    BY <1>0, BoundAssumption
  <2>. QED BY <1>0, <1>1, <2>1, IndexesSet, Zenon
<1>5. log' \in [Server -> Logs]
  BY <1>0, <1>1, <1>2
<1>6. \A x \in msgs' : MsgTyped(x)
  BY <1>1, <1>2, NetKept DEF Typed
<1>. QED BY <1>0, <1>1, <1>3, <1>4, <1>5, <1>6 DEF Typed

LEMMA CrashesTyped ==
  ASSUME Typed, NEW m \in msgs,
         CrashInSyncOfAppend(m.to, m) \/ CrashInSyncOfSnapshot(m.to, m) \/ CrashInSyncOfCompaction(m.to, m)
  PROVE  Typed'
<1> DEFINE i == m.to
<1>0. /\ Terms /\ Indexes /\ Soft /\ log \in [Server -> Logs] /\ voters \in [Server -> SUBSET Server]
      /\ MsgTyped(m) /\ i \in Server /\ m.term \in 0 .. MaxTerm /\ log[i] \in Logs
  BY DEF Typed, MsgTyped
<1>1. Reopen(i) /\ Exchange({m}, {})
  BY DEF CrashInSyncOfAppend, CrashInSyncOfSnapshot, CrashInSyncOfCompaction, Reply
<1>2. Soft' /\ log' \in [Server -> Logs] /\ voters' \in [Server -> SUBSET Server]
  BY <1>0, <1>1, ReopenTyped
<1>3. \A x \in msgs' : MsgTyped(x)
  BY <1>1, NetKept DEF Typed
<1>4. Terms'
  <2>1. CASE AdoptTerm(i, m.term)
    BY <1>0, <2>1, TermsAdopted
  <2>2. CASE UNCHANGED <<currentTerm, votedFor>>
    BY <1>0, <2>2 DEF Terms
  <2>. QED BY <2>1, <2>2 DEF CrashInSyncOfAppend, CrashInSyncOfSnapshot, CrashInSyncOfCompaction
<1>5. ASSUME NEW c \in 0 .. MaxLog, commitIndex' = [commitIndex EXCEPT ![i] = c],
             lastApplied' = [lastApplied EXCEPT ![i] = Max({lastApplied[i], c})]
      PROVE  Indexes'
  BY <1>0, <1>5, IndexesApplied, Zenon
<1>6. Indexes'
  <2>1. CASE CrashInSyncOfAppend(i, m)
    <3> DEFINE c == CommitAfterAppend(i, m)
    <3>1. /\ m.type = "AppendEntries" /\ commitIndex' = [commitIndex EXCEPT ![i] = c]
          /\ lastApplied' = [lastApplied EXCEPT ![i] = Max({lastApplied[i], c})]
      BY <2>1 DEF CrashInSyncOfAppend
    <3>2. c \in 0 .. MaxLog
      BY <1>0, <3>1, CommitAfterTyped
    <3> HIDE DEF c
    <3>. QED BY <1>5, <3>1, <3>2, Zenon
  <2>2. CASE CrashInSyncOfSnapshot(i, m)
    <3>1. /\ m.type = "InstallSnapshot"
          /\ commitIndex' = [commitIndex EXCEPT ![i] = m.lastIndex]
          /\ lastApplied' = [lastApplied EXCEPT ![i] = m.lastIndex]
      BY <2>2, Zenon DEF CrashInSyncOfSnapshot
    <3>2. m.lastIndex \in 0 .. MaxLog
      BY ONLY <1>0, <3>1, Zenon DEF MsgTyped
    <3>3. m.lastIndex <= m.lastIndex
      BY ONLY <3>2, BoundAssumption DEF BoundAssumption
    <3>. QED BY <1>0, <3>1, <3>2, <3>3, IndexesSet, Zenon
  <2>3. CASE CrashInSyncOfCompaction(i, m)
    <3> DEFINE c == AdvancedCommit(i, ProgressAfter(i, m))
    <3>1. /\ commitIndex' = [commitIndex EXCEPT ![i] = c]
          /\ lastApplied' = [lastApplied EXCEPT ![i] = Max({lastApplied[i], c})]
      BY <2>3 DEF CrashInSyncOfCompaction
    <3>2. c \in 0 .. MaxLog
      BY <1>0, AdvancedTyped
    <3> HIDE DEF c
    <3>. QED BY <1>5, <3>1, <3>2, Zenon
  <2>. QED BY <2>1, <2>2, <2>3
<1>. QED BY <1>2, <1>3, <1>4, <1>6 DEF Typed

LEMMA TypedNext ==
  ASSUME FixedMembership, Typed, [Next]_vars
  PROVE  Typed'
<1>1. CASE UNCHANGED vars
  BY <1>1 DEF vars, hardVars, softVars, history, Typed, Terms, Indexes, CommittedIsApplied, Soft
<1>2. ASSUME NEW i \in Server, ElectionTimeout(i) PROVE Typed'
  BY <1>2, ElectionTimeoutTyped
<1>3. ASSUME NEW i \in Server,
             HeartbeatTimeout(i) \/ ReadIndex(i) \/ (\E c \in Command \cup ConfChange : Propose(i, c))
               \/ (\E j \in Server : HandleReadIndex(i, j))
      PROVE  Typed'
  BY <1>3, LeaderStepsTyped
<1>4. ASSUME NEW i \in Server, Restart(i) PROVE Typed'
  BY <1>4, RestartTyped
<1>5. ASSUME NEW m \in msgs, Receive(m) PROVE Typed'
  BY <1>5, VoteMessagesTyped, PassiveMessagesTyped, AppendMessagesTyped, AppendRespTyped,
     SnapshotTyped, CrashesTyped DEF Receive
<1>6. Readers \subseteq Server
  BY BoundAssumption
<1>. QED BY <1>1, <1>2, <1>3, <1>4, <1>5, <1>6 DEF Next

-----------------------------------------------------------------------------
(* The theorems about types and indexes *)

\* Every field of a node keeps the type its Rust declaration gives it: no index
\* leaves the log's bounds, next_index never falls below 1 (append_to_peer reads
\* next_index - 1), and the dummy entry at index 0 stays, through every handler,
\* restart and crash inside a sync.
THEOREM RaftTyped == FixedMembership => (Spec => []TypeOK)
<1> SUFFICES ASSUME FixedMembership PROVE Spec => []TypeOK
  OBVIOUS
<1>1. Init => Typed
  BY TypedInit
<1>2. Typed /\ [Next]_vars => Typed'
  BY TypedNext
<1>3. Typed => TypeOK
  <2> SUFFICES ASSUME Typed PROVE TypeOK
    OBVIOUS
  <2>1. ASSUME NEW i \in Server PROVE log[i] # <<>> /\ \A k \in DOMAIN log[i] : log[i][k] \in Entry
    <3>1. log[i] \in Seq(Entry) /\ Len(log[i]) \in 1 .. MaxLog + 1
      BY LogTyped DEF Typed
    <3>. QED BY <3>1
  <2>2. ASSUME NEW i \in Server, NEW p \in DOMAIN progress[i]
        PROVE  progress[i][p] \in [next : 1 .. MaxLog + 1, match : 0 .. MaxLog]
    <3>1. PICK D \in SUBSET Server : progress[i] \in [D -> Progress]
      BY DEF Typed, Soft, ProgressTables
    <3>. QED BY <3>1 DEF Progress
  <2>. QED BY <2>1, <2>2 DEF Typed, Terms, Indexes, Soft, TypeOK
<1>. QED BY <1>1, <1>2, <1>3, PTL DEF Spec

-----------------------------------------------------------------------------
(* The logs of leaders *)

LEMMA PrefixOfItself ==
  ASSUME NEW l \in Logs
  PROVE  Prefix(l, l)
<1>1. l \in Seq(Entry) /\ Len(l) \in Nat
  BY LogTyped
<1>. QED BY <1>1 DEF Prefix

LEMMA PrefixOfAppended ==
  ASSUME NEW l \in Logs, NEW e \in Entry
  PROVE  Prefix(l, Append(l, e))
<1> DEFINE n == Append(l, e)
<1>1. l \in Seq(Entry) /\ Len(l) \in Nat
  BY LogTyped
<1>2. n \in Seq(Entry) /\ Len(n) = Len(l) + 1 /\ \A k \in 1 .. Len(l) : n[k] = l[k]
  BY <1>1
<1> HIDE DEF n
<1>3. SubSeq(n, 1, Len(l)) = l
  BY <1>1, <1>2
<1>. QED BY <1>1, <1>2, <1>3 DEF Prefix, n

\* The log was rebuilt from a snapshot of what the node has applied.
Compacted(i) == LastIndex(log'[i]) = lastApplied'[i] /\ lastApplied[i] <= lastApplied'[i]

KeepsLeaderLogs ==
  \A i \in Server :
    role[i] = "Leader" /\ role'[i] = "Leader" =>
      \/ Prefix(log[i], log'[i])
      \/ Compacted(i)

LEMMA SameLogsKept ==
  ASSUME Typed, log' = log
  PROVE  KeepsLeaderLogs
BY PrefixOfItself DEF Typed, KeepsLeaderLogs

\* A node whose log is replaced no longer leads.
LEMMA FollowerLogReplaced ==
  ASSUME Typed, NEW i \in Server, NEW l, log' = [log EXCEPT ![i] = l], role'[i] # "Leader"
  PROVE  KeepsLeaderLogs
<1> SUFFICES ASSUME NEW j \in Server, role'[j] = "Leader" PROVE Prefix(log[j], log'[j])
  BY DEF KeepsLeaderLogs
<1>1. log'[j] = log[j] /\ log[j] \in Logs
  BY DEF Typed
<1>. QED BY <1>1, PrefixOfItself

LEMMA AppendKeepsLeaderLogs ==
  ASSUME Typed, NEW i \in Server, NEW c \in Command \cup ConfChange \cup {Noop},
         log' = [log EXCEPT ![i] = Append(log[i], [term |-> currentTerm[i], cmd |-> c])]
  PROVE  KeepsLeaderLogs
<1> DEFINE e == [term |-> currentTerm[i], cmd |-> c]
           l == Append(log[i], e)
<1>1. log \in [Server -> Logs] /\ e \in Entry
  BY DEF Typed, Terms, Entry
<1>2. Prefix(log[i], l)
  BY <1>1, PrefixOfAppended
<1>3. log' = [log EXCEPT ![i] = l]
  OBVIOUS
<1> HIDE DEF l
<1> SUFFICES ASSUME NEW j \in Server PROVE Prefix(log[j], log'[j])
  BY DEF KeepsLeaderLogs
<1>4. CASE j = i
  BY <1>1, <1>2, <1>3, <1>4, Zenon
<1>5. CASE j # i
  <2>1. log'[j] = log[j] /\ log[j] \in Logs
    BY <1>1, <1>3, <1>5
  <2>. QED BY <2>1, PrefixOfItself
<1>. QED BY <1>4, <1>5

\* An answer leaves the log alone or compacts it to what is then applied.
LEMMA AppendRespKeepsLeaderLogs ==
  ASSUME FixedMembership, Typed, NEW m \in msgs, HandleAppendResp(m.to, m)
  PROVE  KeepsLeaderLogs
<1> DEFINE i == m.to
<1>0. PICK n : SenderOK(n) /\ AnswersWith(i, m, n)
  BY AppendRespStep
<1>1. /\ n.applied \in 0 .. MaxLog /\ n.commit \in Nat /\ i \in Server
      /\ log \in [Server -> Logs] /\ lastApplied \in [Server -> 0 .. MaxLog]
      /\ lastApplied[i] \in Nat /\ MaxLog \in Nat
  BY <1>0, BoundAssumption DEF SenderOK, Typed, Indexes, MsgTyped
<1> DEFINE a == n.applied
           l == Restore(a, TermAt(log[i], a))
<1>2. /\ log' = [log EXCEPT ![i] = IF LastIndex(log[i]) - a > CompactThreshold THEN l ELSE log[i]]
      /\ lastApplied' = [lastApplied EXCEPT ![i] = a] /\ a = Max({lastApplied[i], n.commit})
  BY <1>0 DEF AnswersWith
<1>3. lastApplied[i] <= a
  BY <1>1, <1>2, LargerOfTwo
<1>4. LastIndex(l) = a
  <2>1. \A t : Len(Restore(a, t)) = a + 1
    BY <1>1 DEF Restore
  <2>. QED BY <1>1, <2>1 DEF LastIndex
<1> HIDE DEF a, l
<1> SUFFICES ASSUME NEW j \in Server PROVE Prefix(log[j], log'[j]) \/ Compacted(j)
  BY DEF KeepsLeaderLogs
<1>5. CASE log'[j] = log[j]
  BY <1>1, <1>5, PrefixOfItself
<1>6. CASE log'[j] # log[j]
  <2>1. j = i /\ log'[i] = l /\ lastApplied'[i] = a
    BY <1>1, <1>2, <1>6
  <2>. QED BY <1>3, <1>4, <2>1 DEF Compacted
<1>. QED BY <1>5, <1>6

LEMMA ReceiveKeepsLeaderLogs ==
  ASSUME FixedMembership, Typed, NEW m \in msgs, Receive(m)
  PROVE  KeepsLeaderLogs
<1> DEFINE i == m.to
<1>0. i \in Server /\ m.term \in 0 .. MaxTerm /\ currentTerm[i] \in 0 .. MaxTerm /\ MaxTerm \in Nat
      /\ role \in [Server -> Role]
  BY BoundAssumption DEF Typed, MsgTyped, Terms, Soft
<1>1. CASE HandleAppendResp(i, m)
  BY <1>1, AppendRespKeepsLeaderLogs
<1>2. CASE HandleInstallSnapshot(i, m)
  <2>1. log' = [log EXCEPT ![i] = Restore(m.lastIndex, m.lastTerm)] /\ StepDown(i)
    BY <1>2 DEF HandleInstallSnapshot
  <2>2. role'[i] = "Follower"
    BY <1>0, <2>1 DEF StepDown
  <2>. QED BY <1>0, <2>1, <2>2, FollowerLogReplaced, Zenon
<1>3. CASE AcceptAppend(i, m)
  <2>1. /\ log' = [log EXCEPT ![i] = AppendedLog(i, m)] /\ m.term >= currentTerm[i]
        /\ IF Follows(i, m) THEN StepDown(i) ELSE UNCHANGED softVars
    BY <1>3 DEF AcceptAppend
  <2>2. role'[i] # "Leader"
    <3>1. CASE Follows(i, m)
      BY <1>0, <2>1, <3>1 DEF StepDown
    <3>2. CASE ~ Follows(i, m)
      <4>1. ~ (m.term > currentTerm[i]) /\ ~ (m.term = currentTerm[i] /\ role[i] = "Leader")
        BY <3>2, Zenon DEF Follows
      <4>2. m.term >= currentTerm[i] /\ m.term \in Nat /\ currentTerm[i] \in Nat
        BY ONLY <1>0, <2>1
      <4>3. role[i] # "Leader"
        BY ONLY <4>1, <4>2
      <4>. QED BY <2>1, <3>2, <4>3 DEF softVars
    <3>. QED BY <3>1, <3>2
  <2>. QED BY <1>0, <2>1, <2>2, FollowerLogReplaced, Zenon
<1>4. CASE ~ (HandleAppendResp(i, m) \/ HandleInstallSnapshot(i, m) \/ AcceptAppend(i, m))
  <2>1. log' = log
    BY <1>4 DEF Receive, HandleRequestVote, VoteFromHigherTerm, CountVote, IgnoreResponse,
         RejectStaleAppend, RejectMismatchedAppend, AppendRespFromHigherTerm, RejectStaleSnapshot,
         EchoOther, CrashInSyncOfAppend, CrashInSyncOfSnapshot, CrashInSyncOfCompaction, Reopen
  <2>. QED BY <2>1, SameLogsKept
<1>. QED BY <1>1, <1>2, <1>3, <1>4

\* While a node leads, no request, answer or read changes or removes an entry
\* it holds (raft_core.rs).  The one exception is the compaction of node.rs: it
\* replaces the log by a snapshot that ends at the last applied index, and that
\* index never moves back.
THEOREM LeadersAppendOnly == FixedMembership => (Spec => LeaderAppendOnly)
<1> SUFFICES ASSUME FixedMembership PROVE Spec => LeaderAppendOnly
  OBVIOUS
<1>1. Init => Typed
  BY TypedInit
<1>2. Typed /\ [Next]_vars => Typed'
  BY TypedNext
<1>3. Typed /\ [Next]_vars => [KeepsLeaderLogs]_vars
  <2> SUFFICES ASSUME Typed, Next PROVE KeepsLeaderLogs
    OBVIOUS
  <2>1. ASSUME NEW i \in Server, ElectionTimeout(i) PROVE KeepsLeaderLogs
    BY <2>1, SameLogsKept DEF ElectionTimeout
  <2>2. ASSUME NEW i \in Server, HeartbeatTimeout(i) \/ \E j \in Readers : HandleReadIndex(i, j)
        PROVE  KeepsLeaderLogs
    BY <2>2, SameLogsKept, Zenon DEF HeartbeatTimeout, HandleReadIndex
  <2>3. ASSUME NEW i \in Server, NEW c \in Command \cup ConfChange, Propose(i, c) PROVE KeepsLeaderLogs
    BY <2>3, AppendKeepsLeaderLogs, Zenon DEF Propose
  <2>4. ASSUME NEW i \in Readers, ReadIndex(i) PROVE KeepsLeaderLogs
    <3>1. i \in Server
      BY BoundAssumption
    <3>. QED BY <2>4, <3>1, AppendKeepsLeaderLogs, Zenon DEF ReadIndex
  <2>5. ASSUME NEW i \in Server, Restart(i) PROVE KeepsLeaderLogs
    BY <2>5, SameLogsKept DEF Restart, Reopen
  <2>6. ASSUME NEW m \in msgs, Receive(m) PROVE KeepsLeaderLogs
    BY <2>6, ReceiveKeepsLeaderLogs
  <2>. QED BY <2>1, <2>2, <2>3, <2>4, <2>5, <2>6 DEF Next
<1>. QED BY <1>1, <1>2, <1>3, PTL DEF Spec, LeaderAppendOnly, KeepsLeaderLogs, Compacted
=============================================================================
