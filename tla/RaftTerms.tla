----------------------------- MODULE RaftTerms -----------------------------
(***************************************************************************)
(* No node holds an entry of a term it has not reached, for any number of  *)
(* nodes, terms, entries and messages in flight, compaction and crashes    *)
(* inside a sync included, while the membership does not change.           *)
(***************************************************************************)
EXTENDS RaftLogProofs
LOCAL INSTANCE SequenceTheorems

\* The entries of l have terms up to t.
Covered(l, t) == \A k \in 1 .. Len(l) : l[k].term <= t

\* A request carries nothing from beyond the term it is sent in.
MsgCovered(m) ==
  /\ m.type = "AppendEntries" => Covered(m.entries, m.term)
  /\ m.type = "InstallSnapshot" => m.lastTerm <= m.term

LogsCovered == \A i \in Server : Covered(log[i], currentTerm[i])
Covers == LogsCovered /\ \A m \in msgs : MsgCovered(m)

-----------------------------------------------------------------------------
(* What covers a part covers *)

LEMMA CoveredLater ==
  ASSUME NEW l \in Logs, NEW t \in 0 .. MaxTerm, NEW u \in 0 .. MaxTerm, t <= u, Covered(l, t)
  PROVE  Covered(l, u)
<1>1. \A k \in 1 .. Len(l) : l[k].term \in 0 .. MaxTerm
  BY EntriesTyped
<1>2. MaxTerm \in Nat
  BY BoundAssumption
<1>. QED BY <1>1, <1>2 DEF Covered

LEMMA TermAtCovered ==
  ASSUME NEW l \in Logs, NEW t \in 0 .. MaxTerm, NEW k \in Int, Covered(l, t)
  PROVE  TermAt(l, k) <= t
<1>1. l \in Seq(Entry) /\ DOMAIN l = 1 .. Len(l) /\ MaxTerm \in Nat
  BY LogTyped, BoundAssumption
<1>. QED BY <1>1 DEF TermAt, Covered

LEMMA RestoreCovered ==
  ASSUME NEW k \in 0 .. MaxLog, NEW s, NEW t, s <= t
  PROVE  Covered(Restore(k, s), t)
<1>1. MaxLog \in Nat /\ k + 1 \in Nat
  BY BoundAssumption
<1>2. Len(Restore(k, s)) = k + 1 /\ \A x \in 1 .. k + 1 : Restore(k, s)[x].term = s
  BY <1>1 DEF Restore
<1>. QED BY <1>2 DEF Covered

LEMMA AppendedCovered ==
  ASSUME NEW i \in Server, log[i] \in Logs, NEW m, MsgTyped(m), m.type = "AppendEntries", NEW t,
         Covered(log[i], t), Covered(m.entries, t)
  PROVE  Covered(AppendedLog(i, m), t)
<1> DEFINE l == log[i]
           p == m.prevLogIndex
           b == TruncateFrom(l, p)
<1>1. /\ l \in Seq(Entry) /\ Len(l) \in 1 .. MaxLog + 1 /\ MaxLog \in Nat
      /\ p \in Nat /\ m.entries \in Seq(Entry)
  BY LogTyped DEF MsgTyped
<1>2. b \in Seq(Entry) /\ Len(b) <= Len(l) /\ \A x \in 1 .. Len(b) : b[x] = l[x]
  <2>1. CASE p + 1 < Len(l)
    <3>1. b = SubSeq(l, 1, p + 1)
      BY <2>1, Zenon DEF TruncateFrom
    <3>. QED BY <1>1, <2>1, <3>1
  <2>2. CASE ~(p + 1 < Len(l))
    BY <1>1, <2>2 DEF TruncateFrom
  <2>. QED BY <2>1, <2>2
<1> HIDE DEF b
<1>3. Covered(b, t)
  BY <1>1, <1>2 DEF Covered
<1>4. Covered(b \o m.entries, t)
  <2> DEFINE c == b \o m.entries
  <2>1. /\ Len(c) = Len(b) + Len(m.entries)
        /\ \A x \in 1 .. Len(c) : c[x] = IF x <= Len(b) THEN b[x] ELSE m.entries[x - Len(b)]
    BY <1>1, <1>2, ConcatProperties
  <2>2. Len(b) \in Nat /\ Len(m.entries) \in Nat
    BY <1>1, <1>2
  <2> HIDE DEF c
  <2> SUFFICES ASSUME NEW x \in 1 .. Len(c) PROVE c[x].term <= t
    BY DEF Covered, c
  <2>3. CASE x <= Len(b)
    BY <1>3, <2>1, <2>2, <2>3 DEF Covered
  <2>4. CASE ~ (x <= Len(b))
    <3>1. x - Len(b) \in 1 .. Len(m.entries)
      BY <2>1, <2>2, <2>4
    <3>. QED BY <2>1, <2>4, <3>1 DEF Covered
  <2>. QED BY <2>3, <2>4
<1>. QED BY <1>4 DEF AppendedLog, b

LEMMA SentCovered ==
  ASSUME NEW i \in Server, NEW p \in Server, NEW n, SenderOK(n), Covered(n.log, n.term)
  PROVE  MsgCovered(AppendToPeer(i, p, n))
<1> DEFINE m == AppendToPeer(i, p, n)
<1> SUFFICES MsgCovered(m)
  OBVIOUS
<1>1. PICK k \in 1 .. MaxLog + 1 : m = SnapshotMsg(i, p, n) \/ m = SliceMsg(i, p, n, k)
  BY AppendForms, Zenon
<1> HIDE DEF m
<1>2. n.log \in Logs /\ n.term \in 0 .. MaxTerm /\ n.applied \in 0 .. MaxLog /\ n.applied \in Int
      /\ MaxLog \in Nat
  BY BoundAssumption DEF SenderOK
<1>3. CASE m = SnapshotMsg(i, p, n)
  <2>1. TermAt(n.log, n.applied) <= n.term
    BY <1>2, TermAtCovered
  <2>. QED BY <1>3, <2>1 DEF MsgCovered, SnapshotMsg
<1>4. CASE m = SliceMsg(i, p, n, k)
  <2> DEFINE s == SliceFrom(n.log, k, MaxAppendBatch)
  <2>1. /\ s \in Seq(Entry) /\ (s # <<>> => k + Len(s) <= Len(n.log))
        /\ \A x \in 1 .. Len(s) : s[x] = n.log[k + x]
    BY <1>2, SliceTyped
  <2>2. m.type = "AppendEntries" /\ m.entries = s /\ m.term = n.term
    BY <1>4 DEF SliceMsg
  <2> HIDE DEF s
  <2>3. ASSUME NEW x \in 1 .. Len(s) PROVE s[x].term <= n.term
    <3>1. k + x \in 1 .. Len(n.log)
      <4>1. Len(n.log) \in Nat /\ Len(s) \in Nat /\ s # <<>>
        BY <1>2, <2>1, LogTyped
      <4>. QED BY <1>2, <2>1, <4>1
    <3>. QED BY <2>1, <3>1 DEF Covered
  <2>. QED BY <2>2, <2>3 DEF MsgCovered, Covered
<1>. QED BY <1>1, <1>3, <1>4

LEMMA BroadcastCovered ==
  ASSUME voters \in [Server -> SUBSET Server], NEW i \in Server, NEW n, SenderOK(n),
         Covered(n.log, n.term)
  PROVE  \A m \in BroadcastAppend(i, n) : MsgCovered(m)
<1> SUFFICES ASSUME NEW p \in voters[i] \ {i} PROVE MsgCovered(AppendToPeer(i, p, n))
  BY DEF BroadcastAppend
<1>. QED BY SentCovered

LEMMA NetCovered ==
  ASSUME Covers, NEW R, NEW S, Exchange(R, S), \A m \in S : MsgCovered(m)
  PROVE  \A m \in msgs' : MsgCovered(m)
BY SentOrLost DEF Covers

LEMMA AnswersCovered ==
  ASSUME NEW i, NEW j, NEW t
  PROVE  /\ \A g : MsgCovered(RequestVoteResp(i, j, t, g)) /\ MsgCovered(ReadIndexResp(i, j, t, g))
         /\ \A ok, k : MsgCovered(AppendEntriesResp(i, j, t, ok, k))
         /\ MsgCovered(InstallSnapshotResp(i, j, t)) /\ MsgCovered(RequestVoteReq(i, j, t))
BY DEF MsgCovered, RequestVoteResp, ReadIndexResp, AppendEntriesResp, InstallSnapshotResp,
       RequestVoteReq

-----------------------------------------------------------------------------
(* The steps *)

LEMMA AdoptGrows ==
  ASSUME Terms, NEW i \in Server, NEW t \in 0 .. MaxTerm,
         currentTerm' = [currentTerm EXCEPT ![i] = Max({currentTerm[i], t})]
  PROVE  (\A j \in Server : currentTerm[j] <= currentTerm'[j]) /\ t <= currentTerm'[i]
<1> DEFINE n == Max({currentTerm[i], t})
<1>1. currentTerm \in [Server -> 0 .. MaxTerm] /\ MaxTerm \in Nat /\ currentTerm[i] \in Nat /\ t \in Nat
  BY BoundAssumption DEF Terms
<1>2. currentTerm[i] <= n /\ t <= n
  BY <1>1, LargerOfTwo
<1> HIDE DEF n
<1>3. currentTerm' = [currentTerm EXCEPT ![i] = n]
  BY DEF n
<1>. QED BY <1>1, <1>2, <1>3

\* Terms only grow, so a log that stays as it is stays covered.
LEMMA SameLogsCovered ==
  ASSUME Typed, Typed', LogsCovered, log' = log, \A j \in Server : currentTerm[j] <= currentTerm'[j]
  PROVE  LogsCovered'
<1> SUFFICES ASSUME NEW j \in Server PROVE Covered(log[j], currentTerm'[j])
  BY DEF LogsCovered, Covered
<1>1. /\ log[j] \in Logs /\ currentTerm[j] \in 0 .. MaxTerm /\ currentTerm'[j] \in 0 .. MaxTerm
      /\ Covered(log[j], currentTerm[j])
  BY DEF Typed, Terms, LogsCovered
<1>. QED BY <1>1, CoveredLater

LEMMA OneLogCovered ==
  ASSUME Typed, Typed', LogsCovered, NEW i \in Server, NEW l, log' = [log EXCEPT ![i] = l],
         Covered(l, currentTerm'[i]), \A j \in Server : currentTerm[j] <= currentTerm'[j]
  PROVE  LogsCovered'
<1> SUFFICES ASSUME NEW j \in Server PROVE Covered(log'[j], currentTerm'[j])
  BY DEF LogsCovered, Covered
<1>0. log \in [Server -> Logs]
  BY DEF Typed
<1>1. CASE j = i
  BY <1>0, <1>1
<1>2. CASE j # i
  <2>1. /\ log[j] \in Logs /\ currentTerm[j] \in 0 .. MaxTerm /\ currentTerm'[j] \in 0 .. MaxTerm
        /\ Covered(log[j], currentTerm[j]) /\ log'[j] = log[j]
    BY <1>0, <1>2 DEF Typed, Terms, LogsCovered
  <2>. QED BY <2>1, CoveredLater
<1>. QED BY <1>1, <1>2

LEMMA ElectionTimeoutCovers ==
  ASSUME Typed, Typed', Covers, NEW i \in Server, ElectionTimeout(i)
  PROVE  Covers'
<1> DEFINE t == currentTerm[i] + 1
           fresh == FreshProgress(i, voters[i], log[i])
           n == [Sender(i) EXCEPT !.term = t, !.progress = fresh]
           R == {RequestVoteReq(i, p, t) : p \in voters[i] \ {i}}
           B == BroadcastAppend(i, n)
<1>0. /\ Terms /\ log \in [Server -> Logs] /\ voters \in [Server -> SUBSET Server] /\ LogsCovered
      /\ currentTerm[i] \in 0 .. MaxTerm /\ MaxTerm \in Nat
  BY BoundAssumption DEF Typed, Terms, Covers
<1>1. t \in 0 .. MaxTerm /\ currentTerm' = [currentTerm EXCEPT ![i] = t] /\ log' = log
  BY <1>0 DEF ElectionTimeout
<1>2. \A j \in Server : currentTerm[j] <= currentTerm'[j]
  BY <1>0, <1>1 DEF Terms
<1>3. fresh \in ProgressTables
  BY <1>0, FreshTyped
<1>4. SenderOK(n) /\ n.log = log[i] /\ n.term = t
  <2>1. SenderOK(Sender(i))
    BY SenderTyped
  <2> HIDE DEF t, fresh
  <2>. QED BY <1>1, <1>3, <2>1 DEF SenderOK, Sender
<1>5. Covered(n.log, n.term)
  <2>1. Covered(log[i], currentTerm[i]) /\ log[i] \in Logs /\ currentTerm[i] <= t
    BY <1>0 DEF LogsCovered
  <2> HIDE DEF t
  <2>. QED BY <1>0, <1>1, <1>4, <2>1, CoveredLater
<1>6. \A m \in R \cup B : MsgCovered(m)
  <2>1. \A m \in R : MsgCovered(m)
    <3> HIDE DEF t
    <3>. QED BY AnswersCovered
  <2>2. \A m \in B : MsgCovered(m)
    <3> HIDE DEF n
    <3>. QED BY <1>0, <1>4, <1>5, BroadcastCovered
  <2>. QED BY <2>1, <2>2
<1>7. Exchange({}, R \cup B) \/ Exchange({}, R \cup {})
  BY Zenon DEF ElectionTimeout, Send
<1> HIDE DEF R, B
<1>8. \A m \in msgs' : MsgCovered(m)
  BY <1>6, <1>7, NetCovered
<1>. QED BY <1>0, <1>1, <1>2, <1>8, SameLogsCovered DEF Covers

\* A leader's broadcast that leaves its log alone.
LEMMA BroadcastCovers ==
  ASSUME Typed, Typed', Covers, NEW i \in Server, UNCHANGED <<currentTerm, log>>,
         NEW X, \A m \in X : MsgCovered(m), NEW n, SenderOK(n), n.log = log[i], n.term = currentTerm[i],
         NEW R, Exchange(R, BroadcastAppend(i, n) \cup X)
  PROVE  Covers'
<1>1. /\ voters \in [Server -> SUBSET Server] /\ LogsCovered
      /\ Covered(n.log, n.term) /\ \A j \in Server : currentTerm[j] \in 0 .. MaxTerm
  BY DEF Typed, Terms, Covers, LogsCovered
<1>2. \A m \in BroadcastAppend(i, n) \cup X : MsgCovered(m)
  BY <1>1, BroadcastCovered
<1>3. \A m \in msgs' : MsgCovered(m)
  BY <1>2, NetCovered
<1>4. LogsCovered'
  <2>1. \A j \in Server : currentTerm[j] <= currentTerm'[j]
    BY <1>1, BoundAssumption
  <2>. QED BY <1>1, <2>1, SameLogsCovered
<1>. QED BY <1>3, <1>4 DEF Covers

\* An entry of the leader's own term enters its log and is sent.
LEMMA ProposalCovers ==
  ASSUME Typed, Typed', Covers, NEW i \in Server, NEW c \in Command \cup ConfChange \cup {Noop},
         LastIndex(log[i]) < MaxLog, NEW l,
         l = Append(log[i], [term |-> currentTerm[i], cmd |-> c]),
         log' = [log EXCEPT ![i] = l], currentTerm' = currentTerm,
         Exchange({}, BroadcastAppend(i, [Sender(i) EXCEPT !.log = l]))
  PROVE  Covers'
<1> DEFINE e == [term |-> currentTerm[i], cmd |-> c]
           n == [Sender(i) EXCEPT !.log = l]
<1>0. /\ voters \in [Server -> SUBSET Server] /\ LogsCovered /\ log[i] \in Logs
      /\ Covered(log[i], currentTerm[i]) /\ \A j \in Server : currentTerm[j] \in 0 .. MaxTerm
      /\ MaxTerm \in Nat
  BY BoundAssumption DEF Typed, Terms, Covers, LogsCovered
<1>1. l \in Logs /\ SenderOK(n)
  BY ProposedTyped
<1>2. Covered(l, currentTerm[i])
  <2>0. e \in Entry /\ e.term = currentTerm[i]
    BY <1>0 DEF Entry
  <2>1. log[i] \in Seq(Entry) /\ Len(log[i]) \in Nat
    BY <1>0, LogTyped
  <2> HIDE DEF e
  <2>2. l = Append(log[i], e)
    BY DEF e
  <2>3. /\ Len(l) = Len(log[i]) + 1 /\ l[Len(log[i]) + 1] = e
        /\ \A k \in 1 .. Len(log[i]) : l[k] = log[i][k]
    BY <2>0, <2>1, <2>2
  <2>4. currentTerm[i] <= currentTerm[i]
    BY <1>0
  <2>. QED BY <1>0, <2>0, <2>1, <2>3, <2>4 DEF Covered
<1>3. n.log = l /\ n.term = currentTerm[i]
  BY DEF Sender
<1> HIDE DEF n
<1>4. \A m \in msgs' : MsgCovered(m)
  <2>1. \A m \in BroadcastAppend(i, n) : MsgCovered(m)
    BY <1>0, <1>1, <1>2, <1>3, BroadcastCovered
  <2>. QED BY <2>1, NetCovered DEF n
<1>5. LogsCovered'
  <2>1. \A j \in Server : currentTerm[j] <= currentTerm'[j]
    BY <1>0
  <2>. QED BY <1>0, <1>2, <2>1, OneLogCovered
<1>. QED BY <1>4, <1>5 DEF Covers

LEMMA LeaderStepsCover ==
  ASSUME Typed, Typed', Covers, NEW i \in Server,
         HeartbeatTimeout(i) \/ ReadIndex(i)
           \/ (\E c \in Command \cup ConfChange : Propose(i, c))
           \/ (\E j \in Server : HandleReadIndex(i, j))
  PROVE  Covers'
<1>0. SenderOK(Sender(i)) /\ Sender(i).log = log[i] /\ Sender(i).term = currentTerm[i]
  BY SenderTyped DEF Sender
<1>1. CASE HeartbeatTimeout(i)
  <2>1. Exchange({}, BroadcastAppend(i, Sender(i)) \cup {}) /\ UNCHANGED <<currentTerm, log>>
    BY <1>1, Zenon DEF HeartbeatTimeout, Send, hardVars
  <2>. QED BY <1>0, <2>1, BroadcastCovers
<1>2. ASSUME NEW j \in Server, HandleReadIndex(i, j) PROVE Covers'
  <2> DEFINE a == ReadIndexResp(i, j, currentTerm[i], LastIndex(log[i]))
  <2>1. Exchange({}, BroadcastAppend(i, Sender(i)) \cup {a}) /\ UNCHANGED <<currentTerm, log>>
    BY <1>2, Zenon DEF HandleReadIndex, Send, hardVars
  <2>2. \A m \in {a} : MsgCovered(m)
    BY AnswersCovered
  <2> HIDE DEF a
  <2>. QED BY <1>0, <2>1, <2>2, BroadcastCovers
<1>3. ASSUME NEW c \in Command \cup ConfChange, Propose(i, c) PROVE Covers'
  <2> DEFINE l == Append(log[i], [term |-> currentTerm[i], cmd |-> c])
  <2>1. /\ LastIndex(log[i]) < MaxLog /\ log' = [log EXCEPT ![i] = l] /\ currentTerm' = currentTerm
        /\ Exchange({}, BroadcastAppend(i, [Sender(i) EXCEPT !.log = l]))
    BY <1>3, Zenon DEF Propose, Send, hardVars
  <2>. QED BY <2>1, ProposalCovers
<1>4. CASE ReadIndex(i)
  <2> DEFINE l == Append(log[i], [term |-> currentTerm[i], cmd |-> Noop])
  <2>1. /\ LastIndex(log[i]) < MaxLog /\ log' = [log EXCEPT ![i] = l] /\ currentTerm' = currentTerm
        /\ Exchange({}, BroadcastAppend(i, [Sender(i) EXCEPT !.log = l]))
    BY <1>4, Zenon DEF ReadIndex, Send, hardVars
  <2>. QED BY <2>1, ProposalCovers
<1>. QED BY <1>1, <1>2, <1>3, <1>4

\* The handlers that leave the log alone and send nothing but answers.
LEMMA AnswersCover ==
  ASSUME Typed, Typed', Covers, NEW m \in msgs,
         \/ HandleRequestVote(m.to, m) \/ VoteFromHigherTerm(m.to, m)
         \/ IgnoreResponse(m.to, m) \/ RejectStaleAppend(m.to, m) \/ RejectMismatchedAppend(m.to, m)
         \/ AppendRespFromHigherTerm(m.to, m) \/ RejectStaleSnapshot(m.to, m) \/ EchoOther(m.to, m)
         \/ CrashInSyncOfAppend(m.to, m) \/ CrashInSyncOfSnapshot(m.to, m)
         \/ CrashInSyncOfCompaction(m.to, m)
  PROVE  Covers'
<1> DEFINE i == m.to
<1>0. /\ i \in Server /\ Terms /\ LogsCovered /\ m.term \in 0 .. MaxTerm /\ MaxTerm \in Nat
      /\ currentTerm \in [Server -> 0 .. MaxTerm]
  BY BoundAssumption DEF Typed, Terms, MsgTyped, Covers
<1>1. log' = log
  BY DEF HandleRequestVote, VoteFromHigherTerm, IgnoreResponse, RejectStaleAppend,
     RejectMismatchedAppend, AppendRespFromHigherTerm, RejectStaleSnapshot, EchoOther,
     CrashInSyncOfAppend, CrashInSyncOfSnapshot, CrashInSyncOfCompaction, Reopen
<1>2. \/ currentTerm' = currentTerm
      \/ currentTerm' = [currentTerm EXCEPT ![i] = Max({currentTerm[i], m.term})]
  BY DEF HandleRequestVote, VoteFromHigherTerm, IgnoreResponse, RejectStaleAppend,
     RejectMismatchedAppend, AppendRespFromHigherTerm, RejectStaleSnapshot, EchoOther,
     CrashInSyncOfAppend, CrashInSyncOfSnapshot, CrashInSyncOfCompaction, AdoptTerm, hardVars
<1>3. \A j \in Server : currentTerm[j] <= currentTerm'[j]
  <2>1. CASE currentTerm' = currentTerm
    BY <1>0, <2>1
  <2>2. CASE currentTerm' = [currentTerm EXCEPT ![i] = Max({currentTerm[i], m.term})]
    BY <1>0, <2>2, AdoptGrows
  <2>. QED BY <1>2, <2>1, <2>2
<1>4. PICK S : Exchange({m}, S) /\ \A a \in S : MsgCovered(a)
  <2>0. ASSUME NEW a, Exchange({m}, {a}), MsgCovered(a)
        PROVE  \E S : Exchange({m}, S) /\ \A b \in S : MsgCovered(b)
    <3>1. PICK S : S = {a}
      OBVIOUS
    <3>2. \A b \in S : MsgCovered(b)
      BY <2>0, <3>1
    <3>3. Exchange({m}, S)
      BY <2>0, <3>1
    <3>. QED BY <3>2, <3>3, Zenon
  <2>1. CASE HandleRequestVote(i, m)
    <3>1. Exchange({m}, {RequestVoteResp(i, m.from, Max({currentTerm[i], m.term}), Grants(i, m))})
      BY <2>1, Zenon DEF HandleRequestVote, Reply
    <3>. QED BY <2>0, <3>1, AnswersCovered, Zenon
  <2>2. CASE RejectStaleAppend(i, m) \/ RejectMismatchedAppend(i, m)
    <3>1. \E t : Exchange({m}, {AppendEntriesResp(i, m.from, t, FALSE, LastIndex(log[i]))})
      BY <2>2, Zenon DEF RejectStaleAppend, RejectMismatchedAppend, Reply
    <3>. QED BY <2>0, <3>1, AnswersCovered, Zenon
  <2>3. CASE RejectStaleSnapshot(i, m)
    <3>1. Exchange({m}, {InstallSnapshotResp(i, m.from, currentTerm[i])})
      BY <2>3, Zenon DEF RejectStaleSnapshot, Reply
    <3>. QED BY <2>0, <3>1, AnswersCovered, Zenon
  <2>4. CASE EchoOther(i, m)
    <3>1. \/ Exchange({m}, {InstallSnapshotResp(i, m.from, m.term)})
          \/ Exchange({m}, {ReadIndexResp(i, m.from, m.term, m.readIndex)})
      BY <2>4, Zenon DEF EchoOther, Reply
    <3>. QED BY <2>0, <3>1, AnswersCovered, Zenon
  <2>5. CASE \/ VoteFromHigherTerm(i, m) \/ IgnoreResponse(i, m) \/ AppendRespFromHigherTerm(i, m)
             \/ CrashInSyncOfAppend(i, m) \/ CrashInSyncOfSnapshot(i, m)
             \/ CrashInSyncOfCompaction(i, m)
    <3>1. Exchange({m}, {})
      BY <2>5, Zenon DEF VoteFromHigherTerm, IgnoreResponse, AppendRespFromHigherTerm,
         CrashInSyncOfAppend, CrashInSyncOfSnapshot, CrashInSyncOfCompaction, Reply
    <3>. QED BY <3>1
  <2>. QED BY <2>1, <2>2, <2>3, <2>4, <2>5
<1>5. \A a \in msgs' : MsgCovered(a)
  BY <1>4, NetCovered
<1>6. LogsCovered'
  BY <1>0, <1>1, <1>3, SameLogsCovered
<1>. QED BY <1>5, <1>6 DEF Covers

LEMMA CountVoteCovers ==
  ASSUME Typed, Typed', Covers, NEW m \in msgs, CountVote(m.to, m)
  PROVE  Covers'
<1> DEFINE i == m.to
           fresh == FreshProgress(i, voters[i], log[i])
           n == [Sender(i) EXCEPT !.progress = fresh]
<1>0. i \in Server /\ log[i] \in Logs /\ voters[i] \in SUBSET Server
  BY DEF Typed, MsgTyped
<1>1. UNCHANGED <<currentTerm, log>>
  BY DEF CountVote, hardVars
<1>2. fresh \in ProgressTables
  BY <1>0, FreshTyped
<1>3. SenderOK(n) /\ n.log = log[i] /\ n.term = currentTerm[i]
  <2>1. SenderOK(Sender(i))
    BY <1>0, SenderTyped
  <2> HIDE DEF fresh
  <2>. QED BY <1>2, <2>1 DEF SenderOK, Sender
<1>4. Exchange({m}, BroadcastAppend(i, n)) \/ Exchange({m}, {})
  BY Zenon DEF CountVote, Reply
<1> HIDE DEF n, i
<1>5. Exchange({m}, BroadcastAppend(i, n) \cup {})
  BY <1>4, Zenon DEF Exchange
<1>. QED BY <1>0, <1>1, <1>3, <1>5, BroadcastCovers

LEMMA AcceptCovers ==
  ASSUME Typed, Typed', Covers, NEW m \in msgs, AcceptAppend(m.to, m)
  PROVE  Covers'
<1> DEFINE i == m.to
           l == AppendedLog(i, m)
           a == AppendEntriesResp(i, m.from, m.term, TRUE, LastIndex(l))
<1>0. /\ i \in Server /\ Terms /\ LogsCovered /\ m.term \in 0 .. MaxTerm /\ MsgTyped(m)
      /\ log[i] \in Logs /\ Covered(log[i], currentTerm[i]) /\ MsgCovered(m)
      /\ currentTerm[i] \in 0 .. MaxTerm
  BY DEF Typed, Terms, MsgTyped, Covers, LogsCovered
<1>1. /\ log' = [log EXCEPT ![i] = l] /\ m.type = "AppendEntries" /\ m.term >= currentTerm[i]
      /\ currentTerm' = [currentTerm EXCEPT ![i] = Max({currentTerm[i], m.term})]
      /\ Exchange({m}, {a})
  BY Zenon DEF AcceptAppend, AdoptTerm, Reply
<1>2. (\A j \in Server : currentTerm[j] <= currentTerm'[j]) /\ m.term <= currentTerm'[i]
  BY <1>0, <1>1, AdoptGrows
<1>3. l \in Logs /\ Covered(l, m.term)
  <2>1. Covered(log[i], m.term)
    <3>1. currentTerm[i] <= m.term
      BY <1>0, <1>1, BoundAssumption
    <3>. QED BY <1>0, <3>1, CoveredLater
  <2>2. Covered(m.entries, m.term)
    BY <1>0, <1>1 DEF MsgCovered
  <2>. QED BY <1>0, <1>1, <2>1, <2>2, AppendedCovered, AppendedTyped
<1> HIDE DEF l
<1>4. Covered(l, currentTerm'[i])
  <2>1. currentTerm'[i] \in 0 .. MaxTerm
    BY <1>0 DEF Typed, Terms
  <2>. QED BY <1>0, <1>2, <1>3, <2>1, CoveredLater
<1>5. LogsCovered'
  BY <1>0, <1>1, <1>2, <1>4, OneLogCovered
<1>6. \A x \in {a} : MsgCovered(x)
  BY AnswersCovered
<1>7. \A x \in msgs' : MsgCovered(x)
  BY <1>1, <1>6, NetCovered
<1>. QED BY <1>5, <1>7 DEF Covers

LEMMA SnapshotCovers ==
  ASSUME Typed, Typed', Covers, NEW m \in msgs, HandleInstallSnapshot(m.to, m)
  PROVE  Covers'
<1> DEFINE i == m.to
           l == Restore(m.lastIndex, m.lastTerm)
           a == InstallSnapshotResp(i, m.from, m.term)
<1>0. /\ m.type = "InstallSnapshot" /\ log' = [log EXCEPT ![i] = l]
      /\ currentTerm' = [currentTerm EXCEPT ![i] = Max({currentTerm[i], m.term})]
      /\ Exchange({m}, {a})
  BY Zenon DEF HandleInstallSnapshot, AdoptTerm, Reply
<1>1. /\ i \in Server /\ Terms /\ LogsCovered /\ m.term \in 0 .. MaxTerm
      /\ m.lastIndex \in 0 .. MaxLog /\ m.lastTerm \in 0 .. MaxTerm /\ m.lastTerm <= m.term
  BY <1>0 DEF Typed, MsgTyped, Covers, MsgCovered
<1>2. (\A j \in Server : currentTerm[j] <= currentTerm'[j]) /\ m.term <= currentTerm'[i]
  BY <1>0, <1>1, AdoptGrows
<1>3. Covered(l, currentTerm'[i])
  <2>1. currentTerm'[i] \in 0 .. MaxTerm /\ MaxTerm \in Nat
    BY <1>1, BoundAssumption DEF Typed, Terms
  <2>2. m.lastTerm <= currentTerm'[i]
    BY <1>1, <1>2, <2>1
  <2>. QED BY <1>1, <2>2, RestoreCovered
<1> HIDE DEF l
<1>4. LogsCovered'
  BY <1>0, <1>1, <1>2, <1>3, OneLogCovered
<1>5. \A x \in {a} : MsgCovered(x)
  BY AnswersCovered
<1>6. \A x \in msgs' : MsgCovered(x)
  BY <1>0, <1>5, NetCovered
<1>. QED BY <1>4, <1>6 DEF Covers

\* A log compacted to the term of its last applied entry is covered too.
LEMMA AppendRespCovers ==
  ASSUME FixedMembership, Typed, Typed', Covers, NEW m \in msgs, HandleAppendResp(m.to, m)
  PROVE  Covers'
<1> DEFINE i == m.to
<1> PICK n : SenderOK(n) /\ n.log = log[i] /\ n.term = currentTerm[i] /\ AnswersWith(i, m, n)
  BY AppendRespStep DEF Responder
<1>0. /\ i \in Server /\ m.from \in Server /\ LogsCovered /\ log[i] \in Logs
      /\ Covered(log[i], currentTerm[i]) /\ \A j \in Server : currentTerm[j] \in 0 .. MaxTerm
      /\ n.applied \in 0 .. MaxLog /\ MaxLog \in Nat /\ MaxTerm \in Nat
  BY BoundAssumption DEF Typed, Terms, MsgTyped, Covers, LogsCovered, SenderOK
<1> DEFINE r == Restore(n.applied, TermAt(log[i], n.applied))
           l == IF LastIndex(log[i]) - n.applied > CompactThreshold THEN r ELSE log[i]
<1>1. log' = [log EXCEPT ![i] = l] /\ currentTerm' = currentTerm
  BY DEF AnswersWith
<1>2. Covered(r, currentTerm[i])
  <2>1. TermAt(log[i], n.applied) <= currentTerm[i]
    BY <1>0, TermAtCovered
  <2>. QED BY <1>0, <2>1, RestoreCovered
<1> HIDE DEF r
<1>3. Covered(l, currentTerm'[i])
  BY <1>0, <1>1, <1>2
<1> HIDE DEF l
<1>4. LogsCovered'
  <2>1. \A j \in Server : currentTerm[j] <= currentTerm'[j]
    BY <1>0, <1>1
  <2>. QED BY <1>0, <1>1, <1>3, <2>1, OneLogCovered
<1>5. \A x \in msgs' : MsgCovered(x)
  <2>1. MsgCovered(AppendToPeer(i, m.from, n))
    BY <1>0, SentCovered
  <2>2. PICK S \in SUBSET {AppendToPeer(i, m.from, n)} : Exchange({m}, S)
    BY Zenon DEF AnswersWith
  <2>3. \A x \in S : MsgCovered(x)
    BY <2>1, Zenon
  <2>. QED BY <2>2, <2>3, NetCovered
<1>. QED BY <1>4, <1>5 DEF Covers

-----------------------------------------------------------------------------
LEMMA CoversInit == Init => Covers
<1> SUFFICES ASSUME Init PROVE Covers
  OBVIOUS
<1>1. ASSUME NEW i \in Server PROVE Covered(log[i], currentTerm[i])
  <2>1. log[i] = <<[term |-> 0, cmd |-> Noop]>> /\ currentTerm[i] = 0
    BY DEF Init, EmptyLog
  <2>. QED BY <2>1 DEF Covered
<1>. QED BY <1>1 DEF Covers, LogsCovered, Init

LEMMA CoversNext ==
  ASSUME FixedMembership, Typed, Typed', Covers, [Next]_vars
  PROVE  Covers'
<1>1. CASE UNCHANGED vars
  BY <1>1 DEF vars, hardVars, Covers, LogsCovered, Covered, MsgCovered
<1>2. ASSUME NEW i \in Server, ElectionTimeout(i) PROVE Covers'
  BY <1>2, ElectionTimeoutCovers
<1>3. ASSUME NEW i \in Server, HeartbeatTimeout(i) PROVE Covers'
  BY <1>3, LeaderStepsCover
<1>4. ASSUME NEW i \in Server, NEW c \in Command \cup ConfChange, Propose(i, c) PROVE Covers'
  BY <1>4, LeaderStepsCover, Zenon
<1>5. ASSUME NEW i \in Readers, ReadIndex(i) PROVE Covers'
  BY <1>5, LeaderStepsCover, BoundAssumption
<1>6. ASSUME NEW i \in Server, NEW j \in Readers, HandleReadIndex(i, j) PROVE Covers'
  <2>1. j \in Server
    BY BoundAssumption
  <2>. QED BY <1>6, <2>1, LeaderStepsCover, Zenon
<1>7. ASSUME NEW i \in Server, Restart(i) PROVE Covers'
  BY <1>7 DEF Restart, Reopen, hardVars, Covers, LogsCovered, Covered, MsgCovered
<1>8. ASSUME NEW m \in msgs, Receive(m) PROVE Covers'
  <2>1. CASE CountVote(m.to, m)
    BY <2>1, CountVoteCovers
  <2>2. CASE AcceptAppend(m.to, m)
    BY <2>2, AcceptCovers
  <2>3. CASE HandleInstallSnapshot(m.to, m)
    BY <2>3, SnapshotCovers
  <2>4. CASE HandleAppendResp(m.to, m)
    BY <2>4, AppendRespCovers
  <2>5. CASE ~ (\/ CountVote(m.to, m) \/ AcceptAppend(m.to, m)
                \/ HandleInstallSnapshot(m.to, m) \/ HandleAppendResp(m.to, m))
    BY <1>8, <2>5, AnswersCover, Zenon DEF Receive
  <2>. QED BY <2>1, <2>2, <2>3, <2>4, <2>5
<1>. QED BY <1>1, <1>2, <1>3, <1>4, <1>5, <1>6, <1>7, <1>8 DEF Next

\* A node never holds an entry of a term later than its own: a request's
\* entries and a snapshot's term are those of a log its sender's term covers,
\* the handlers of raft_core.rs adopt the request's term before they write, and
\* FileStorage::sync writes the term before the log, so that also a crash
\* between the two files leaves the log covered.
THEOREM TermsCoverLogs == FixedMembership => (Spec => []TermCoversLog)
<1> SUFFICES ASSUME FixedMembership PROVE Spec => []TermCoversLog
  OBVIOUS
<1>1. Init => Typed /\ Covers
  BY TypedInit, CoversInit
<1>2. Typed /\ Covers /\ [Next]_vars => (Typed /\ Covers)'
  <2> SUFFICES ASSUME Typed, Covers, [Next]_vars PROVE (Typed /\ Covers)'
    OBVIOUS
  <2>1. Typed'
    BY TypedNext
  <2>. QED BY <2>1, CoversNext
<1>3. Typed /\ Covers => TermCoversLog
  <2> SUFFICES ASSUME Typed, Covers, NEW i \in Server, NEW k \in DOMAIN log[i]
               PROVE  log[i][k].term <= currentTerm[i]
    BY DEF TermCoversLog
  <2>1. log[i] \in Seq(Entry)
    BY LogTyped DEF Typed
  <2>2. k \in 1 .. Len(log[i])
    BY <2>1
  <2>. QED BY <2>2 DEF Covers, LogsCovered, Covered
<1>. QED BY <1>1, <1>2, <1>3, PTL DEF Spec
=============================================================================
