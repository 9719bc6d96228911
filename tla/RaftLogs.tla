------------------------------ MODULE RaftLogs ------------------------------
(***************************************************************************)
(* What the proofs about the Raft core's logs share: the types of its      *)
(* state, what its operators return, and the algebra of chunks.            *)
(*                                                                         *)
(* A log, or the stretch of log an AppendEntries request carries, is a     *)
(* chunk: the positions it covers, the entry at each of them and, before   *)
(* the first, the term of the entry it continues.  Two chunks agree when   *)
(* they hold the same entries below every position at which they hold the  *)
(* same term.  Parts, splices and extensions keep agreement.               *)
(***************************************************************************)
EXTENDS Raft, TLAPS
LOCAL INSTANCE WellFoundedInduction
LOCAL INSTANCE SequenceTheorems

\* No node proposes a change of the membership.
FixedMembership == ConfChange = {}

\* No log outgrows the threshold, so none is compacted.
NoCompaction == MaxLog <= CompactThreshold

-----------------------------------------------------------------------------
(* Types *)

Logs == {l \in Seq(Entry) : Len(l) \in 1 .. MaxLog + 1}
Progress == [next : 1 .. MaxLog + 1, match : 0 .. MaxLog]
ProgressTables == UNION {[D -> Progress] : D \in SUBSET Server}

Terms ==
  /\ currentTerm \in [Server -> 0 .. MaxTerm]
  /\ votedFor \in [Server -> Server \cup {Nil}]

\* apply_committed keeps up with every change of the commit index.
CommittedIsApplied == \A i \in Server : commitIndex[i] <= lastApplied[i]

Indexes ==
  /\ commitIndex \in [Server -> 0 .. MaxLog]
  /\ lastApplied \in [Server -> 0 .. MaxLog]
  /\ CommittedIsApplied

Soft ==
  /\ role \in [Server -> Role]
  /\ votes \in [Server -> SUBSET Server]
  /\ progress \in [Server -> ProgressTables]
  /\ pendingReads \in [Server -> SUBSET (0 .. MaxLog)]

\* What a node may rely on in a message: every index is one a log may have.
MsgTyped(m) ==
  /\ m.from \in Server /\ m.to \in Server /\ m.term \in 0 .. MaxTerm
  /\ m.type = "AppendEntries" =>
       /\ m.prevLogIndex \in 0 .. MaxLog /\ m.prevLogTerm \in 0 .. MaxTerm
       /\ m.entries \in Seq(Entry)
       /\ m.prevLogIndex + Len(m.entries) <= MaxLog
       /\ m.leaderCommit \in 0 .. MaxLog
  /\ m.type = "AppendEntriesResp" => m.lastLogIndex \in 0 .. MaxLog
  /\ m.type = "InstallSnapshot" => m.lastIndex \in 0 .. MaxLog /\ m.lastTerm \in 0 .. MaxTerm

Typed ==
  /\ Terms /\ Indexes /\ Soft
  /\ log \in [Server -> Logs]
  /\ voters \in [Server -> SUBSET Server]
  /\ \A m \in msgs : MsgTyped(m)

-----------------------------------------------------------------------------
(* The operators of RaftLog and the messages, typed *)

LEMMA LeastOf ==
  ASSUME NEW T, T \subseteq Nat, T # {}
  PROVE  \E x \in T : \A y \in T : x <= y
<1> DEFINE R == {ss \in Nat \X Nat : ss[1] < ss[2]}
<1>1. IsWellFoundedOn(R, Nat)
  BY NatLessThanWellFounded DEF OpToRel
<1> HIDE DEF R
<1>2. PICK x \in T : \A y \in T : ~ (<<y, x>> \in R)
  BY <1>1, WFMin, Zenon
<1>3. ASSUME NEW y \in T PROVE x <= y
  <2>1. <<y, x>> \notin R
    BY <1>2
  <2>. QED BY <2>1 DEF R
<1>. QED BY <1>3

LEMMA MaxOf ==
  ASSUME NEW S, NEW n \in Nat, S \subseteq 0 .. n, S # {}
  PROVE  Max(S) \in S /\ \A y \in S : y <= Max(S)
<1> DEFINE T == {n - s : s \in S}
<1>1. T \subseteq Nat
  OBVIOUS
<1>2. T # {}
  <2>1. PICK s \in S : TRUE
    BY Zenon
  <2>2. n - s \in T
    OBVIOUS
  <2>. QED BY <2>2
<1>3. PICK t \in T : \A y \in T : t <= y
  BY <1>1, <1>2, LeastOf, Zenon
<1>4. PICK m \in S : t = n - m
  OBVIOUS
<1>5. \A y \in S : m >= y
  BY <1>3, <1>4
<1>6. Max(S) \in S /\ \A y \in S : Max(S) >= y
  BY <1>4, <1>5, Zenon DEF Max
<1>. QED BY <1>6

\* The larger of two numbers.
LEMMA LargerOfTwo ==
  ASSUME NEW a \in Nat, NEW b \in Nat
  PROVE  /\ Max({a, b}) \in Nat
         /\ a <= Max({a, b}) /\ b <= Max({a, b})
         /\ Max({a, b}) = a \/ Max({a, b}) = b
<1>1. \E x \in {a, b} : \A y \in {a, b} : x >= y
  BY SMT
<1>2. Max({a, b}) \in {a, b} /\ \A y \in {a, b} : Max({a, b}) >= y
  BY <1>1, Zenon DEF Max
<1> QED BY <1>2, SMT

\* What is sent is either on the network afterwards or lost.
LEMMA SentOrLost ==
  ASSUME NEW R, NEW S, Exchange(R, S)
  PROVE  \A m \in msgs' : m \in msgs \/ m \in S
BY DEF Exchange

LEMMA MinOfTwo ==
  ASSUME NEW a \in Nat, NEW b \in Nat
  PROVE  Min({a, b}) \in {a, b}
<1>1. \E x \in {a, b} : \A y \in {a, b} : x <= y
  BY SMT
<1>. QED BY <1>1, Zenon DEF Min

LEMMA LogTyped ==
  ASSUME NEW l \in Logs
  PROVE  /\ l \in Seq(Entry) /\ Len(l) \in 1 .. MaxLog + 1 /\ MaxLog \in Nat
         /\ LastIndex(l) \in 0 .. MaxLog
BY BoundAssumption DEF Logs, LastIndex

LEMMA EntriesTyped ==
  ASSUME NEW l \in Logs
  PROVE  /\ \A k \in 1 .. Len(l) : l[k] \in Entry /\ l[k].term \in 0 .. MaxTerm
         /\ \A k \in Int : TermAt(l, k) \in 0 .. MaxTerm
<1>1. l \in Seq(Entry) /\ MaxTerm \in Nat
  BY LogTyped, BoundAssumption
<1>2. \A k \in 1 .. Len(l) : l[k] \in Entry
  BY <1>1
<1>3. \A k \in 1 .. Len(l) : l[k].term \in 0 .. MaxTerm
  BY <1>2 DEF Entry
<1>4. \A k \in Int : TermAt(l, k) \in 0 .. MaxTerm
  BY <1>1, <1>3 DEF TermAt
<1>. QED BY <1>2, <1>3, <1>4

LEMMA SliceTyped ==
  ASSUME NEW l \in Logs, NEW k \in 1 .. MaxLog + 1, NEW s, s = SliceFrom(l, k, MaxAppendBatch)
  PROVE  /\ s \in Seq(Entry)
         /\ s # <<>> => k + Len(s) <= Len(l)
         /\ \A x \in 1 .. Len(s) : s[x] = l[k + x]
<1> DEFINE hi == IF k + MaxAppendBatch < Len(l) THEN k + MaxAppendBatch ELSE Len(l)
<1>1. l \in Seq(Entry) /\ Len(l) \in Nat /\ k \in Nat /\ MaxAppendBatch \in Nat
  <2>1. MaxLog \in Nat /\ MaxAppendBatch \in Nat
    BY BoundAssumption
  <2>. QED BY <2>1 DEF Logs
<1>2. hi \in Nat /\ hi <= Len(l)
  BY <1>1
<1>3. s = SubSeq(l, k + 1, hi)
  BY DEF SliceFrom
<1> HIDE DEF hi
<1>4. CASE k + 1 <= hi
  <2>1. k + 1 \in 1 .. Len(l) + 1 /\ hi \in (k + 1) - 1 .. Len(l)
    BY <1>1, <1>2, <1>4
  <2>2. s \in Seq(Entry) /\ Len(s) = hi - k /\ \A x \in 1 .. hi - k : s[x] = l[k + x]
    BY <1>1, <1>2, <1>3, <1>4, <2>1, SubSeqProperties
  <2>. QED BY ONLY <1>1, <1>2, <2>2
<1>5. CASE ~(k + 1 <= hi)
  <2>1. s = <<>>
    BY <1>1, <1>2, <1>3, <1>5
  <2>. QED BY ONLY <2>1
<1>. QED BY <1>4, <1>5

\* What append_to_peer reads of the sender has the types of its state.
SenderOK(n) ==
  /\ n.term \in 0 .. MaxTerm /\ n.progress \in ProgressTables /\ n.log \in Logs
  /\ n.commit \in 0 .. MaxLog /\ n.applied \in 0 .. MaxLog

LEMMA NextTyped ==
  ASSUME NEW n, n.progress \in ProgressTables, NEW p
  PROVE  (IF p \in DOMAIN n.progress THEN n.progress[p].next ELSE 1) \in 1 .. MaxLog + 1
<1>1. PICK D \in SUBSET Server : n.progress \in [D -> Progress]
  BY DEF ProgressTables
<1>2. 1 \in 1 .. MaxLog + 1
  BY BoundAssumption
<1>. QED BY <1>1, <1>2 DEF Progress

SnapshotMsg(i, p, n) ==
  [type |-> "InstallSnapshot", from |-> i, to |-> p, term |-> n.term,
   lastIndex |-> n.applied, lastTerm |-> TermAt(n.log, n.applied)]

SliceMsg(i, p, n, k) ==
  [type |-> "AppendEntries", from |-> i, to |-> p, term |-> n.term,
   prevLogIndex |-> k - 1, prevLogTerm |-> TermAt(n.log, k - 1),
   entries |-> SliceFrom(n.log, k, MaxAppendBatch), leaderCommit |-> n.commit]

\* A request is either the snapshot of the applied prefix or a slice of the log.
LEMMA AppendForms ==
  ASSUME NEW i \in Server, NEW p \in Server, NEW n, SenderOK(n), NEW m, m = AppendToPeer(i, p, n)
  PROVE  \E k \in 1 .. MaxLog + 1 :
           \/ /\ LastIndex(n.log) > CompactThreshold
              /\ m = SnapshotMsg(i, p, n)
           \/ m = SliceMsg(i, p, n, k)
<1> DEFINE next == IF p \in DOMAIN n.progress THEN n.progress[p].next ELSE 1
<1>1. next \in 1 .. MaxLog + 1
  BY NextTyped DEF SenderOK
<1>. QED BY <1>1, Zenon DEF AppendToPeer, SnapshotMsg, SliceMsg

LEMMA SliceMsgTyped ==
  ASSUME NEW i \in Server, NEW p \in Server, NEW n, SenderOK(n), NEW k \in 1 .. MaxLog + 1, NEW m,
         m = SliceMsg(i, p, n, k)
  PROVE  MsgTyped(m)
<1> DEFINE l == n.log
<1> SUFFICES ASSUME NEW s, s = SliceFrom(l, k, MaxAppendBatch) PROVE MsgTyped(m)
  OBVIOUS
<1>1. /\ MaxLog \in Nat /\ k \in Nat /\ l \in Logs /\ Len(l) \in 1 .. MaxLog + 1
      /\ s \in Seq(Entry) /\ (s # <<>> => k + Len(s) <= Len(l))
      /\ \A x \in 1 .. Len(s) : s[x] = l[k + x]
      /\ m.type = "AppendEntries" /\ m.from = i /\ m.to = p /\ m.term = n.term
      /\ m.prevLogIndex = k - 1 /\ m.prevLogTerm = TermAt(l, k - 1)
      /\ m.entries = s /\ m.leaderCommit = n.commit
  <2>1. MaxLog \in Nat /\ k \in Nat /\ l \in Logs
    BY BoundAssumption DEF SenderOK
  <2>2. Len(l) \in 1 .. MaxLog + 1
    BY <2>1, LogTyped
  <2>3. /\ s \in Seq(Entry) /\ (s # <<>> => k + Len(s) <= Len(l))
        /\ \A x \in 1 .. Len(s) : s[x] = l[k + x]
    BY <2>1, SliceTyped
  <2>4. /\ m.type = "AppendEntries" /\ m.from = i /\ m.to = p /\ m.term = n.term
        /\ m.prevLogIndex = k - 1 /\ m.prevLogTerm = TermAt(l, k - 1)
        /\ m.entries = s /\ m.leaderCommit = n.commit
    BY DEF SliceMsg
  <2>. QED BY <2>1, <2>2, <2>3, <2>4
<1> HIDE DEF l
<1>2. k - 1 \in 0 .. MaxLog
  BY ONLY <1>1, k \in 1 .. MaxLog + 1
<1>3. TermAt(l, k - 1) \in 0 .. MaxTerm
  <2>1. k - 1 \in Int
    BY <1>1
  <2>. QED BY <1>1, <2>1, EntriesTyped
<1>4. k - 1 + Len(s) <= MaxLog
  <2>1. CASE s = <<>>
    BY <1>1, <2>1
  <2>2. CASE s # <<>>
    <3>1. Len(s) \in Nat
      BY <1>1
    <3>. QED BY <1>1, <2>2, <3>1
  <2>. QED BY <2>1, <2>2
<1>. QED BY <1>1, <1>2, <1>3, <1>4 DEF MsgTyped, SenderOK

LEMMA SnapshotMsgTyped ==
  ASSUME NEW i \in Server, NEW p \in Server, NEW n, SenderOK(n)
  PROVE  MsgTyped(SnapshotMsg(i, p, n))
<1>1. TermAt(n.log, n.applied) \in 0 .. MaxTerm /\ n.applied \in 0 .. MaxLog /\ n.term \in 0 .. MaxTerm
  <2>1. n.log \in Logs /\ n.applied \in 0 .. MaxLog /\ n.applied \in Int /\ n.term \in 0 .. MaxTerm
    BY DEF SenderOK
  <2>. QED BY <2>1, EntriesTyped, Zenon
<1>. QED BY <1>1 DEF MsgTyped, SnapshotMsg

LEMMA AppendTyped ==
  ASSUME NEW i \in Server, NEW p \in Server, NEW n, SenderOK(n)
  PROVE  MsgTyped(AppendToPeer(i, p, n))
<1> DEFINE m == AppendToPeer(i, p, n)
<1> SUFFICES MsgTyped(m)
  OBVIOUS
<1>1. PICK k \in 1 .. MaxLog + 1 : m = SnapshotMsg(i, p, n) \/ m = SliceMsg(i, p, n, k)
  BY AppendForms, Zenon
<1> HIDE DEF m
<1>2. CASE m = SnapshotMsg(i, p, n)
  BY <1>2, SnapshotMsgTyped
<1>3. CASE m = SliceMsg(i, p, n, k)
  BY <1>3, SliceMsgTyped
<1>. QED BY <1>1, <1>2, <1>3

LEMMA FreshTyped ==
  ASSUME NEW i, NEW vs \in SUBSET Server, NEW l \in Logs
  PROVE  FreshProgress(i, vs, l) \in ProgressTables
<1>1. LastIndex(l) + 1 \in 1 .. MaxLog + 1 /\ 0 \in 0 .. MaxLog
  BY LogTyped
<1>2. [next |-> LastIndex(l) + 1, match |-> 0] \in Progress
  BY <1>1 DEF Progress
<1>3. FreshProgress(i, vs, l) \in [vs \ {i} -> Progress]
  BY <1>2 DEF FreshProgress
<1>4. vs \ {i} \in SUBSET Server
  OBVIOUS
<1>. QED BY <1>3, <1>4 DEF ProgressTables

LEMMA SenderTyped ==
  ASSUME Typed, NEW i \in Server
  PROVE  SenderOK(Sender(i))
BY DEF Typed, Terms, Indexes, Soft, Sender, SenderOK

LEMMA MembersStay ==
  ASSUME FixedMembership, NEW i, NEW es
  PROVE  ConfAfter(i, es) = [voters |-> voters[i], rebuilt |-> FALSE]
BY DEF FixedMembership, ConfAfter

LEMMA AppendedTyped ==
  ASSUME NEW i \in Server, log[i] \in Logs, NEW m, MsgTyped(m), m.type = "AppendEntries"
  PROVE  AppendedLog(i, m) \in Logs
<1> DEFINE l == log[i]
           k == m.prevLogIndex
           b == TruncateFrom(l, k)
<1>1. /\ l \in Seq(Entry) /\ Len(l) \in 1 .. MaxLog + 1 /\ MaxLog \in Nat
      /\ k \in Nat /\ m.entries \in Seq(Entry) /\ k + Len(m.entries) <= MaxLog
  BY LogTyped DEF MsgTyped
<1>2. b \in Seq(Entry) /\ Len(b) \in 1 .. k + 1
  <2>1. CASE k + 1 < Len(l)
    <3>1. b = SubSeq(l, 1, k + 1)
      BY <2>1, Zenon DEF TruncateFrom
    <3>. QED BY <1>1, <2>1, <3>1, SubSeqProperties
  <2>2. CASE ~(k + 1 < Len(l))
    BY <1>1, <2>2 DEF TruncateFrom
  <2>. QED BY <2>1, <2>2
<1>3. b \o m.entries \in Seq(Entry) /\ Len(b \o m.entries) = Len(b) + Len(m.entries)
  BY <1>1, <1>2, ConcatProperties
<1>4. Len(b \o m.entries) \in 1 .. MaxLog + 1
  <2>1. Len(m.entries) \in Nat /\ Len(b) \in Nat
    BY <1>1, <1>2
  <2> HIDE DEF b, k
  <2>. QED BY <1>1, <1>2, <1>3, <2>1
<1>5. b \o m.entries \in Logs
  BY <1>3, <1>4, Zenon DEF Logs
<1>. QED BY <1>5 DEF AppendedLog

LEMMA AdvancedTyped ==
  ASSUME Indexes, NEW i \in Server, log[i] \in Logs, NEW pr
  PROVE  AdvancedCommit(i, pr) \in 0 .. MaxLog
<1> DEFINE S == {commitIndex[i]} \cup
                {k \in commitIndex[i] + 1 .. LastIndex(log[i]) :
                   TermAt(log[i], k) = currentTerm[i] /\ HasQuorumForIndex(i, pr, k)}
<1>1. /\ commitIndex[i] \in 0 .. MaxLog /\ LastIndex(log[i]) \in 0 .. MaxLog /\ MaxLog \in Nat
  BY LogTyped DEF Indexes
<1>2. S \subseteq 0 .. MaxLog /\ S # {}
  BY <1>1
<1>3. AdvancedCommit(i, pr) = Max(S)
  BY DEF AdvancedCommit
<1> HIDE DEF S
<1>4. Max(S) \in S
  BY <1>1, <1>2, MaxOf, Zenon
<1>. QED BY <1>2, <1>3, <1>4, Zenon

LEMMA ProgressTyped ==
  ASSUME Soft, NEW m, MsgTyped(m), m.type = "AppendEntriesResp", NEW i \in Server,
         m.from \in DOMAIN progress[i]
  PROVE  ProgressAfter(i, m) \in ProgressTables
<1>1. PICK D \in SUBSET Server : progress[i] \in [D -> Progress]
  BY DEF Soft, ProgressTables
<1> DEFINE old == progress[i][m.from]
           low == Max({old.next - 1, 1})
           new == IF m.success THEN [next |-> m.lastLogIndex + 1, match |-> m.lastLogIndex]
                               ELSE [next |-> low, match |-> old.match]
<1>2. /\ old \in Progress /\ old.next \in 1 .. MaxLog + 1 /\ MaxLog \in Nat
      /\ m.lastLogIndex \in 0 .. MaxLog /\ m.from \in D
  BY <1>1, BoundAssumption DEF Progress, MsgTyped
<1>3. low \in 1 .. MaxLog + 1
  <2>1. old.next - 1 \in Nat /\ old.next - 1 <= MaxLog /\ 1 \in Nat
    BY <1>2
  <2>2. low \in Nat /\ 1 <= low /\ (low = old.next - 1 \/ low = 1)
    BY <2>1, LargerOfTwo
  <2> HIDE DEF low
  <2>. QED BY <1>2, <2>1, <2>2
<1>4. new \in Progress
  <2> HIDE DEF low, old
  <2>1. [next |-> low, match |-> old.match] \in Progress
    BY <1>2, <1>3 DEF Progress
  <2>2. [next |-> m.lastLogIndex + 1, match |-> m.lastLogIndex] \in Progress
    BY <1>2 DEF Progress
  <2>. QED BY <2>1, <2>2
<1>5. ProgressAfter(i, m) = [progress[i] EXCEPT ![m.from] = new]
  BY DEF ProgressAfter
<1> HIDE DEF new
<1>6. ProgressAfter(i, m) \in [D -> Progress]
  BY <1>1, <1>2, <1>4, <1>5
<1>. QED BY <1>6 DEF ProgressTables

LEMMA ProposedTyped ==
  ASSUME Typed, NEW i \in Server, LastIndex(log[i]) < MaxLog,
         NEW c \in Command \cup ConfChange \cup {Noop}, NEW l,
         l = Append(log[i], [term |-> currentTerm[i], cmd |-> c])
  PROVE  l \in Logs /\ SenderOK([Sender(i) EXCEPT !.log = l])
<1> DEFINE e == [term |-> currentTerm[i], cmd |-> c]
<1>0. log[i] \in Logs /\ currentTerm[i] \in 0 .. MaxTerm
  BY DEF Typed, Terms
<1>1. e \in Entry
  BY <1>0 DEF Entry
<1>2. log[i] \in Seq(Entry) /\ Len(log[i]) \in 1 .. MaxLog + 1 /\ MaxLog \in Nat
  BY <1>0, LogTyped
<1> HIDE DEF e
<1>3. l \in Seq(Entry) /\ Len(l) = Len(log[i]) + 1
  BY <1>1, <1>2 DEF e
<1>4. Len(l) \in 1 .. MaxLog + 1
  BY <1>2, <1>3 DEF LastIndex
<1>5. l \in Logs
  BY <1>3, <1>4 DEF Logs
<1>6. SenderOK(Sender(i))
  BY SenderTyped
<1>. QED BY <1>5, <1>6 DEF SenderOK, Sender

\* The state of a leader after a response, as append_to_peer sees it.
Responder(i, m) ==
  LET pr == ProgressAfter(i, m)
      c == AdvancedCommit(i, pr)
  IN [term |-> currentTerm[i], progress |-> pr, log |-> log[i], commit |-> c,
      applied |-> Max({lastApplied[i], c})]

\* The handler of responses, when no entry changes the membership.
AnswersWith(i, m, n) ==
  /\ n.applied = Max({lastApplied[i], n.commit})
  /\ progress' = [progress EXCEPT ![i] = n.progress]
  /\ commitIndex' = [commitIndex EXCEPT ![i] = n.commit]
  /\ lastApplied' = [lastApplied EXCEPT ![i] = n.applied] /\ ApplyCommitted(i, log[i], n.commit)
  /\ pendingReads' = [pendingReads EXCEPT ![i] = {k \in pendingReads[i] : k > n.commit}]
  /\ log' = [log EXCEPT ![i] = IF LastIndex(log[i]) - n.applied > CompactThreshold
                               THEN Restore(n.applied, TermAt(log[i], n.applied)) ELSE log[i]]
  /\ Exchange({m}, {AppendToPeer(i, m.from, n)}) \/ Exchange({m}, {})
  /\ UNCHANGED <<currentTerm, votedFor, role, votes>>

LEMMA AppendRespStep ==
  ASSUME FixedMembership, Typed, NEW m \in msgs, HandleAppendResp(m.to, m)
  PROVE  LET n == Responder(m.to, m) IN SenderOK(n) /\ n.log = log[m.to] /\ AnswersWith(m.to, m, n)
<1> SUFFICES ASSUME NEW i \in Server, i = m.to, NEW n, n = Responder(i, m)
             PROVE  SenderOK(n) /\ n.log = log[i] /\ AnswersWith(i, m, n)
  BY DEF Typed, MsgTyped
<1> DEFINE pr == ProgressAfter(i, m)
           c == AdvancedCommit(i, pr)
           a == Max({lastApplied[i], c})
<1>0. /\ Terms /\ Indexes /\ Soft /\ MsgTyped(m) /\ m.from \in Server /\ log[i] \in Logs
      /\ m.type = "AppendEntriesResp" /\ m.from \in DOMAIN progress[i]
  BY DEF Typed, MsgTyped, HandleAppendResp
<1>1. pr \in ProgressTables /\ c \in 0 .. MaxLog
  BY <1>0, ProgressTyped, AdvancedTyped
<1>2. ConfAfter(i, EntriesBetween(log[i], lastApplied[i], c)).rebuilt = FALSE
  BY MembersStay
<1>3. n = [term |-> currentTerm[i], progress |-> pr, log |-> log[i], commit |-> c, applied |-> a]
  BY DEF Responder
<1>4. /\ progress' = [progress EXCEPT ![i] = pr]
      /\ commitIndex' = [commitIndex EXCEPT ![i] = c] /\ ApplyCommitted(i, log[i], c)
      /\ pendingReads' = [pendingReads EXCEPT ![i] = {k \in pendingReads[i] : k > c}]
      /\ log' = [log EXCEPT ![i] = IF LastIndex(log[i]) - a > CompactThreshold
                                   THEN Restore(a, TermAt(log[i], a)) ELSE log[i]]
      /\ Exchange({m}, {AppendToPeer(i, m.from, n)}) \/ Exchange({m}, {})
      /\ UNCHANGED <<currentTerm, votedFor, role, votes>>
  BY <1>2, <1>3, Zenon DEF HandleAppendResp, Reply
<1>5. lastApplied' = [lastApplied EXCEPT ![i] = a]
  BY <1>4 DEF ApplyCommitted
<1>6. a \in 0 .. MaxLog /\ currentTerm[i] \in 0 .. MaxTerm
  <2>1. lastApplied[i] \in 0 .. MaxLog /\ currentTerm[i] \in 0 .. MaxTerm
    BY <1>0 DEF Indexes, Terms
  <2> HIDE DEF c
  <2>. QED BY <1>1, <2>1, LargerOfTwo, BoundAssumption
<1> HIDE DEF pr, c, a
<1>7. n.term = currentTerm[i] /\ n.progress = pr /\ n.log = log[i] /\ n.commit = c /\ n.applied = a
  BY <1>3
<1>8. SenderOK(n)
  BY <1>0, <1>1, <1>6, <1>7 DEF SenderOK
<1>9. AnswersWith(i, m, n)
  BY <1>4, <1>5, <1>7 DEF AnswersWith, a
<1>. QED BY <1>7, <1>8, <1>9

\* Without compaction no response changes the log.
LEMMA AppendRespKeepsLog ==
  ASSUME FixedMembership, NoCompaction, Typed, NEW m \in msgs, HandleAppendResp(m.to, m)
  PROVE  log' = log
<1> DEFINE i == m.to
<1>0. PICK n : SenderOK(n) /\ AnswersWith(i, m, n)
  BY AppendRespStep
<1>1. /\ n.applied \in 0 .. MaxLog /\ i \in Server
      /\ log' = [log EXCEPT ![i] = IF LastIndex(log[i]) - n.applied > CompactThreshold
                                   THEN Restore(n.applied, TermAt(log[i], n.applied)) ELSE log[i]]
  BY <1>0 DEF SenderOK, AnswersWith, Typed, MsgTyped
<1>2. log \in [Server -> Logs] /\ LastIndex(log[i]) \in 0 .. MaxLog /\ MaxLog \in Nat
  BY <1>1, LogTyped DEF Typed
<1>3. ~ (LastIndex(log[i]) - n.applied > CompactThreshold)
  BY <1>1, <1>2, BoundAssumption DEF NoCompaction
<1>. QED BY ONLY <1>1, <1>2, <1>3

-----------------------------------------------------------------------------
(* Chunks *)

ChunkOfLog(l) == [lo |-> 1, hi |-> Len(l), at |-> [k \in 1 .. Len(l) |-> l[k]]]

\* A request's entries follow the entry at prevLogIndex, of which it names the
\* term only.
ChunkOfMsg(m) ==
  LET lo == m.prevLogIndex + 1
      hi == lo + Len(m.entries)
  IN [lo |-> lo, hi |-> hi,
      at |-> [k \in lo .. hi |-> IF k = lo THEN [term |-> m.prevLogTerm, cmd |-> Noop]
                                           ELSE m.entries[k - lo]]]

Carries(m) == m.type = "AppendEntries" /\ m.entries # <<>>

\* Below a position at which two chunks hold the same term, they hold the same
\* entries, as far as both name them.
Agree(c, d) ==
  \A k \in c.lo .. c.hi :
    k \in d.lo .. d.hi /\ c.at[k].term = d.at[k].term =>
      \A j \in c.lo .. k : j >= d.lo =>
        /\ c.at[j].term = d.at[j].term
        /\ j > c.lo /\ j > d.lo => c.at[j] = d.at[j]

AllAgree(C) == \A c, d \in C : Agree(c, d)

\* Every entry was proposed by the leader of some term.
Proposed(C, R) == \A c \in C : \A k \in c.lo .. c.hi : k > 1 => \E r \in R : r[1] = c.at[k].term

\* No entry of term t is beyond position n.
NoneBeyond(C, t, n) == \A c \in C : \A k \in c.lo .. c.hi : c.at[k].term = t => k <= n

-----------------------------------------------------------------------------
(* Chunks that agree *)

IsChunk(c) ==
  /\ c.lo \in Nat /\ c.hi \in Nat
  /\ \A k \in c.lo .. c.hi : c.at[k].term \in Nat

LEMMA AgreeIsSymmetric ==
  ASSUME NEW c, NEW d, IsChunk(c), IsChunk(d), Agree(c, d)
  PROVE  Agree(d, c)
<1> SUFFICES ASSUME NEW k \in d.lo .. d.hi, k \in c.lo .. c.hi, d.at[k].term = c.at[k].term,
                    NEW j \in d.lo .. k, j >= c.lo
             PROVE  /\ d.at[j].term = c.at[j].term
                    /\ j > d.lo /\ j > c.lo => d.at[j] = c.at[j]
  BY DEF Agree
<1>1. c.lo \in Nat /\ d.lo \in Nat /\ c.hi \in Nat /\ d.hi \in Nat
  BY DEF IsChunk
<1>2. j \in c.lo .. k /\ j >= d.lo
  BY <1>1
<1>. QED BY <1>2 DEF Agree

LEMMA AgreeIsReflexive ==
  ASSUME NEW c
  PROVE  Agree(c, c)
BY DEF Agree

\* The chunk m is a stretch of the chunk l.
Part(m, l) ==
  /\ l.lo <= m.lo /\ m.hi <= l.hi
  /\ \A k \in m.lo .. m.hi : m.at[k].term = l.at[k].term /\ (k > m.lo => m.at[k] = l.at[k])

LEMMA PartAgrees ==
  ASSUME NEW l, NEW m, NEW d, IsChunk(l), IsChunk(m), IsChunk(d), Part(m, l), Agree(l, d)
  PROVE  Agree(m, d)
<1> SUFFICES ASSUME NEW k \in m.lo .. m.hi, k \in d.lo .. d.hi, m.at[k].term = d.at[k].term,
                    NEW j \in m.lo .. k, j >= d.lo
             PROVE  /\ m.at[j].term = d.at[j].term
                    /\ j > m.lo /\ j > d.lo => m.at[j] = d.at[j]
  BY DEF Agree
<1>1. /\ l.lo \in Nat /\ l.hi \in Nat /\ m.lo \in Nat /\ m.hi \in Nat /\ d.lo \in Nat
      /\ l.lo <= m.lo /\ m.hi <= l.hi
  BY DEF IsChunk, Part
<1>2. k \in l.lo .. l.hi /\ j \in l.lo .. k /\ j \in m.lo .. m.hi /\ (j > m.lo => j > l.lo)
  BY <1>1
<1>3. l.at[k].term = d.at[k].term
  BY DEF Part
<1>4. l.at[j].term = d.at[j].term /\ (j > l.lo /\ j > d.lo => l.at[j] = d.at[j])
  BY <1>2, <1>3 DEF Agree
<1>5. m.at[j].term = l.at[j].term /\ (j > m.lo => m.at[j] = l.at[j])
  BY <1>2 DEF Part
<1>. QED BY <1>2, <1>4, <1>5

\* n follows l up to the position where m starts, and m from there on.
Spliced(n, l, m) ==
  /\ n.lo = l.lo /\ n.hi = m.hi
  /\ l.lo <= m.lo /\ m.lo <= l.hi /\ m.lo <= m.hi
  /\ l.at[m.lo].term = m.at[m.lo].term
  /\ \A k \in l.lo .. m.lo : n.at[k] = l.at[k]
  /\ \A k \in m.lo + 1 .. m.hi : n.at[k] = m.at[k]

\* A chunk that agrees with both parts of a splice agrees with the whole: the
\* parts meet at a position where all three hold the same term.
LEMMA SpliceAgrees ==
  ASSUME NEW n, NEW l, NEW m, NEW d, IsChunk(n), IsChunk(l), IsChunk(m), IsChunk(d),
         Spliced(n, l, m), Agree(l, d), Agree(m, d)
  PROVE  Agree(n, d)
<1> SUFFICES ASSUME NEW k \in n.lo .. n.hi, k \in d.lo .. d.hi, n.at[k].term = d.at[k].term,
                    NEW j \in n.lo .. k, j >= d.lo
             PROVE  /\ n.at[j].term = d.at[j].term
                    /\ j > n.lo /\ j > d.lo => n.at[j] = d.at[j]
  BY DEF Agree
<1>1. /\ l.lo \in Nat /\ l.hi \in Nat /\ m.lo \in Nat /\ m.hi \in Nat /\ d.lo \in Nat /\ d.hi \in Nat
      /\ n.lo = l.lo /\ n.hi = m.hi /\ l.lo <= m.lo /\ m.lo <= l.hi /\ m.lo <= m.hi
  BY DEF IsChunk, Spliced
<1>2. /\ l.at[m.lo].term = m.at[m.lo].term
      /\ \A x \in l.lo .. m.lo : n.at[x] = l.at[x]
      /\ \A x \in m.lo + 1 .. m.hi : n.at[x] = m.at[x]
  BY DEF Spliced
<1>3. ASSUME NEW x \in l.lo .. m.lo, x \in d.lo .. d.hi, l.at[x].term = d.at[x].term, j <= x
      PROVE  /\ n.at[j].term = d.at[j].term
             /\ j > n.lo /\ j > d.lo => n.at[j] = d.at[j]
  <2>1. x \in l.lo .. l.hi /\ j \in l.lo .. x /\ j \in l.lo .. m.lo
    BY <1>1, <1>3
  <2>2. l.at[j].term = d.at[j].term /\ (j > l.lo /\ j > d.lo => l.at[j] = d.at[j])
    BY <1>3, <2>1 DEF Agree
  <2>. QED BY <1>1, <1>2, <2>1, <2>2
<1>4. CASE k <= m.lo
  <2>1. k \in l.lo .. m.lo
    BY <1>1, <1>4
  <2>2. l.at[k].term = d.at[k].term
    BY <1>2, <2>1
  <2>. QED BY <1>3, <2>1, <2>2
<1>5. CASE k > m.lo
  <2>1. k \in m.lo + 1 .. m.hi /\ k \in m.lo .. m.hi
    BY <1>1, <1>5
  <2>2. m.at[k].term = d.at[k].term
    BY <1>2, <2>1
  <2>3. CASE j > m.lo
    <3>1. j \in m.lo .. k /\ j \in m.lo + 1 .. m.hi
      BY <1>1, <2>1, <2>3
    <3>2. m.at[j].term = d.at[j].term /\ (j > m.lo /\ j > d.lo => m.at[j] = d.at[j])
      BY <2>1, <2>2, <3>1 DEF Agree
    <3>. QED BY <1>2, <2>3, <3>1, <3>2
  <2>4. CASE j <= m.lo
    <3>1. m.lo \in d.lo .. d.hi /\ m.lo \in m.lo .. k /\ m.lo \in l.lo .. m.lo
      BY <1>1, <2>1, <2>4
    <3>2. m.at[m.lo].term = d.at[m.lo].term
      BY <2>1, <2>2, <3>1 DEF Agree
    <3>3. l.at[m.lo].term = d.at[m.lo].term
      BY <1>2, <3>2
    <3>. QED BY <1>3, <2>4, <3>1, <3>3
  <2>. QED BY <1>1, <2>3, <2>4
<1>. QED BY <1>1, <1>4, <1>5

\* n is l with one more entry, of a term that d does not hold beyond l.
LEMMA ExtensionAgrees ==
  ASSUME NEW n, NEW l, NEW d, IsChunk(n), IsChunk(l), IsChunk(d), Agree(l, d),
         n.lo = l.lo, n.hi = l.hi + 1, \A k \in l.lo .. l.hi : n.at[k] = l.at[k],
         \A k \in d.lo .. d.hi : d.at[k].term = n.at[n.hi].term => k <= l.hi
  PROVE  Agree(n, d)
<1> SUFFICES ASSUME NEW k \in n.lo .. n.hi, k \in d.lo .. d.hi, n.at[k].term = d.at[k].term,
                    NEW j \in n.lo .. k, j >= d.lo
             PROVE  /\ n.at[j].term = d.at[j].term
                    /\ j > n.lo /\ j > d.lo => n.at[j] = d.at[j]
  BY DEF Agree
<1>1. l.lo \in Nat /\ l.hi \in Nat /\ d.lo \in Nat /\ d.hi \in Nat
  BY DEF IsChunk
<1>2. k # n.hi
  <2> SUFFICES ASSUME k = n.hi PROVE FALSE
    OBVIOUS
  <2>1. d.at[k].term = n.at[n.hi].term
    OBVIOUS
  <2>2. k <= l.hi
    BY <2>1
  <2>. QED BY <1>1, <2>2
<1>3. k \in l.lo .. l.hi /\ j \in l.lo .. k /\ j \in l.lo .. l.hi
  BY <1>1, <1>2
<1>4. l.at[k].term = d.at[k].term
  BY <1>3
<1>5. l.at[j].term = d.at[j].term /\ (j > l.lo /\ j > d.lo => l.at[j] = d.at[j])
  BY <1>3, <1>4 DEF Agree
<1>. QED BY <1>3, <1>5

-----------------------------------------------------------------------------
(* Sets of chunks *)

LEMMA PartsAgree ==
  ASSUME NEW C, NEW D, \A c \in C : IsChunk(c), \A d \in D : IsChunk(d), AllAgree(D),
         \A c \in C : \E d \in D : Part(c, d)
  PROVE  AllAgree(C)
<1> SUFFICES ASSUME NEW c1 \in C, NEW c2 \in C PROVE Agree(c1, c2)
  BY DEF AllAgree
<1>1. PICK d1 \in D : Part(c1, d1)
  OBVIOUS
<1>2. PICK d2 \in D : Part(c2, d2)
  OBVIOUS
<1>3. Agree(c2, d1)
  <2>1. Agree(d2, d1)
    BY DEF AllAgree
  <2>. QED BY <1>2, <2>1, PartAgrees
<1>4. Agree(d1, c2)
  BY <1>3, AgreeIsSymmetric
<1>. QED BY <1>1, <1>4, PartAgrees

LEMMA OneMoreAgrees ==
  ASSUME NEW C, NEW n, \A c \in C : IsChunk(c), IsChunk(n), AllAgree(C), \A c \in C : Agree(n, c)
  PROVE  AllAgree(C \cup {n})
<1> SUFFICES ASSUME NEW c1 \in C \cup {n}, NEW c2 \in C \cup {n} PROVE Agree(c1, c2)
  BY DEF AllAgree
<1>1. CASE c1 = n /\ c2 = n
  BY <1>1, AgreeIsReflexive
<1>2. CASE c1 = n /\ c2 \in C
  BY <1>2
<1>3. CASE c1 \in C /\ c2 = n
  BY <1>3, AgreeIsSymmetric
<1>4. CASE c1 \in C /\ c2 \in C
  BY <1>4 DEF AllAgree
<1>. QED BY <1>1, <1>2, <1>3, <1>4

LEMMA PartsInherit ==
  ASSUME NEW C, NEW D, \A c \in C : IsChunk(c), \A d \in D : IsChunk(d),
         \A c \in C : \E d \in D : Part(c, d)
  PROVE  /\ \A R : Proposed(D, R) => Proposed(C, R)
         /\ \A t, n : NoneBeyond(D, t, n) => NoneBeyond(C, t, n)
<1>1. ASSUME NEW c \in C, NEW k \in c.lo .. c.hi
      PROVE  \E d \in D : k \in d.lo .. d.hi /\ d.at[k].term = c.at[k].term
  <2>1. PICK d \in D : Part(c, d)
    OBVIOUS
  <2>2. k \in d.lo .. d.hi /\ d.at[k].term = c.at[k].term
    BY <2>1 DEF Part, IsChunk
  <2>. QED BY <2>2
<1>2. ASSUME NEW R, Proposed(D, R) PROVE Proposed(C, R)
  BY <1>1, <1>2 DEF Proposed
<1>3. ASSUME NEW t, NEW n, NoneBeyond(D, t, n) PROVE NoneBeyond(C, t, n)
  BY <1>1, <1>3 DEF NoneBeyond
<1>. QED BY <1>2, <1>3

LEMMA WholeIsPart ==
  ASSUME NEW c, IsChunk(c)
  PROVE  Part(c, c)
BY DEF Part, IsChunk

\* The log after an accepted request, which holds the entry at prevLogIndex, is
\* a splice of the old log and the request's chunk.
LEMMA AcceptedIsSplice ==
  ASSUME NEW E, NEW l \in Seq(E), NEW m, m.entries \in Seq(E), m.prevLogIndex \in Nat,
         m.prevLogIndex + 1 <= Len(l), TermAt(l, m.prevLogIndex) = m.prevLogTerm,
         NEW n, n = TruncateFrom(l, m.prevLogIndex) \o m.entries
  PROVE  Spliced(ChunkOfLog(n), ChunkOfLog(l), ChunkOfMsg(m))
<1> DEFINE lo == m.prevLogIndex + 1
           es == m.entries
           b == TruncateFrom(l, m.prevLogIndex)
           cn == ChunkOfLog(n)
           cl == ChunkOfLog(l)
           cm == ChunkOfMsg(m)
<1>1. lo \in Nat /\ 1 <= lo /\ lo <= Len(l) /\ Len(l) \in Nat /\ Len(es) \in Nat /\ es \in Seq(E)
  OBVIOUS
<1>2. b \in Seq(E) /\ Len(b) = lo /\ \A k \in 1 .. lo : b[k] = l[k]
  <2>1. CASE lo < Len(l)
    <3>1. b = SubSeq(l, 1, lo)
      BY <2>1 DEF TruncateFrom
    <3>2. 1 \in 1 .. Len(l) + 1 /\ lo \in 0 .. Len(l)
      BY <1>1, <2>1
    <3> HIDE DEF lo, b
    <3>. QED BY <1>1, <2>1, <3>1, <3>2, SubSeqProperties
  <2>2. CASE ~ (lo < Len(l))
    <3>1. b = l /\ lo = Len(l)
      BY <1>1, <2>2 DEF TruncateFrom
    <3>. QED BY <3>1
  <2>. QED BY <2>1, <2>2
<1>3. n = b \o es /\ l[lo].term = m.prevLogTerm
  BY <1>1 DEF TermAt
<1>4. /\ cl.lo = 1 /\ cl.hi = Len(l) /\ \A k \in 1 .. Len(l) : cl.at[k] = l[k]
      /\ cn.lo = 1 /\ cn.hi = Len(n) /\ \A k \in 1 .. Len(n) : cn.at[k] = n[k]
  BY Zenon DEF ChunkOfLog
<1>5. /\ cm.lo = lo /\ cm.hi = lo + Len(es)
      /\ \A k \in lo .. lo + Len(es) : cm.at[k] = IF k = lo THEN [term |-> m.prevLogTerm, cmd |-> Noop]
                                                            ELSE es[k - lo]
  BY Zenon DEF ChunkOfMsg
<1> HIDE DEF lo, es, b, cn, cl, cm
<1>6. /\ Len(n) = lo + Len(es)
      /\ \A k \in 1 .. lo : n[k] = b[k]
      /\ \A k \in lo + 1 .. lo + Len(es) : n[k] = es[k - lo]
  <2>1. /\ Len(b \o es) = Len(b) + Len(es)
        /\ \A k \in 1 .. Len(b) + Len(es) : (b \o es)[k] = IF k <= Len(b) THEN b[k] ELSE es[k - Len(b)]
    <3>1. b \in Seq(E) /\ es \in Seq(E)
      BY <1>1, <1>2
    <3>. QED BY ONLY <3>1, ConcatProperties
  <2>2. /\ Len(n) = lo + Len(es)
        /\ \A k \in 1 .. lo + Len(es) : n[k] = IF k <= lo THEN b[k] ELSE es[k - lo]
    BY <1>2, <1>3, <2>1
  <2>. QED BY ONLY <1>1, <2>2
<1>7. cl.at[lo].term = cm.at[lo].term
  <2>1. lo \in 1 .. Len(l) /\ lo \in lo .. lo + Len(es)
    BY <1>1
  <2>. QED BY <1>3, <1>4, <1>5, <2>1
<1>8. ASSUME NEW k \in 1 .. lo PROVE cn.at[k] = cl.at[k]
  <2>1. k \in 1 .. Len(l) /\ k \in 1 .. Len(n)
    BY <1>1, <1>6
  <2>2. cn.at[k] = n[k] /\ n[k] = b[k] /\ b[k] = l[k] /\ cl.at[k] = l[k]
    BY ONLY <1>2, <1>4, <1>6, <2>1, k \in 1 .. lo
  <2>. QED BY <2>2
<1>9. ASSUME NEW k \in lo + 1 .. lo + Len(es) PROVE cn.at[k] = cm.at[k]
  <2>1. k \in 1 .. Len(n) /\ k \in lo .. lo + Len(es) /\ k # lo
    BY <1>1, <1>6
  <2>. QED BY <1>4, <1>5, <1>6, <2>1, Zenon
<1>10. Spliced(cn, cl, cm)
  BY <1>1, <1>4, <1>5, <1>6, <1>7, <1>8, <1>9 DEF Spliced
<1>. QED BY <1>10 DEF cn, cl, cm

\* Every entry of a splice is at the same place in one of its parts.
LEMMA SpliceInherits ==
  ASSUME NEW n, NEW l, NEW m, IsChunk(l), IsChunk(m), Spliced(n, l, m), NEW k \in n.lo .. n.hi
  PROVE  \/ k \in l.lo .. l.hi /\ n.at[k] = l.at[k]
         \/ k \in m.lo .. m.hi /\ n.at[k] = m.at[k]
<1>1. /\ l.lo \in Nat /\ l.hi \in Nat /\ m.lo \in Nat /\ m.hi \in Nat
      /\ n.lo = l.lo /\ n.hi = m.hi /\ l.lo <= m.lo /\ m.lo <= l.hi /\ m.lo <= m.hi
  BY DEF IsChunk, Spliced
<1>2. CASE k <= m.lo
  <2>1. k \in l.lo .. m.lo /\ k \in l.lo .. l.hi
    BY <1>1, <1>2
  <2>. QED BY <2>1 DEF Spliced
<1>3. CASE k > m.lo
  <2>1. k \in m.lo + 1 .. m.hi /\ k \in m.lo .. m.hi
    BY <1>1, <1>3
  <2>. QED BY <2>1 DEF Spliced
<1>. QED BY <1>1, <1>2, <1>3
=============================================================================
