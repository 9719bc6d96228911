-------------------------- MODULE RaftLogMatching --------------------------
(***************************************************************************)
(* Log matching, for any number of nodes, terms, entries and messages in   *)
(* flight, while the membership does not change and no log is compacted.   *)
(*                                                                         *)
(* Any two of the chunks that logs and requests hold agree.  What a node   *)
(* sends is a part of its log, what it accepts is spliced on at a position *)
(* where the terms are the same, and a leader appends at a position beyond *)
(* every entry of its term.                                                *)
(***************************************************************************)
EXTENDS RaftLogs

Chunks == {ChunkOfLog(log[i]) : i \in Server} \cup {ChunkOfMsg(m) : m \in {n \in msgs : Carries(n)}}

\* What the theorem about elections establishes of terms, roles and reigns.
Reigns ==
  /\ currentTerm \in [Server -> Nat] /\ role \in [Server -> Role] /\ reigns \subseteq Nat \X Server
  /\ \A m \in msgs : m.to \in Server /\ m.term \in Nat

\* Terms and reigns: a leader reigns in its term, a candidate does not yet.
Reigning ==
  /\ \A i \in Server :
       /\ role[i] = "Leader" => <<currentTerm[i], i>> \in reigns
       /\ role[i] = "Candidate" => <<currentTerm[i], i>> \notin reigns /\ currentTerm[i] > 0
  /\ \A r \in reigns : 0 < r[1] /\ r[1] <= currentTerm[r[2]]

LogInv ==
  /\ AllAgree(Chunks)
  /\ Proposed(Chunks, reigns)
  /\ \A i \in Server : role[i] = "Leader" => NoneBeyond(Chunks, currentTerm[i], Len(log[i]))
  /\ \A i \in Server : log[i][1] = EmptyLog[1]
  /\ \A m \in msgs : m.type # "InstallSnapshot"

-----------------------------------------------------------------------------
(* Requests are parts of logs *)

LEMMA SliceIsPart ==
  ASSUME NEW i \in Server, NEW p \in Server, NEW n, SenderOK(n), NEW k \in 1 .. MaxLog + 1, NEW m,
         m = SliceMsg(i, p, n, k), Carries(m)
  PROVE  Part(ChunkOfMsg(m), ChunkOfLog(n.log))
<1> DEFINE l == n.log
<1> SUFFICES ASSUME NEW s, s = SliceFrom(l, k, MaxAppendBatch) PROVE Part(ChunkOfMsg(m), ChunkOfLog(l))
  OBVIOUS
<1>1. /\ MaxLog \in Nat /\ k \in Nat /\ l \in Logs /\ Len(l) \in 1 .. MaxLog + 1
      /\ s \in Seq(Entry) /\ (s # <<>> => k + Len(s) <= Len(l))
      /\ \A x \in 1 .. Len(s) : s[x] = l[k + x]
      /\ m.type = "AppendEntries" /\ m.from = i /\ m.to = p /\ m.term = n.term
      /\ m.prevLogIndex = k - 1 /\ m.prevLogTerm = TermAt(l, k - 1)
      /\ m.entries = s /\ m.leaderCommit = n.commit
  <2>1. MaxLog \in Nat /\ k \in Nat /\ l \in Logs
    BY BoundAssumption DEF SenderOK
  <2>2. Len(l) \in 1 .. MaxLog + 1
    BY <2>1, LogTyped
  <2>3. /\ s \in Seq(Entry) /\ (s # <<>> => k + Len(s) <= Len(l))
        /\ \A x \in 1 .. Len(s) : s[x] = l[k + x]
    BY <2>1, SliceTyped
  <2>4. /\ m.type = "AppendEntries" /\ m.from = i /\ m.to = p /\ m.term = n.term
        /\ m.prevLogIndex = k - 1 /\ m.prevLogTerm = TermAt(l, k - 1)
        /\ m.entries = s /\ m.leaderCommit = n.commit
    BY DEF SliceMsg
  <2>. QED BY <2>1, <2>2, <2>3, <2>4
<1> HIDE DEF l
<1> DEFINE c == ChunkOfMsg(m)
           d == ChunkOfLog(l)
<1>2. s # <<>> /\ Len(s) \in Nat /\ Len(s) > 0 /\ k + Len(s) <= Len(l)
  <2>1. s # <<>>
    BY <1>1 DEF Carries
  <2>. QED BY <1>1, <2>1
<1>3. /\ c.lo = k /\ c.hi = k + Len(s)
      /\ \A x \in k .. k + Len(s) :
           c.at[x] = IF x = k THEN [term |-> TermAt(l, k - 1), cmd |-> Noop] ELSE s[x - k]
  <2>1. k - 1 + 1 = k
    BY <1>1
  <2>. QED BY <1>1, <2>1 DEF ChunkOfMsg
<1>4. d.lo = 1 /\ d.hi = Len(l) /\ \A x \in 1 .. Len(l) : d.at[x] = l[x]
  BY DEF ChunkOfLog
<1>5. TermAt(l, k - 1) = l[k].term
  <2>1. l \in Seq(Entry) /\ k \in 1 .. Len(l) /\ k - 1 + 1 = k
    BY <1>1, <1>2, LogTyped
  <2>. QED BY <2>1 DEF TermAt
<1> HIDE DEF c, d
<1>6. ASSUME NEW x \in c.lo .. c.hi
      PROVE  c.at[x].term = d.at[x].term /\ (x > c.lo => c.at[x] = d.at[x])
  <2>1. x \in k .. k + Len(s) /\ x \in 1 .. Len(l)
    BY <1>1, <1>2, <1>3
  <2>2. CASE x = k
    BY <1>1, <1>3, <1>4, <1>5, <2>1, <2>2
  <2>3. CASE x # k
    <3>1. x - k \in 1 .. Len(s) /\ k + (x - k) = x
      BY <1>1, <1>2, <2>1, <2>3
    <3>2. s[x - k] = l[x]
      BY <1>1, <3>1
    <3>. QED BY <1>3, <1>4, <2>1, <2>3, <3>2
  <2>. QED BY <2>2, <2>3
<1>7. d.lo <= c.lo /\ c.hi <= d.hi
  BY <1>1, <1>2, <1>3, <1>4
<1>8. Part(c, d)
  BY ONLY <1>6, <1>7 DEF Part
<1>. QED BY <1>8 DEF c, d

\* Without compaction a request carries a part of the sender's log.
LEMMA AppendIsPart ==
  ASSUME NoCompaction, NEW i \in Server, NEW p \in Server, NEW n, SenderOK(n), NEW m,
         m = AppendToPeer(i, p, n)
  PROVE  /\ m.type = "AppendEntries"
         /\ Carries(m) => Part(ChunkOfMsg(m), ChunkOfLog(n.log))
<1>1. PICK k \in 1 .. MaxLog + 1 :
        (LastIndex(n.log) > CompactThreshold /\ m = SnapshotMsg(i, p, n)) \/ m = SliceMsg(i, p, n, k)
  <2>1. \E k \in 1 .. MaxLog + 1 :
          \/ LastIndex(n.log) > CompactThreshold /\ m = SnapshotMsg(i, p, n)
          \/ m = SliceMsg(i, p, n, k)
    BY ONLY i \in Server, p \in Server, SenderOK(n), m = AppendToPeer(i, p, n), AppendForms
  <2>. QED BY <2>1
<1>2. ~ (LastIndex(n.log) > CompactThreshold)
  <2>1. LastIndex(n.log) \in 0 .. MaxLog
    BY LogTyped DEF SenderOK
  <2>. QED BY <2>1, BoundAssumption DEF NoCompaction
<1>3. m = SliceMsg(i, p, n, k)
  BY <1>1, <1>2, Zenon
<1>4. m.type = "AppendEntries"
  BY <1>3 DEF SliceMsg
<1>. QED BY <1>3, <1>4, SliceIsPart

-----------------------------------------------------------------------------
(* Reigns *)

\* A step that elects no one: a node keeps its role and its term, or follows.
Calm ==
  /\ reigns' = reigns
  /\ \A j \in Server :
       \/ role'[j] = "Follower" /\ currentTerm[j] <= currentTerm'[j]
       \/ role'[j] = role[j] /\ currentTerm'[j] = currentTerm[j]

\* A leader after the step led in the same term before, or leads in a term in
\* which no one has reigned.
Succession ==
  /\ reigns \subseteq reigns'
  /\ \A j \in Server : role'[j] = "Leader" =>
       \/ role[j] = "Leader" /\ currentTerm'[j] = currentTerm[j]
       \/ \A r \in reigns : r[1] # currentTerm'[j]

LEMMA CalmKeepsReigns ==
  ASSUME Reigns, Reigning, Calm, Terms'
  PROVE  Reigning' /\ Succession
<1>1. ASSUME NEW i \in Server
      PROVE  /\ role'[i] = "Leader" => <<currentTerm'[i], i>> \in reigns'
             /\ role'[i] = "Candidate" => <<currentTerm'[i], i>> \notin reigns' /\ currentTerm'[i] > 0
  BY DEF Reigning, Calm
<1>2. ASSUME NEW r \in reigns' PROVE 0 < r[1] /\ r[1] <= currentTerm'[r[2]]
  <2>1. r \in reigns /\ r[1] \in Nat /\ r[2] \in Server
    BY DEF Calm, Reigns
  <2>2. currentTerm[r[2]] \in Nat /\ currentTerm'[r[2]] \in Nat /\ currentTerm[r[2]] <= currentTerm'[r[2]]
    BY <2>1, BoundAssumption DEF Calm, Reigns, Terms
  <2>3. 0 < r[1] /\ r[1] <= currentTerm[r[2]]
    BY <2>1 DEF Reigning
  <2>. QED BY <2>1, <2>2, <2>3
<1>3. Succession
  BY DEF Calm, Succession
<1>. QED BY <1>1, <1>2, <1>3 DEF Reigning

LEMMA SameTermsAreCalm ==
  ASSUME UNCHANGED <<currentTerm, role, reigns>>
  PROVE  Calm
BY DEF Calm

LEMMA FollowingIsCalm ==
  ASSUME Reigns, NEW i \in Server, NEW t \in Nat, reigns' = reigns,
         currentTerm' = [currentTerm EXCEPT ![i] = Max({currentTerm[i], t})],
         StepDown(i) \/ (t <= currentTerm[i] /\ UNCHANGED softVars)
  PROVE  Calm
<1> DEFINE n == Max({currentTerm[i], t})
<1>1. currentTerm[i] \in Nat /\ n \in Nat /\ currentTerm[i] <= n /\ t <= n /\ (n = currentTerm[i] \/ n = t)
  BY LargerOfTwo DEF Reigns
<1>2. currentTerm' = [currentTerm EXCEPT ![i] = n]
  OBVIOUS
<1> HIDE DEF n
<1>3. ASSUME NEW j \in Server, j # i PROVE role'[j] = role[j] /\ currentTerm'[j] = currentTerm[j]
  BY <1>2, <1>3 DEF StepDown, softVars, Reigns
<1>4. currentTerm'[i] = n
  BY <1>2 DEF Reigns
<1>5. CASE StepDown(i)
  <2>1. role'[i] = "Follower"
    BY <1>5 DEF StepDown, Reigns
  <2>. QED BY <1>1, <1>3, <1>4, <2>1 DEF Calm
<1>6. CASE t <= currentTerm[i] /\ UNCHANGED softVars
  <2>1. role' = role /\ n = currentTerm[i]
    BY <1>1, <1>6 DEF softVars
  <2>. QED BY <1>3, <1>4, <2>1 DEF Calm
<1>. QED BY <1>5, <1>6

LEMMA RestartIsCalm ==
  ASSUME Reigns, NEW i \in Server, Restart(i)
  PROVE  Calm
<1>1. currentTerm' = currentTerm /\ reigns' = reigns /\ StepDown(i)
  BY DEF Restart, Reopen, hardVars, history
<1>2. \A j \in Server : role'[j] = "Follower" \/ role'[j] = role[j]
  BY <1>1 DEF StepDown, Reigns
<1>. QED BY <1>1, <1>2 DEF Calm, Reigns

LEMMA ReceiveIsCalm ==
  ASSUME FixedMembership, Typed, Reigns, NEW m \in msgs, Receive(m), ~ CountVote(m.to, m)
  PROVE  Calm
<1> DEFINE i == m.to
<1>0. i \in Server /\ m.term \in Nat /\ currentTerm[i] \in Nat
  BY DEF Reigns
<1>1. CASE IgnoreResponse(i, m) \/ RejectStaleAppend(i, m) \/ RejectStaleSnapshot(i, m)
             \/ EchoOther(i, m) \/ HandleAppendResp(i, m)
  <2>1. UNCHANGED <<currentTerm, role, reigns>>
    BY <1>1, Zenon DEF IgnoreResponse, RejectStaleAppend, RejectStaleSnapshot, EchoOther, HandleAppendResp,
                hardVars, softVars, history
  <2>. QED BY <2>1, SameTermsAreCalm
<1>2. CASE VoteFromHigherTerm(i, m) \/ AppendRespFromHigherTerm(i, m) \/ HandleInstallSnapshot(i, m)
             \/ CrashInSyncOfAppend(i, m) \/ CrashInSyncOfSnapshot(i, m)
  <2>1. StepDown(i) /\ AdoptTerm(i, m.term) /\ reigns' = reigns
    BY <1>2 DEF VoteFromHigherTerm, AppendRespFromHigherTerm, HandleInstallSnapshot,
                CrashInSyncOfAppend, CrashInSyncOfSnapshot, Reopen, history
  <2>. QED BY <1>0, <2>1, FollowingIsCalm, Zenon DEF AdoptTerm
<1>3. CASE RejectMismatchedAppend(i, m) \/ AcceptAppend(i, m)
  <2>1. /\ AdoptTerm(i, m.term) /\ reigns' = reigns /\ m.term >= currentTerm[i]
        /\ IF Follows(i, m) THEN StepDown(i) ELSE UNCHANGED softVars
    BY <1>3 DEF RejectMismatchedAppend, AcceptAppend, history
  <2>2. ~ Follows(i, m) => m.term <= currentTerm[i]
    BY <1>0 DEF Follows
  <2>. QED BY <1>0, <2>1, <2>2, FollowingIsCalm, Zenon DEF AdoptTerm
<1>4. CASE CrashInSyncOfCompaction(i, m)
  <2>1. StepDown(i) /\ currentTerm' = currentTerm /\ reigns' = reigns
    BY <1>4 DEF CrashInSyncOfCompaction, Reopen, history
  <2>2. \A j \in Server : role'[j] = "Follower" \/ role'[j] = role[j]
    BY <2>1 DEF StepDown, Reigns
  <2>. QED BY <2>1, <2>2 DEF Calm, Reigns
<1>5. CASE HandleRequestVote(i, m)
  <2>1. /\ currentTerm' = [currentTerm EXCEPT ![i] = Max({currentTerm[i], m.term})] /\ reigns' = reigns
        /\ IF m.term > currentTerm[i] THEN StepDown(i) ELSE UNCHANGED softVars
    BY <1>5 DEF HandleRequestVote
  <2>2. ~ (m.term > currentTerm[i]) => m.term <= currentTerm[i]
    BY <1>0
  <2>. QED BY <1>0, <2>1, <2>2, FollowingIsCalm, Zenon
<1>. QED BY <1>1, <1>2, <1>3, <1>4, <1>5 DEF Receive

\* Node i becomes leader of term t, in which no one has reigned.
Crowned(i, t) ==
  /\ role' = [role EXCEPT ![i] = "Leader"]
  /\ currentTerm' = [currentTerm EXCEPT ![i] = t]
  /\ reigns' = reigns \cup {<<t, i>>}
  /\ \A r \in reigns : r[1] # t

LEMMA NewReign ==
  ASSUME Reigns, OneLeaderPerTerm', NEW i \in Server, NEW t \in Nat,
         <<t, i>> \notin reigns, reigns' = reigns \cup {<<t, i>>}
  PROVE  \A r \in reigns : r[1] # t
<1> SUFFICES ASSUME NEW r \in reigns, r[1] = t PROVE FALSE
  OBVIOUS
<1> DEFINE q == <<t, i>>
<1>1. q \in reigns' /\ r \in reigns' /\ q[1] = r[1]
  OBVIOUS
<1>2. r = q
  BY <1>1 DEF OneLeaderPerTerm
<1>. QED BY <1>2

LEMMA CrownedReigns ==
  ASSUME Reigns, Reigning, NEW i \in Server, NEW t \in Nat, t > 0, currentTerm[i] <= t, Crowned(i, t)
  PROVE  Reigning' /\ Succession
<1>1. ASSUME NEW j \in Server
      PROVE  /\ role'[j] = "Leader" => <<currentTerm'[j], j>> \in reigns'
             /\ role'[j] = "Candidate" => <<currentTerm'[j], j>> \notin reigns' /\ currentTerm'[j] > 0
  <2>1. CASE j = i
    <3>1. role'[i] = "Leader" /\ currentTerm'[i] = t /\ <<t, i>> \in reigns'
      BY DEF Crowned, Reigns
    <3>. QED BY <2>1, <3>1
  <2>2. CASE j # i
    <3>1. role'[j] = role[j] /\ currentTerm'[j] = currentTerm[j]
      BY <2>2 DEF Crowned, Reigns
    <3>2. \A x : <<x, j>> \in reigns' <=> <<x, j>> \in reigns
      BY <2>2 DEF Crowned
    <3>. QED BY <3>1, <3>2 DEF Reigning
  <2>. QED BY <2>1, <2>2
<1>2. ASSUME NEW r \in reigns' PROVE 0 < r[1] /\ r[1] <= currentTerm'[r[2]]
  <2>0. currentTerm[i] \in Nat /\ currentTerm' = [currentTerm EXCEPT ![i] = t] /\ DOMAIN currentTerm = Server
    BY DEF Crowned, Reigns
  <2>1. CASE r \in reigns
    <3>1. r[1] \in Nat /\ r[2] \in Server /\ 0 < r[1] /\ r[1] <= currentTerm[r[2]] /\ currentTerm[r[2]] \in Nat
      BY <2>1 DEF Reigning, Reigns
    <3>. QED BY <2>0, <3>1
  <2>2. CASE r = <<t, i>>
    BY <2>0, <2>2
  <2>. QED BY <2>1, <2>2 DEF Crowned
<1>3. Succession
  BY DEF Crowned, Succession, Reigns
<1>. QED BY <1>1, <1>2, <1>3 DEF Reigning

LEMMA ElectionTimeoutReigns ==
  ASSUME Reigns, Reigning, OneLeaderPerTerm', NEW i \in Server, ElectionTimeout(i)
  PROVE  Reigning' /\ Succession
<1> DEFINE t == currentTerm[i] + 1
<1>0. /\ currentTerm[i] \in Nat /\ t \in Nat /\ t > 0 /\ currentTerm[i] <= t
      /\ currentTerm' = [currentTerm EXCEPT ![i] = t] /\ currentTerm'[i] = t
  BY DEF Reigns, ElectionTimeout
<1>1. <<t, i>> \notin reigns
  <2> SUFFICES ASSUME <<t, i>> \in reigns PROVE FALSE
    OBVIOUS
  <2> DEFINE r == <<t, i>>
  <2>1. r[1] <= currentTerm[r[2]]
    BY DEF Reigning
  <2>. QED BY <1>0, <2>1
<1>2. \/ role' = [role EXCEPT ![i] = "Leader"] /\ reigns' = reigns \cup {<<t, i>>}
      \/ role' = [role EXCEPT ![i] = "Candidate"] /\ reigns' = reigns
  BY Zenon DEF ElectionTimeout
<1> HIDE DEF t
<1>3. CASE role' = [role EXCEPT ![i] = "Leader"] /\ reigns' = reigns \cup {<<t, i>>}
  <2>1. \A r \in reigns : r[1] # t
    BY <1>0, <1>1, <1>3, NewReign
  <2>2. Crowned(i, t)
    BY <1>0, <1>3, <2>1 DEF Crowned
  <2>. QED BY <1>0, <2>2, CrownedReigns
<1>4. CASE role' = [role EXCEPT ![i] = "Candidate"] /\ reigns' = reigns
  <2>1. ASSUME NEW j \in Server
        PROVE  /\ role'[j] = "Leader" => <<currentTerm'[j], j>> \in reigns'
               /\ role'[j] = "Candidate" => <<currentTerm'[j], j>> \notin reigns' /\ currentTerm'[j] > 0
    <3>1. CASE j = i
      <4>1. role'[i] = "Candidate"
        BY <1>4 DEF Reigns
      <4>. QED BY <1>0, <1>1, <1>4, <3>1, <4>1
    <3>2. CASE j # i
      <4>1. role'[j] = role[j] /\ currentTerm'[j] = currentTerm[j]
        BY <1>0, <1>4, <3>2 DEF Reigns
      <4>. QED BY <1>4, <4>1 DEF Reigning
    <3>. QED BY <3>1, <3>2
  <2>2. ASSUME NEW r \in reigns' PROVE 0 < r[1] /\ r[1] <= currentTerm'[r[2]]
    <3>1. r[1] \in Nat /\ r[2] \in Server /\ 0 < r[1] /\ r[1] <= currentTerm[r[2]] /\ currentTerm[r[2]] \in Nat
      BY <1>4 DEF Reigning, Reigns
    <3>2. currentTerm'[r[2]] \in {t, currentTerm[r[2]]} /\ (r[2] = i => currentTerm'[r[2]] = t)
      BY <1>0, <3>1 DEF Reigns
    <3>3. currentTerm[r[2]] <= currentTerm'[r[2]] /\ currentTerm'[r[2]] \in Nat
      <4>1. CASE r[2] = i
        BY <1>0, <3>2, <4>1
      <4>2. CASE r[2] # i
        BY <1>0, <3>1, <4>2 DEF Reigns
      <4>. QED BY <4>1, <4>2
    <3>. QED BY <3>1, <3>3
  <2>3. Succession
    BY <1>0, <1>4 DEF Succession, Reigns
  <2>. QED BY <2>1, <2>2, <2>3 DEF Reigning
<1>. QED BY <1>2, <1>3, <1>4

LEMMA CountVoteReigns ==
  ASSUME Reigns, Reigning, OneLeaderPerTerm', NEW m \in msgs, CountVote(m.to, m)
  PROVE  Reigning' /\ Succession
<1> DEFINE i == m.to
           t == currentTerm[i]
<1>0. i \in Server /\ t \in Nat /\ t <= t /\ role[i] = "Candidate"
  BY DEF Reigns, CountVote
<1>1. <<t, i>> \notin reigns /\ t > 0
  BY <1>0 DEF Reigning
<1>2. /\ currentTerm' = currentTerm
      /\ \/ role' = [role EXCEPT ![i] = "Leader"] /\ reigns' = reigns \cup {<<t, i>>}
         \/ UNCHANGED <<role, reigns>>
  BY DEF CountVote, hardVars
<1>3. CASE UNCHANGED <<role, reigns>>
  <2>1. Reigning'
    BY <1>2, <1>3 DEF Reigning
  <2>2. Succession
    BY <1>2, <1>3 DEF Succession
  <2>. QED BY <2>1, <2>2
<1>4. CASE role' = [role EXCEPT ![i] = "Leader"] /\ reigns' = reigns \cup {<<t, i>>}
  <2>1. \A r \in reigns : r[1] # t
    BY <1>0, <1>1, <1>4, NewReign
  <2>2. currentTerm' = [currentTerm EXCEPT ![i] = t]
    BY <1>0, <1>2 DEF Reigns
  <2>3. Crowned(i, t)
    BY <1>4, <2>1, <2>2 DEF Crowned
  <2>. QED BY <1>0, <1>1, <2>3, CrownedReigns
<1>. QED BY <1>2, <1>3, <1>4

LEMMA ReigningNext ==
  ASSUME FixedMembership, Typed, Typed', Reigns, OneLeaderPerTerm', Reigning, [Next]_vars
  PROVE  Reigning' /\ Succession
<1>0. Terms'
  BY DEF Typed
<1>1. CASE UNCHANGED vars
  <2>1. Calm
    BY <1>1, SameTermsAreCalm DEF vars, hardVars, softVars, history
  <2>. QED BY <1>0, <2>1, CalmKeepsReigns
<1>2. ASSUME NEW i \in Server, ElectionTimeout(i) PROVE Reigning' /\ Succession
  BY <1>0, <1>2, ElectionTimeoutReigns
<1>3. ASSUME NEW i \in Server,
             HeartbeatTimeout(i) \/ ReadIndex(i) \/ (\E c \in Command \cup ConfChange : Propose(i, c))
               \/ (\E j \in Server : HandleReadIndex(i, j))
      PROVE  Reigning' /\ Succession
  <2>1. Calm
    BY <1>3, SameTermsAreCalm, Zenon DEF HeartbeatTimeout, ReadIndex, Propose, HandleReadIndex, hardVars, softVars, history
  <2>. QED BY <1>0, <2>1, CalmKeepsReigns
<1>4. ASSUME NEW i \in Server, Restart(i) PROVE Reigning' /\ Succession
  BY <1>0, <1>4, RestartIsCalm, CalmKeepsReigns
<1>5. ASSUME NEW m \in msgs, Receive(m) PROVE Reigning' /\ Succession
  <2>1. CASE CountVote(m.to, m)
    BY <1>0, <2>1, CountVoteReigns
  <2>2. CASE ~ CountVote(m.to, m)
    BY <1>0, <1>5, <2>2, ReceiveIsCalm, CalmKeepsReigns
  <2>. QED BY <2>1, <2>2
<1>6. Readers \subseteq Server
  BY BoundAssumption
<1>. QED BY <1>1, <1>2, <1>3, <1>4, <1>5, <1>6 DEF Next

-----------------------------------------------------------------------------
(* Logs and requests as chunks *)

LEMMA LogChunk ==
  ASSUME NEW l \in Logs
  PROVE  /\ IsChunk(ChunkOfLog(l))
         /\ ChunkOfLog(l).lo = 1 /\ ChunkOfLog(l).hi = Len(l) /\ Len(l) \in Nat
         /\ \A k \in 1 .. Len(l) : ChunkOfLog(l).at[k] = l[k]
<1>1. Len(l) \in 1 .. MaxLog + 1 /\ MaxLog \in Nat /\ MaxTerm \in Nat
  BY LogTyped, BoundAssumption
<1>2. \A k \in 1 .. Len(l) : l[k].term \in Nat
  <2>1. \A k \in 1 .. Len(l) : l[k].term \in 0 .. MaxTerm
    BY EntriesTyped
  <2>. QED BY <1>1, <2>1
<1>. QED BY <1>1, <1>2 DEF ChunkOfLog, IsChunk

LEMMA RequestChunk ==
  ASSUME NEW m, MsgTyped(m), m.type = "AppendEntries"
  PROVE  /\ IsChunk(ChunkOfMsg(m))
         /\ ChunkOfMsg(m).lo = m.prevLogIndex + 1 /\ m.prevLogIndex \in Nat
         /\ ChunkOfMsg(m).hi = m.prevLogIndex + 1 + Len(m.entries) /\ Len(m.entries) \in Nat
         /\ ChunkOfMsg(m).at[m.prevLogIndex + 1].term = m.prevLogTerm
         /\ \A k \in 1 .. Len(m.entries) : ChunkOfMsg(m).at[m.prevLogIndex + 1 + k] = m.entries[k]
<1> DEFINE lo == m.prevLogIndex + 1
           hi == lo + Len(m.entries)
           c == ChunkOfMsg(m)
<1>1. /\ m.prevLogIndex \in Nat /\ m.prevLogTerm \in Nat /\ m.entries \in Seq(Entry) /\ MaxTerm \in Nat
  BY BoundAssumption DEF MsgTyped
<1>2. \A k \in 1 .. Len(m.entries) : m.entries[k].term \in Nat
  <2>1. \A k \in 1 .. Len(m.entries) : m.entries[k] \in Entry
    BY <1>1
  <2>. QED BY <1>1, <2>1 DEF Entry
<1>3. Len(m.entries) \in Nat /\ lo \in Nat /\ hi \in Nat /\ lo <= hi
  BY <1>1
<1>4. /\ c.lo = lo /\ c.hi = hi
      /\ \A k \in lo .. hi : c.at[k] = IF k = lo THEN [term |-> m.prevLogTerm, cmd |-> Noop]
                                                 ELSE m.entries[k - lo]
  BY Zenon DEF ChunkOfMsg
<1> HIDE DEF c
<1>5. \A k \in lo .. hi : c.at[k].term \in Nat
  <2> SUFFICES ASSUME NEW k \in lo .. hi PROVE c.at[k].term \in Nat
    OBVIOUS
  <2>1. CASE k = lo
    BY <1>1, <1>4, <2>1
  <2>2. CASE k # lo
    <3>1. k - lo \in 1 .. Len(m.entries)
      BY <1>3, <2>2
    <3>. QED BY <1>2, <1>4, <2>2, <3>1
  <2>. QED BY <2>1, <2>2
<1>6. c.at[lo].term = m.prevLogTerm
  BY <1>3, <1>4
<1>7. ASSUME NEW k \in 1 .. Len(m.entries) PROVE c.at[lo + k] = m.entries[k]
  <2>1. lo + k \in lo .. hi /\ lo + k # lo /\ (lo + k) - lo = k
    BY <1>3
  <2>. QED BY <1>4, <2>1
<1>. QED BY <1>1, <1>3, <1>4, <1>5, <1>6, <1>7 DEF IsChunk, c

LEMMA AllChunks ==
  ASSUME Typed
  PROVE  \A c \in Chunks : IsChunk(c)
<1>1. ASSUME NEW i \in Server PROVE IsChunk(ChunkOfLog(log[i]))
  BY LogChunk DEF Typed
<1>2. ASSUME NEW m \in msgs, Carries(m) PROVE IsChunk(ChunkOfMsg(m))
  BY <1>2, RequestChunk DEF Typed, Carries
<1>. QED BY <1>1, <1>2 DEF Chunks

\* Every request on the network after the step carries a part of a chunk of D.
CarriesPartsOf(D) ==
  \A m \in msgs' : /\ m.type # "InstallSnapshot"
                   /\ Carries(m) => \E d \in D : Part(ChunkOfMsg(m), d)

\* The invariant, shown on a set D of chunks that the logs and the requests
\* after the step are parts of.
LEMMA LogInvFrom ==
  ASSUME Typed', NEW D, \A d \in D : IsChunk(d), AllAgree(D), Proposed(D, reigns'),
         \A i \in Server : role'[i] = "Leader" => NoneBeyond(D, currentTerm'[i], Len(log'[i])),
         \A i \in Server : ChunkOfLog(log'[i]) \in D /\ log'[i][1] = EmptyLog[1],
         CarriesPartsOf(D)
  PROVE  LogInv'
<1> DEFINE C == Chunks'
<1>1. \A c \in C : IsChunk(c)
  <2>1. ASSUME NEW i \in Server PROVE IsChunk(ChunkOfLog(log'[i]))
    BY LogChunk DEF Typed
  <2>2. ASSUME NEW m \in msgs', Carries(m) PROVE IsChunk(ChunkOfMsg(m))
    BY <2>2, RequestChunk DEF Typed, Carries
  <2>. QED BY <2>1, <2>2 DEF Chunks
<1>2. \A c \in C : \E d \in D : Part(c, d)
  <2>1. ASSUME NEW i \in Server PROVE \E d \in D : Part(ChunkOfLog(log'[i]), d)
    BY WholeIsPart
  <2>2. ASSUME NEW m \in msgs', Carries(m) PROVE \E d \in D : Part(ChunkOfMsg(m), d)
    BY <2>2 DEF CarriesPartsOf
  <2>. QED BY <2>1, <2>2 DEF Chunks
<1> HIDE DEF C
<1>3. AllAgree(C)
  BY <1>1, <1>2, PartsAgree
<1>4. Proposed(C, reigns')
  BY <1>1, <1>2, PartsInherit, Zenon
<1>5. ASSUME NEW i \in Server, role'[i] = "Leader" PROVE NoneBeyond(C, currentTerm'[i], Len(log'[i]))
  <2>1. NoneBeyond(D, currentTerm'[i], Len(log'[i]))
    BY <1>5
  <2>. QED BY <1>1, <1>2, <2>1, PartsInherit, Zenon
<1>6. \A m \in msgs' : m.type # "InstallSnapshot"
  BY DEF CarriesPartsOf
<1>. QED BY <1>3, <1>4, <1>5, <1>6 DEF LogInv, C

\* A node that sends only parts of what it has leaves the invariant alone, also
\* when it becomes leader: no entry of its new term exists yet.
LEMMA SameLogs ==
  ASSUME Typed, Typed', LogInv, Succession, log' = log, CarriesPartsOf(Chunks)
  PROVE  LogInv'
<1>1. \A c \in Chunks : IsChunk(c)
  BY AllChunks
<1>2. AllAgree(Chunks) /\ Proposed(Chunks, reigns')
  BY DEF LogInv, Proposed, Succession
<1>3. ASSUME NEW i \in Server, role'[i] = "Leader" PROVE NoneBeyond(Chunks, currentTerm'[i], Len(log'[i]))
  <2>1. CASE role[i] = "Leader" /\ currentTerm'[i] = currentTerm[i]
    BY <2>1 DEF LogInv
  <2>2. CASE \A r \in reigns : r[1] # currentTerm'[i]
    <3> SUFFICES ASSUME NEW c \in Chunks, NEW k \in c.lo .. c.hi, c.at[k].term = currentTerm'[i]
                 PROVE  k <= Len(log[i])
      BY DEF NoneBeyond
    <3>1. ~ (k > 1)
      BY <2>2 DEF LogInv, Proposed
    <3>2. c.lo \in Nat /\ c.hi \in Nat
      BY <1>1 DEF IsChunk
    <3>3. Len(log[i]) \in 1 .. MaxLog + 1 /\ MaxLog \in Nat
      BY LogTyped DEF Typed
    <3>. QED BY <3>1, <3>2, <3>3
  <2>. QED BY <1>3, <2>1, <2>2 DEF Succession
<1>4. \A i \in Server : ChunkOfLog(log'[i]) \in Chunks /\ log'[i][1] = EmptyLog[1]
  BY DEF Chunks, LogInv
<1>. QED BY <1>1, <1>2, <1>3, <1>4, LogInvFrom

LEMMA OldRequests ==
  ASSUME Typed, LogInv, NEW R, NEW S, Exchange(R, S), NEW D, Chunks \subseteq D,
         \A m \in S : m.type # "InstallSnapshot" /\ (Carries(m) => \E d \in D : Part(ChunkOfMsg(m), d))
  PROVE  CarriesPartsOf(D)
<1> SUFFICES ASSUME NEW m \in msgs'
             PROVE  /\ m.type # "InstallSnapshot"
                    /\ Carries(m) => \E d \in D : Part(ChunkOfMsg(m), d)
  BY DEF CarriesPartsOf
<1>1. CASE m \in S
  BY <1>1
<1>2. CASE m \in msgs
  <2>1. m.type # "InstallSnapshot"
    BY <1>2 DEF LogInv
  <2>2. ASSUME Carries(m) PROVE \E d \in D : Part(ChunkOfMsg(m), d)
    <3>1. ChunkOfMsg(m) \in Chunks
      BY <1>2, <2>2 DEF Chunks
    <3>2. Part(ChunkOfMsg(m), ChunkOfMsg(m))
      BY <3>1, AllChunks, WholeIsPart
    <3>. QED BY <3>1, <3>2
  <2>. QED BY <2>1, <2>2
<1>. QED BY <1>1, <1>2, SentOrLost

LEMMA BroadcastParts ==
  ASSUME NoCompaction, Typed, NEW i \in Server, NEW n, SenderOK(n), NEW D, ChunkOfLog(n.log) \in D
  PROVE  /\ \A p \in Server : LET m == AppendToPeer(i, p, n)
                              IN m.type # "InstallSnapshot" /\ (Carries(m) => \E d \in D : Part(ChunkOfMsg(m), d))
         /\ \A m \in BroadcastAppend(i, n) :
              m.type # "InstallSnapshot" /\ (Carries(m) => \E d \in D : Part(ChunkOfMsg(m), d))
<1>1. ASSUME NEW p \in Server, NEW m, m = AppendToPeer(i, p, n)
      PROVE  m.type # "InstallSnapshot" /\ (Carries(m) => \E d \in D : Part(ChunkOfMsg(m), d))
  <2>1. m.type = "AppendEntries" /\ (Carries(m) => Part(ChunkOfMsg(m), ChunkOfLog(n.log)))
    BY <1>1, AppendIsPart
  <2>. QED BY <2>1
<1>2. voters[i] \subseteq Server
  BY DEF Typed
<1>. QED BY <1>1, <1>2 DEF BroadcastAppend

\* Answers carry no entries.
LEMMA AnswersCarryNothing ==
  ASSUME NEW i, NEW j, NEW t
  PROVE  /\ \A g : RequestVoteResp(i, j, t, g).type = "RequestVoteResp" /\ ReadIndexResp(i, j, t, g).type = "ReadIndexResp"
         /\ \A ok, k : AppendEntriesResp(i, j, t, ok, k).type = "AppendEntriesResp"
         /\ InstallSnapshotResp(i, j, t).type = "InstallSnapshotResp"
         /\ RequestVoteReq(i, j, t).type = "RequestVote"
BY DEF RequestVoteResp, ReadIndexResp, AppendEntriesResp, InstallSnapshotResp, RequestVoteReq

LEMMA AnswerRequests ==
  ASSUME Typed, LogInv, NEW R, NEW S, Exchange(R, S),
         \A m \in S : m.type \notin {"AppendEntries", "InstallSnapshot"}
  PROVE  CarriesPartsOf(Chunks)
BY OldRequests DEF Carries

LEMMA LogChunkIn ==
  ASSUME NEW i \in Server
  PROVE  ChunkOfLog(log[i]) \in Chunks
BY DEF Chunks

-----------------------------------------------------------------------------
(* Steps that leave the logs alone *)

LEMMA ElectionTimeoutLogs ==
  ASSUME NoCompaction, Typed, Typed', LogInv, Succession, NEW i \in Server, ElectionTimeout(i)
  PROVE  LogInv'
<1> DEFINE t == currentTerm[i] + 1
           fresh == FreshProgress(i, voters[i], log[i])
           n == [Sender(i) EXCEPT !.term = t, !.progress = fresh]
           R == {RequestVoteReq(i, p, t) : p \in voters[i] \ {i}}
           B == BroadcastAppend(i, n)
           Good(m) == m.type # "InstallSnapshot" /\ (Carries(m) => \E d \in Chunks : Part(ChunkOfMsg(m), d))
<1>0. log[i] \in Logs /\ currentTerm[i] \in 0 .. MaxTerm /\ voters[i] \in SUBSET Server
  BY DEF Typed, Terms
<1>1. fresh \in ProgressTables
  BY <1>0, FreshTyped
<1>2. t \in 0 .. MaxTerm
  BY <1>0, BoundAssumption DEF ElectionTimeout
<1>3. n.log = log[i] /\ SenderOK(n)
  <2>1. SenderOK(Sender(i))
    BY SenderTyped
  <2> HIDE DEF fresh, t
  <2>. QED BY <1>1, <1>2, <2>1 DEF SenderOK, Sender
<1>4. log' = log /\ (Exchange({}, R \cup B) \/ Exchange({}, R \cup {}))
  BY Zenon DEF ElectionTimeout, Send
<1> HIDE DEF n, t
<1>5. \A m \in R : Good(m)
  BY DEF RequestVoteReq, Carries
<1>6. \A m \in B : Good(m)
  BY <1>3, LogChunkIn, BroadcastParts
<1> HIDE DEF R, B
<1>7. CarriesPartsOf(Chunks)
  <2>1. CASE Exchange({}, R \cup B)
    BY <1>5, <1>6, <2>1, OldRequests
  <2>2. CASE Exchange({}, R \cup {})
    BY <1>5, <2>2, OldRequests
  <2>. QED BY <1>4, <2>1, <2>2
<1>. QED BY <1>4, <1>7, SameLogs

LEMMA CountVoteLogs ==
  ASSUME NoCompaction, Typed, Typed', LogInv, Succession, NEW m \in msgs, CountVote(m.to, m)
  PROVE  LogInv'
<1> DEFINE i == m.to
           fresh == FreshProgress(i, voters[i], log[i])
           n == [Sender(i) EXCEPT !.progress = fresh]
           B == BroadcastAppend(i, n)
<1>0. i \in Server /\ log[i] \in Logs /\ voters[i] \in SUBSET Server
  BY DEF Typed, MsgTyped
<1>1. fresh \in ProgressTables
  BY <1>0, FreshTyped
<1>2. n.log = log[i] /\ SenderOK(n)
  <2>1. SenderOK(Sender(i))
    BY <1>0, SenderTyped
  <2> HIDE DEF fresh
  <2>. QED BY <1>1, <2>1 DEF SenderOK, Sender
<1>3. log' = log /\ (Exchange({m}, B) \/ Exchange({m}, {}))
  BY DEF CountVote, Reply
<1> HIDE DEF n
<1>4. \A x \in B : x.type # "InstallSnapshot" /\ (Carries(x) => \E d \in Chunks : Part(ChunkOfMsg(x), d))
  BY <1>0, <1>2, LogChunkIn, BroadcastParts, Zenon
<1> HIDE DEF B
<1>5. CarriesPartsOf(Chunks)
  <2>1. CASE Exchange({m}, B)
    BY <1>4, <2>1, OldRequests
  <2>2. CASE Exchange({m}, {})
    BY <2>2, OldRequests
  <2>. QED BY <1>3, <2>1, <2>2
<1>. QED BY <1>3, <1>5, SameLogs

LEMMA SendingLogs ==
  ASSUME NoCompaction, Typed, Typed', LogInv, Succession, NEW i \in Server,
         HeartbeatTimeout(i) \/ \E j \in Server : HandleReadIndex(i, j)
  PROVE  LogInv'
<1> DEFINE B == BroadcastAppend(i, Sender(i))
<1>1. SenderOK(Sender(i)) /\ Sender(i).log = log[i]
  BY SenderTyped DEF Sender
<1>2. \A x \in B : x.type # "InstallSnapshot" /\ (Carries(x) => \E d \in Chunks : Part(ChunkOfMsg(x), d))
  BY <1>1, LogChunkIn, BroadcastParts
<1>3. CASE HeartbeatTimeout(i)
  <2>1. log' = log /\ Exchange({}, B)
    BY <1>3 DEF HeartbeatTimeout, Send
  <2> HIDE DEF B
  <2>. QED BY <1>2, <2>1, OldRequests, SameLogs
<1>4. ASSUME NEW j \in Server, HandleReadIndex(i, j) PROVE LogInv'
  <2> DEFINE a == ReadIndexResp(i, j, currentTerm[i], LastIndex(log[i]))
  <2>1. log' = log /\ Exchange({}, B \cup {a})
    BY <1>4 DEF HandleReadIndex, Send
  <2>2. a.type # "InstallSnapshot" /\ ~ Carries(a)
    BY DEF ReadIndexResp, Carries
  <2> HIDE DEF B, a
  <2>. QED BY <1>2, <2>1, <2>2, OldRequests, SameLogs
<1>. QED BY <1>3, <1>4

LEMMA AppendRespLogs ==
  ASSUME FixedMembership, NoCompaction, Typed, Typed', LogInv, Succession, NEW m \in msgs,
         HandleAppendResp(m.to, m)
  PROVE  LogInv'
<1>0. m.to \in Server /\ m.from \in Server
  BY DEF Typed, MsgTyped
<1>1. /\ log' = log
      /\ \/ Exchange({m}, {})
         \/ \E n : /\ SenderOK(n) /\ n.log = log[m.to]
                   /\ Exchange({m}, {AppendToPeer(m.to, m.from, n)})
  <2>1. PICK n : SenderOK(n) /\ n.log = log[m.to] /\ AnswersWith(m.to, m, n)
    BY AppendRespStep
  <2>2. log' = log
    BY AppendRespKeepsLog
  <2>. QED BY <2>1, <2>2, Zenon DEF AnswersWith
<1>2. CASE Exchange({m}, {})
  BY <1>1, <1>2, OldRequests, SameLogs
<1>3. ASSUME NEW n, SenderOK(n), n.log = log[m.to], Exchange({m}, {AppendToPeer(m.to, m.from, n)})
      PROVE  LogInv'
  <2> DEFINE a == AppendToPeer(m.to, m.from, n)
  <2>1. a.type # "InstallSnapshot" /\ (Carries(a) => \E d \in Chunks : Part(ChunkOfMsg(a), d))
    BY <1>0, <1>3, LogChunkIn, BroadcastParts, Zenon
  <2>2. Exchange({m}, {a})
    BY <1>3
  <2> HIDE DEF a
  <2>. QED BY <1>1, <2>1, <2>2, OldRequests, SameLogs
<1>. QED BY <1>1, <1>2, <1>3, Zenon

LEMMA AnsweringLogs ==
  ASSUME NoCompaction, Typed, Typed', LogInv, Succession, NEW m \in msgs,
         \/ HandleRequestVote(m.to, m) \/ VoteFromHigherTerm(m.to, m) \/ IgnoreResponse(m.to, m)
         \/ RejectStaleAppend(m.to, m) \/ RejectMismatchedAppend(m.to, m)
         \/ AppendRespFromHigherTerm(m.to, m) \/ EchoOther(m.to, m)
         \/ CrashInSyncOfAppend(m.to, m)
  PROVE  LogInv'
<1> DEFINE i == m.to
<1>1. log' = log
  BY DEF HandleRequestVote, VoteFromHigherTerm, IgnoreResponse, RejectStaleAppend, RejectMismatchedAppend,
         AppendRespFromHigherTerm, EchoOther, CrashInSyncOfAppend, Reopen
<1>2. \E S : Exchange({m}, S) /\ \A x \in S : x.type \notin {"AppendEntries", "InstallSnapshot"}
  <2>1. CASE HandleRequestVote(i, m)
    <3> DEFINE a == RequestVoteResp(i, m.from, Max({currentTerm[i], m.term}), Grants(i, m))
    <3>1. a.type = "RequestVoteResp" /\ Exchange({m}, {a})
      BY <2>1 DEF HandleRequestVote, Reply, RequestVoteResp
    <3> HIDE DEF a
    <3>. QED BY <3>1
  <2>2. CASE VoteFromHigherTerm(i, m) \/ IgnoreResponse(i, m) \/ AppendRespFromHigherTerm(i, m)
               \/ CrashInSyncOfAppend(i, m)
    <3>1. Exchange({m}, {})
      BY <2>2 DEF VoteFromHigherTerm, IgnoreResponse, AppendRespFromHigherTerm, CrashInSyncOfAppend, Reply
    <3>. QED BY ONLY <3>1
  <2>3. CASE RejectStaleAppend(i, m)
    <3> DEFINE a == AppendEntriesResp(i, m.from, currentTerm[i], FALSE, LastIndex(log[i]))
    <3>1. a.type = "AppendEntriesResp" /\ Exchange({m}, {a})
      BY <2>3 DEF RejectStaleAppend, Reply, AppendEntriesResp
    <3> HIDE DEF a
    <3>. QED BY <3>1
  <2>4. CASE RejectMismatchedAppend(i, m)
    <3> DEFINE a == AppendEntriesResp(i, m.from, m.term, FALSE, LastIndex(log[i]))
    <3>1. a.type = "AppendEntriesResp" /\ Exchange({m}, {a})
      BY <2>4 DEF RejectMismatchedAppend, Reply, AppendEntriesResp
    <3> HIDE DEF a
    <3>. QED BY <3>1
  <2>5. CASE EchoOther(i, m)
    <3> DEFINE a == IF m.type = "InstallSnapshotResp" THEN InstallSnapshotResp(i, m.from, m.term)
                    ELSE ReadIndexResp(i, m.from, m.term, m.readIndex)
    <3>1. Exchange({m}, {a})
      BY <2>5 DEF EchoOther, Reply
    <3>2. a.type \notin {"AppendEntries", "InstallSnapshot"}
      BY DEF InstallSnapshotResp, ReadIndexResp
    <3> HIDE DEF a
    <3>. QED BY <3>1, <3>2
  <2>. QED BY <2>1, <2>2, <2>3, <2>4, <2>5
<1>3. CarriesPartsOf(Chunks)
  BY <1>2, AnswerRequests
<1>. QED BY <1>1, <1>3, SameLogs

\* No snapshot is on the network and no log is compacted.
LEMMA NoSnapshotSteps ==
  ASSUME NoCompaction, Typed, LogInv, NEW m \in msgs
  PROVE  /\ ~ HandleInstallSnapshot(m.to, m) /\ ~ RejectStaleSnapshot(m.to, m)
         /\ ~ CrashInSyncOfSnapshot(m.to, m) /\ ~ CrashInSyncOfCompaction(m.to, m)
<1>1. m.type # "InstallSnapshot"
  BY DEF LogInv
<1>2. ASSUME CrashInSyncOfCompaction(m.to, m) PROVE FALSE
  <2> DEFINE i == m.to
             c == AdvancedCommit(i, ProgressAfter(i, m))
  <2>0. i \in Server /\ log[i] \in Logs /\ Indexes
    BY DEF Typed, MsgTyped
  <2>1. c \in 0 .. MaxLog /\ lastApplied[i] \in 0 .. MaxLog
    BY <2>0, AdvancedTyped DEF Indexes
  <2>2. LastIndex(log[i]) - Max({lastApplied[i], c}) > CompactThreshold
    BY <1>2 DEF CrashInSyncOfCompaction
  <2> HIDE DEF c
  <2>3. Max({lastApplied[i], c}) \in Nat
    BY <2>1, LargerOfTwo
  <2>4. LastIndex(log[i]) \in 0 .. MaxLog
    BY <2>0, LogTyped
  <2>. QED BY <2>2, <2>3, <2>4, BoundAssumption DEF NoCompaction
<1>. QED BY <1>1, <1>2 DEF HandleInstallSnapshot, RejectStaleSnapshot, CrashInSyncOfSnapshot

LEMMA RestartLogs ==
  ASSUME Typed, Typed', LogInv, Succession, NEW i \in Server, Restart(i)
  PROVE  LogInv'
<1>1. log' = log /\ msgs' = msgs
  BY DEF Restart, Reopen
<1>2. CarriesPartsOf(Chunks)
  BY <1>1, AllChunks, WholeIsPart DEF CarriesPartsOf, LogInv, Chunks
<1>. QED BY <1>1, <1>2, SameLogs

-----------------------------------------------------------------------------
(* Steps that change a log *)

\* An entry appended by the leader of its term.
LEMMA ProposeLogs ==
  ASSUME NoCompaction, Typed, Typed', LogInv, Reigning, OneLeaderPerTerm, NEW i \in Server,
         role[i] = "Leader", UNCHANGED <<role, currentTerm, reigns>>, LastIndex(log[i]) < MaxLog,
         NEW c \in Command \cup ConfChange \cup {Noop}, NEW l,
         l = Append(log[i], [term |-> currentTerm[i], cmd |-> c]),
         log' = [log EXCEPT ![i] = l], Send(BroadcastAppend(i, [Sender(i) EXCEPT !.log = l]))
  PROVE  LogInv'
<1> DEFINE t == currentTerm[i]
           o == ChunkOfLog(log[i])
           n == ChunkOfLog(l)
           D == Chunks \cup {n}
           s == [Sender(i) EXCEPT !.log = l]
<1>1. l \in Logs /\ SenderOK(s) /\ log[i] \in Logs /\ log \in [Server -> Logs] /\ s.log = l
  <2>1. l \in Logs /\ SenderOK(s)
    BY ProposedTyped, Zenon
  <2>. QED BY <2>1 DEF Typed, Sender
<1>2. /\ IsChunk(o) /\ o.lo = 1 /\ o.hi = Len(log[i]) /\ \A k \in 1 .. o.hi : o.at[k] = log[i][k]
      /\ IsChunk(n) /\ n.lo = 1 /\ n.hi = Len(l) /\ \A k \in 1 .. n.hi : n.at[k] = l[k]
      /\ Len(log[i]) \in Nat /\ Len(log[i]) >= 1
  <2>1. Len(log[i]) \in 1 .. MaxLog + 1 /\ MaxLog \in Nat
    BY <1>1, LogTyped
  <2>2. IsChunk(o) /\ o.lo = 1 /\ o.hi = Len(log[i]) /\ \A k \in 1 .. o.hi : o.at[k] = log[i][k]
    BY <1>1, LogChunk
  <2>3. IsChunk(n) /\ n.lo = 1 /\ n.hi = Len(l) /\ \A k \in 1 .. n.hi : n.at[k] = l[k]
    BY <1>1, LogChunk, Zenon
  <2> HIDE DEF o, n
  <2>. QED BY <2>1, <2>2, <2>3
<1>3. /\ Len(l) = Len(log[i]) + 1 /\ l[Len(l)].term = t
      /\ \A k \in 1 .. Len(log[i]) : l[k] = log[i][k]
  <2> DEFINE e == [term |-> t, cmd |-> c]
  <2>1. log[i] \in Seq(Entry) /\ e.term = t /\ l = Append(log[i], e)
    BY <1>1, LogTyped
  <2> HIDE DEF e
  <2>. QED BY <2>1
<1>4. Exchange({}, BroadcastAppend(i, s))
  BY DEF Send
<1>5. o \in Chunks
  BY LogChunkIn
<1> HIDE DEF t, o, n, s
<1>6. /\ n.lo = o.lo /\ n.hi = o.hi + 1 /\ n.at[n.hi].term = t
      /\ \A k \in o.lo .. o.hi : n.at[k] = o.at[k]
  <2>1. n.hi \in 1 .. n.hi /\ \A k \in o.lo .. o.hi : k \in 1 .. n.hi /\ k \in 1 .. Len(log[i])
    BY <1>2, <1>3
  <2>. QED BY <1>2, <1>3, <2>1
<1>7. \A d \in Chunks : IsChunk(d)
  BY AllChunks
<1>8. NoneBeyond(Chunks, t, Len(log[i]))
  BY DEF LogInv, t
<1>9. \A d \in Chunks : Agree(n, d)
  <2> SUFFICES ASSUME NEW d \in Chunks PROVE Agree(n, d)
    OBVIOUS
  <2>1. Agree(o, d)
    BY <1>5 DEF LogInv, AllAgree
  <2>2. \A k \in d.lo .. d.hi : d.at[k].term = n.at[n.hi].term => k <= o.hi
    BY <1>2, <1>6, <1>8 DEF NoneBeyond
  <2>. QED BY <1>2, <1>6, <1>7, <2>1, <2>2, ExtensionAgrees
<1>10. AllAgree(D) /\ \A d \in D : IsChunk(d)
  <2>1. AllAgree(Chunks)
    BY DEF LogInv
  <2>. QED BY <1>2, <1>7, <1>9, <2>1, OneMoreAgrees, Zenon
<1>11. Proposed(D, reigns')
  <2> SUFFICES ASSUME NEW d \in D, NEW k \in d.lo .. d.hi, k > 1 PROVE \E r \in reigns : r[1] = d.at[k].term
    BY DEF Proposed
  <2>0. Proposed(Chunks, reigns)
    BY DEF LogInv
  <2>1. CASE d \in Chunks
    BY <2>0, <2>1 DEF Proposed
  <2>2. CASE d = n /\ k = n.hi
    <3> DEFINE r == <<t, i>>
    <3>1. r \in reigns /\ r[1] = t
      BY DEF Reigning, t
    <3>. QED BY <1>6, <2>2, <3>1
  <2>3. CASE d = n /\ k # n.hi
    <3>1. k \in o.lo .. o.hi
      BY <1>2, <1>6, <2>3
    <3>2. \E r \in reigns : r[1] = o.at[k].term
      BY <1>5, <2>0, <3>1 DEF Proposed
    <3>. QED BY <1>6, <2>3, <3>1, <3>2
  <2>. QED BY <2>1, <2>2, <2>3
<1>12. ASSUME NEW j \in Server, role'[j] = "Leader" PROVE NoneBeyond(D, currentTerm'[j], Len(log'[j]))
  <2> SUFFICES ASSUME NEW d \in D, NEW k \in d.lo .. d.hi, d.at[k].term = currentTerm[j]
               PROVE  k <= Len(log'[j])
    BY DEF NoneBeyond
  <2>0. NoneBeyond(Chunks, currentTerm[j], Len(log[j])) /\ role[j] = "Leader"
    BY <1>12 DEF LogInv
  <2>1. Len(log[j]) \in Nat /\ Len(log'[j]) \in Nat /\ Len(log[j]) <= Len(log'[j]) /\ (j = i => log'[j] = l)
    <3>1. CASE j = i
      BY <1>1, <1>2, <1>3, <3>1
    <3>2. CASE j # i
      <4>1. log'[j] = log[j] /\ log[j] \in Logs
        BY <1>1, <3>2
      <4>2. Len(log[j]) \in Nat
        BY <4>1, LogTyped
      <4>. QED BY <3>2, <4>1, <4>2
    <3>. QED BY <3>1, <3>2
  <2>2. CASE d \in Chunks
    <3>1. k <= Len(log[j]) /\ d.lo \in Nat /\ d.hi \in Nat
      BY <1>7, <2>0, <2>2 DEF NoneBeyond, IsChunk
    <3>. QED BY <2>1, <3>1
  <2>3. CASE d = n /\ k # n.hi
    <3>1. k \in o.lo .. o.hi
      BY <1>2, <1>6, <2>3
    <3>2. o.at[k].term = currentTerm[j]
      BY <1>6, <2>3, <3>1
    <3>3. k <= Len(log[j])
      BY <1>5, <2>0, <3>1, <3>2 DEF NoneBeyond
    <3>. QED BY <1>2, <2>1, <3>1, <3>3
  <2>4. CASE d = n /\ k = n.hi
    <3>1. t = currentTerm[j]
      BY <1>6, <2>4
    <3>2. j = i
      <4> DEFINE q == <<t, i>>
                 r == <<t, j>>
      <4>1. q \in reigns /\ r \in reigns /\ q[1] = r[1]
        BY <2>0, <3>1 DEF Reigning, t
      <4>2. q = r
        BY ONLY <4>1, OneLeaderPerTerm DEF OneLeaderPerTerm
      <4>. QED BY <4>2
    <3>. QED BY <1>2, <2>1, <2>4, <3>2
  <2>. QED BY <2>2, <2>3, <2>4
<1>13. ASSUME NEW j \in Server PROVE ChunkOfLog(log'[j]) \in D /\ log'[j][1] = EmptyLog[1]
  <2>1. CASE j = i
    <3>1. log'[j] = l
      BY <1>1, <2>1
    <3>2. log[i][1] = EmptyLog[1] /\ l[1] = log[i][1]
      BY <1>2, <1>3 DEF LogInv
    <3>. QED BY <3>1, <3>2, Zenon DEF n
  <2>2. CASE j # i
    <3>1. log'[j] = log[j]
      BY <1>1, <2>2
    <3>. QED BY <3>1, LogChunkIn, Zenon DEF LogInv
  <2>. QED BY <2>1, <2>2
<1>14. CarriesPartsOf(D)
  <2>1. ChunkOfLog(s.log) \in D
    BY <1>1 DEF n
  <2>2. \A m \in BroadcastAppend(i, s) :
          m.type # "InstallSnapshot" /\ (Carries(m) => \E d \in D : Part(ChunkOfMsg(m), d))
    BY <1>1, <2>1, BroadcastParts, Zenon
  <2>. QED BY <1>4, <2>2, OldRequests, Zenon
<1> HIDE DEF D
<1>. QED BY <1>10, <1>11, <1>12, <1>13, <1>14, LogInvFrom

\* A request with entries continues at an entry the log holds: entry 0 is in
\* every log, and no other entry of the request's chunk has term 0.
LEMMA AcceptedReaches ==
  ASSUME Typed, LogInv, Reigning, Reigns, NEW m \in msgs, Carries(m), LogMatches(m.to, m)
  PROVE  m.prevLogIndex + 1 <= Len(log[m.to])
<1> DEFINE i == m.to
           k == m.prevLogIndex + 1
           c == ChunkOfMsg(m)
<1>1. i \in Server /\ log[i] \in Logs /\ MsgTyped(m) /\ m.type = "AppendEntries"
  BY DEF Typed, MsgTyped, Carries
<1>2. Len(log[i]) \in 1 .. MaxLog + 1 /\ MaxLog \in Nat /\ log[i] \in Seq(Entry)
  BY <1>1, LogTyped
<1>3. c.lo = k /\ m.prevLogIndex \in Nat /\ c.hi = k + Len(m.entries) /\ Len(m.entries) \in Nat
      /\ c.at[k].term = m.prevLogTerm
  BY <1>1, RequestChunk
<1>4. CASE m.prevLogIndex = 0
  BY <1>2, <1>4
<1>5. CASE m.prevLogIndex # 0
  <2>1. c \in Chunks
    BY DEF Chunks
  <2> HIDE DEF c
  <2>2. k \in c.lo .. c.hi /\ k > 1
    BY <1>3, <1>5
  <2>3. PICK r \in reigns : r[1] = m.prevLogTerm
    BY <1>3, <2>1, <2>2 DEF LogInv, Proposed
  <2>4. 0 < r[1]
    BY DEF Reigning
  <2>5. TermAt(log[i], m.prevLogIndex) # 0
    BY <2>3, <2>4 DEF LogMatches
  <2>6. k \in DOMAIN log[i]
    BY <2>5 DEF TermAt
  <2>. QED BY <1>2, <2>6
<1>. QED BY <1>4, <1>5

\* Entries accepted by a node that does not lead, or leads no longer.
LEMMA AcceptLogs ==
  ASSUME NoCompaction, Typed, Typed', LogInv, Reigning, Reigns, Succession, NEW m \in msgs,
         AcceptAppend(m.to, m)
  PROVE  LogInv'
<1> DEFINE i == m.to
           l == AppendedLog(i, m)
           a == AppendEntriesResp(i, m.from, m.term, TRUE, LastIndex(l))
<1>0. /\ i \in Server /\ log[i] \in Logs /\ log \in [Server -> Logs] /\ MsgTyped(m)
      /\ m.term \in Nat /\ currentTerm[i] \in Nat /\ role \in [Server -> Role]
  BY DEF Typed, MsgTyped, Soft, Reigns
<1>1. /\ m.type = "AppendEntries" /\ m.term >= currentTerm[i] /\ LogMatches(i, m)
      /\ log' = [log EXCEPT ![i] = l] /\ Exchange({m}, {a}) /\ reigns' = reigns
      /\ IF Follows(i, m) THEN StepDown(i) ELSE UNCHANGED softVars
  BY DEF AcceptAppend, Reply, history
<1>2. a.type = "AppendEntriesResp"
  BY DEF AppendEntriesResp
<1> HIDE DEF a
<1>3. CASE m.entries = <<>>
  <2>1. log' = log
    BY <1>0, <1>1, <1>3 DEF AppendedLog
  <2>2. CarriesPartsOf(Chunks)
    BY <1>1, <1>2, AnswerRequests
  <2>. QED BY <2>1, <2>2, SameLogs
<1>4. CASE m.entries # <<>>
  <2> DEFINE o == ChunkOfLog(log[i])
             q == ChunkOfMsg(m)
             n == ChunkOfLog(l)
             D == Chunks \cup {n}
  <2>1. Carries(m) /\ m.prevLogIndex + 1 <= Len(log[i])
    BY <1>1, <1>4, AcceptedReaches DEF Carries
  <2>2. l \in Logs /\ l = TruncateFrom(log[i], m.prevLogIndex) \o m.entries
    BY <1>0, <1>1, <1>4, AppendedTyped, Zenon DEF AppendedLog
  <2>3. IsChunk(n) /\ n.lo = 1 /\ n.hi = Len(l) /\ \A k \in 1 .. Len(l) : n.at[k] = l[k]
    BY <2>2, LogChunk, Zenon
  <2>4. IsChunk(o) /\ o.lo = 1 /\ o.hi = Len(log[i]) /\ \A k \in 1 .. Len(log[i]) : o.at[k] = log[i][k]
    BY <1>0, LogChunk
  <2>5. IsChunk(q) /\ q.lo = m.prevLogIndex + 1 /\ m.prevLogIndex \in Nat
    BY <1>0, <1>1, RequestChunk
  <2>6. Spliced(n, o, q)
    <3>1. log[i] \in Seq(Entry) /\ m.entries \in Seq(Entry) /\ m.prevLogIndex \in Nat
      BY <1>0, <1>1, LogTyped, <2>5 DEF MsgTyped
    <3>2. TermAt(log[i], m.prevLogIndex) = m.prevLogTerm
      BY <1>1 DEF LogMatches
    <3>. QED BY <2>1, <2>2, <3>1, <3>2, AcceptedIsSplice, Zenon
  <2>7. o \in Chunks /\ q \in Chunks
    BY <1>0, <2>1, LogChunkIn DEF Chunks
  <2> HIDE DEF o, q, n
  <2>8. \A d \in Chunks : IsChunk(d)
    BY AllChunks
  <2>9. \A d \in Chunks : Agree(n, d)
    <3> SUFFICES ASSUME NEW d \in Chunks PROVE Agree(n, d)
      OBVIOUS
    <3>1. Agree(o, d) /\ Agree(q, d)
      BY <2>7 DEF LogInv, AllAgree
    <3>. QED BY <2>3, <2>4, <2>5, <2>6, <2>8, <3>1, SpliceAgrees
  <2>10. AllAgree(D) /\ \A d \in D : IsChunk(d)
    <3>1. AllAgree(Chunks)
      BY DEF LogInv
    <3>. QED BY <2>3, <2>8, <2>9, <3>1, OneMoreAgrees
  <2>11. ASSUME NEW d \in D, NEW k \in d.lo .. d.hi
         PROVE  \E c \in Chunks : k \in c.lo .. c.hi /\ c.at[k].term = d.at[k].term
    <3>1. CASE d \in Chunks
      BY <3>1
    <3>2. CASE d = n
      BY <2>4, <2>5, <2>6, <2>7, <3>2, SpliceInherits
    <3>. QED BY <3>1, <3>2
  <2>12. Proposed(D, reigns')
    <3>1. Proposed(Chunks, reigns')
      BY <1>1 DEF LogInv
    <3>. QED BY <2>11, <3>1 DEF Proposed
  <2>13. role'[i] # "Leader"
    <3>1. CASE Follows(i, m)
      BY <1>0, <1>1, <3>1 DEF StepDown
    <3>2. CASE ~ Follows(i, m)
      <4>1. ~ (m.term > currentTerm[i]) /\ ~ (m.term = currentTerm[i] /\ role[i] = "Leader")
        BY <3>2 DEF Follows
      <4>2. m.term \in Nat /\ currentTerm[i] \in Nat /\ m.term >= currentTerm[i]
        BY <1>0, <1>1
      <4>3. role[i] # "Leader"
        BY ONLY <4>1, <4>2
      <4>. QED BY <1>1, <3>2, <4>3 DEF softVars
    <3>. QED BY <3>1, <3>2
  <2>14. ASSUME NEW j \in Server, role'[j] = "Leader" PROVE NoneBeyond(D, currentTerm'[j], Len(log'[j]))
    <3>1. log'[j] = log[j]
      BY <1>0, <1>1, <2>13, <2>14
    <3>2. NoneBeyond(Chunks, currentTerm'[j], Len(log[j]))
      <4>1. role[j] = "Leader" /\ currentTerm'[j] = currentTerm[j]
        <5>1. j # i
          BY <2>13, <2>14
        <5>2. role'[j] = role[j]
          BY <1>0, <1>1, <5>1 DEF StepDown, softVars
        <5>3. currentTerm'[j] = currentTerm[j]
          BY <1>0, <5>1 DEF AcceptAppend, AdoptTerm, Reigns
        <5>. QED BY <2>14, <5>2, <5>3
      <4>. QED BY <4>1 DEF LogInv
    <3>. QED BY <2>11, <3>1, <3>2 DEF NoneBeyond
  <2>15. ASSUME NEW j \in Server PROVE ChunkOfLog(log'[j]) \in D /\ log'[j][1] = EmptyLog[1]
    <3>1. CASE j = i
      <4>1. log'[j] = l
        BY <1>0, <1>1, <3>1
      <4>2. l[1] = log[i][1]
        <5>1. Len(l) >= 1 /\ Len(log[i]) >= 1 /\ Len(l) \in Nat /\ Len(log[i]) \in Nat
          <6>1. Len(l) \in 1 .. MaxLog + 1 /\ Len(log[i]) \in 1 .. MaxLog + 1 /\ MaxLog \in Nat
            BY <1>0, <2>2, LogTyped, Zenon
          <6>. QED BY ONLY <6>1
        <5>2. 1 \in 1 .. Len(l) /\ 1 \in 1 .. Len(log[i])
          BY <5>1
        <5>3. n.at[1] = o.at[1]
          BY <2>4, <2>5, <2>6 DEF Spliced
        <5>. QED BY <2>3, <2>4, <5>2, <5>3
      <4>. QED BY <1>0, <4>1, <4>2 DEF LogInv, n
    <3>2. CASE j # i
      <4>1. log'[j] = log[j]
        BY <1>0, <1>1, <3>2
      <4>. QED BY <4>1, LogChunkIn DEF LogInv
    <3>. QED BY <3>1, <3>2
  <2>16. CarriesPartsOf(D)
    BY <1>1, <1>2, OldRequests DEF Carries
  <2> HIDE DEF D
  <2>. QED BY <2>10, <2>12, <2>14, <2>15, <2>16, LogInvFrom
<1>. QED BY <1>3, <1>4

-----------------------------------------------------------------------------
(* The theorem *)

LEMMA LogInvInit ==
  ASSUME Init
  PROVE  Reigning /\ LogInv
<1>2. Reigning
  BY DEF Init, Reigning
<1>3. /\ msgs = {} /\ \A i \in Server : log[i] = EmptyLog /\ role[i] = "Follower"
  BY DEF Init
<1>4. ASSUME NEW c \in Chunks PROVE c = ChunkOfLog(EmptyLog)
  BY <1>3 DEF Chunks
<1>5. ChunkOfLog(EmptyLog).lo = 1 /\ ChunkOfLog(EmptyLog).hi = 1
  BY DEF EmptyLog, ChunkOfLog
<1>6. AllAgree(Chunks)
  BY <1>4, AgreeIsReflexive DEF AllAgree
<1>7. Proposed(Chunks, reigns)
  BY <1>4, <1>5 DEF Proposed
<1>. QED BY <1>2, <1>3, <1>6, <1>7 DEF LogInv

LEMMA LogInvNext ==
  ASSUME FixedMembership, NoCompaction, Typed, Typed', Reigns, OneLeaderPerTerm, Reigning, LogInv, Succession, [Next]_vars
  PROVE  LogInv'
<1>1. CASE UNCHANGED vars
  <2>1. UNCHANGED <<log, msgs>>
    BY <1>1 DEF vars
  <2>2. CarriesPartsOf(Chunks)
    BY <2>1, AllChunks, WholeIsPart DEF CarriesPartsOf, LogInv, Chunks
  <2>. QED BY <2>1, <2>2, SameLogs
<1>2. ASSUME NEW i \in Server, ElectionTimeout(i) PROVE LogInv'
  BY <1>2, ElectionTimeoutLogs
<1>3. ASSUME NEW i \in Server, HeartbeatTimeout(i) \/ \E j \in Server : HandleReadIndex(i, j) PROVE LogInv'
  BY <1>3, SendingLogs
<1>4. ASSUME NEW i \in Server, NEW c \in Command \cup ConfChange, Propose(i, c) PROVE LogInv'
  <2> DEFINE l == Append(log[i], [term |-> currentTerm[i], cmd |-> c])
  <2>1. /\ role[i] = "Leader" /\ LastIndex(log[i]) < MaxLog /\ log' = [log EXCEPT ![i] = l]
        /\ Send(BroadcastAppend(i, [Sender(i) EXCEPT !.log = l])) /\ UNCHANGED <<role, currentTerm, reigns>>
    BY <1>4 DEF Propose, hardVars, softVars, history
  <2>. QED BY <2>1, ProposeLogs, Zenon
<1>5. ASSUME NEW i \in Readers, ReadIndex(i) PROVE LogInv'
  <2> DEFINE l == Append(log[i], [term |-> currentTerm[i], cmd |-> Noop])
  <2>1. /\ role[i] = "Leader" /\ LastIndex(log[i]) < MaxLog /\ log' = [log EXCEPT ![i] = l]
        /\ Send(BroadcastAppend(i, [Sender(i) EXCEPT !.log = l])) /\ UNCHANGED <<role, currentTerm, reigns>>
    BY <1>5 DEF ReadIndex, hardVars, history
  <2>2. i \in Server
    BY BoundAssumption
  <2>. QED BY <2>1, <2>2, ProposeLogs, Zenon
<1>6. ASSUME NEW i \in Server, Restart(i) PROVE LogInv'
  BY <1>6, RestartLogs
<1>7. ASSUME NEW m \in msgs, Receive(m) PROVE LogInv'
  <2>1. CASE CountVote(m.to, m)
    BY <2>1, CountVoteLogs
  <2>2. CASE HandleAppendResp(m.to, m)
    BY <2>2, AppendRespLogs
  <2>3. CASE AcceptAppend(m.to, m)
    BY <2>3, AcceptLogs
  <2>4. CASE \/ HandleRequestVote(m.to, m) \/ VoteFromHigherTerm(m.to, m) \/ IgnoreResponse(m.to, m)
             \/ RejectStaleAppend(m.to, m) \/ RejectMismatchedAppend(m.to, m)
             \/ AppendRespFromHigherTerm(m.to, m) \/ EchoOther(m.to, m) \/ CrashInSyncOfAppend(m.to, m)
    BY <2>4, AnsweringLogs
  <2>. QED BY <1>7, <2>1, <2>2, <2>3, <2>4, NoSnapshotSteps DEF Receive
<1>8. Readers \subseteq Server
  BY BoundAssumption
<1>. QED BY <1>1, <1>2, <1>3, <1>4, <1>5, <1>6, <1>7, <1>8 DEF Next

LEMMA LogInvImplies ==
  ASSUME Typed, LogInv
  PROVE  LogMatching
<1> SUFFICES ASSUME NEW i \in Server, NEW j \in Server, NEW k \in DOMAIN log[i] \cap DOMAIN log[j],
                    log[i][k].term = log[j][k].term
             PROVE  SubSeq(log[i], 1, k) = SubSeq(log[j], 1, k)
  BY Zenon DEF LogMatching
<1> DEFINE c == ChunkOfLog(log[i])
           d == ChunkOfLog(log[j])
<1>1. /\ log[i] \in Logs /\ log[j] \in Logs /\ log[i] \in Seq(Entry) /\ log[j] \in Seq(Entry)
      /\ k \in 1 .. Len(log[i]) /\ k \in 1 .. Len(log[j])
  BY LogTyped DEF Typed
<1>2. c.lo = 1 /\ c.hi = Len(log[i]) /\ \A x \in 1 .. Len(log[i]) : c.at[x] = log[i][x]
  BY <1>1, LogChunk
<1>3. d.lo = 1 /\ d.hi = Len(log[j]) /\ \A x \in 1 .. Len(log[j]) : d.at[x] = log[j][x]
  BY <1>1, LogChunk
<1>4. Agree(c, d)
  BY LogChunkIn DEF LogInv, AllAgree
<1> HIDE DEF c, d
<1>5. ASSUME NEW x \in 1 .. k PROVE log[i][x] = log[j][x]
  <2>1. x \in 1 .. Len(log[i]) /\ x \in 1 .. Len(log[j])
    BY <1>1
  <2>2. CASE x = 1
    BY <2>2 DEF LogInv
  <2>3. CASE x # 1
    <3>1. k \in c.lo .. c.hi /\ k \in d.lo .. d.hi /\ x \in c.lo .. k /\ x >= d.lo /\ x > c.lo /\ x > d.lo
      BY <1>1, <1>2, <1>3, <2>3
    <3>2. c.at[k].term = d.at[k].term
      BY <1>1, <1>2, <1>3
    <3>3. c.at[x] = d.at[x]
      BY <1>4, <3>1, <3>2 DEF Agree
    <3>. QED BY <1>2, <1>3, <2>1, <3>3
  <2>. QED BY <2>2, <2>3
<1>. QED BY <1>1, <1>5
=============================================================================
