----------------------------- MODULE RaftProofs -----------------------------
(***************************************************************************)
(* Election safety of the Raft core for any number of nodes, terms, log    *)
(* entries and messages in flight, when the membership does not change.    *)
(*                                                                         *)
(* The argument: a node casts at most one ballot per term, because its     *)
(* term never goes back and its vote of the current term is kept until the *)
(* term grows; a candidate's votes are ballots for it in its term; a reign *)
(* rests on the ballots of a majority; two majorities share a voter.       *)
(***************************************************************************)
EXTENDS Raft, FiniteSetTheorems, TLAPS

StaticMembership == ConfChange = {} /\ InitConfig = [i \in Server |-> Server]

MsgOK(m) == m.from \in Server /\ m.to \in Server /\ m.term \in Nat

\* Types of the part of the state that elections depend on.
ElectionTypes ==
  /\ currentTerm \in [Server -> Nat]
  /\ votedFor \in [Server -> Server \cup {Nil}]
  /\ role \in [Server -> Role]
  /\ votes \in [Server -> SUBSET Server]
  /\ voters = [i \in Server |-> Server]
  /\ ballots \subseteq Server \X Nat \X Server
  /\ reigns \subseteq Nat \X Server
  /\ \A m \in msgs : MsgOK(m)

\* A ballot is of the voter's term or of an earlier one, and the vote of the
\* current term is the recorded one.
BallotsKept ==
  \A b \in ballots :
    /\ b[2] <= currentTerm[b[1]]
    /\ b[2] = currentTerm[b[1]] => votedFor[b[1]] = b[3]

OneBallotPerTerm ==
  \A b1, b2 \in ballots : b1[1] = b2[1] /\ b1[2] = b2[2] => b1[3] = b2[3]

IsGrant(m) == m.type = "RequestVoteResp" /\ m.granted

GrantsAreBallots ==
  \A m \in msgs : IsGrant(m) => <<m.from, m.term, m.to>> \in ballots

VotesAreBallots ==
  \A i \in Server : role[i] = "Candidate" =>
    \A j \in votes[i] : <<j, currentTerm[i], i>> \in ballots

IsMajority(Q) == Q \subseteq Server /\ 2 * Cardinality(Q) > Cardinality(Server)

\* The ballots B hold a majority for node i in term t.
Elected(B, t, i) ==
  \E Q \in SUBSET Server : IsMajority(Q) /\ \A j \in Q : <<j, t, i>> \in B

ReignsAreElected == \A r \in reigns : Elected(ballots, r[1], r[2])

ElectionInv ==
  /\ ElectionTypes
  /\ BallotsKept
  /\ OneBallotPerTerm
  /\ GrantsAreBallots
  /\ VotesAreBallots
  /\ ReignsAreElected

-----------------------------------------------------------------------------
(* Facts about the operators of the model *)

\* The larger of two term numbers, as become_follower computes it.
LEMMA MaxOfTwo ==
  ASSUME NEW a \in Nat, NEW b \in Nat
  PROVE  /\ Max({a, b}) \in Nat
         /\ a <= Max({a, b}) /\ b <= Max({a, b})
         /\ Max({a, b}) = a \/ Max({a, b}) = b
<1>1. \E x \in {a, b} : \A y \in {a, b} : x >= y
  BY SMT
<1>2. Max({a, b}) \in {a, b} /\ \A y \in {a, b} : Max({a, b}) >= y
  BY <1>1, Zenon DEF Max
<1> QED BY <1>2, SMT

\* A set of votes that reaches the quorum of config.rs is a majority.
LEMMA QuorumIsMajority ==
  ASSUME NEW Q \in SUBSET Server, Cardinality(Q) >= Cardinality(Server) \div 2 + 1
  PROVE  IsMajority(Q)
<1>1. Cardinality(Server) \in Nat /\ Cardinality(Q) \in Nat
  BY ServerAssumption, FS_CardinalityType, FS_Subset
<1> QED BY <1>1, SMT DEF IsMajority

LEMMA MajoritiesMeet ==
  ASSUME NEW P, NEW Q, IsMajority(P), IsMajority(Q)
  PROVE  \E j \in Server : j \in P /\ j \in Q
<1>1. /\ IsFiniteSet(P) /\ IsFiniteSet(Q)
      /\ P \subseteq Server /\ Q \subseteq Server
  BY ServerAssumption, FS_Subset DEF IsMajority
<1>2. /\ Cardinality(P) \in Nat /\ Cardinality(Q) \in Nat
      /\ Cardinality(Server) \in Nat
  BY <1>1, ServerAssumption, FS_CardinalityType
<1>3. Cardinality(P) + Cardinality(Q) > Cardinality(Server)
  BY <1>2, SMT DEF IsMajority
<1>4. P \cap Q # {}
  BY <1>1, <1>3, ServerAssumption, FS_MajoritiesIntersect
<1> QED BY <1>1, <1>4

\* What is sent is either on the network afterwards or lost.
LEMMA ExchangeAdds ==
  ASSUME NEW R, NEW S, Exchange(R, S)
  PROVE  \A m \in msgs' : m \in msgs \/ m \in S
BY DEF Exchange

\* The messages of append_to_peer carry the sender's term and no vote.
LEMMA AppendIsNoVote ==
  ASSUME NEW i \in Server, NEW p \in Server, NEW n, n.term \in Nat
  PROVE  MsgOK(AppendToPeer(i, p, n)) /\ ~IsGrant(AppendToPeer(i, p, n))
BY DEF AppendToPeer, MsgOK, IsGrant

\* Without membership entries, applying leaves the voters alone.
LEMMA VotersStay ==
  ASSUME StaticMembership, NEW i, NEW es
  PROVE  ConfAfter(i, es).voters = voters[i]
BY DEF StaticMembership, ConfAfter

LEMMA VotersKept ==
  ASSUME StaticMembership, ElectionTypes, NEW i \in Server, NEW es,
         voters' = [voters EXCEPT ![i] = ConfAfter(i, es).voters]
  PROVE  voters' = voters
<1>1. voters = [j \in Server |-> Server]
  BY DEF ElectionTypes
<1>2. voters' = [voters EXCEPT ![i] = voters[i]]
  BY ONLY StaticMembership, VotersStay, voters' = [voters EXCEPT ![i] = ConfAfter(i, es).voters], Zenon
<1> QED BY ONLY <1>1, <1>2

-----------------------------------------------------------------------------
(* Steps that cast no ballot and elect no one *)

\* Terms only grow, votes of an unchanged term stay, no node becomes candidate
\* and no vote is granted.
Quiet ==
  /\ currentTerm' \in [Server -> Nat]
  /\ votedFor' \in [Server -> Server \cup {Nil}]
  /\ role' \in [Server -> Role]
  /\ votes' \in [Server -> SUBSET Server]
  /\ voters' = voters
  /\ UNCHANGED <<ballots, reigns>>
  /\ \A j \in Server :
       /\ currentTerm[j] <= currentTerm'[j]
       /\ currentTerm[j] = currentTerm'[j] => votedFor'[j] = votedFor[j]
       /\ role'[j] = "Candidate" => /\ role[j] = "Candidate"
                                    /\ votes'[j] = votes[j]
                                    /\ currentTerm'[j] = currentTerm[j]
  /\ \A m \in msgs' : m \in msgs \/ (MsgOK(m) /\ ~IsGrant(m))

LEMMA QuietKeepsInv ==
  ASSUME ElectionInv, Quiet
  PROVE  ElectionInv'
<1>1. ElectionTypes'
  BY DEF ElectionInv, ElectionTypes, Quiet
<1>2. BallotsKept'
  <2> SUFFICES ASSUME NEW b \in ballots
               PROVE  /\ b[2] <= currentTerm'[b[1]]
                      /\ b[2] = currentTerm'[b[1]] => votedFor'[b[1]] = b[3]
    BY DEF BallotsKept, Quiet
  <2>1. b[1] \in Server /\ b[2] \in Nat
    BY DEF ElectionInv, ElectionTypes
  <2>2. /\ currentTerm[b[1]] \in Nat /\ currentTerm'[b[1]] \in Nat
        /\ currentTerm[b[1]] <= currentTerm'[b[1]]
        /\ currentTerm[b[1]] = currentTerm'[b[1]] => votedFor'[b[1]] = votedFor[b[1]]
    BY <2>1 DEF Quiet, ElectionInv, ElectionTypes
  <2>3. /\ b[2] <= currentTerm[b[1]]
        /\ b[2] = currentTerm[b[1]] => votedFor[b[1]] = b[3]
    BY DEF ElectionInv, BallotsKept
  <2> QED BY <2>1, <2>2, <2>3
<1>3. OneBallotPerTerm'
  BY DEF ElectionInv, OneBallotPerTerm, Quiet
<1>4. GrantsAreBallots'
  BY DEF ElectionInv, GrantsAreBallots, Quiet
<1>5. VotesAreBallots'
  BY DEF ElectionInv, VotesAreBallots, Quiet
<1>6. ReignsAreElected'
  BY DEF ElectionInv, ReignsAreElected, Elected, Quiet
<1> QED BY <1>1, <1>2, <1>3, <1>4, <1>5, <1>6 DEF ElectionInv

\* Adopting a term that is not older never loses the vote of the current term.
LEMMA AdoptTermIsQuiet ==
  ASSUME ElectionTypes, NEW i \in Server, NEW t \in Nat, AdoptTerm(i, t)
  PROVE  /\ currentTerm' \in [Server -> Nat]
         /\ votedFor' \in [Server -> Server \cup {Nil}]
         /\ \A j \in Server :
              /\ currentTerm[j] <= currentTerm'[j]
              /\ currentTerm[j] = currentTerm'[j] => votedFor'[j] = votedFor[j]
         /\ t <= currentTerm[i] => currentTerm' = currentTerm
<1> DEFINE n == Max({currentTerm[i], t})
<1>1. /\ n \in Nat /\ currentTerm[i] <= n /\ t <= n
      /\ n = currentTerm[i] \/ n = t
  BY MaxOfTwo DEF ElectionTypes
<1>2. currentTerm' = [currentTerm EXCEPT ![i] = n]
  BY DEF AdoptTerm
<1>3. votedFor' = [votedFor EXCEPT ![i] = IF t > currentTerm[i] THEN Nil ELSE votedFor[i]]
  BY DEF AdoptTerm
<1> HIDE DEF n
<1>4. currentTerm[i] \in Nat
  BY DEF ElectionTypes
<1>5. t <= currentTerm[i] => n = currentTerm[i]
  BY <1>1, <1>4
<1> QED BY <1>1, <1>2, <1>3, <1>4, <1>5 DEF ElectionTypes

LEMMA StepDownIsQuiet ==
  ASSUME ElectionTypes, NEW i \in Server, StepDown(i)
  PROVE  /\ role' \in [Server -> Role]
         /\ votes' \in [Server -> SUBSET Server]
         /\ role'[i] # "Candidate"
         /\ \A j \in Server \ {i} : role'[j] = role[j] /\ votes'[j] = votes[j]
BY DEF ElectionTypes, StepDown, Role

\* A broadcast of append_to_peer grants nothing.
LEMMA BroadcastIsNoVote ==
  ASSUME ElectionTypes, NEW i \in Server, NEW n, n.term \in Nat
  PROVE  \A m \in BroadcastAppend(i, n) : MsgOK(m) /\ ~IsGrant(m)
<1> SUFFICES ASSUME NEW p \in voters[i] \ {i}
             PROVE  MsgOK(AppendToPeer(i, p, n)) /\ ~IsGrant(AppendToPeer(i, p, n))
  BY DEF BroadcastAppend
<1>1. p \in Server
  BY DEF ElectionTypes
<1> QED BY <1>1, AppendIsNoVote

\* Steps of a node that change no term, vote or role: sending, rejecting a
\* stale request, counting acknowledgements.
LEMMA NodeStepIsQuiet ==
  ASSUME ElectionTypes,
         UNCHANGED <<currentTerm, votedFor, role, votes, voters, ballots, reigns>>,
         \A m \in msgs' : m \in msgs \/ (MsgOK(m) /\ ~IsGrant(m))
  PROVE  Quiet
BY DEF ElectionTypes, Quiet

\* Steps of a node that adopt a term and step down.
LEMMA FollowIsQuiet ==
  ASSUME ElectionTypes, NEW i \in Server, NEW t \in Nat,
         AdoptTerm(i, t),
         StepDown(i) \/ (t <= currentTerm[i] /\ UNCHANGED softVars),
         voters' = voters, UNCHANGED <<ballots, reigns>>,
         \A m \in msgs' : m \in msgs \/ (MsgOK(m) /\ ~IsGrant(m))
  PROVE  Quiet
<1>1. CASE StepDown(i)
  <2>1. \A j \in Server \ {i} : currentTerm'[j] = currentTerm[j]
    BY DEF AdoptTerm, ElectionTypes
  <2> QED BY <1>1, <2>1, AdoptTermIsQuiet, StepDownIsQuiet DEF Quiet
<1>2. CASE t <= currentTerm[i] /\ UNCHANGED softVars
  BY <1>2, AdoptTermIsQuiet DEF Quiet, softVars, ElectionTypes
<1> QED BY <1>1, <1>2

LEMMA SendingIsQuiet ==
  ASSUME ElectionTypes, NEW i \in Server,
         HeartbeatTimeout(i) \/ ReadIndex(i)
           \/ (\E c \in Command \cup ConfChange : Propose(i, c))
           \/ (\E j \in Server : HandleReadIndex(i, j))
  PROVE  Quiet
<1>0. currentTerm[i] \in Nat
  BY DEF ElectionTypes
<1>1. CASE HeartbeatTimeout(i)
  <2>1. \A m \in BroadcastAppend(i, Sender(i)) : MsgOK(m) /\ ~IsGrant(m)
    BY <1>0, BroadcastIsNoVote DEF Sender
  <2> QED BY <1>1, <2>1, ExchangeAdds, NodeStepIsQuiet
          DEF HeartbeatTimeout, Send, hardVars, softVars, history
<1>2. CASE ReadIndex(i)
  <2> DEFINE n == [Sender(i) EXCEPT
                     !.log = Append(log[i], [term |-> currentTerm[i], cmd |-> Noop])]
  <2>1. \A m \in BroadcastAppend(i, n) : MsgOK(m) /\ ~IsGrant(m)
    BY <1>0, BroadcastIsNoVote DEF Sender
  <2> QED BY ZenonT(60), <1>2, <2>1, ExchangeAdds, NodeStepIsQuiet
          DEF ReadIndex, Send, hardVars, softVars, history
<1>3. ASSUME NEW c \in Command \cup ConfChange, Propose(i, c)
      PROVE  Quiet
  <2> DEFINE n == [Sender(i) EXCEPT
                     !.log = Append(log[i], [term |-> currentTerm[i], cmd |-> c])]
  <2>1. \A m \in BroadcastAppend(i, n) : MsgOK(m) /\ ~IsGrant(m)
    BY <1>0, BroadcastIsNoVote DEF Sender
  <2> QED BY <1>3, <2>1, ExchangeAdds, NodeStepIsQuiet, Zenon DEF Propose, Send, hardVars, softVars, history
<1>4. ASSUME NEW j \in Server, HandleReadIndex(i, j)
      PROVE  Quiet
  <2>1. \A m \in BroadcastAppend(i, Sender(i)) : MsgOK(m) /\ ~IsGrant(m)
    BY <1>0, BroadcastIsNoVote DEF Sender
  <2> DEFINE a == ReadIndexResp(i, j, currentTerm[i], LastIndex(log[i]))
  <2>2. MsgOK(a) /\ ~IsGrant(a)
    BY <1>0 DEF MsgOK, IsGrant, ReadIndexResp
  <2>3. Exchange({}, BroadcastAppend(i, Sender(i)) \cup {a})
    BY <1>4 DEF HandleReadIndex, Send
  <2>4. UNCHANGED <<currentTerm, votedFor, role, votes, voters, ballots, reigns>>
    BY <1>4 DEF HandleReadIndex, hardVars, history
  <2> HIDE DEF a
  <2>5. \A m \in msgs' : m \in msgs \/ (MsgOK(m) /\ ~IsGrant(m))
    BY <2>1, <2>2, <2>3, ExchangeAdds
  <2> QED BY <2>4, <2>5, NodeStepIsQuiet
<1> QED BY <1>1, <1>2, <1>3, <1>4

-----------------------------------------------------------------------------
(* Receiving a message *)

\* Answers other than a granted vote are quiet.
LEMMA AppendAnswerIsNoVote ==
  ASSUME NEW m, MsgOK(m), NEW t \in Nat, NEW ok \in BOOLEAN, NEW k
  PROVE  /\ MsgOK(AppendEntriesResp(m.to, m.from, t, ok, k))
         /\ ~IsGrant(AppendEntriesResp(m.to, m.from, t, ok, k))
BY DEF MsgOK, IsGrant, AppendEntriesResp

LEMMA OtherAnswerIsNoVote ==
  ASSUME NEW m, MsgOK(m), NEW t \in Nat, NEW k
  PROVE  /\ MsgOK(InstallSnapshotResp(m.to, m.from, t))
         /\ ~IsGrant(InstallSnapshotResp(m.to, m.from, t))
         /\ MsgOK(ReadIndexResp(m.to, m.from, t, k))
         /\ ~IsGrant(ReadIndexResp(m.to, m.from, t, k))
BY DEF MsgOK, IsGrant, InstallSnapshotResp, ReadIndexResp

\* Requests and answers that change no term, vote or role.
LEMMA PassiveReceiveIsQuiet ==
  ASSUME StaticMembership, ElectionTypes, NEW m \in msgs,
         \/ IgnoreResponse(m.to, m) \/ RejectStaleAppend(m.to, m)
         \/ RejectStaleSnapshot(m.to, m) \/ EchoOther(m.to, m)
         \/ HandleAppendResp(m.to, m)
  PROVE  Quiet
<1>0. /\ MsgOK(m) /\ m.to \in Server /\ m.from \in Server /\ m.term \in Nat
      /\ currentTerm[m.to] \in Nat
  BY SMTT(60) DEF ElectionTypes, MsgOK
<1>1. CASE IgnoreResponse(m.to, m)
  <2>1. UNCHANGED <<currentTerm, votedFor, role, votes, voters, ballots, reigns>>
    BY <1>1 DEF IgnoreResponse, hardVars, softVars, history
  <2>2. Exchange({m}, {})
    BY <1>1 DEF IgnoreResponse, Reply
  <2>3. \A x \in msgs' : x \in msgs \/ (MsgOK(x) /\ ~IsGrant(x))
    BY ONLY <2>2, ExchangeAdds
  <2> QED BY <2>1, <2>3, NodeStepIsQuiet
<1>2. CASE RejectStaleAppend(m.to, m)
  <2>1. UNCHANGED <<currentTerm, votedFor, role, votes, voters, ballots, reigns>>
    BY <1>2 DEF RejectStaleAppend, hardVars, softVars, history
  <2>2. \A x \in msgs' : x \in msgs \/ (MsgOK(x) /\ ~IsGrant(x))
    <3> DEFINE a == AppendEntriesResp(m.to, m.from, currentTerm[m.to], FALSE,
                                      LastIndex(log[m.to]))
    <3>1. MsgOK(a) /\ ~IsGrant(a)
      BY ZenonT(60), <1>0, AppendAnswerIsNoVote
    <3>2. Exchange({m}, {a})
      BY <1>2 DEF RejectStaleAppend, Reply
    <3> HIDE DEF a
    <3> QED BY <3>1, <3>2, ExchangeAdds
  <2> QED BY SMTT(60), <2>1, <2>2, NodeStepIsQuiet
<1>3. CASE RejectStaleSnapshot(m.to, m)
  <2>1. UNCHANGED <<currentTerm, votedFor, role, votes, voters, ballots, reigns>>
    BY <1>3 DEF RejectStaleSnapshot, hardVars, softVars, history
  <2>2. \A x \in msgs' : x \in msgs \/ (MsgOK(x) /\ ~IsGrant(x))
    <3> DEFINE a == InstallSnapshotResp(m.to, m.from, currentTerm[m.to])
    <3>1. MsgOK(a) /\ ~IsGrant(a)
      BY ONLY <1>0, OtherAnswerIsNoVote
    <3>2. Exchange({m}, {a})
      BY <1>3 DEF RejectStaleSnapshot, Reply
    <3> HIDE DEF a
    <3> QED BY ONLY <3>1, <3>2, ExchangeAdds
  <2> QED BY <2>1, <2>2, NodeStepIsQuiet
<1>4. CASE EchoOther(m.to, m)
  <2>1. UNCHANGED <<currentTerm, votedFor, role, votes, voters, ballots, reigns>>
    BY <1>4 DEF EchoOther, hardVars, softVars, history
  <2>2. \A x \in msgs' : x \in msgs \/ (MsgOK(x) /\ ~IsGrant(x))
    <3> DEFINE a == IF m.type = "InstallSnapshotResp" THEN InstallSnapshotResp(m.to, m.from, m.term)
                    ELSE ReadIndexResp(m.to, m.from, m.term, m.readIndex)
    <3>1. MsgOK(a) /\ ~IsGrant(a)
      BY ONLY <1>0, OtherAnswerIsNoVote
    <3>2. Exchange({m}, {a})
      BY <1>4 DEF EchoOther, Reply
    <3> HIDE DEF a
    <3> QED BY ONLY <3>1, <3>2, ExchangeAdds
  <2> QED BY <2>1, <2>2, NodeStepIsQuiet
<1>5. CASE HandleAppendResp(m.to, m)
  <2>1. voters' = voters
    <3>1. PICK es : voters' = [voters EXCEPT ![m.to] = ConfAfter(m.to, es).voters]
      BY ZenonT(60), <1>5 DEF HandleAppendResp, ApplyCommitted
    <3> QED BY ONLY <1>0, <3>1, VotersKept, StaticMembership, ElectionTypes, Zenon
  <2>2. UNCHANGED <<currentTerm, votedFor, role, votes, ballots, reigns>>
    BY ZenonT(60), <1>5 DEF HandleAppendResp, history
  <2> DEFINE pr == ProgressAfter(m.to, m)
             commit == AdvancedCommit(m.to, pr)
             appl == Max({lastApplied[m.to], commit})
             conf == ConfAfter(m.to, EntriesBetween(log[m.to], lastApplied[m.to], commit))
             pr2 == IF conf.rebuilt THEN FreshProgress(m.to, conf.voters, log[m.to])
                                    ELSE pr
             n == [term |-> currentTerm[m.to], progress |-> pr2, log |-> log[m.to],
                   commit |-> commit, applied |-> appl]
  <2>3. \/ Exchange({m}, {AppendToPeer(m.to, m.from, n)})
        \/ Exchange({m}, {})
    BY <1>5, Zenon DEF HandleAppendResp, Reply
  <2>5. n.term \in Nat
    BY ZenonT(60), <1>0
  <2> HIDE DEF n
  <2>4. \A x \in msgs' : x \in msgs \/ (MsgOK(x) /\ ~IsGrant(x))
    <3> DEFINE a == AppendToPeer(m.to, m.from, n)
    <3>1. MsgOK(a) /\ ~IsGrant(a)
      BY <1>0, <2>5, AppendIsNoVote
    <3>2. Exchange({m}, {a}) \/ Exchange({m}, {})
      BY <2>3
    <3> HIDE DEF a
    <3> QED BY <3>1, <3>2, ExchangeAdds
  <2> QED BY <2>1, <2>2, <2>4, NodeStepIsQuiet
<1> QED BY <1>1, <1>2, <1>3, <1>4, <1>5

\* Messages that make a node adopt their term: it steps down, or it was not
\* behind.  Crashes are among them, as a crash steps down too.
LEMMA FollowingReceiveIsQuiet ==
  ASSUME StaticMembership, ElectionTypes, NEW m \in msgs,
         \/ VoteFromHigherTerm(m.to, m) \/ AppendRespFromHigherTerm(m.to, m)
         \/ RejectMismatchedAppend(m.to, m) \/ AcceptAppend(m.to, m)
         \/ HandleInstallSnapshot(m.to, m)
         \/ CrashInSyncOfAppend(m.to, m) \/ CrashInSyncOfSnapshot(m.to, m)
         \/ CrashInSyncOfCompaction(m.to, m)
  PROVE  Quiet
<1>0. /\ MsgOK(m) /\ m.to \in Server /\ m.from \in Server /\ m.term \in Nat
      /\ currentTerm[m.to] \in Nat
  BY DEF ElectionTypes, MsgOK
<1>a. ASSUME NEW ok \in BOOLEAN, NEW k,
             Exchange({m}, {AppendEntriesResp(m.to, m.from, m.term, ok, k)})
      PROVE  \A x \in msgs' : x \in msgs \/ (MsgOK(x) /\ ~IsGrant(x))
  <2> DEFINE a == AppendEntriesResp(m.to, m.from, m.term, ok, k)
  <2>1. MsgOK(a) /\ ~IsGrant(a)
    BY <1>0, AppendAnswerIsNoVote
  <2> HIDE DEF a
  <2> QED BY <1>a, <2>1, ExchangeAdds DEF a
<1>b. ASSUME \/ Follows(m.to, m) /\ StepDown(m.to)
             \/ ~Follows(m.to, m) /\ UNCHANGED softVars
      PROVE  StepDown(m.to) \/ (m.term <= currentTerm[m.to] /\ UNCHANGED softVars)
  <2>1. ~Follows(m.to, m) => m.term <= currentTerm[m.to]
    BY ONLY <1>0 DEF Follows
  <2> QED BY ONLY <1>b, <2>1, Zenon
<1>c. ASSUME Reopen(m.to), Reply(m, {})
      PROVE  /\ StepDown(m.to) /\ voters' = voters /\ UNCHANGED <<ballots, reigns>>
             /\ \A x \in msgs' : x \in msgs \/ (MsgOK(x) /\ ~IsGrant(x))
  <2>1. voters' = voters
    BY <1>0, <1>c DEF Reopen, StaticMembership, ElectionTypes
  <2>2. StepDown(m.to) /\ UNCHANGED <<ballots, reigns>>
    BY SMTT(60), <1>c DEF Reopen, history
  <2> QED BY <1>c, <2>1, <2>2, ExchangeAdds DEF Reply
<1>1. CASE VoteFromHigherTerm(m.to, m)
  <2>1. AdoptTerm(m.to, m.term) /\ StepDown(m.to) /\ voters' = voters /\ Exchange({m}, {})
    BY <1>1 DEF VoteFromHigherTerm, Reply
  <2>2. UNCHANGED <<ballots, reigns>>
    BY <1>1 DEF VoteFromHigherTerm, history
  <2>3. \A x \in msgs' : x \in msgs \/ (MsgOK(x) /\ ~IsGrant(x))
    BY ONLY <2>1, ExchangeAdds
  <2> QED BY <1>0, <2>1, <2>2, <2>3, FollowIsQuiet
<1>2. CASE AppendRespFromHigherTerm(m.to, m)
  <2>1. AdoptTerm(m.to, m.term) /\ StepDown(m.to) /\ voters' = voters /\ Exchange({m}, {})
    BY <1>2 DEF AppendRespFromHigherTerm, Reply
  <2>2. UNCHANGED <<ballots, reigns>>
    BY <1>2 DEF AppendRespFromHigherTerm, history
  <2>3. \A x \in msgs' : x \in msgs \/ (MsgOK(x) /\ ~IsGrant(x))
    BY ONLY <2>1, ExchangeAdds
  <2> QED BY <1>0, <2>1, <2>2, <2>3, FollowIsQuiet
<1>3. CASE RejectMismatchedAppend(m.to, m)
  <2>1. /\ AdoptTerm(m.to, m.term) /\ voters' = voters /\ UNCHANGED <<ballots, reigns>>
        /\ Exchange({m}, {AppendEntriesResp(m.to, m.from, m.term, FALSE,
                                            LastIndex(log[m.to]))})
    BY ZenonT(60), <1>3 DEF RejectMismatchedAppend, Reply, history
  <2>2. StepDown(m.to) \/ (m.term <= currentTerm[m.to] /\ UNCHANGED softVars)
    BY <1>3, <1>b DEF RejectMismatchedAppend
  <2>3. \A x \in msgs' : x \in msgs \/ (MsgOK(x) /\ ~IsGrant(x))
    BY ZenonT(60), <2>1, <1>a
  <2> QED BY <1>0, <2>1, <2>2, <2>3, FollowIsQuiet
<1>4. CASE AcceptAppend(m.to, m)
  <2>1. /\ AdoptTerm(m.to, m.term) /\ UNCHANGED <<ballots, reigns>>
        /\ Exchange({m}, {AppendEntriesResp(m.to, m.from, m.term, TRUE,
                                            LastIndex(AppendedLog(m.to, m)))})
    BY ZenonT(60), <1>4 DEF AcceptAppend, Reply, history
  <2>2. StepDown(m.to) \/ (m.term <= currentTerm[m.to] /\ UNCHANGED softVars)
    BY ZenonT(60), <1>4, <1>b DEF AcceptAppend
  <2>3. \A x \in msgs' : x \in msgs \/ (MsgOK(x) /\ ~IsGrant(x))
    BY ZenonT(60), <2>1, <1>a
  <2>4. voters' = voters
    <3>1. PICK es : voters' = [voters EXCEPT ![m.to] = ConfAfter(m.to, es).voters]
      BY ZenonT(60), <1>4 DEF AcceptAppend, ApplyCommitted
    <3> QED BY ONLY <1>0, <3>1, VotersKept, StaticMembership, ElectionTypes, Zenon
  <2> QED BY ZenonT(60), <1>0, <2>1, <2>2, <2>3, <2>4, FollowIsQuiet
<1>5. CASE HandleInstallSnapshot(m.to, m)
  <2>1. \A x \in msgs' : x \in msgs \/ (MsgOK(x) /\ ~IsGrant(x))
    <3> DEFINE a == InstallSnapshotResp(m.to, m.from, m.term)
    <3>1. MsgOK(a) /\ ~IsGrant(a)
      BY <1>0, OtherAnswerIsNoVote
    <3>2. Exchange({m}, {a})
      BY ZenonT(60), <1>5 DEF HandleInstallSnapshot, Reply
    <3> HIDE DEF a
    <3> QED BY SMTT(60), <3>1, <3>2, ExchangeAdds
  <2> QED BY ZenonT(60), <1>0, <1>5, <2>1, FollowIsQuiet DEF HandleInstallSnapshot, history
<1>6. CASE CrashInSyncOfAppend(m.to, m)
  BY ZenonT(60), <1>0, <1>6, <1>c, FollowIsQuiet DEF CrashInSyncOfAppend
<1>7. CASE CrashInSyncOfSnapshot(m.to, m)
  BY ZenonT(60), <1>0, <1>7, <1>c, FollowIsQuiet DEF CrashInSyncOfSnapshot
<1>8. CASE CrashInSyncOfCompaction(m.to, m)
  <2>1. /\ Reopen(m.to) /\ Reply(m, {})
        /\ UNCHANGED <<currentTerm, votedFor>>
    BY ZenonT(60), <1>8 DEF CrashInSyncOfCompaction
  <2>2. /\ role' \in [Server -> Role] /\ votes' \in [Server -> SUBSET Server]
        /\ role'[m.to] # "Candidate"
        /\ \A j \in Server \ {m.to} : role'[j] = role[j] /\ votes'[j] = votes[j]
    BY ZenonT(60), <1>0, <1>c, <2>1, StepDownIsQuiet
  <2> QED BY <1>0, <1>c, <2>1, <2>2 DEF Quiet, ElectionTypes
<1> QED BY <1>1, <1>2, <1>3, <1>4, <1>5, <1>6, <1>7, <1>8

LEMMA RestartIsQuiet ==
  ASSUME StaticMembership, ElectionTypes, NEW i \in Server, Restart(i)
  PROVE  Quiet
<1>1. voters' = voters
  BY DEF Restart, Reopen, StaticMembership, ElectionTypes
<1>2. /\ role' \in [Server -> Role] /\ votes' \in [Server -> SUBSET Server]
      /\ role'[i] # "Candidate"
      /\ \A j \in Server \ {i} : role'[j] = role[j] /\ votes'[j] = votes[j]
  BY ZenonT(60), StepDownIsQuiet DEF Restart, Reopen
<1>3. UNCHANGED <<currentTerm, votedFor, ballots, reigns, msgs>>
  BY DEF Restart, Reopen, hardVars, history
<1> QED BY <1>1, <1>2, <1>3 DEF Quiet, ElectionTypes

-----------------------------------------------------------------------------
(* The steps that cast ballots or elect a leader *)

\* Adding a ballot keeps every majority that was already there.
LEMMA BallotsOnlyGrow ==
  ASSUME ballots \subseteq ballots', ReignsAreElected,
         \A r \in reigns' : r \in reigns \/ Elected(ballots', r[1], r[2])
  PROVE  ReignsAreElected'
<1> SUFFICES ASSUME NEW r \in reigns' PROVE Elected(ballots', r[1], r[2])
  BY DEF ReignsAreElected
<1>1. CASE r \in reigns
  <2>1. PICK Q \in SUBSET Server :
          IsMajority(Q) /\ \A j \in Q : <<j, r[1], r[2]>> \in ballots
    BY <1>1 DEF ReignsAreElected, Elected
  <2> QED BY <2>1 DEF Elected
<1>2. CASE Elected(ballots', r[1], r[2])
  BY <1>2
<1> QED BY <1>1, <1>2

\* A node that stands for election casts the first ballot of a new term.
LEMMA ElectionTimeoutKeepsInv ==
  ASSUME ElectionInv, NEW i \in Server, ElectionTimeout(i)
  PROVE  ElectionInv'
<1> DEFINE t == currentTerm[i] + 1
           new == <<i, t, i>>
<1>0. currentTerm[i] \in Nat /\ t \in Nat /\ ElectionTypes
  BY DEF ElectionInv, ElectionTypes
<1>1. /\ currentTerm' = [currentTerm EXCEPT ![i] = t]
      /\ votedFor' = [votedFor EXCEPT ![i] = i]
      /\ votes' = [votes EXCEPT ![i] = {i}]
      /\ ballots' = ballots \cup {new}
      /\ voters' = voters
  BY DEF ElectionTimeout
<1>2. /\ role' \in [Server -> Role]
      /\ \A j \in Server \ {i} : role'[j] = role[j]
  BY <1>0 DEF ElectionTimeout, ElectionTypes, Role
<1>3. \A m \in msgs' : m \in msgs \/ (MsgOK(m) /\ ~IsGrant(m))
  <2> DEFINE R == {RequestVoteReq(i, p, t) : p \in voters[i] \ {i}}
             n == [Sender(i) EXCEPT !.term = t,
                                    !.progress = FreshProgress(i, voters[i], log[i])]
             B == BroadcastAppend(i, n)
  <2>1. \A m \in R : MsgOK(m) /\ ~IsGrant(m)
    BY <1>0 DEF ElectionTypes, RequestVoteReq, MsgOK, IsGrant
  <2>2. \A m \in B : MsgOK(m) /\ ~IsGrant(m)
    BY ZenonT(60), <1>0, BroadcastIsNoVote DEF Sender
  <2>3. Exchange({}, R \cup B) \/ Exchange({}, R \cup {})
    BY Zenon DEF ElectionTimeout, Send
  <2> HIDE DEF R, B
  <2> QED BY <2>1, <2>2, <2>3, ExchangeAdds
<1>4. \/ reigns' = reigns
      \/ reigns' = reigns \cup {<<t, i>>} /\ Quorum(i) <= 1
  BY DEF ElectionTimeout
<1>5. ElectionTypes'
  <2>1. reigns' \subseteq Nat \X Server
    BY <1>0, <1>4 DEF ElectionTypes
  <2>2. ballots' \subseteq Server \X Nat \X Server
    BY <1>0, <1>1 DEF ElectionTypes
  <2>3. /\ currentTerm' \in [Server -> Nat]
        /\ votedFor' \in [Server -> Server \cup {Nil}]
        /\ votes' \in [Server -> SUBSET Server]
    BY <1>0, <1>1 DEF ElectionTypes
  <2>4. \A m \in msgs' : MsgOK(m)
    BY <1>0, <1>3 DEF ElectionTypes
  <2> QED BY <1>0, <1>1, <1>2, <2>1, <2>2, <2>3, <2>4 DEF ElectionTypes
<1>6. \A b \in ballots : /\ b[1] \in Server /\ b[2] \in Nat
                         /\ b[1] = i => b[2] < t
                         /\ b[2] <= currentTerm[b[1]]
                         /\ b[2] = currentTerm[b[1]] => votedFor[b[1]] = b[3]
  BY <1>0 DEF ElectionInv, ElectionTypes, BallotsKept
<1>7. BallotsKept'
  <2> SUFFICES ASSUME NEW b \in ballots'
               PROVE  /\ b[2] <= currentTerm'[b[1]]
                      /\ b[2] = currentTerm'[b[1]] => votedFor'[b[1]] = b[3]
    BY DEF BallotsKept
  <2>1. CASE b = new
    BY <1>0, <1>1, <2>1 DEF ElectionTypes
  <2>2. CASE b \in ballots /\ b[1] = i
    <3>1. currentTerm'[i] = t
      BY <1>0, <1>1 DEF ElectionTypes
    <3> QED BY <1>0, <1>6, <2>2, <3>1
  <2>3. CASE b \in ballots /\ b[1] # i
    BY <1>0, <1>1, <1>6, <2>3 DEF ElectionTypes
  <2> QED BY <1>1, <2>1, <2>2, <2>3
<1>8. OneBallotPerTerm'
  BY <1>0, <1>1, <1>6 DEF ElectionInv, OneBallotPerTerm
<1>9. GrantsAreBallots'
  BY <1>1, <1>3 DEF ElectionInv, GrantsAreBallots
<1>10. VotesAreBallots'
  <2> SUFFICES ASSUME NEW j \in Server, role'[j] = "Candidate", NEW k \in votes'[j]
               PROVE  <<k, currentTerm'[j], j>> \in ballots'
    BY DEF VotesAreBallots
  <2>1. CASE j = i
    BY <1>0, <1>1, <2>1 DEF ElectionTypes
  <2>2. CASE j # i
    BY <1>0, <1>1, <1>2, <2>2 DEF ElectionTypes, ElectionInv, VotesAreBallots
  <2> QED BY <2>1, <2>2
<1>11. ReignsAreElected'
  <2>1. ASSUME Quorum(i) <= 1 PROVE Elected(ballots', t, i)
    <3>1. voters[i] = Server
      BY <1>0 DEF ElectionTypes
    <3>2. Cardinality({i}) = 1
      BY FS_Singleton
    <3>3. Cardinality({i}) >= Cardinality(Server) \div 2 + 1
      BY <2>1, <3>1, <3>2, ServerAssumption, FS_CardinalityType DEF Quorum
    <3>4. IsMajority({i})
      BY <3>3, QuorumIsMajority
    <3> QED BY <1>1, <3>4 DEF Elected
  <2>2. \A r \in reigns' : r \in reigns \/ Elected(ballots', r[1], r[2])
    BY <1>4, <2>1
  <2> QED BY <1>1, <2>2, BallotsOnlyGrow DEF ElectionInv
<1> QED BY <1>5, <1>7, <1>8, <1>9, <1>10, <1>11 DEF ElectionInv

\* A granted vote is the node's only ballot of that term.
LEMMA RequestVoteKeepsInv ==
  ASSUME ElectionInv, NEW m \in msgs, HandleRequestVote(m.to, m)
  PROVE  ElectionInv'
<1> DEFINE i == m.to
           newer == m.term > currentTerm[i]
           grant == /\ m.term >= currentTerm[i]
                    /\ m.term > currentTerm[i] \/ votedFor[i] \in {Nil, m.from}
                    /\ LogIsUpToDate(i, m.lastLogIndex, m.lastLogTerm)
           t == Max({currentTerm[i], m.term})
           a == RequestVoteResp(i, m.from, t, grant)
           new == <<i, m.term, m.from>>
<1>0. /\ i \in Server /\ m.from \in Server /\ m.term \in Nat
      /\ currentTerm[i] \in Nat /\ ElectionTypes
  BY DEF ElectionInv, ElectionTypes, MsgOK
<1>1. /\ t \in Nat /\ currentTerm[i] <= t /\ m.term <= t
      /\ t = currentTerm[i] \/ t = m.term
  BY SMTT(60), <1>0, MaxOfTwo
<1>2. /\ currentTerm' = [currentTerm EXCEPT ![i] = t]
      /\ votedFor' = [votedFor EXCEPT ![i] = IF grant THEN m.from
                                             ELSE IF newer THEN Nil ELSE votedFor[i]]
      /\ ballots' = IF grant THEN ballots \cup {new} ELSE ballots
      /\ voters' = voters /\ reigns' = reigns
      /\ Exchange({m}, {a})
  BY DEF HandleRequestVote, Grants, Reply
<1>3. IF newer THEN StepDown(i) ELSE UNCHANGED softVars
  BY DEF HandleRequestVote
<1>4. /\ MsgOK(a)
      /\ IsGrant(a) => grant
      /\ a.from = i /\ a.to = m.from /\ a.term = t
  BY ZenonT(60), <1>0, <1>1 DEF RequestVoteResp, MsgOK, IsGrant
<1>6. /\ role' \in [Server -> Role] /\ votes' \in [Server -> SUBSET Server]
      /\ \A j \in Server : role'[j] = "Candidate" =>
           role[j] = "Candidate" /\ votes'[j] = votes[j] /\ (j = i => ~newer)
  <2>1. CASE newer
    BY <1>0, <1>3, <2>1, StepDownIsQuiet
  <2>2. CASE ~newer
    BY <1>0, <1>3, <2>2 DEF softVars, ElectionTypes
  <2> QED BY <2>1, <2>2
<1>7. grant => m.term = t
  BY <1>0, <1>1
<1>8. ~newer => t = currentTerm[i]
  BY <1>0, <1>1
<1>9. newer => t = m.term /\ t > currentTerm[i]
  BY <1>0, <1>1
<1> HIDE DEF t, a, grant
<1>5. \A x \in msgs' : x \in msgs \/ x = a
  BY <1>2, ExchangeAdds
<1>10. currentTerm'[i] = t /\ \A j \in Server : j # i => currentTerm'[j] = currentTerm[j]
  BY <1>0, <1>2 DEF ElectionTypes
<1>11. /\ votedFor'[i] = IF grant THEN m.from ELSE IF newer THEN Nil ELSE votedFor[i]
       /\ \A j \in Server : j # i => votedFor'[j] = votedFor[j]
  BY <1>0, <1>2 DEF ElectionTypes
<1>12. \A b \in ballots : /\ b[1] \in Server /\ b[2] \in Nat /\ b[3] \in Server
                          /\ b[2] <= currentTerm[b[1]]
                          /\ b[2] = currentTerm[b[1]] => votedFor[b[1]] = b[3]
  BY <1>0 DEF ElectionInv, ElectionTypes, BallotsKept
<1>13. \A b \in ballots : b[1] = i /\ b[2] = t /\ grant => b[3] = m.from
  BY <1>0, <1>8, <1>9, <1>12, ServerAssumption DEF grant
<1>14. ElectionTypes'
  <2>1. ballots' \subseteq Server \X Nat \X Server
    BY <1>0, <1>2 DEF ElectionTypes
  <2>2. currentTerm' \in [Server -> Nat] /\ votedFor' \in [Server -> Server \cup {Nil}]
    BY <1>0, <1>1, <1>2 DEF ElectionTypes
  <2>3. \A x \in msgs' : MsgOK(x)
    BY <1>0, <1>4, <1>5 DEF ElectionTypes
  <2> QED BY <1>0, <1>2, <1>6, <2>1, <2>2, <2>3 DEF ElectionTypes
<1>15. BallotsKept'
  <2> SUFFICES ASSUME NEW b \in ballots'
               PROVE  /\ b[2] <= currentTerm'[b[1]]
                      /\ b[2] = currentTerm'[b[1]] => votedFor'[b[1]] = b[3]
    BY DEF BallotsKept
  <2>1. CASE grant /\ b = new
    BY <1>0, <1>1, <1>7, <1>10, <1>11, <2>1
  <2>2. CASE b \in ballots /\ b[1] # i
    BY <1>10, <1>11, <1>12, <2>2
  <2>3. CASE b \in ballots /\ b[1] = i
    <3>1. b[2] <= t
      BY <1>0, <1>1, <1>12, <2>3
    <3>2. ASSUME b[2] = t PROVE votedFor'[i] = b[3]
      <4>1. t = currentTerm[i] /\ ~newer
        BY <1>0, <1>1, <1>9, <1>12, <2>3, <3>2
      <4>2. votedFor[i] = b[3]
        BY <1>12, <2>3, <3>2, <4>1
      <4> QED BY <1>11, <1>13, <2>3, <3>2, <4>1, <4>2
    <3> QED BY <1>10, <2>3, <3>1, <3>2
  <2> QED BY <1>2, <2>1, <2>2, <2>3
<1>16. OneBallotPerTerm'
  BY <1>2, <1>7, <1>13 DEF ElectionInv, OneBallotPerTerm
<1>17. GrantsAreBallots'
  BY <1>2, <1>4, <1>5, <1>7 DEF ElectionInv, GrantsAreBallots
<1>18. VotesAreBallots'
  <2> SUFFICES ASSUME NEW j \in Server, role'[j] = "Candidate", NEW k \in votes'[j]
               PROVE  <<k, currentTerm'[j], j>> \in ballots'
    BY DEF VotesAreBallots
  <2>1. role[j] = "Candidate" /\ k \in votes[j] /\ currentTerm'[j] = currentTerm[j]
    BY <1>6, <1>8, <1>10
  <2> QED BY <1>2, <2>1 DEF ElectionInv, VotesAreBallots
<1>19. ReignsAreElected'
  BY <1>2, BallotsOnlyGrow DEF ElectionInv
<1> QED BY <1>14, <1>15, <1>16, <1>17, <1>18, <1>19 DEF ElectionInv

\* A candidate that counts a quorum of votes has a majority of the ballots.
LEMMA CountVoteKeepsInv ==
  ASSUME ElectionInv, NEW m \in msgs, CountVote(m.to, m)
  PROVE  ElectionInv'
<1> DEFINE i == m.to
           vs == IF m.granted THEN votes[i] \cup {m.from} ELSE votes[i]
<1>0. /\ i \in Server /\ m.from \in Server /\ currentTerm[i] \in Nat /\ ElectionTypes
      /\ m.type = "RequestVoteResp" /\ m.term = currentTerm[i] /\ role[i] = "Candidate"
  BY DEF ElectionInv, ElectionTypes, MsgOK, CountVote
<1>1. /\ votes' = [votes EXCEPT ![i] = vs]
      /\ UNCHANGED <<currentTerm, votedFor, voters, ballots>>
  BY DEF CountVote, hardVars
<1>2. \A j \in vs : j \in Server /\ <<j, currentTerm[i], i>> \in ballots
  BY <1>0 DEF ElectionInv, ElectionTypes, VotesAreBallots, GrantsAreBallots, IsGrant
<1>3. /\ role' \in [Server -> Role]
      /\ \A j \in Server \ {i} : role'[j] = role[j]
      /\ \/ reigns' = reigns
         \/ reigns' = reigns \cup {<<currentTerm[i], i>>} /\ Cardinality(vs) >= Quorum(i)
  BY <1>0 DEF CountVote, ElectionTypes, Role
<1>4. \A x \in msgs' : x \in msgs \/ (MsgOK(x) /\ ~IsGrant(x))
  <2> DEFINE n == [Sender(i) EXCEPT !.progress = FreshProgress(i, voters[i], log[i])]
             B == BroadcastAppend(i, n)
  <2>1. \A x \in B : MsgOK(x) /\ ~IsGrant(x)
    BY <1>0, BroadcastIsNoVote DEF Sender
  <2>2. Exchange({m}, B) \/ Exchange({m}, {})
    BY Zenon DEF CountVote, Reply
  <2> HIDE DEF B
  <2> QED BY <2>1, <2>2, ExchangeAdds
<1> HIDE DEF vs
<1>5. ElectionTypes'
  <2>1. votes' \in [Server -> SUBSET Server]
    BY ZenonT(60), <1>0, <1>1, <1>2 DEF ElectionTypes
  <2>2. reigns' \subseteq Nat \X Server
    BY <1>0, <1>3 DEF ElectionTypes
  <2>3. \A x \in msgs' : MsgOK(x)
    BY <1>0, <1>4 DEF ElectionTypes
  <2> QED BY <1>0, <1>1, <1>3, <2>1, <2>2, <2>3 DEF ElectionTypes
<1>6. BallotsKept' /\ OneBallotPerTerm'
  BY <1>1 DEF ElectionInv, BallotsKept, OneBallotPerTerm
<1>7. GrantsAreBallots'
  BY <1>1, <1>4 DEF ElectionInv, GrantsAreBallots
<1>8. VotesAreBallots'
  <2> SUFFICES ASSUME NEW j \in Server, role'[j] = "Candidate", NEW k \in votes'[j]
               PROVE  <<k, currentTerm[j], j>> \in ballots
    BY <1>1 DEF VotesAreBallots
  <2>1. CASE j = i
    BY <1>0, <1>1, <1>2, <2>1 DEF ElectionTypes
  <2>2. CASE j # i
    BY <1>0, <1>1, <1>3, <2>2 DEF ElectionTypes, ElectionInv, VotesAreBallots
  <2> QED BY <2>1, <2>2
<1>9. ReignsAreElected'
  <2>1. ASSUME Cardinality(vs) >= Quorum(i)
        PROVE  Elected(ballots', currentTerm[i], i)
    <3>1. voters[i] = Server
      BY SMTT(60), <1>0 DEF ElectionTypes
    <3>2. vs \in SUBSET Server
      BY ZenonT(60), <1>2
    <3>3. IsMajority(vs)
      BY <2>1, <3>1, <3>2, QuorumIsMajority DEF Quorum
    <3> QED BY <1>1, <1>2, <3>2, <3>3 DEF Elected
  <2>2. \A r \in reigns' : r \in reigns \/ Elected(ballots', r[1], r[2])
    BY <1>3, <2>1
  <2> QED BY <1>1, <2>2, BallotsOnlyGrow DEF ElectionInv
<1> QED BY <1>5, <1>6, <1>7, <1>8, <1>9 DEF ElectionInv

-----------------------------------------------------------------------------
(* The theorems *)

LEMMA InitElection ==
  ASSUME StaticMembership, Init
  PROVE  ElectionInv
BY DEF StaticMembership, Init, ElectionInv, ElectionTypes, BallotsKept,
       OneBallotPerTerm, GrantsAreBallots, VotesAreBallots, ReignsAreElected, Role

\* Every step is quiet, or casts a ballot, or counts votes.
LEMMA NextElection ==
  ASSUME StaticMembership, ElectionInv, [Next]_vars
  PROVE  ElectionInv'
<1>0. ElectionTypes
  BY DEF ElectionInv
<1>1. ASSUME NEW i \in Server, ElectionTimeout(i) PROVE ElectionInv'
  BY <1>1, ElectionTimeoutKeepsInv
<1>2. ASSUME NEW i \in Server,
             HeartbeatTimeout(i) \/ ReadIndex(i)
               \/ (\E c \in Command \cup ConfChange : Propose(i, c))
               \/ (\E j \in Server : HandleReadIndex(i, j))
      PROVE  ElectionInv'
  BY <1>0, <1>2, SendingIsQuiet, QuietKeepsInv
<1>3. ASSUME NEW i \in Server, Restart(i) PROVE ElectionInv'
  BY <1>0, <1>3, RestartIsQuiet, QuietKeepsInv
<1>4. ASSUME NEW m \in msgs, Receive(m) PROVE ElectionInv'
  <2>1. CASE HandleRequestVote(m.to, m)
    BY <2>1, RequestVoteKeepsInv
  <2>2. CASE CountVote(m.to, m)
    BY <2>2, CountVoteKeepsInv
  <2>3. CASE \/ IgnoreResponse(m.to, m) \/ RejectStaleAppend(m.to, m)
             \/ RejectStaleSnapshot(m.to, m) \/ EchoOther(m.to, m)
             \/ HandleAppendResp(m.to, m)
    BY <1>0, <2>3, PassiveReceiveIsQuiet, QuietKeepsInv
  <2>4. CASE \/ VoteFromHigherTerm(m.to, m) \/ AppendRespFromHigherTerm(m.to, m)
             \/ RejectMismatchedAppend(m.to, m) \/ AcceptAppend(m.to, m)
             \/ HandleInstallSnapshot(m.to, m)
             \/ CrashInSyncOfAppend(m.to, m) \/ CrashInSyncOfSnapshot(m.to, m)
             \/ CrashInSyncOfCompaction(m.to, m)
    BY SMTT(60), <1>0, <2>4, FollowingReceiveIsQuiet, QuietKeepsInv
  <2> QED BY <1>4, <2>1, <2>2, <2>3, <2>4 DEF Receive
<1>5. CASE UNCHANGED vars
  BY <1>5 DEF vars, hardVars, softVars, history, ElectionInv, ElectionTypes,
              BallotsKept, OneBallotPerTerm, GrantsAreBallots, VotesAreBallots,
              ReignsAreElected
<1> QED BY <1>1, <1>2, <1>3, <1>4, <1>5, BoundAssumption DEF Next

\* Two reigns of one term share a voter, who cast one ballot in that term.
LEMMA ElectionInvImplies ==
  ASSUME ElectionInv
  PROVE  OneLeaderPerTerm
<1> SUFFICES ASSUME NEW r1 \in reigns, NEW r2 \in reigns, r1[1] = r2[1]
             PROVE  r1 = r2
  BY DEF OneLeaderPerTerm
<1>1. PICK P \in SUBSET Server :
        IsMajority(P) /\ \A j \in P : <<j, r1[1], r1[2]>> \in ballots
  BY DEF ElectionInv, ReignsAreElected, Elected
<1>2. PICK Q \in SUBSET Server :
        IsMajority(Q) /\ \A j \in Q : <<j, r2[1], r2[2]>> \in ballots
  BY DEF ElectionInv, ReignsAreElected, Elected
<1>3. PICK j \in Server : j \in P /\ j \in Q
  BY <1>1, <1>2, MajoritiesMeet
<1>4. <<j, r1[1], r1[2]>> \in ballots /\ <<j, r1[1], r2[2]>> \in ballots
  BY <1>1, <1>2, <1>3
<1>5. r1[2] = r2[2]
  BY <1>4 DEF ElectionInv, OneBallotPerTerm
<1> QED BY <1>5 DEF ElectionInv, ElectionTypes

\* At most one node becomes leader in a term, for every number of nodes and
\* every bound on terms, log length and messages (become_leader).
THEOREM ElectionSafety ==
  StaticMembership => (Spec => []OneLeaderPerTerm)
<1> SUFFICES ASSUME StaticMembership PROVE Spec => []OneLeaderPerTerm
  OBVIOUS
<1>1. Init => ElectionInv
  BY InitElection
<1>2. ElectionInv /\ [Next]_vars => ElectionInv'
  BY NextElection
<1>3. ElectionInv => OneLeaderPerTerm
  BY ElectionInvImplies
<1> QED BY <1>1, <1>2, <1>3, PTL DEF Spec

\* What one step may do to a node's term and vote.
VoteStep ==
  \A i \in Server :
    /\ currentTerm[i] <= currentTerm'[i]
    /\ currentTerm[i] = currentTerm'[i] /\ votedFor[i] # Nil
         => votedFor'[i] = votedFor[i]

LEMMA QuietKeepsVotes ==
  ASSUME Quiet
  PROVE  VoteStep
BY SMTT(60) DEF Quiet, VoteStep

LEMMA RequestVoteKeepsVotes ==
  ASSUME ElectionTypes, NEW m \in msgs, HandleRequestVote(m.to, m)
  PROVE  VoteStep
<1> DEFINE i == m.to
           t == Max({currentTerm[i], m.term})
<1>0. i \in Server /\ m.term \in Nat /\ currentTerm[i] \in Nat
  BY DEF ElectionTypes, MsgOK
<1>1. /\ t \in Nat /\ currentTerm[i] <= t /\ m.term <= t
      /\ t = currentTerm[i] \/ t = m.term
  BY SMTT(60), <1>0, MaxOfTwo
<1>2. /\ currentTerm' = [currentTerm EXCEPT ![i] = t]
      /\ \/ votedFor' = votedFor
         \/ votedFor' = [votedFor EXCEPT ![i] = m.from]
              /\ (m.term > currentTerm[i] \/ votedFor[i] \in {Nil, m.from})
         \/ votedFor' = [votedFor EXCEPT ![i] = Nil] /\ m.term > currentTerm[i]
  <2>1. currentTerm' = [currentTerm EXCEPT ![i] = t]
    BY DEF HandleRequestVote
  <2> QED BY ZenonT(60), <2>1 DEF HandleRequestVote, Grants, ElectionTypes
<1> HIDE DEF t
<1> SUFFICES ASSUME NEW j \in Server
             PROVE  /\ currentTerm[j] <= currentTerm'[j]
                    /\ currentTerm[j] = currentTerm'[j] /\ votedFor[j] # Nil => votedFor'[j] = votedFor[j]
  BY DEF VoteStep
<1>3. /\ currentTerm[j] \in Nat /\ currentTerm'[j] = IF j = i THEN t ELSE currentTerm[j]
      /\ \A v : votedFor' = [votedFor EXCEPT ![i] = v] => votedFor'[j] = IF j = i THEN v ELSE votedFor[j]
  BY <1>0, <1>2 DEF ElectionTypes
<1>4. CASE j # i
  BY ONLY <1>2, <1>3, <1>4
<1>5. CASE j = i
  BY ONLY <1>0, <1>1, <1>2, <1>3, <1>5
<1> QED BY <1>4, <1>5

\* Terms never go back and a vote, once given, is kept for its term, through
\* every message, restart and crash inside a sync (HardState).
THEOREM VotesFinal ==
  StaticMembership => (Spec => VotesAreFinal)
<1> SUFFICES ASSUME StaticMembership PROVE Spec => VotesAreFinal
  OBVIOUS
<1>1. Init => ElectionInv
  BY InitElection
<1>2. ElectionInv /\ [Next]_vars => ElectionInv'
  BY NextElection
<1>3. ElectionInv /\ [Next]_vars => [VoteStep]_vars
  <2> SUFFICES ASSUME ElectionInv, Next PROVE VoteStep
    OBVIOUS
  <2>0. ElectionTypes
    BY DEF ElectionInv
  <2>1. ASSUME NEW i \in Server, ElectionTimeout(i) PROVE VoteStep
    BY <2>0, <2>1 DEF ElectionTimeout, VoteStep, ElectionTypes
  <2>2. ASSUME NEW i \in Server,
               HeartbeatTimeout(i) \/ ReadIndex(i)
                 \/ (\E c \in Command \cup ConfChange : Propose(i, c))
                 \/ (\E j \in Server : HandleReadIndex(i, j))
        PROVE  VoteStep
    BY <2>0, <2>2, SendingIsQuiet, QuietKeepsVotes
  <2>3. ASSUME NEW i \in Server, Restart(i) PROVE VoteStep
    BY <2>0, <2>3, RestartIsQuiet, QuietKeepsVotes
  <2>4. ASSUME NEW m \in msgs, Receive(m) PROVE VoteStep
    <3>1. CASE HandleRequestVote(m.to, m)
      BY <2>0, <3>1, RequestVoteKeepsVotes
    <3>2. CASE CountVote(m.to, m)
      BY <2>0, <3>2 DEF CountVote, hardVars, VoteStep, ElectionTypes
    <3>3. CASE \/ IgnoreResponse(m.to, m) \/ RejectStaleAppend(m.to, m)
               \/ RejectStaleSnapshot(m.to, m) \/ EchoOther(m.to, m)
               \/ HandleAppendResp(m.to, m)
      BY <2>0, <3>3, PassiveReceiveIsQuiet, QuietKeepsVotes
    <3>4. CASE \/ VoteFromHigherTerm(m.to, m) \/ AppendRespFromHigherTerm(m.to, m)
               \/ RejectMismatchedAppend(m.to, m) \/ AcceptAppend(m.to, m)
               \/ HandleInstallSnapshot(m.to, m)
               \/ CrashInSyncOfAppend(m.to, m) \/ CrashInSyncOfSnapshot(m.to, m)
               \/ CrashInSyncOfCompaction(m.to, m)
      BY <2>0, <3>4, FollowingReceiveIsQuiet, QuietKeepsVotes
    <3> QED BY <2>4, <3>1, <3>2, <3>3, <3>4 DEF Receive
  <2> QED BY <2>1, <2>2, <2>3, <2>4, BoundAssumption DEF Next
<1> QED BY <1>1, <1>2, <1>3, PTL DEF Spec, VotesAreFinal, VoteStep
=============================================================================
