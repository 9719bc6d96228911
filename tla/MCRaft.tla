------------------------------- MODULE MCRaft -------------------------------
(* Instances of Raft for TLC. *)
EXTENDS Raft, TLC

CONSTANTS n1, n2, n3

Static == [i \in Server |-> Server]

\* n3 is opened as a joining node: its configuration names it, the others' do not.
Joining == [i \in Server |-> IF i = n3 THEN Server ELSE Server \ {n3}]

AddN3 == {[op |-> "add", id |-> n3]}
RemoveN2N3 == {[op |-> "remove", id |-> n2], [op |-> "remove", id |-> n3]}

\* A later starting point: n1 leads term 1 with the vote of n3, n2 has seen
\* nothing, and every message so far has been delivered or lost.
InitLed ==
  /\ currentTerm = [i \in Server |-> IF i = n2 THEN 0 ELSE 1]
  /\ votedFor = [i \in Server |-> IF i = n2 THEN Nil ELSE n1]
  /\ commitIndex = [i \in Server |-> 0]
  /\ lastApplied = [i \in Server |-> 0]
  /\ log = [i \in Server |-> EmptyLog]
  /\ role = [i \in Server |-> IF i = n1 THEN "Leader" ELSE "Follower"]
  /\ votes = [i \in Server |-> IF i = n1 THEN {n1, n3} ELSE {}]
  /\ progress = [i \in Server |-> IF i = n1 THEN FreshProgress(n1, Server, EmptyLog)
                                            ELSE NoProgress]
  /\ pendingReads = [i \in Server |-> {}]
  /\ voters = InitConfig
  /\ applied = [i \in Server |-> <<>>]
  /\ msgs = {}
  /\ ballots = {<<n1, 1, n1>>, <<n3, 1, n1>>}
  /\ reigns = {<<1, n1>>}

\* What the steps depend on. None reads the histories, or the commands applied: a
\* snapshot in flight carries its indexes only.
Core == <<hardVars, log, softVars, voters, msgs>>

SpecLed == InitLed /\ [][Next]_vars
=============================================================================
