---------------------------- MODULE RaftTheorems ----------------------------
(***************************************************************************)
(* Log matching from the three invariants of the Raft core: its elections, *)
(* its types, and the agreement of the chunks its logs and requests hold.  *)
(***************************************************************************)
EXTENDS RaftProofs, RaftLogProofs, RaftLogMatching

\* Two logs that hold an entry of the same term at the same index are the same
\* up to that index, for any number of nodes, entries and requests, delayed,
\* reordered or lost, and through restarts and crashes inside a sync: the check
\* of prev_log_term in handle_append_entries is enough, although the handler
\* cuts the log also where it agrees with the request.  Compaction is left out
\* because a log rebuilt from a snapshot does not have the property.
THEOREM LogsMatch == StaticMembership /\ NoCompaction => (Spec => []LogMatching)
<1> SUFFICES ASSUME StaticMembership, NoCompaction PROVE Spec => []LogMatching
  OBVIOUS
<1>0. FixedMembership
  BY DEF StaticMembership, FixedMembership
<1> DEFINE Inv == Typed /\ ElectionInv /\ Reigning /\ LogInv
<1>1. Init => Inv
  BY TypedInit, InitElection, LogInvInit
<1>2. Inv /\ [Next]_vars => Inv'
  <2> SUFFICES ASSUME Inv, [Next]_vars PROVE Inv'
    OBVIOUS
  <2>0. Reigns /\ OneLeaderPerTerm
    BY ElectionInvImplies DEF ElectionInv, ElectionTypes, MsgOK, Reigns
  <2>1. Typed'
    BY <1>0, TypedNext
  <2>2. ElectionInv'
    BY NextElection
  <2>3. OneLeaderPerTerm'
    BY <2>2, ElectionInvImplies, PTL
  <2>4. Reigning' /\ Succession
    BY <1>0, <2>1, <2>3, <2>0, ReigningNext
  <2>5. LogInv'
    BY <1>0, <2>1, <2>4, <2>0, LogInvNext
  <2>. QED BY <2>1, <2>2, <2>4, <2>5
<1>3. Inv => LogMatching
  BY LogInvImplies
<1>. QED BY <1>1, <1>2, <1>3, PTL DEF Spec
=============================================================================
