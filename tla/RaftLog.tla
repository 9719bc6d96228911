------------------------------ MODULE RaftLog ------------------------------
(***************************************************************************)
(* The replicated log of noedb-raft (log.rs): a vector whose element 0 is  *)
(* a sentinel, so that the entry with log index k is element k + 1 of the  *)
(* TLA+ sequence.  An entry is a record [term, cmd].                       *)
(***************************************************************************)
EXTENDS Integers, Sequences

CONSTANTS Noop      \* the empty command: a read barrier, or snapshot filler

\* A log holding only the sentinel.
EmptyLog == <<[term |-> 0, cmd |-> Noop]>>

LastIndex(l) == Len(l) - 1

\* The term of the entry at index k; 0 when the log does not reach k.
TermAt(l, k) == IF k + 1 \in DOMAIN l THEN l[k + 1].term ELSE 0

\* Keep the entries 0..k.
TruncateFrom(l, k) == IF k + 1 < Len(l) THEN SubSeq(l, 1, k + 1) ELSE l

\* The entries from index k on, at most batch of them.
SliceFrom(l, k, batch) ==
  SubSeq(l, k + 1, IF k + batch < Len(l) THEN k + batch ELSE Len(l))

\* A log rebuilt from a snapshot: every slot up to the snapshot's index, the
\* sentinel included, carries the snapshot's term and no command.
Restore(index, term) ==
  [k \in 1 .. index + 1 |-> [term |-> term, cmd |-> Noop]]

\* The entries with an index in from+1 .. to that the log holds.
EntriesBetween(l, from, to) ==
  SubSeq(l, from + 2, IF to + 1 < Len(l) THEN to + 1 ELSE Len(l))

\* t starts with s.
Prefix(s, t) == Len(s) <= Len(t) /\ SubSeq(t, 1, Len(s)) = s
=============================================================================
