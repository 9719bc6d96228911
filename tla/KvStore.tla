------------------------------ MODULE KvStore ------------------------------
(***************************************************************************)
(* What a caller of LsmTree relies on (lsm.rs, lsm_mvcc.rs): a map from    *)
(* keys to their newest version, changed by one call at a time.  A call    *)
(* carries a sequence of writes <<key, timestamp, value>>, None as a value *)
(* deleting the key.  A write older than the version that is there is not  *)
(* seen; timestamp 0 stands for the one after it (delete).  A call that    *)
(* answers ok has made all of its writes; one that fails, or that a crash  *)
(* cuts short, has made a prefix of them; no other key changes, and none   *)
(* changes between calls.                                                  *)
(***************************************************************************)
EXTENDS Integers, Sequences

CONSTANTS Key, Value, MaxWrites, None

VARIABLES store, call, reply

Absent == [ts |-> 0, val |-> None]

\* The newest version of a key once <<k, ts, v>> is written over cur.
Newer(cur, ts, v) ==
  IF ts = 0 THEN IF cur.val = None THEN cur ELSE [ts |-> cur.ts + 1, val |-> None]
  ELSE IF ts >= cur.ts THEN [ts |-> ts, val |-> v] ELSE cur

\* The map after the first n writes of the call.
After(n) ==
  LET f[i \in 0..n] ==
        IF i = 0 THEN store
        ELSE [f[i - 1] EXCEPT ![call[i][1]] = Newer(@, call[i][2], call[i][3])]
  IN f[n]

KvInit == store = [k \in Key |-> Absent] /\ call = <<>> /\ reply = "ok"

Begin ==
  /\ call = <<>>
  /\ \E n \in 1..MaxWrites : call' \in [1..n -> Key \X Nat \X Value]
  /\ UNCHANGED <<store, reply>>

\* Refused before anything is done.
Refuse ==
  /\ call = <<>>
  /\ reply' = "stalled"
  /\ UNCHANGED <<store, call>>

Succeed ==
  /\ call # <<>>
  /\ store' = After(Len(call))
  /\ call' = <<>> /\ reply' = "ok"

CutShort ==
  /\ call # <<>>
  /\ \E n \in 0..Len(call) : store' = After(n)
  /\ call' = <<>> /\ reply' = "crashed"

\* The writes are made, what follows them in the call fails.
FailLate ==
  /\ call # <<>>
  /\ store' = After(Len(call))
  /\ call' = <<>> /\ reply' = "error"

\* A call without writes, or a crash between calls.
Quiet ==
  /\ call = <<>>
  /\ reply' \in {"ok", "crashed"}
  /\ UNCHANGED <<store, call>>

KvNext == Begin \/ Refuse \/ Succeed \/ CutShort \/ FailLate \/ Quiet

KvSpec == KvInit /\ [][KvNext]_<<store, call, reply>>
=============================================================================
