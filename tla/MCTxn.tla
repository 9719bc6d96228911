------------------------------- MODULE MCTxn -------------------------------
(* Instances of TxnManager for TLC: two clients, each with a session of its own *)
(* or both on the same one. *)
EXTENDS TxnManager, TLC

CONSTANTS c1, c2, k1, k2

TwoClients == {c1, c2}
OneKey == {k1}
TwoKeys == {k1, k2}
OwnSession == [c \in TwoClients |-> c]
OneSession == {c1}
SameSession == [c \in TwoClients |-> c1]
Perms == Permutations(TwoClients)
=============================================================================
